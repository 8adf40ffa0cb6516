----------------------------- MODULE ExprTokens -----------------------------
(****************************************************************************)
(* What the scanner of tutorial 3 promises (tutorial/3/C++/expr.lex:32-60), *)
(* without buffer or automaton: from where it stands it takes the longest   *)
(* text some rule matches, by the first such rule, and it goes on until the *)
(* file or its patience ends.                                               *)
(****************************************************************************)
EXTENDS Integers, Sequences

VARIABLES
    file,      \* the characters to be read
    at,        \* how many of them have been taken
    token,     \* the last match, [act |-> the rule, text |-> its characters]
    over       \* yylex has returned YY_NULL

vars == <<file, at, token, over>>

Letters == {"a", "e", "f", "h", "i", "l", "n", "r", "t", "u", "w"}
Digits == {"0"}

Signs == <<"=", ";", "(", ")", "{", "}", "+", "-", "*", "/", "!">>    \* rules 7 to 17

\* Text w is in the language of rule r.
All(w, C) == \A k \in DOMAIN w : w[k] \in C
Matches(w, r) ==
    CASE r = 1 -> Len(w) = 1 /\ w[1] \in {" ", "newline"}
      [] r = 2 -> w = <<"i", "f">>
      [] r = 3 -> w = <<"w", "h", "i", "l", "e">>
      [] r = 4 -> w = <<"r", "e", "t", "u", "r", "n">>
      [] r = 5 -> w # <<>> /\ All(w, Letters)
      [] r = 6 -> w # <<>> /\ All(w, Digits)
      [] r \in 7..17 -> w = <<Signs[r - 6]>>
      [] r = 18 -> Len(w) > 1 /\ w[1] = "/" /\ w[2] = "/" /\ \A k \in DOMAIN w : w[k] # "newline"
      [] r = 19 -> Len(w) = 1 /\ w[1] # "newline"

Text(n) == SubSeq(file, at + 1, at + n)
Lengths(r) == {n \in 1..Len(file) - at : Matches(Text(n), r)}

Init == at = 0 /\ token = [act |-> 0, text |-> <<>>] /\ over = FALSE

\* Rule r takes n characters: none takes more, and none before it as many.
Take(r, n) ==
    /\ ~over
    /\ n \in Lengths(r)
    /\ \A q \in 1..19 : \A m \in Lengths(q) : m < n \/ (m = n /\ r <= q)
    /\ at' = at + n
    /\ token' = [act |-> r, text |-> Text(n)]
    /\ over' = (r = 19)
    /\ UNCHANGED file

AtEnd == ~over /\ at = Len(file) /\ over' = TRUE /\ UNCHANGED <<file, at, token>>

Next == (\E r \in 1..19, n \in 1..Len(file) : Take(r, n)) \/ AtEnd

\* Every file is read to its end.
FairSpec == Init /\ [][Next]_vars /\ WF_vars(Next)

=============================================================================
