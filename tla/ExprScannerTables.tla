------------------------- MODULE ExprScannerTables --------------------------
(****************************************************************************)
(* The automaton flex made for tutorial/3/C++/expr.lex, as its compressed   *)
(* tables give it.  A character stands for all of its class.                *)
(****************************************************************************)
EXTENDS Integers, Sequences, SequencesExt

\* The classes 0 to 26, by a character of each ("?" for every illegal one).
ClassOf ==
    <<"NUL", "?", " ", "newline", "!", "(", ")", "*", "+", "-", "/", "0", ";", "=", "a", "e", "f",
      "h", "i", "l", "n", "r", "t", "u", "w", "{", "}">>
ScannerChars == ToSet(ClassOf)
ec == [c \in ScannerChars |-> (CHOOSE k \in DOMAIN ClassOf : ClassOf[k] = c) - 1]

accept ==
    <<0, 0, 0, 21, 19, 1, 1, 17, 9, 10, 15, 13, 14, 16, 6, 8, 7, 5, 5, 5, 5, 11, 12, 18, 6, 5, 2,
      5, 5, 18, 5, 5, 5, 5, 5, 3, 4, 0>>

yy_meta ==
    <<0, 1, 1, 2, 1, 1, 1, 1, 1, 1, 1, 1, 1, 1, 3, 3, 3, 3, 3, 3, 3, 3, 3, 3, 3, 1, 1>>

yy_base ==
    <<0, 0, 0, 43, 44, 44, 44, 44, 44, 44, 44, 44, 44, 32, 30, 44, 44, 0, 24, 24, 21, 44, 44, 0,
      26, 0, 0, 14, 17, 0, 11, 14, 11, 16, 10, 0, 0, 44, 25, 26>>

yy_def ==
    <<0, 37, 1, 37, 37, 37, 37, 37, 37, 37, 37, 37, 37, 37, 37, 37, 37, 38, 38, 38, 38, 37, 37, 39,
      37, 38, 38, 38, 38, 39, 38, 38, 38, 38, 38, 38, 38, 0, 37, 37>>

yy_nxt ==
    <<0, 4, 5, 6, 7, 8, 9, 10, 11, 12, 13, 14, 15, 16, 17, 17, 17, 17, 18, 17, 17, 19, 17, 17, 20,
      21, 22, 29, 25, 29, 36, 35, 34, 33, 32, 31, 30, 24, 28, 27, 26, 24, 23, 37, 3>>
    \o [k \in 1..26 |-> 37]

yy_chk ==
    <<0, 1, 1, 1, 1, 1, 1, 1, 1, 1, 1, 1, 1, 1, 1, 1, 1, 1, 1, 1, 1, 1, 1, 1, 1, 1, 1, 39, 38, 39,
      34, 33, 32, 31, 30, 28, 27, 24, 20, 19, 18, 14, 13, 3>>
    \o [k \in 1..27 |-> 37]

\* State 2, a start condition at the beginning of a line, is not used.
ScannerStates == (1..37) \ {2}
StopStates == {s \in ScannerStates : yy_base[s + 1] = 44}
Accept == [s \in ScannerStates |-> accept[s + 1]]

\* From state s on class c: the entry is s's own if yy_chk says so, else that of the
\* state s was compressed against, the templates from 38 on by the meta class of c.
NextState ==
    LET Chase[s \in (1..39) \ {2}, c \in 0..26] ==
            IF yy_chk[yy_base[s + 1] + c + 1] = s THEN yy_nxt[yy_base[s + 1] + c + 1]
            ELSE LET d == yy_def[s + 1] IN Chase[d, IF d >= 38 THEN yy_meta[c + 1] ELSE c]
    IN  [s \in ScannerStates |-> [c \in 0..26 |-> Chase[s, c]]]

=============================================================================
