------------------------------- MODULE Scoping -------------------------------
(****************************************************************************)
(* Lexical scoping, without symbol tables: what each name means here, and   *)
(* what it will mean again when the constructs that are open have ended.    *)
(****************************************************************************)
EXTENDS Naturals, Sequences

CONSTANTS Name, Value, NoValue

VARIABLES
    meaning,   \* one meaning of all names for each open construct, outermost first
    taken      \* the values that declarations have introduced so far

vars == <<meaning, taken>>

Here == meaning[Len(meaning)]

Init ==
    /\ meaning = <<[n \in Name |-> NoValue]>>
    /\ taken = {}

\* A construct opens and declares S at once: each of S means something new,
\* the other names what they meant.
Open ==
    \E S \in SUBSET Name, f \in [Name -> Value \cup {NoValue}] :
        /\ \A n \in Name : IF n \in S THEN f[n] \in taken' \ taken ELSE f[n] = Here[n]
        /\ meaning' = Append(meaning, f)
        /\ taken \subseteq taken' /\ taken' \subseteq Value
        /\ taken' = taken <=> S = {}

\* A declaration: a new value for one name, until the construct ends.
Declare ==
    /\ Len(meaning) > 1
    /\ \E n \in Name, v \in Value \ taken :
        /\ meaning' = [meaning EXCEPT ![Len(meaning)] = [Here EXCEPT ![n] = v]]
        /\ taken' = taken \cup {v}

\* The innermost construct ends: all names mean what they did before it.
Close ==
    /\ Len(meaning) > 1
    /\ meaning' = SubSeq(meaning, 1, Len(meaning) - 1)
    /\ UNCHANGED taken

Next == Open \/ Declare \/ Close

Spec == Init /\ [][Next]_vars

=============================================================================
