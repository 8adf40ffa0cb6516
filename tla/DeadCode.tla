------------------------------ MODULE DeadCode ------------------------------
(****************************************************************************)
(* What dead code elimination promises, without a worklist: instructions    *)
(* outside the survivors of the module are removed, in any grouping and any *)
(* order, and the pass ends when only survivors are left.                   *)
(****************************************************************************)
EXTENDS IR

VARIABLES source, code, done

vars == <<source, code, done>>

Init ==
    /\ WellFormed(source)
    /\ code = source
    /\ done \in BOOLEAN
    /\ done => DOMAIN code = Survivors(code)

\* Remove some instructions that no survivor depends on.
Sweep ==
    /\ ~done
    /\ \E S \in SUBSET (DOMAIN code \ Survivors(code)) :
          /\ S # {}
          /\ code' = Restrict(code, DOMAIN code \ S)
    /\ UNCHANGED <<source, done>>

Finish ==
    /\ ~done
    /\ DOMAIN code = Survivors(source)
    /\ done' = TRUE
    /\ UNCHANGED <<source, code>>

Next == Sweep \/ Finish

Spec == Init /\ [][Next]_vars

FairSpec == Spec /\ WF_vars(Next)

=============================================================================
