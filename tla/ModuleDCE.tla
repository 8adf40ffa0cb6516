------------------------------ MODULE ModuleDCE ------------------------------
(****************************************************************************)
(* RunDeadCodeElimination of tutorial/5/C/dce.c, through the worklist       *)
(* interface of worklist.cpp: one scan over all functions of the module,    *)
(* then one drain, in which a function's instructions and another's mix.    *)
(* worklist_pop takes begin() of a set of pointers: any member.             *)
(*                                                                          *)
(* isDead of this file accepts the opcodes of CSE.cpp's except FNeg, which  *)
(* is in none of the classes of IR here: it is never removed.               *)
(****************************************************************************)
EXTENDS IR

CONSTANT Programs  \* the modules the pass may be given

ProgramsAssumption == \A c \in Programs : WellFormed(c)

VARIABLES
    source,    \* the module as it was parsed (never assigned by the code)
    code,
    pc,        \* "scan" | "drain" | "done"
    pos,       \* the instruction last looked at by the scan, 0 before the first
    worklist,
    DCE_count

vars == <<source, code, pc, pos, worklist, DCE_count>>

\* worklist_create, and the first function of the module.
Begin ==
    /\ code = source
    /\ pc = "scan"
    /\ pos = 0
    /\ worklist = {}
    /\ DCE_count = 0

Init == source \in Programs /\ Begin

\* One iteration of the scan: if (isDead(I)) worklist_insert(worklist, I).
ScanInstruction ==
    /\ pc = "scan"
    /\ \E i \in DOMAIN code :
        /\ IsNext(i, pos, DOMAIN code)
        /\ worklist' = IF isDead(code, i) THEN worklist \cup {i} ELSE worklist
        /\ pos' = i
    /\ UNCHANGED <<source, code, pc, DCE_count>>

ScanEnd ==
    /\ pc = "scan"
    /\ IsLast(pos, DOMAIN code)
    /\ pc' = "drain"
    /\ UNCHANGED <<source, code, pos, worklist, DCE_count>>

\* Slip: the operand tested before the erase, against the comment of the code.
EraseDead_TestedFirst(i) ==
    /\ isDead(code, i)
    /\ worklist' = (worklist \ {i}) \cup {o \in OperandInsts(code, i) : isDead(code, o)}
    /\ code' = Erase(code, i)
    /\ DCE_count' = DCE_count + 1
    /\ UNCHANGED <<source, pc, pos>>

\* The popped instruction is still dead: queue its operands, count, erase.
EraseDead(i) ==
    /\ isDead(code, i)
    /\ worklist' = (worklist \ {i}) \cup OperandInsts(code, i)
    /\ code' = Erase(code, i)
    /\ DCE_count' = DCE_count + 1
    /\ UNCHANGED <<source, pc, pos>>

DropLive(i) ==
    /\ ~isDead(code, i)
    /\ worklist' = worklist \ {i}
    /\ UNCHANGED <<source, code, pc, pos, DCE_count>>

\* worklist_pop, then the body of the while loop.
Drain ==
    /\ pc = "drain"
    /\ \E i \in worklist : EraseDead(i) \/ DropLive(i)

\* worklist_empty: back to main.
Return ==
    /\ pc = "drain"
    /\ worklist = {}
    /\ pc' = "done"
    /\ UNCHANGED <<source, code, pos, worklist, DCE_count>>

Next == ScanInstruction \/ ScanEnd \/ Drain \/ Return

Spec == Init /\ [][Next]_vars

\* Sequential code with no early exit: it keeps taking steps.
FairSpec == Spec /\ WF_vars(Next)

-----------------------------------------------------------------------------
(* Properties                                                               *)

(* With one worklist for the whole module the pass implements the same      *)
(* abstract removal of dead code as the one that drains after each function, *)
(* so the two remove the same instructions.                                 *)
Abstract == INSTANCE DeadCode WITH done <- (pc = "done")

ImplementsDeadCode == Abstract!FairSpec

=============================================================================
