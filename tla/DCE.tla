-------------------------------- MODULE DCE ---------------------------------
(****************************************************************************)
(* dce of simple/p3/C++/CSE.cpp: for each function of the module, a scan    *)
(* that seeds a worklist with the dead instructions, then a drain erasing   *)
(* what is still dead and queues its operands.                              *)
(*                                                                          *)
(* The worklist is a std::set of Instruction pointers: begin() is the one   *)
(* at the lowest address, which is unrelated to program order and changes   *)
(* from run to run, so the drain takes any member.                          *)
(****************************************************************************)
EXTENDS IR

CONSTANTS
    Programs,  \* the modules the pass may be given
    NumFns     \* functions are numbered 1..NumFns in layout order

ASSUME ProgramsAssumption ==
    /\ NumFns \in Nat
    /\ \A c \in Programs : WellFormed(c) /\ \A i \in DOMAIN c : c[i].fn \in 1..NumFns

VARIABLES
    source,    \* the module as it was given (never assigned by the code)
    code,      \* the module as the pass leaves it so far
    fn,        \* the function f of the outer loop
    pc,        \* "scan" | "drain" | "done"
    pos,       \* scan: the instruction last looked at, 0 before the first
    worklist,
    CSEDead

vars == <<source, code, fn, pc, pos, worklist, CSEDead>>

InstsOf(c, f) == {i \in DOMAIN c : c[i].fn = f}

Init ==
    /\ source \in Programs
    /\ code = source
    /\ fn = 1
    /\ pc = IF NumFns = 0 THEN "done" ELSE "scan"
    /\ pos = 0
    /\ worklist = {}
    /\ CSEDead = 0

\* One iteration of the two inner for loops: if (isDead(*i)) worklist.insert(i).
ScanInstruction ==
    /\ pc = "scan"
    /\ \E i \in InstsOf(code, fn) :
        /\ IsNext(i, pos, InstsOf(code, fn))
        /\ worklist' = IF isDead(code, i) THEN worklist \cup {i} ELSE worklist
        /\ pos' = i
    /\ UNCHANGED <<source, code, fn, pc, CSEDead>>

ScanEnd ==
    /\ pc = "scan"
    /\ IsLast(pos, InstsOf(code, fn))
    /\ pc' = "drain"
    /\ UNCHANGED <<source, code, fn, pos, worklist, CSEDead>>

\* Slips of the drain: worklist.erase forgotten,
\* only operands that are already unused queued, the last operand missed.
EraseDead_QueueingWith(i, queue) ==
    /\ isDead(code, i)
    /\ worklist' = queue
    /\ code' = Erase(code, i)
    /\ CSEDead' = CSEDead + 1
    /\ UNCHANGED <<source, fn, pc, pos>>

EraseDead_StaysQueued(i) ==
    EraseDead_QueueingWith(i, worklist \cup OperandInsts(code, i))

EraseDead_OnlyDeadOperands(i) ==
    EraseDead_QueueingWith(i, (worklist \ {i})
                              \cup {o \in OperandInsts(code, i) : isDead(code, o)})

EraseDead_LastOperandMissed(i) ==
    EraseDead_QueueingWith(i, (worklist \ {i})
                              \cup (Range(SubSeq(code[i].args, 1, Len(code[i].args) - 1)) \cap Inst))

\* The popped instruction is still dead: queue its operands, erase it, count it.
EraseDead(i) ==
    /\ isDead(code, i)
    /\ worklist' = (worklist \ {i}) \cup OperandInsts(code, i)
    /\ code' = Erase(code, i)
    /\ CSEDead' = CSEDead + 1
    /\ UNCHANGED <<source, fn, pc, pos>>

\* Slip: looking without popping.
DropLive_StaysQueued(i) == ~isDead(code, i) /\ UNCHANGED vars

\* The popped instruction still has a use, or may not be removed.
DropLive(i) ==
    /\ ~isDead(code, i)
    /\ worklist' = worklist \ {i}
    /\ UNCHANGED <<source, code, fn, pc, pos, CSEDead>>

Drain ==
    /\ pc = "drain"
    /\ \E i \in worklist : EraseDead(i) \/ DropLive(i)

\* Slip: only the first function of the module is visited.
NextFunction_Returns ==
    /\ pc = "drain"
    /\ worklist = {}
    /\ fn' = fn + 1
    /\ pc' = "done"
    /\ pos' = 0
    /\ UNCHANGED <<source, code, worklist, CSEDead>>

NextFunction ==
    /\ pc = "drain"
    /\ worklist = {}
    /\ fn' = fn + 1
    /\ pc' = IF fn = NumFns THEN "done" ELSE "scan"
    /\ pos' = 0
    /\ UNCHANGED <<source, code, worklist, CSEDead>>

Next == ScanInstruction \/ ScanEnd \/ Drain \/ NextFunction

Spec == Init /\ [][Next]_vars

\* The pass is sequential code with no early exit: it keeps taking steps.
FairSpec == Spec /\ WF_vars(Next)

-----------------------------------------------------------------------------
(* Properties                                                               *)

(* Types, and that the pass only ever detaches instructions: it never       *)
(* rewrites one.                                                            *)
TypeOK ==
    /\ WellFormed(source)
    /\ DOMAIN code \subseteq DOMAIN source
    /\ code = Restrict(source, DOMAIN code)
    /\ pc \in {"scan", "drain", "done"}
    /\ fn \in 1..NumFns + 1
    /\ pos \in Nat
    /\ worklist \subseteq Inst
    /\ CSEDead \in Nat

(* The drain dereferences what it pops (isDead of *i) and what eraseFromParent *)
(* frees is never popped again, although an instruction can be queued by     *)
(* the scan and again by each of its erased users: no use after free.        *)
WorklistLive == worklist \subseteq InstsOf(code, fn)

(* No attached instruction has an operand that was erased.                   *)
NoDangling ==
    \A i \in DOMAIN code : OperandInsts(code, i) \subseteq DOMAIN code

(* Between two iterations, whatever is dead is still ahead of the pass: in a *)
(* later function, not yet scanned, or queued.  The code's comment that it   *)
(* must not test the operand before the erase is about this invariant.       *)
DeadIsPending ==
    \A i \in DOMAIN code : isDead(code, i) =>
        \/ code[i].fn > fn
        \/ code[i].fn = fn /\ (i \in worklist \/ (pc = "scan" /\ i > pos))

(* When the pass returns, no instruction is left that isDead accepts.        *)
Fixpoint == pc = "done" => \A i \in DOMAIN code : ~isDead(code, i)

(* Whatever the addresses, hence the order of the worklist, the module that *)
(* comes out is the same: exactly the survivors of the one that went in.     *)
OrderIndependent ==
    /\ Survivors(source) \subseteq DOMAIN code
    /\ pc = "done" => DOMAIN code = Survivors(source)

(* Nothing that a store, a call, a branch or a volatile load depends on,     *)
(* through any chain of operands, is ever erased.                            *)
NeededKept == Needed(source) \subseteq DOMAIN code

(* CSE_Dead, as printed, is the number of instructions erased.               *)
CountsErased == Cardinality(DOMAIN code) + CSEDead = Cardinality(DOMAIN source)

(* The pass implements the removal of dead code in any order and any number  *)
(* of steps.                                                                 *)
Abstract == INSTANCE DeadCode WITH done <- (pc = "done")

ImplementsDeadCode == Abstract!FairSpec

=============================================================================
