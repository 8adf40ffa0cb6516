----------------------------- MODULE DCEProofs ------------------------------
(****************************************************************************)
(* Proofs about DCE, for every module and every number of functions.        *)
(*                                                                          *)
(* The inductive invariant IInv adds to the properties of DCE where the     *)
(* pass stands (PhaseInv) and that nothing observable has been erased       *)
(* (RootsKept).  Each of its conjuncts is needed by another one: the pops   *)
(* are safe (WorklistLive) because an operand is attached (NoDangling),     *)
(* nothing dead escapes (DeadIsPending) because the popped instruction's    *)
(* operands are in the same function (WellFormed), and so on.               *)
(****************************************************************************)
EXTENDS DCE, IRLemmas, FiniteSetTheorems, TLAPS

PhaseInv ==
    /\ pc = "done" => fn = NumFns + 1 /\ worklist = {}
    /\ pc # "done" => fn \in 1..NumFns

RootsKept == \A r \in DOMAIN source : Observable(source[r]) => r \in DOMAIN code

IInv ==
    /\ source \in Programs
    /\ TypeOK
    /\ PhaseInv
    /\ WorklistLive
    /\ NoDangling
    /\ DeadIsPending
    /\ RootsKept
    /\ Survivors(source) \subseteq DOMAIN code
    /\ CountsErased

-----------------------------------------------------------------------------
(* The part of a well-formed module that is still attached has the source's *)
(* instructions.                                                            *)
LEMMA AttachedIsSource ==
    ASSUME TypeOK, NEW k \in DOMAIN code
    PROVE  k \in DOMAIN source /\ code[k] = source[k] /\ k \in Inst
           /\ source[k] \in Instruction
  BY DEF TypeOK, Restrict, WellFormed

(* An instruction that isDead accepts is in no supported set: no order of   *)
(* removal can keep it.                                                     *)
LEMMA DeadIsNoSurvivor ==
    ASSUME NEW c, NEW i \in DOMAIN c, isDead(c, i)
    PROVE  i \notin Survivors(c)
  BY DEF isDead, Unused, Survivors, Supported

-----------------------------------------------------------------------------
\* What any pass that erases the dead keeps of the module, wherever it stands.
SoundSoFar ==
    /\ WellFormed(source)
    /\ DOMAIN code \subseteq DOMAIN source
    /\ code = Restrict(source, DOMAIN code)
    /\ NoDangling
    /\ RootsKept
    /\ Survivors(source) \subseteq DOMAIN code
    /\ CSEDead \in Nat
    /\ CountsErased

LEMMA SoundIsSource ==
    ASSUME SoundSoFar, NEW k \in DOMAIN code
    PROVE  k \in DOMAIN source /\ code[k] = source[k] /\ k \in Inst /\ k \in Nat \ {0}
  BY InstAssumption DEF SoundSoFar, Restrict, WellFormed

(* Erasing a dead instruction leaves the module sound, and only its         *)
(* operands, which stay attached, can become dead by it.                    *)
LEMMA EraseStaysSound ==
    ASSUME SoundSoFar, NEW i \in DOMAIN code, isDead(code, i),
           code' = Erase(code, i), CSEDead' = CSEDead + 1, source' = source
    PROVE  /\ SoundSoFar'
           /\ DOMAIN code' = DOMAIN code \ {i}
           /\ OperandInsts(code, i) \subseteq DOMAIN code'
           /\ \A k \in DOMAIN code' :
                 isDead(code', k) => isDead(code, k) \/ k \in OperandInsts(code, i)
<1> USE DEF SoundSoFar
<1>1. /\ DOMAIN code' = DOMAIN code \ {i}
      /\ \A k \in DOMAIN code' : code'[k] = code[k]
  BY EraseEffect
<1>2. \A k \in DOMAIN code : i \notin OperandInsts(code, k)
  BY DEF isDead, Unused, Users, OperandInsts
<1>3. code' = Restrict(source, DOMAIN code')
  BY <1>1 DEF Erase, Restrict
<1>4. NoDangling'
  BY <1>1, <1>2 DEF NoDangling, OperandInsts
<1>5. RootsKept'
  <2>1. ~Observable(source[i])
    BY SoundIsSource DEF isDead, WellFormed, Removable, RemovableOp, Observable
  <2> QED
    BY <1>1, <2>1 DEF RootsKept
<1>6. (Survivors(source) \subseteq DOMAIN code)'
  <2>1. ASSUME NEW S \in SUBSET DOMAIN source, Supported(source, S), i \in S
        PROVE  FALSE
    <3>1. PICK u \in Users(source, i) : u \in S
      BY <2>1, SoundIsSource DEF Supported, isDead
    <3>2. u \in DOMAIN code
      BY <2>1, <3>1 DEF Survivors
    <3>3. u \in Users(code, i)
      BY <3>1, <3>2, SoundIsSource DEF Users
    <3> QED
      BY <3>3 DEF isDead, Unused
  <2>2. i \notin Survivors(source)
    BY <2>1 DEF Survivors
  <2> QED
    BY <1>1, <2>2
<1>7. CSEDead' \in Nat /\ CountsErased'
  <2>1. IsFiniteSet(DOMAIN code)
    BY FS_Subset DEF WellFormed
  <2>2. /\ Cardinality(DOMAIN code') = Cardinality(DOMAIN code) - 1
        /\ Cardinality(DOMAIN code) \in Nat
    BY <1>1, <2>1, FS_RemoveElement, FS_CardinalityType
  <2> QED
    BY <2>2 DEF CountsErased
<1>8. OperandInsts(code, i) \subseteq DOMAIN code'
  BY <1>1, <1>2 DEF NoDangling
<1>9. ASSUME NEW k \in DOMAIN code', isDead(code', k), ~isDead(code, k)
      PROVE  k \in OperandInsts(code, i)
  <2>1. k \in DOMAIN code /\ code'[k] = code[k] /\ k \in Inst
    BY <1>1, SoundIsSource
  <2>2. PICK u \in DOMAIN code : k \in Range(code[u].args)
    BY <1>9, <2>1 DEF isDead, Unused, Users
  <2>3. u = i
    BY <1>1, <1>9, <2>2 DEF isDead, Unused, Users
  <2> QED
    BY <2>1, <2>2, <2>3 DEF OperandInsts
<1> QED
  BY <1>1, <1>3, <1>4, <1>5, <1>6, <1>7, <1>8, <1>9

-----------------------------------------------------------------------------
LEMMA InitIInv == Init => IInv
<1> SUFFICES ASSUME Init PROVE IInv
  OBVIOUS
<1> USE DEF Init
<1>1. WellFormed(source) /\ \A k \in DOMAIN source : source[k].fn \in 1..NumFns
  BY ProgramsAssumption
<1>2. code = Restrict(source, DOMAIN code)
  BY <1>1 DEF Restrict, WellFormed
<1>3. TypeOK
  BY <1>1, <1>2, ProgramsAssumption DEF TypeOK
<1>4. PhaseInv
  BY ProgramsAssumption DEF PhaseInv
<1>5. WorklistLive /\ RootsKept
  BY DEF WorklistLive, RootsKept
<1>6. NoDangling
  BY <1>1 DEF NoDangling, WellFormed, OperandInsts
<1>7. DeadIsPending
  <2> SUFFICES ASSUME NEW k \in DOMAIN code
               PROVE  \/ code[k].fn > fn
                      \/ code[k].fn = fn /\ (k \in worklist \/ (pc = "scan" /\ k > pos))
    BY DEF DeadIsPending
  <2>1. code[k].fn \in 1..NumFns /\ k \in Nat \ {0}
    BY <1>1, InstAssumption DEF WellFormed
  <2> QED
    BY <2>1, ProgramsAssumption
<1>8. Survivors(source) \subseteq DOMAIN code
  BY DEF Survivors
<1>9. CountsErased
  <2>1. Cardinality(DOMAIN source) \in Nat
    BY <1>1, FS_CardinalityType DEF WellFormed
  <2> QED
    BY <2>1 DEF CountsErased
<1> QED
  BY <1>3, <1>4, <1>5, <1>6, <1>7, <1>8, <1>9 DEF IInv

-----------------------------------------------------------------------------
LEMMA ScanInstructionIInv == IInv /\ ScanInstruction => IInv'
<1> SUFFICES ASSUME IInv, ScanInstruction PROVE IInv'
  OBVIOUS
<1> USE DEF IInv
<1>1. PICK i \in InstsOf(code, fn) :
        /\ IsNext(i, pos, InstsOf(code, fn))
        /\ worklist' = IF isDead(code, i) THEN worklist \cup {i} ELSE worklist
        /\ pos' = i
  BY DEF ScanInstruction
<1>2. UNCHANGED <<source, code, fn, pc, CSEDead>> /\ pc = "scan"
  BY DEF ScanInstruction
<1>3. i \in DOMAIN code /\ i \in Nat /\ i \in Inst
  BY AttachedIsSource, InstAssumption DEF InstsOf
<1>4. TypeOK'
  BY <1>1, <1>2, <1>3 DEF TypeOK
<1>5. PhaseInv'
  BY <1>2 DEF PhaseInv
<1>6. WorklistLive'
  BY <1>1, <1>2 DEF WorklistLive
<1>7. NoDangling' /\ RootsKept' /\ (Survivors(source) \subseteq DOMAIN code)' /\ CountsErased'
  BY <1>2 DEF NoDangling, RootsKept, CountsErased
<1>8. DeadIsPending'
  <2> SUFFICES ASSUME NEW k \in DOMAIN code, isDead(code, k), code[k].fn = fn,
                      k \notin worklist'
               PROVE  k > pos'
    BY <1>2 DEF DeadIsPending
  <2>0. fn \in Nat
    BY ProgramsAssumption DEF TypeOK
  <2>1. k > pos /\ k \in InstsOf(code, fn)
    BY <2>0, <1>1, <1>2 DEF DeadIsPending, InstsOf
  <2>2. i <= k
    BY <1>1, <2>1 DEF IsNext
  <2>3. i # k /\ k \in Nat
    BY <1>1, AttachedIsSource, InstAssumption
  <2> QED
    BY <1>1, <1>3, <2>2, <2>3
<1> QED
  BY <1>2, <1>4, <1>5, <1>6, <1>7, <1>8

LEMMA ScanEndIInv == IInv /\ ScanEnd => IInv'
<1> SUFFICES ASSUME IInv, ScanEnd PROVE IInv'
  OBVIOUS
<1> USE DEF IInv, ScanEnd
<1>1. TypeOK' /\ PhaseInv' /\ WorklistLive'
  BY DEF TypeOK, PhaseInv, WorklistLive
<1>2. NoDangling' /\ RootsKept' /\ (Survivors(source) \subseteq DOMAIN code)' /\ CountsErased'
  BY DEF NoDangling, RootsKept, CountsErased
<1>3. DeadIsPending'
  <2> SUFFICES ASSUME NEW k \in DOMAIN code, isDead(code, k), ~(code[k].fn > fn)
               PROVE  code[k].fn = fn /\ k \in worklist
    BY DEF DeadIsPending
  <2>1. code[k].fn = fn /\ (k \in worklist \/ k > pos)
    BY DEF DeadIsPending
  <2>2. k <= pos /\ k \in Nat /\ pos \in Nat
    BY <2>1, AttachedIsSource, InstAssumption DEF IsLast, InstsOf, TypeOK
  <2> QED
    BY <2>1, <2>2
<1> QED
  BY <1>1, <1>2, <1>3

LEMMA EraseDeadIInv ==
    ASSUME IInv, NEW i \in worklist, EraseDead(i), pc = "drain"
    PROVE  IInv'
<1> USE DEF IInv
<1>1. /\ isDead(code, i)
      /\ worklist' = (worklist \ {i}) \cup OperandInsts(code, i)
      /\ code' = Erase(code, i)
      /\ CSEDead' = CSEDead + 1
      /\ UNCHANGED <<source, fn, pc, pos>>
  BY DEF EraseDead
<1>2. i \in DOMAIN code /\ code[i].fn = fn
  BY DEF WorklistLive, InstsOf
<1>3. /\ SoundSoFar'
      /\ DOMAIN code' = DOMAIN code \ {i}
      /\ OperandInsts(code, i) \subseteq DOMAIN code'
      /\ \A k \in DOMAIN code' :
            isDead(code', k) => isDead(code, k) \/ k \in OperandInsts(code, i)
  <2>1. SoundSoFar
    BY DEF SoundSoFar, TypeOK
  <2> QED
    BY <1>1, <1>2, <2>1, EraseStaysSound
<1>4. \A k \in DOMAIN code' : code'[k] = code[k]
  BY <1>1, <1>3, EraseEffect
<1>5. \A o \in OperandInsts(code, i) : code'[o].fn = fn
  <2> SUFFICES ASSUME NEW o \in OperandInsts(code, i) PROVE code'[o].fn = fn
    OBVIOUS
  <2>1. o \in DOMAIN code' /\ o \in DOMAIN code
    BY <1>3
  <2>2. source[o].fn = source[i].fn
    BY <1>2, <2>1, AttachedIsSource DEF TypeOK, WellFormed, OperandInsts
  <2> QED
    BY <1>2, <1>4, <2>1, <2>2, AttachedIsSource
<1>6. TypeOK'
  BY <1>1, <1>3 DEF TypeOK, SoundSoFar, OperandInsts
<1>7. PhaseInv'
  BY <1>1 DEF PhaseInv
<1>8. WorklistLive'
  BY <1>1, <1>3, <1>4, <1>5 DEF WorklistLive, InstsOf
<1>9. DeadIsPending'
  <2> SUFFICES ASSUME NEW k \in DOMAIN code', isDead(code', k)
               PROVE  code'[k].fn > fn \/ (code'[k].fn = fn /\ k \in worklist')
    BY <1>1 DEF DeadIsPending
  <2>1. CASE isDead(code, k)
    BY <1>1, <1>3, <1>4, <2>1 DEF DeadIsPending
  <2>2. CASE k \in OperandInsts(code, i)
    BY <1>1, <1>5, <2>2
  <2> QED
    BY <1>3, <2>1, <2>2
<1> QED
  BY <1>1, <1>3, <1>6, <1>7, <1>8, <1>9 DEF SoundSoFar

LEMMA DropLiveIInv ==
    ASSUME IInv, NEW i \in worklist, DropLive(i), pc = "drain"
    PROVE  IInv'
<1> USE DEF IInv
<1>1. ~isDead(code, i) /\ worklist' = worklist \ {i}
      /\ UNCHANGED <<source, code, fn, pc, pos, CSEDead>>
  BY DEF DropLive
<1>2. TypeOK' /\ PhaseInv' /\ WorklistLive'
  BY <1>1 DEF TypeOK, PhaseInv, WorklistLive
<1>3. NoDangling' /\ RootsKept' /\ (Survivors(source) \subseteq DOMAIN code)' /\ CountsErased'
  BY <1>1 DEF NoDangling, RootsKept, CountsErased
<1>4. DeadIsPending'
  BY <1>1 DEF DeadIsPending
<1> QED
  BY <1>1, <1>2, <1>3, <1>4

LEMMA NextFunctionIInv == IInv /\ NextFunction => IInv'
<1> SUFFICES ASSUME IInv, NextFunction PROVE IInv'
  OBVIOUS
<1> USE DEF IInv, NextFunction
<1>1. fn \in 1..NumFns /\ NumFns \in Nat
  BY ProgramsAssumption DEF PhaseInv
<1>2. TypeOK' /\ PhaseInv' /\ WorklistLive'
  BY <1>1 DEF TypeOK, PhaseInv, WorklistLive
<1>3. NoDangling' /\ RootsKept' /\ (Survivors(source) \subseteq DOMAIN code)' /\ CountsErased'
  BY DEF NoDangling, RootsKept, CountsErased
<1>4. DeadIsPending'
  <2> SUFFICES ASSUME NEW k \in DOMAIN code, isDead(code, k)
               PROVE  \/ code[k].fn > fn'
                      \/ code[k].fn = fn' /\ pc' = "scan" /\ k > pos'
    BY DEF DeadIsPending
  <2>1. code[k].fn > fn
    BY DEF DeadIsPending
  <2>2. code[k].fn \in 1..NumFns /\ k \in Nat \ {0}
    BY AttachedIsSource, ProgramsAssumption, InstAssumption
  <2> QED
    BY <1>1, <2>1, <2>2
<1> QED
  BY <1>2, <1>3, <1>4

LEMMA NextIInv == IInv /\ [Next]_vars => IInv'
<1> SUFFICES ASSUME IInv, [Next]_vars PROVE IInv'
  OBVIOUS
<1>1. CASE ScanInstruction
  BY <1>1, ScanInstructionIInv
<1>2. CASE ScanEnd
  BY <1>2, ScanEndIInv
<1>3. CASE Drain
  BY <1>3, EraseDeadIInv, DropLiveIInv DEF Drain
<1>4. CASE NextFunction
  BY <1>4, NextFunctionIInv
<1>5. CASE UNCHANGED vars
  BY <1>5 DEF vars, IInv, TypeOK, PhaseInv, WorklistLive, NoDangling,
              DeadIsPending, RootsKept, CountsErased, InstsOf
<1> QED
  BY <1>1, <1>2, <1>3, <1>4, <1>5 DEF Next

(* IInv holds in every state of every execution of dce.                     *)
THEOREM Invariance == Spec => []IInv
  BY InitIInv, NextIInv, PTL DEF Spec

-----------------------------------------------------------------------------
(* dce only detaches instructions, and its bookkeeping keeps its types.     *)
THEOREM TypeCorrect == Spec => []TypeOK
<1>1. IInv => TypeOK
  BY DEF IInv
<1> QED
  BY <1>1, Invariance, PTL

(* dce never touches an instruction it has erased, neither through its      *)
(* worklist nor through an operand of what it leaves behind.                *)
THEOREM MemorySafe == Spec => [](WorklistLive /\ NoDangling)
<1>1. IInv => WorklistLive /\ NoDangling
  BY DEF IInv
<1> QED
  BY <1>1, Invariance, PTL

(* No dead instruction ever escapes the pass: until it is erased it is in a *)
(* later function, ahead of the scan, or queued.                            *)
THEOREM NothingEscapes == Spec => []DeadIsPending
<1>1. IInv => DeadIsPending
  BY DEF IInv
<1> QED
  BY <1>1, Invariance, PTL

LEMMA DoneHasNoDead == IInv => Fixpoint
<1> SUFFICES ASSUME IInv, pc = "done", NEW i \in DOMAIN code, isDead(code, i)
             PROVE  FALSE
  BY DEF Fixpoint
<1>1. fn = NumFns + 1 /\ worklist = {}
  BY DEF IInv, PhaseInv
<1>2. code[i].fn \in 1..NumFns
  BY AttachedIsSource, ProgramsAssumption DEF IInv
<1> QED
  BY <1>1, <1>2, ProgramsAssumption DEF IInv, DeadIsPending

(* When dce returns, it has removed everything its own criterion accepts.   *)
THEOREM ReachesFixpoint == Spec => []Fixpoint
  BY DoneHasNoDead, Invariance, PTL

LEMMA DoneIsSurvivors == IInv => OrderIndependent
<1> SUFFICES ASSUME IInv, pc = "done"
             PROVE  DOMAIN code \subseteq Survivors(source)
  BY DEF IInv, OrderIndependent
<1>1. ASSUME NEW i \in DOMAIN code, Removable(source[i])
      PROVE  Users(source, i) \cap DOMAIN code # {}
  <2>1. Users(code, i) # {}
    BY <1>1, DoneHasNoDead, AttachedIsSource DEF IInv, Fixpoint, isDead, Unused
  <2>2. Users(code, i) \subseteq Users(source, i) \cap DOMAIN code
    BY AttachedIsSource DEF IInv, Users
  <2> QED
    BY <2>1, <2>2
<1>2. DOMAIN code \in SUBSET DOMAIN source
  BY DEF IInv, TypeOK
<1> QED
  BY <1>1, <1>2 DEF Survivors, Supported

(* The module dce returns does not depend on the order in which the set of  *)
(* pointers is iterated: it is a function of the module it was given.       *)
THEOREM ResultDeterministic == Spec => []OrderIndependent
  BY DoneIsSurvivors, Invariance, PTL

LEMMA AttachedCoversNeeded == IInv => NeededKept
<1> SUFFICES ASSUME IInv, NEW i \in Needed(source)
             PROVE  i \in DOMAIN code
  BY DEF NeededKept
<1>1. {r \in DOMAIN source : Observable(source[r])} \subseteq DOMAIN code
  BY DEF IInv, RootsKept
<1>2. ClosedUnderOperands(source, DOMAIN code)
  BY AttachedIsSource DEF IInv, NoDangling, ClosedUnderOperands, OperandInsts
<1>3. DOMAIN code \in SUBSET DOMAIN source
  BY DEF IInv, TypeOK
<1> QED
  BY <1>1, <1>2, <1>3 DEF Needed

(* dce keeps everything a visible effect depends on.                        *)
THEOREM KeepsNeeded == Spec => []NeededKept
  BY AttachedCoversNeeded, Invariance, PTL

(* The printed CSE_Dead is the number of instructions erased.               *)
THEOREM CountIsExact == Spec => []CountsErased
<1>1. IInv => CountsErased
  BY DEF IInv
<1> QED
  BY <1>1, Invariance, PTL

-----------------------------------------------------------------------------
(* The abstract specification has its own instance of IR: same definitions. *)
LEMMA SameIR ==
    ASSUME NEW c, NEW S
    PROVE  /\ Abstract!Survivors(c) = Survivors(c)
           /\ Abstract!WellFormed(c) <=> WellFormed(c)
           /\ Abstract!Restrict(c, S) = Restrict(c, S)
<1>1. \A T : Abstract!Supported(c, T) <=> Supported(c, T)
  BY DEF Supported, Abstract!Supported, Users, Abstract!Users, Range,
         Abstract!Range, Removable, Abstract!Removable, RemovableOp,
         Abstract!RemovableOp
<1>2. Abstract!Survivors(c) = Survivors(c)
  BY <1>1 DEF Survivors, Abstract!Survivors
<1>3. Abstract!WellFormed(c) <=> WellFormed(c)
  BY DEF WellFormed, Abstract!WellFormed, Instruction, Abstract!Instruction,
         Opcode, Abstract!Opcode, Value, Abstract!Value, Range, Abstract!Range,
         IsFiniteSet, Abstract!IsFiniteSet, YieldsValue, Abstract!YieldsValue
<1> QED
  BY <1>2, <1>3 DEF Restrict, Abstract!Restrict

LEMMA InitRefines == Init => Abstract!Init
<1> SUFFICES ASSUME Init PROVE Abstract!Init
  OBVIOUS
<1>1. WellFormed(source) /\ code = source /\ (pc = "done") \in BOOLEAN
  BY ProgramsAssumption DEF Init
<1>2. ASSUME pc = "done" PROVE DOMAIN code = Survivors(code)
  BY <1>1, <1>2, InitIInv, DoneIsSurvivors DEF OrderIndependent
<1> QED
  BY <1>1, <1>2, SameIR DEF Abstract!Init

LEMMA StepRefines == IInv /\ IInv' /\ [Next]_vars => [Abstract!Next]_(Abstract!vars)
<1> SUFFICES ASSUME IInv, IInv', [Next]_vars
             PROVE  Abstract!Next \/ UNCHANGED <<source, code, (pc = "done")>>
  BY DEF Abstract!vars
<1>1. CASE ScanInstruction
  BY <1>1 DEF ScanInstruction
<1>2. CASE ScanEnd
  BY <1>2 DEF ScanEnd
<1>3. ASSUME pc = "drain", NEW i \in worklist, EraseDead(i)
      PROVE  Abstract!Sweep
  <2>1. i \in DOMAIN code
    BY DEF IInv, WorklistLive, InstsOf
  <2>2. i \in DOMAIN code \ Survivors(code)
    BY <1>3, <2>1, DeadIsNoSurvivor DEF EraseDead
  <2>3. code' = Restrict(code, DOMAIN code \ {i})
    BY <1>3 DEF EraseDead, Erase
  <2>4. pc # "done" /\ UNCHANGED <<source, (pc = "done")>>
    BY <1>3 DEF EraseDead
  <2> QED
    BY <2>2, <2>3, <2>4, SameIR DEF Abstract!Sweep
<1>4. ASSUME pc = "drain", NEW i \in worklist, DropLive(i)
      PROVE  UNCHANGED <<source, code, (pc = "done")>>
  BY <1>4 DEF DropLive
<1>5. CASE Drain
  BY <1>3, <1>4, <1>5 DEF Drain, Abstract!Next
<1>6. CASE NextFunction
  <2>1. CASE fn = NumFns
    <3>1. pc # "done" /\ pc' = "done" /\ UNCHANGED <<source, code>>
      BY <1>6, <2>1 DEF NextFunction
    <3>2. OrderIndependent'
      BY DoneIsSurvivors, PTL
    <3>3. DOMAIN code = Survivors(source)
      BY <3>1, <3>2 DEF OrderIndependent
    <3> QED
      BY <3>1, <3>3, SameIR DEF Abstract!Next, Abstract!Finish
  <2>2. CASE fn # NumFns
    BY <1>6, <2>2 DEF NextFunction
  <2> QED
    BY <2>1, <2>2
<1>7. CASE UNCHANGED vars
  BY <1>7 DEF vars
<1> QED
  BY <1>1, <1>2, <1>5, <1>6, <1>7 DEF Next

(* dce implements the removal of dead code without a worklist.              *)
THEOREM Refinement == Spec => Abstract!Spec
<1>1. Spec => Abstract!Init
  BY InitRefines DEF Spec
<1> QED
  BY InitRefines, StepRefines, Invariance, PTL DEF Spec, Abstract!Spec

-----------------------------------------------------------------------------
LEMMA SoundMeaning == SoundSoFar => SameOnAllPaths(code, source)
<1> SUFFICES ASSUME SoundSoFar, NEW l, NEW path, NEW leaf, NEW mem, Control(path, l)
             PROVE  ObserveOn(path, code, leaf, mem) = ObserveOn(path, source, leaf, mem)
  BY DEF SameOnAllPaths
<1>1. \A k \in DOMAIN code : code[k] = source[k] /\ OperandInsts(code, k) \subseteq DOMAIN code
  BY SoundIsSource DEF SoundSoFar, NoDangling
<1>2. \A k \in DOMAIN source \ DOMAIN code : ~Observable(source[k])
  BY DEF SoundSoFar, RootsKept
<1>3. WellFormed(source) /\ DOMAIN code \subseteq DOMAIN source /\ Len(path) \in Nat
  BY DEF SoundSoFar, Control
<1> QED
  BY <1>1, <1>2, <1>3, ErasedRuns

(* Whatever path control takes, round loops too, and wherever the pass      *)
(* stands: what the module does, and the memory it leaves, are the source's. *)
THEOREM KeepsMeaning == Spec => []SameOnAllPaths(code, source)
<1>1. IInv => SoundSoFar
  BY DEF IInv, TypeOK, SoundSoFar
<1> QED
  BY <1>1, SoundMeaning, Invariance, PTL

-----------------------------------------------------------------------------
(* The pass of tutorial 5, ModuleDCE, over the same state: one scan of the  *)
(* module and one drain instead of one of each for a function.  Functions   *)
(* play no part in it, so that fn is free.                                  *)
M == INSTANCE ModuleDCE WITH DCE_count <- CSEDead

\* DeadIsPending with the whole module in the place of a function.
ModuleDeadIsPending ==
    \A i \in DOMAIN code : isDead(code, i) =>
        i \in worklist \/ (pc = "scan" /\ i > pos)

ModuleInv ==
    /\ SoundSoFar
    /\ pc \in {"scan", "drain", "done"}
    /\ pc = "done" => worklist = {}
    /\ pos \in Nat
    /\ worklist \subseteq DOMAIN code
    /\ ModuleDeadIsPending

(* The module's own copy of the IR says the same.                           *)
LEMMA SameModuleIR ==
    /\ \A c, k : M!isDead(c, k) <=> isDead(c, k)
    /\ \A c, k : M!OperandInsts(c, k) = OperandInsts(c, k)
    /\ \A c, k : M!Erase(c, k) = Erase(c, k)
    /\ \A n, p, S : M!IsNext(n, p, S) <=> IsNext(n, p, S)
    /\ \A p, S : M!IsLast(p, S) <=> IsLast(p, S)
  BY DEF M!isDead, isDead, M!Removable, Removable, M!RemovableOp, RemovableOp,
         M!Unused, Unused, M!Users, Users, M!Range, Range, M!OperandInsts,
         OperandInsts, M!Erase, Erase, M!Restrict, Restrict, M!IsNext, IsNext,
         M!IsLast, IsLast

LEMMA ModuleInit == M!Init => ModuleInv
<1> SUFFICES ASSUME M!Init PROVE ModuleInv
  OBVIOUS
<1> USE DEF M!Init, M!Begin
<1>1. WellFormed(source)
  BY ProgramsAssumption
<1>2. code = Restrict(source, DOMAIN code) /\ Survivors(source) \subseteq DOMAIN code
  BY <1>1 DEF Restrict, WellFormed, Survivors
<1>3. NoDangling /\ RootsKept
  BY <1>1 DEF NoDangling, RootsKept, WellFormed, OperandInsts
<1>4. CountsErased
  <2>1. Cardinality(DOMAIN source) \in Nat
    BY <1>1, FS_CardinalityType DEF WellFormed
  <2> QED
    BY <2>1 DEF CountsErased
<1>5. SoundSoFar
  BY <1>1, <1>2, <1>3, <1>4 DEF SoundSoFar
<1>6. \A k \in DOMAIN code : k > 0
  BY <1>5, SoundIsSource
<1> QED
  BY <1>5, <1>6 DEF ModuleInv, ModuleDeadIsPending

LEMMA ModuleScan == ModuleInv /\ M!ScanInstruction => ModuleInv'
<1> SUFFICES ASSUME ModuleInv, M!ScanInstruction PROVE ModuleInv'
  OBVIOUS
<1>1. PICK i \in DOMAIN code :
        /\ IsNext(i, pos, DOMAIN code)
        /\ worklist' = IF isDead(code, i) THEN worklist \cup {i} ELSE worklist
        /\ pos' = i
  BY SameModuleIR DEF M!ScanInstruction
<1>2. UNCHANGED <<source, code, pc, CSEDead>> /\ pc = "scan"
  BY DEF M!ScanInstruction
<1>3. SoundSoFar'
  BY <1>2 DEF ModuleInv, SoundSoFar, NoDangling, RootsKept, CountsErased
<1>4. i \in Nat /\ \A k \in DOMAIN code : k \in Nat
  BY SoundIsSource DEF ModuleInv
<1>5. \A k \in DOMAIN code : k > pos => k = i \/ k > i
  BY <1>1, <1>4 DEF IsNext
<1> QED
  BY <1>1, <1>2, <1>3, <1>4, <1>5 DEF ModuleInv, ModuleDeadIsPending

LEMMA ModuleScanEnd == ModuleInv /\ M!ScanEnd => ModuleInv'
<1> SUFFICES ASSUME ModuleInv, M!ScanEnd PROVE ModuleInv'
  OBVIOUS
<1>1. /\ IsLast(pos, DOMAIN code) /\ pc' = "drain"
      /\ UNCHANGED <<source, code, pos, worklist, CSEDead>>
  BY SameModuleIR DEF M!ScanEnd
<1>2. SoundSoFar'
  BY <1>1 DEF ModuleInv, SoundSoFar, NoDangling, RootsKept, CountsErased
<1>3. \A k \in DOMAIN code : ~(k > pos)
  BY <1>1, SoundIsSource DEF ModuleInv, IsLast
<1> QED
  BY <1>1, <1>2, <1>3 DEF ModuleInv, ModuleDeadIsPending

LEMMA ModuleDrain == ModuleInv /\ M!Drain => ModuleInv'
<1> SUFFICES ASSUME ModuleInv, M!Drain PROVE ModuleInv'
  OBVIOUS
<1>1. PICK i \in worklist : M!EraseDead(i) \/ M!DropLive(i)
  BY DEF M!Drain
<1>2. i \in DOMAIN code /\ pc = "drain" /\ UNCHANGED <<source, pc, pos>>
  BY <1>1 DEF ModuleInv, M!Drain, M!EraseDead, M!DropLive
<1>3. CASE M!EraseDead(i)
  <2>1. /\ isDead(code, i) /\ code' = Erase(code, i) /\ CSEDead' = CSEDead + 1
        /\ worklist' = (worklist \ {i}) \cup OperandInsts(code, i)
    BY <1>3, SameModuleIR DEF M!EraseDead
  <2>2. /\ SoundSoFar'
        /\ DOMAIN code' = DOMAIN code \ {i}
        /\ OperandInsts(code, i) \subseteq DOMAIN code'
        /\ \A k \in DOMAIN code' :
              isDead(code', k) => isDead(code, k) \/ k \in OperandInsts(code, i)
    BY <1>2, <2>1, EraseStaysSound DEF ModuleInv
  <2> QED
    BY <1>2, <2>1, <2>2 DEF ModuleInv, ModuleDeadIsPending
<1>4. CASE M!DropLive(i)
  <2>1. ~isDead(code, i) /\ worklist' = worklist \ {i} /\ UNCHANGED <<code, CSEDead>>
    BY <1>4, SameModuleIR DEF M!DropLive
  <2>2. SoundSoFar'
    BY <1>2, <2>1 DEF ModuleInv, SoundSoFar, NoDangling, RootsKept, CountsErased
  <2> QED
    BY <1>2, <2>1, <2>2 DEF ModuleInv, ModuleDeadIsPending
<1> QED
  BY <1>1, <1>3, <1>4

LEMMA ModuleNext == ModuleInv /\ [M!Next]_(M!vars) => ModuleInv'
<1> SUFFICES ASSUME ModuleInv, [M!Next]_(M!vars) PROVE ModuleInv'
  OBVIOUS
<1>1. ASSUME source' = source, code' = code, CSEDead' = CSEDead PROVE SoundSoFar'
  BY <1>1 DEF ModuleInv, SoundSoFar, NoDangling, RootsKept, CountsErased
<1>2. CASE M!Return
  BY <1>1, <1>2 DEF M!Return, ModuleInv, ModuleDeadIsPending
<1>3. CASE UNCHANGED M!vars
  BY <1>1, <1>3 DEF M!vars, ModuleInv, ModuleDeadIsPending
<1> QED
  BY <1>2, <1>3, ModuleScan, ModuleScanEnd, ModuleDrain DEF M!Next

(* The pass of tutorial 5 never pops a pointer to an instruction it has     *)
(* erased, although one worklist mixes the functions; no instruction keeps  *)
(* an erased operand; what is dead is queued or ahead of the scan; nothing  *)
(* that must survive goes.                                                  *)
THEOREM ModuleInvariance == M!Spec => []ModuleInv
  BY ModuleInit, ModuleNext, PTL DEF M!Spec

(* The pass of tutorial 5 does not change what is seen on any path either.  *)
THEOREM ModuleKeepsMeaning == M!Spec => []SameOnAllPaths(code, source)
<1>1. ModuleInv => SoundSoFar
  BY DEF ModuleInv
<1> QED
  BY <1>1, SoundMeaning, ModuleInvariance, PTL

LEMMA ModuleDoneIsSurvivors == ModuleInv => OrderIndependent
<1> SUFFICES ASSUME ModuleInv, pc = "done"
             PROVE  DOMAIN code \subseteq Survivors(source)
  BY DEF ModuleInv, SoundSoFar, OrderIndependent
<1>1. ASSUME NEW i \in DOMAIN code, Removable(source[i])
      PROVE  Users(source, i) \cap DOMAIN code # {}
  <2>1. Users(code, i) # {}
    BY <1>1, SoundIsSource DEF ModuleInv, ModuleDeadIsPending, isDead, Unused
  <2>2. Users(code, i) \subseteq Users(source, i) \cap DOMAIN code
    BY SoundIsSource DEF ModuleInv, Users
  <2> QED
    BY <2>1, <2>2
<1>2. DOMAIN code \in SUBSET DOMAIN source
  BY DEF ModuleInv, SoundSoFar
<1> QED
  BY <1>1, <1>2 DEF Survivors, Supported

(* It returns the same module as dce: one drain for all functions, in any   *)
(* order of the pointers, leaves exactly the survivors.                     *)
THEOREM ModuleResult == M!Spec => []OrderIndependent
  BY ModuleDoneIsSurvivors, ModuleInvariance, PTL

LEMMA ModuleInitRefines == M!Init => Abstract!Init
<1> SUFFICES ASSUME M!Init PROVE Abstract!Init
  OBVIOUS
<1>1. WellFormed(source) /\ code = source /\ pc = "scan"
  BY ProgramsAssumption DEF M!Init, M!Begin
<1> QED
  BY <1>1, SameIR DEF Abstract!Init

LEMMA ModuleStepRefines ==
    ModuleInv /\ ModuleInv' /\ [M!Next]_(M!vars) => [Abstract!Next]_(Abstract!vars)
<1> SUFFICES ASSUME ModuleInv, ModuleInv', [M!Next]_(M!vars)
             PROVE  Abstract!Next \/ UNCHANGED <<source, code, (pc = "done")>>
  BY DEF Abstract!vars
<1>1. CASE M!ScanInstruction \/ M!ScanEnd
  BY <1>1 DEF M!ScanInstruction, M!ScanEnd
<1>2. CASE M!Drain
  <2>1. PICK i \in worklist : M!EraseDead(i) \/ M!DropLive(i)
    BY <1>2 DEF M!Drain
  <2>2. CASE M!EraseDead(i)
    <3>1. /\ isDead(code, i) /\ code' = Restrict(code, DOMAIN code \ {i})
          /\ UNCHANGED <<source, pc>> /\ pc # "done"
      BY <1>2, <2>2, SameModuleIR DEF M!Drain, M!EraseDead, Erase
    <3>2. i \in DOMAIN code \ Survivors(code)
      BY <3>1, DeadIsNoSurvivor DEF ModuleInv
    <3> QED
      BY <3>1, <3>2, SameIR DEF Abstract!Next, Abstract!Sweep
  <2>3. CASE M!DropLive(i)
    BY <2>3 DEF M!DropLive
  <2> QED
    BY <2>1, <2>2, <2>3
<1>3. CASE M!Return
  <2>1. pc # "done" /\ pc' = "done" /\ UNCHANGED <<source, code>>
    BY <1>3 DEF M!Return
  <2>2. OrderIndependent'
    BY ModuleDoneIsSurvivors, PTL
  <2>3. DOMAIN code = Survivors(source)
    BY <2>1, <2>2 DEF OrderIndependent
  <2> QED
    BY <2>1, <2>3, SameIR DEF Abstract!Next, Abstract!Finish
<1>4. CASE UNCHANGED M!vars
  BY <1>4 DEF M!vars
<1> QED
  BY <1>1, <1>2, <1>3, <1>4 DEF M!Next

(* It implements the same removal of dead code without a worklist.          *)
THEOREM ModuleRefinement == M!Spec => Abstract!Spec
  BY ModuleInitRefines, ModuleStepRefines, ModuleInvariance, PTL DEF M!Spec, Abstract!Spec

=============================================================================
