--------------------------- MODULE LoadCSEProofs ----------------------------
(****************************************************************************)
(* Proofs about LoadCSE, for every module and every dominance order.        *)
(*                                                                          *)
(* load_cse does not skip a queued load when its turn as L comes, and moves *)
(* the uses of later loads to it all the same.  That is harmless because    *)
(* those loads were queued before it (QueueClosed): whatever repeats a      *)
(* queued load w repeats the load that had w queued.  Rewriting operands    *)
(* makes loads equal that were not, but never one of them a queued load,    *)
(* whose address is that of an earlier load (QueueWitness), hence older     *)
(* than anything being replaced.                                            *)
(****************************************************************************)
EXTENDS LoadCSE, IRLemmas, FiniteSetTheorems, TLAPS

Comparing == pc \in {"outer", "inner"}

PhaseInv ==
    /\ pc = "done" => worklist = {}
    /\ pc # "done" => bb \in 1..NumBlocks

\* While the inner loop runs there is no store between L and the cursor.
CursorInv ==
    pc = "inner" => /\ i \in Block /\ IsLoad(code[i]) /\ i <= j
                    /\ \A k \in Block : i < k /\ k <= j => ~IsStore(code[k])

\* A queued load has the address of an earlier load that was L already.
QueueWitness ==
    Comparing => \A w \in worklist :
        /\ IsLoad(code[w])
        /\ \E k \in Block : k < w /\ k <= i /\ IsLoad(code[k])
                            /\ Address(code[k]) = Address(code[w])

QueuedLoads == \A w \in worklist : IsLoad(code[w])

\* R is still to be compared with the L that had w queued.
Pending(w, R) ==
    /\ pc = "inner" /\ i < w /\ w <= j /\ j < R
    /\ Address(code[i]) = Address(code[w]) /\ code[i].ty = code[w].ty

QueueClosed ==
    Comparing => \A w \in worklist, R \in Block :
        /\ w < R
        /\ Repeats(code, R, w)
        /\ \A k \in Block : w < k /\ k < R => ~IsStore(code[k])
        => R \in worklist \/ Pending(w, R)

IInv ==
    /\ TypeOK
    /\ MemoryShaped(code)
    /\ DominanceKept
    /\ QueuedUnused
    /\ PhaseInv
    /\ CursorInv
    /\ QueueWitness
    /\ QueueClosed
    /\ QueuedLoads

-----------------------------------------------------------------------------
LEMMA Positions == WellFormed(code) => DOMAIN code \subseteq Nat /\ Block \subseteq Nat
  BY InstAssumption DEF WellFormed, Block, InstsOfBlock

LEMMA InitIInv == Init => IInv
<1> SUFFICES ASSUME Init PROVE IInv
  OBVIOUS
<1> USE DEF Init
<1>1. WellFormed(source) /\ DefsBeforeUses(source, SDom) /\ MemoryShaped(source)
      /\ NumBlocks \in Nat
  BY ProgramsAssumption
<1>2. TypeOK /\ PhaseInv
  BY <1>1 DEF TypeOK, PhaseInv
<1>3. DominanceKept /\ QueuedUnused /\ CursorInv /\ QueueWitness /\ QueueClosed /\ QueuedLoads
  BY <1>1 DEF DominanceKept, QueuedUnused, CursorInv, QueueWitness, QueueClosed, QueuedLoads
<1> QED
  BY <1>1, <1>2, <1>3 DEF IInv

LEMMA VisitIInv == IInv /\ Visit => IInv'
<1> SUFFICES ASSUME IInv, Visit PROVE IInv'
  OBVIOUS
<1>1. PICK n \in Block : /\ IsNext(n, i, Block) /\ i' = n /\ j' = n
                         /\ pc' = IF IsLoad(code[n]) THEN "inner" ELSE "outer"
  BY DEF Visit
<1>2. pc = "outer" /\ UNCHANGED <<source, code, bb, worklist, CSELdElim>>
  BY DEF Visit
<1>3. WellFormed(code) /\ i \in Nat /\ Block \subseteq Nat /\ worklist \subseteq Block /\ i < n
  BY <1>1, Positions DEF IInv, TypeOK, IsNext
<1>4. TypeOK' /\ PhaseInv'
  BY <1>1, <1>2, <1>3 DEF IInv, TypeOK, PhaseInv, Block
<1>5. CursorInv'
  BY <1>1, <1>2, <1>3 DEF CursorInv, Block
<1>6. QueueWitness'
  <2>1. ASSUME NEW w \in worklist
        PROVE  IsLoad(code[w]) /\ \E k \in Block : k < w /\ k <= n /\ IsLoad(code[k])
                                      /\ Address(code[k]) = Address(code[w])
    BY <1>2, <1>3 DEF IInv, QueueWitness, Comparing
  <2> QED
    BY <1>1, <1>2, <2>1 DEF QueueWitness, Block
<1>7. QueueClosed'
  BY <1>1, <1>2 DEF IInv, QueueClosed, Comparing, Pending, Block
<1> QED
  BY <1>2, <1>4, <1>5, <1>6, <1>7 DEF IInv, QueuedLoads, DominanceKept, QueuedUnused

LEMMA BlockEndIInv == IInv /\ BlockEnd => IInv'
  BY DEF IInv, BlockEnd, TypeOK, DominanceKept, QueuedUnused, CursorInv, PhaseInv,
         QueueWitness, QueueClosed, QueuedLoads, Comparing, Block

\* The search of one L is over: what was pending is out of its reach.
LEMMA SearchOver ==
    ASSUME IInv, pc = "inner", pc' = "outer",
           UNCHANGED <<source, code, bb, i, j, worklist, CSELdElim>>,
           \A R \in Block : j < R =>
              \E k \in Block : j < k /\ k <= R /\ IsStore(code[k])
    PROVE  IInv'
<1>1. Block \subseteq Nat /\ j \in Nat /\ i \in Nat /\ worklist \subseteq Block
  BY Positions DEF IInv, TypeOK
<1>2. QueueClosed'
  <2> SUFFICES ASSUME NEW w \in worklist, NEW R \in Block, w < R, Repeats(code, R, w),
                      \A k \in Block : w < k /\ k < R => ~IsStore(code[k])
               PROVE  R \in worklist
    BY DEF QueueClosed, Block
  <2>1. ASSUME Pending(w, R) PROVE FALSE
    <3>1. PICK k \in Block : j < k /\ k <= R /\ IsStore(code[k])
      BY <2>1 DEF Pending
    <3>2. k # R
      BY <3>1 DEF Repeats, IsLoad, IsStore
    <3>3. w < k /\ k < R
      BY <1>1, <2>1, <3>1, <3>2 DEF Pending
    <3> QED
      BY <3>1, <3>3
  <2> QED
    BY <2>1 DEF IInv, QueueClosed, Comparing
<1>3. QueueWitness'
  BY DEF IInv, QueueWitness, Comparing, Block
<1> QED
  BY <1>2, <1>3
     DEF IInv, QueuedLoads, TypeOK, DominanceKept, QueuedUnused, PhaseInv, CursorInv, Block

LEMMA StopAtStoreIInv ==
    ASSUME IInv, pc = "inner", NEW R \in Block, IsNext(R, j, Block), StopAtStore(R)
    PROVE  IInv'
  BY SearchOver DEF StopAtStore, IsNext

LEMMA InnerEndIInv == IInv /\ InnerEnd => IInv'
<1> SUFFICES ASSUME IInv, InnerEnd PROVE IInv'
  OBVIOUS
<1>1. \A R \in Block : ~(j < R)
  BY Positions DEF InnerEnd, IsLast, IInv, TypeOK
<1> QED
  BY <1>1, SearchOver DEF InnerEnd

LEMMA PassOverIInv ==
    ASSUME IInv, pc = "inner", NEW R \in Block, IsNext(R, j, Block), PassOver(R)
    PROVE  IInv'
<1>1. /\ j' = R /\ ~IsStore(code[R]) /\ ~Repeats(code, R, i)
      /\ UNCHANGED <<source, code, bb, pc, i, worklist, CSELdElim>>
  BY DEF PassOver
<1>2. Block \subseteq Nat /\ i \in Block /\ j \in Nat /\ worklist \subseteq Block /\ j < R
  BY Positions DEF IInv, TypeOK, CursorInv, IsNext
<1>3. TypeOK'
  BY <1>1, <1>2 DEF IInv, TypeOK, Block
<1>4. CursorInv'
  <2> SUFFICES ASSUME NEW k \in Block, i < k, k <= R PROVE ~IsStore(code[k])
    BY <1>1, <1>2 DEF CursorInv, IInv, IsNext, Block
  <2>1. k <= j \/ k = R
    BY <1>2 DEF IsNext
  <2> QED
    BY <1>1, <2>1 DEF IInv, CursorInv
<1>5. QueueClosed'
  <2> SUFFICES ASSUME NEW w \in worklist, NEW Q \in Block, w < Q, Repeats(code, Q, w),
                      \A k \in Block : w < k /\ k < Q => ~IsStore(code[k]),
                      Q \notin worklist
               PROVE  Pending(w, Q)'
    BY <1>1 DEF QueueClosed, Block
  <2>1. Pending(w, Q)
    BY DEF IInv, QueueClosed, Comparing
  <2>2. Q # R
    BY <1>1, <2>1 DEF Pending, Repeats
  <2>3. R < Q
    BY <1>2, <2>1, <2>2 DEF Pending, IsNext
  <2> QED
    BY <1>1, <1>2, <2>1, <2>3 DEF Pending
<1>6. QueueWitness'
  BY <1>1 DEF IInv, QueueWitness, Comparing, Block
<1> QED
  BY <1>1, <1>3, <1>4, <1>5, <1>6
     DEF IInv, QueuedLoads, DominanceKept, QueuedUnused, PhaseInv

\* A load of the block at hand reads its address from before it.
LEMMA AddressBefore ==
    ASSUME IInv, NEW k \in Block, IsLoad(code[k])
    PROVE  /\ \A x \in Block : Address(code[k]) = x => x < k
           /\ Len(code[k].args) = 1 /\ Address(code[k]) = code[k].args[1]
<1>1. k \in DOMAIN code /\ code[k].bb = bb /\ code[k].args \in Seq(Value)
  BY DEF IInv, TypeOK, WellFormed, Instruction, Block, InstsOfBlock
<1>2. Len(code[k].args) = 1 /\ Address(code[k]) = code[k].args[1]
  BY <1>1 DEF IInv, MemoryShaped, Address, IsLoad, IsStore
<1>3. Address(code[k]) \in Range(code[k].args)
  BY <1>1, <1>2 DEF Range
<1>4. ASSUME NEW x \in Block, Address(code[k]) = x PROVE x < k
  <2>1. x \in OperandInsts(code, k) /\ code[x].bb = bb
    BY <1>3, <1>4 DEF IInv, TypeOK, WellFormed, Block, InstsOfBlock, OperandInsts
  <2>2. Precedes(code, x, k, SDom)
    BY <1>1, <2>1 DEF IInv, DominanceKept, DefsBeforeUses, IsLoad
  <2>3. <<bb, bb>> \notin SDom
    BY ProgramsAssumption DEF StrictOrder
  <2> QED
    BY <1>1, <2>1, <2>2, <2>3 DEF Precedes
<1> QED
  BY <1>2, <1>4

LEMMA ReplaceLoadIInv ==
    ASSUME IInv, pc = "inner", NEW R \in Block, IsNext(R, j, Block), ReplaceLoad(R)
    PROVE  IInv'
<1>1. /\ Repeats(code, R, i)
      /\ code' = ReplaceAllUsesWith(code, R, i)
      /\ worklist' = worklist \cup {R}
      /\ CSELdElim' = CSELdElim + 1
      /\ j' = R
      /\ UNCHANGED <<source, bb, pc, i>>
  BY DEF ReplaceLoad
<1>2. /\ Block \subseteq Nat /\ i \in Block /\ i \in Nat /\ j \in Nat /\ R \in Nat
      /\ i <= j /\ j < R /\ i < R /\ worklist \subseteq Block
      /\ IsLoad(code[i]) /\ IsLoad(code[R])
  BY <1>1, Positions DEF IInv, TypeOK, CursorInv, IsNext, Repeats
<1>3. /\ WellFormed(code) /\ DefsBeforeUses(code, SDom) /\ MemoryShaped(code)
      /\ StrictOrder(SDom) /\ R \in DOMAIN code /\ i \in DOMAIN code
      /\ code[R].bb = bb /\ code[i].bb = bb
  BY <1>2, ProgramsAssumption DEF IInv, TypeOK, DominanceKept, Block, InstsOfBlock
<1>4. /\ i \in Value /\ YieldsValue(code[i]) /\ code[i].fn = code[R].fn
      /\ Precedes(code, i, R, SDom)
  BY <1>2, <1>3 DEF WellFormed, Value, YieldsValue, IsLoad, Precedes
<1>5. WellFormed(code') /\ DefsBeforeUses(code', SDom) /\ MemoryShaped(code')
  BY <1>1, <1>3, <1>4, ReplaceKeepsSSA
<1>6. SameShape(code, code') /\ \A k \in DOMAIN code : Replaced(code[k].args, code'[k].args, R, i)
  BY <1>1, <1>3, <1>4, ReplaceEffect
<1>7. /\ Block' = Block
      /\ \A k \in Block : /\ k \in DOMAIN code /\ code'[k].op = code[k].op
                          /\ code'[k].vol = code[k].vol /\ code'[k].ty = code[k].ty
  BY <1>1, <1>6 DEF Block, InstsOfBlock, SameShape
\* How a load's address changes.
<1>8. ASSUME NEW k \in Block, IsLoad(code[k])
      PROVE  Address(code'[k]) = IF Address(code[k]) = R THEN i ELSE Address(code[k])
  <2>1. Len(code[k].args) = 1 /\ Address(code[k]) = code[k].args[1]
    BY <1>8, AddressBefore
  <2>2. Replaced(code[k].args, code'[k].args, R, i)
    BY <1>6, <1>7
  <2>3. 1 \in 1..Len(code[k].args)
    BY <2>1
  <2>4. code'[k].args[1] = IF code[k].args[1] = R THEN i ELSE code[k].args[1]
    BY ONLY <2>2, <2>3, Zenon DEF Replaced
  <2> QED
    BY <1>7, <1>8, <2>1, <2>4 DEF Address, IsLoad, IsStore
<1>9. Address(code[i]) \notin {R, i} /\ Address(code[R]) = Address(code[i])
  BY <1>1, <1>2, AddressBefore DEF Repeats
<1>10. ASSUME NEW w \in worklist'
       PROVE  /\ w \in Block /\ IsLoad(code[w]) /\ Address(code[w]) \notin {R, i}
              /\ Address(code'[w]) = Address(code[w])
  <2>1. w \in Block /\ IsLoad(code[w]) /\ Address(code[w]) \notin {R, i}
    <3>1. CASE w = R
      BY <1>2, <1>9, <3>1
    <3>2. CASE w \in worklist
      <4>1. w \in Block /\ IsLoad(code[w])
        BY <1>1, <1>2, <3>2 DEF IInv, QueueWitness, Comparing, ReplaceLoad
      <4>2. PICK k \in Block : /\ k < w /\ k <= i /\ IsLoad(code[k])
                              /\ Address(code[k]) = Address(code[w])
        BY <3>2 DEF IInv, QueueWitness, Comparing
      <4> QED
        BY <1>2, <3>2, <4>1, <4>2, AddressBefore
    <3> QED
      BY <1>1, <3>1, <3>2
  <2> QED
    BY <1>8, <2>1
<1>11. TypeOK' /\ PhaseInv'
  BY <1>1, <1>2, <1>5, <1>6, <1>7 DEF IInv, TypeOK, PhaseInv, SameShape
\* No store between L and R.
<1>12. \A k \in Block : i < k /\ k <= R => ~IsStore(code[k])
  <2> SUFFICES ASSUME NEW k \in Block, i < k, k <= R PROVE ~IsStore(code[k])
    OBVIOUS
  <2>1. k <= j \/ k = R
    BY <1>2 DEF IsNext
  <2> QED
    BY <1>2, <2>1 DEF IInv, CursorInv, IsLoad, IsStore
<1>13. CursorInv'
  BY <1>1, <1>2, <1>7, <1>12 DEF CursorInv, IsLoad, IsStore
<1>14. QueuedUnused'
  <2>1. CASE i \in worklist
    <3>1. R \in worklist
      BY <1>1, <1>2, <1>12, <2>1 DEF IInv, QueueClosed, Comparing, Pending
    <3>2. Unused(code, R) /\ \A w \in worklist' : Unused(code, w)
      BY <1>1, <3>1 DEF IInv, QueuedUnused
    <3> QED
      BY <1>1, <1>2, <1>3, <1>4, <3>2, ReplaceUsers DEF QueuedUnused
  <2>2. CASE i \notin worklist
    <3>1. \A w \in worklist : w # i /\ Unused(code, w)
      BY <2>2 DEF IInv, QueuedUnused
    <3>2. Unused(code', R) /\ \A x : x # i /\ Unused(code, x) => Unused(code', x)
      BY <1>1, <1>2, <1>3, <1>4, ReplaceUsers
    <3> QED
      BY <1>1, <3>1, <3>2 DEF QueuedUnused
  <2> QED
    BY <2>1, <2>2
<1>15. QueueWitness'
  <2> SUFFICES ASSUME NEW w \in worklist'
               PROVE  /\ IsLoad(code'[w])
                      /\ \E k \in Block : k < w /\ k <= i /\ IsLoad(code'[k])
                                          /\ Address(code'[k]) = Address(code'[w])
    BY <1>1, <1>7 DEF QueueWitness
  <2>1. IsLoad(code'[w])
    BY <1>7, <1>10 DEF IsLoad
  <2>2. PICK k \in Block : /\ k < w /\ k <= i /\ IsLoad(code[k])
                          /\ Address(code[k]) = Address(code[w])
    <3>1. CASE w = R
      BY <1>2, <1>9, <3>1
    <3>2. CASE w \in worklist
      BY <3>2 DEF IInv, QueueWitness, Comparing
    <3> QED
      BY <1>1, <3>1, <3>2
  <2>3. IsLoad(code'[k]) /\ Address(code'[k]) = Address(code'[w])
    BY <1>7, <1>8, <1>10, <2>2 DEF IsLoad
  <2> QED
    BY <2>1, <2>2, <2>3
<1>16. QueueClosed'
  <2> SUFFICES ASSUME NEW w \in worklist', NEW Q \in Block, w < Q, Repeats(code', Q, w),
                      \A k \in Block : w < k /\ k < Q => ~IsStore(code'[k])
               PROVE  Q \in worklist' \/ Pending(w, Q)'
    BY <1>1, <1>7 DEF QueueClosed
  <2>1. IsLoad(code[Q]) /\ w \in Block /\ Address(code'[w]) = Address(code[w])
    BY <1>7, <1>10 DEF Repeats, IsLoad
  <2>2. Address(code[Q]) = Address(code[w])
    BY <1>8, <1>10, <2>1 DEF Repeats
  <2>3. Repeats(code, Q, w) /\ \A k \in Block : w < k /\ k < Q => ~IsStore(code[k])
    BY <1>7, <2>1, <2>2 DEF Repeats, IsStore
  <2>4. Address(code'[i]) = Address(code[i]) /\ code'[i].ty = code[i].ty /\ code'[w].ty = code[w].ty
    BY <1>2, <1>7, <1>8, <1>9, <2>1
  <2>5. CASE w \in worklist
    <3>1. Q \in worklist \/ Pending(w, Q)
      BY <2>3, <2>5 DEF IInv, QueueClosed, Comparing
    <3>2. CASE Pending(w, Q)
      <4>1. Q = R \/ R < Q
        BY <1>2, <3>2 DEF Pending, IsNext
      <4> QED
        BY <1>1, <1>2, <2>1, <2>4, <3>2, <4>1 DEF Pending
    <3> QED
      BY <1>1, <3>1, <3>2
  <2>6. CASE w = R
    BY <1>1, <1>2, <1>9, <2>1, <2>4, <2>6 DEF Pending, Repeats
  <2> QED
    BY <1>1, <2>5, <2>6
<1>17. QueuedLoads'
  BY <1>1, <1>2, <1>6 DEF IInv, TypeOK, Block, InstsOfBlock, QueuedLoads, SameShape, IsLoad
<1> QED
  BY <1>5, <1>11, <1>13, <1>14, <1>15, <1>16, <1>17 DEF IInv, DominanceKept

LEMMA EraseQueuedIInv == IInv /\ EraseQueued => IInv'
<1> SUFFICES ASSUME IInv, EraseQueued PROVE IInv'
  OBVIOUS
<1>1. PICK w \in worklist : worklist' = worklist \ {w} /\ code' = Erase(code, w)
  BY DEF EraseQueued
<1>2. pc = "drain" /\ UNCHANGED <<source, bb, pc, i, j, CSELdElim>>
  BY DEF EraseQueued
<1>3. w \in DOMAIN code /\ Unused(code, w)
  BY DEF IInv, TypeOK, QueuedUnused, Block, InstsOfBlock
<1>4. WellFormed(code') /\ DefsBeforeUses(code', SDom) /\ MemoryShaped(code')
  BY <1>1, <1>3, EraseUnused DEF IInv, TypeOK, DominanceKept
<1>5. DOMAIN code' = DOMAIN code \ {w} /\ \A k \in DOMAIN code' : code'[k] = code[k]
  BY <1>1, EraseEffect
<1>6. TypeOK'
  BY <1>1, <1>2, <1>4, <1>5 DEF IInv, TypeOK, Block, InstsOfBlock
<1>7. QueuedUnused'
  BY <1>1, <1>5 DEF IInv, QueuedUnused, Unused, Users
<1>8. CursorInv' /\ QueueWitness' /\ QueueClosed' /\ PhaseInv' /\ QueuedLoads'
  BY <1>1, <1>2, <1>5, <1>6
     DEF IInv, CursorInv, QueueWitness, QueueClosed, Comparing, PhaseInv, QueuedLoads, TypeOK,
         Block, InstsOfBlock
<1> QED
  BY <1>4, <1>6, <1>7, <1>8 DEF IInv, DominanceKept

LEMMA NextBlockIInv == IInv /\ NextBlock => IInv'
<1> SUFFICES ASSUME IInv, NextBlock PROVE IInv'
  OBVIOUS
<1> USE DEF NextBlock, IInv
<1>1. bb \in 1..NumBlocks /\ NumBlocks \in Nat
  BY ProgramsAssumption DEF PhaseInv
<1>2. TypeOK' /\ PhaseInv'
  BY <1>1 DEF TypeOK, PhaseInv
<1>3. MemoryShaped(code') /\ DominanceKept' /\ QueuedUnused'
  BY DEF DominanceKept, QueuedUnused
<1>4. CursorInv' /\ QueueWitness' /\ QueueClosed' /\ QueuedLoads'
  BY DEF CursorInv, QueueWitness, QueueClosed, QueuedLoads
<1> QED
  BY <1>2, <1>3, <1>4

LEMMA NextIInv == IInv /\ [Next]_vars => IInv'
<1> SUFFICES ASSUME IInv, [Next]_vars PROVE IInv'
  OBVIOUS
<1>1. CASE Visit
  BY <1>1, VisitIInv
<1>2. CASE BlockEnd
  BY <1>2, BlockEndIInv
<1>3. CASE Compare
  BY <1>3, ReplaceLoadIInv, StopAtStoreIInv, PassOverIInv DEF Compare
<1>4. CASE InnerEnd
  BY <1>4, InnerEndIInv
<1>5. CASE EraseQueued
  BY <1>5, EraseQueuedIInv
<1>6. CASE NextBlock
  BY <1>6, NextBlockIInv
<1>7. CASE UNCHANGED vars
  BY <1>7 DEF vars, IInv, TypeOK, DominanceKept, QueuedUnused, CursorInv,
              QueueWitness, QueueClosed, QueuedLoads, Comparing, Pending, Block, PhaseInv
<1> QED
  BY <1>1, <1>2, <1>3, <1>4, <1>5, <1>6, <1>7 DEF Next

(* IInv holds in every state of every execution of load_cse.               *)
THEOREM Invariance == Spec => []IInv
  BY InitIInv, NextIInv, PTL DEF Spec

-----------------------------------------------------------------------------
(* load_cse keeps the module well formed: in particular nothing it leaves   *)
(* has an erased operand, and its queue never outlives its block.            *)
THEOREM TypeCorrect == Spec => []TypeOK
<1>1. IInv => TypeOK
  BY DEF IInv
<1> QED
  BY <1>1, Invariance, PTL

(* Everything load_cse erases without a test has no uses.                  *)
THEOREM ErasesUnused == Spec => []QueuedUnused
<1>1. IInv => QueuedUnused
  BY DEF IInv
<1> QED
  BY <1>1, Invariance, PTL

(* load_cse keeps the SSA rule.                                            *)
THEOREM KeepsDominance == Spec => []DominanceKept
<1>1. IInv => DominanceKept
  BY DEF IInv
<1> QED
  BY <1>1, Invariance, PTL

-----------------------------------------------------------------------------
(* What load_cse leaves: no load that repeats an earlier one.  A pair is     *)
(* compared once; replacing uses later on does not make another compared    *)
(* pair equal, because an address comes before the load that reads it.      *)

\* R repeats L and no store stands between.
Redundant(L, R) ==
    /\ L < R
    /\ code[L].bb = code[R].bb
    /\ IsLoad(code[L])
    /\ Repeats(code, R, L)
    /\ NoStoreBetween(code, L, R)

\* The pass has compared L with R.
Compared(L, R) ==
    \/ code[L].bb < bb
    \/ code[L].bb = bb /\ (pc = "drain" \/ L < i \/ (L = i /\ (pc = "outer" \/ R <= j)))

ComparedInv ==
    \A L, R \in DOMAIN code :
        Redundant(L, R) /\ Compared(L, R) => code[L].bb = bb /\ R \in worklist

BlocksInv ==
    /\ \A k \in DOMAIN code : code[k].bb \in 1..NumBlocks
    /\ pc = "done" => bb = NumBlocks + 1

CountInv ==
    CSELdElim + Cardinality(DOMAIN code) >= Cardinality(DOMAIN source) + Cardinality(worklist)

ResultInv ==
    /\ WellFormed(source)
    /\ BlocksInv
    /\ CountInv
    /\ LayoutFollows(SDom) => ComparedInv

LEMMA FiniteParts ==
    ASSUME IInv, ResultInv
    PROVE  /\ IsFiniteSet(DOMAIN code) /\ IsFiniteSet(worklist)
           /\ Cardinality(DOMAIN code) \in Nat /\ Cardinality(worklist) \in Nat
           /\ Cardinality(DOMAIN source) \in Nat
<1>1. IsFiniteSet(DOMAIN code) /\ IsFiniteSet(DOMAIN source) /\ worklist \subseteq DOMAIN code
  BY DEF IInv, ResultInv, TypeOK, WellFormed, Block, InstsOfBlock
<1>2. IsFiniteSet(worklist)
  BY <1>1, FS_Subset
<1> QED
  BY <1>1, <1>2, FS_CardinalityType

LEMMA InitResult == Init => ResultInv
<1> SUFFICES ASSUME Init PROVE ResultInv
  OBVIOUS
<1>1. /\ WellFormed(source) /\ NumBlocks \in Nat
      /\ \A n \in DOMAIN source : source[n].bb \in 1..NumBlocks
  BY ProgramsAssumption DEF Init
<1>2. BlocksInv
  BY <1>1 DEF Init, BlocksInv
<1>3. CountInv
  <2>1. Cardinality(DOMAIN source) \in Nat /\ Cardinality({}) = 0
    BY <1>1, FS_CardinalityType, FS_EmptySet DEF WellFormed
  <2> QED
    BY <2>1 DEF Init, CountInv
<1>4. ComparedInv
  <2> SUFFICES ASSUME NEW L \in DOMAIN code, NEW R \in DOMAIN code, Compared(L, R)
               PROVE  FALSE
    BY DEF ComparedInv
  <2>1. L \in Nat \ {0} /\ code[L].bb \in 1..NumBlocks /\ bb = 1 /\ i = 0
    BY <1>1, InstAssumption DEF Init, WellFormed
  <2> QED
    BY <1>1, <2>1 DEF Init, Compared
<1> QED
  BY <1>1, <1>2, <1>3, <1>4 DEF ResultInv

\* Steps that only move the cursors: a pair they add to the compared ones is
\* queued or not redundant.
LEMMA CursorResult ==
    ASSUME IInv, ResultInv, UNCHANGED <<source, code, worklist, CSELdElim>>,
           pc' = "done" => bb' = NumBlocks + 1,
           \A L, R \in DOMAIN code :
              Redundant(L, R) /\ Compared(L, R)' => Compared(L, R),
           bb' # bb => worklist = {}
    PROVE  ResultInv'
<1>2. \A L, R \in DOMAIN code : Redundant(L, R)' => Redundant(L, R)
  BY DEF Redundant, Repeats, NoStoreBetween
<1>3. LayoutFollows(SDom) => ComparedInv'
  BY <1>2 DEF ResultInv, ComparedInv
<1>4. CountInv' /\ BlocksInv'
  BY DEF ResultInv, CountInv, BlocksInv
<1> QED
  BY <1>3, <1>4 DEF ResultInv

\* The types the comparison of positions and blocks needs.
LEMMA Numbers ==
    ASSUME IInv, ResultInv
    PROVE  /\ DOMAIN code \subseteq Nat \ {0} /\ i \in Nat /\ j \in Nat
           /\ bb \in Nat /\ NumBlocks \in Nat
           /\ \A k \in DOMAIN code : code[k].bb \in Nat
           /\ \A k \in Block : k \in DOMAIN code /\ code[k].bb = bb
           /\ \A k \in DOMAIN code : code[k].bb = bb => k \in Block
  BY InstAssumption, ProgramsAssumption
     DEF IInv, ResultInv, TypeOK, WellFormed, BlocksInv, Block, InstsOfBlock

LEMMA VisitResult == IInv /\ ResultInv /\ Visit => ResultInv'
<1> SUFFICES ASSUME IInv, ResultInv, Visit PROVE ResultInv'
  OBVIOUS
<1>1. PICK n \in Block : /\ IsNext(n, i, Block) /\ i' = n /\ j' = n
                         /\ pc' = IF IsLoad(code[n]) THEN "inner" ELSE "outer"
  BY DEF Visit
<1>2. pc = "outer" /\ UNCHANGED <<source, code, bb, worklist, CSELdElim>>
  BY DEF Visit
<1>3. ASSUME NEW L \in DOMAIN code, NEW R \in DOMAIN code,
             Redundant(L, R), Compared(L, R)'
      PROVE  Compared(L, R)
  <2>1. L # n
    BY <1>1, <1>2, <1>3, Numbers DEF Compared, Redundant
  <2>2. code[L].bb = bb => L <= i
    BY <1>1, <1>2, <1>3, <2>1, Numbers DEF Compared, IsNext
  <2> QED
    BY <1>1, <1>2, <1>3, <2>2, Numbers DEF Compared
<1> QED
  BY <1>1, <1>2, <1>3, CursorResult

LEMMA BlockEndResult == IInv /\ ResultInv /\ BlockEnd => ResultInv'
<1> SUFFICES ASSUME IInv, ResultInv, BlockEnd PROVE ResultInv'
  OBVIOUS
<1>1. /\ pc = "outer" /\ IsLast(i, Block) /\ pc' = "drain"
      /\ UNCHANGED <<source, code, bb, i, j, worklist, CSELdElim>>
  BY DEF BlockEnd
<1>2. ASSUME NEW L \in DOMAIN code, NEW R \in DOMAIN code, Compared(L, R)'
      PROVE  Compared(L, R)
  BY <1>1, <1>2, Numbers DEF Compared, IsLast
<1> QED
  BY <1>1, <1>2, CursorResult

LEMMA StopAtStoreResult ==
    ASSUME IInv, ResultInv, pc = "inner", NEW S \in Block, IsNext(S, j, Block), StopAtStore(S)
    PROVE  ResultInv'
<1>1. /\ IsStore(code[S]) /\ pc' = "outer"
      /\ UNCHANGED <<source, code, bb, i, j, worklist, CSELdElim>>
  BY DEF StopAtStore
<1>2. i <= j /\ j < S /\ \A k \in Block : k > j => S <= k
  BY DEF IInv, CursorInv, IsNext
<1>3. ASSUME NEW L \in DOMAIN code, NEW R \in DOMAIN code,
             Redundant(L, R), Compared(L, R)'
      PROVE  Compared(L, R)
  <2>1. CASE code[L].bb = bb /\ L = i
    <3>1. R # S
      BY <1>1, <1>3 DEF Redundant, Repeats, IsLoad, IsStore
    <3>2. ~(S < R)
      BY <1>1, <1>2, <1>3, <2>1, Numbers DEF Redundant, NoStoreBetween
    <3>3. R <= j
      <4>1. R \in Block /\ R \in Nat /\ S \in Nat /\ j \in Nat
        BY <1>3, <2>1, Numbers DEF Redundant
      <4> QED
        BY <1>2, <3>1, <3>2, <4>1
    <3> QED
      BY <2>1, <3>3 DEF Compared
  <2>2. CASE ~(code[L].bb = bb /\ L = i)
    BY <1>1, <1>3, <2>2 DEF Compared
  <2> QED
    BY <2>1, <2>2
<1> QED
  BY <1>1, <1>3, CursorResult

LEMMA InnerEndResult == IInv /\ ResultInv /\ InnerEnd => ResultInv'
<1> SUFFICES ASSUME IInv, ResultInv, InnerEnd PROVE ResultInv'
  OBVIOUS
<1>1. /\ pc = "inner" /\ IsLast(j, Block) /\ pc' = "outer"
      /\ UNCHANGED <<source, code, bb, i, j, worklist, CSELdElim>>
  BY DEF InnerEnd
<1>2. ASSUME NEW L \in DOMAIN code, NEW R \in DOMAIN code,
             Redundant(L, R), Compared(L, R)'
      PROVE  Compared(L, R)
  BY <1>1, <1>2, Numbers DEF Compared, IsLast, Redundant
<1> QED
  BY <1>1, <1>2, CursorResult

LEMMA PassOverResult ==
    ASSUME IInv, ResultInv, pc = "inner", NEW Q \in Block, IsNext(Q, j, Block), PassOver(Q)
    PROVE  ResultInv'
<1>1. /\ ~Repeats(code, Q, i) /\ j' = Q
      /\ UNCHANGED <<source, code, bb, pc, i, worklist, CSELdElim>>
  BY DEF PassOver
<1>2. ASSUME NEW L \in DOMAIN code, NEW R \in DOMAIN code,
             Redundant(L, R), Compared(L, R)'
      PROVE  Compared(L, R)
  <2>1. L = i => R # Q
    BY <1>1, <1>2 DEF Redundant
  <2>2. ASSUME code[L].bb = bb, L = i, R <= Q PROVE R <= j
    <3>1. R \in Block /\ R \in Nat /\ Q \in Nat /\ j \in Nat
      BY <1>2, <2>2, Numbers DEF Redundant
    <3> QED
      BY <2>1, <2>2, <3>1 DEF IsNext
  <2> QED
    BY <1>1, <1>2, <2>2 DEF Compared
<1> QED
  BY <1>1, <1>2, CursorResult

\* An instruction that the pass has compared does not read its address from
\* an instruction that is replaced or replaces later.
LEMMA AddressSettled ==
    ASSUME IInv, ResultInv, LayoutFollows(SDom), NEW L \in DOMAIN code, IsLoad(code[L]),
           code[L].bb < bb \/ (code[L].bb = bb /\ L <= i),
           NEW x \in Block, i <= x
    PROVE  x \notin Range(code[L].args)
<1> SUFFICES ASSUME x \in Range(code[L].args) PROVE FALSE
  OBVIOUS
<1>1. x \in OperandInsts(code, L) /\ x \in DOMAIN code /\ code[x].bb = bb
  BY DEF IInv, TypeOK, WellFormed, Block, InstsOfBlock, OperandInsts
<1>2. Precedes(code, x, L, SDom)
  BY <1>1 DEF IInv, DominanceKept, DefsBeforeUses, IsLoad
<1>3. code[L].bb < code[x].bb => <<code[x].bb, code[L].bb>> \notin SDom
  BY <1>1, Numbers DEF LayoutFollows
<1>4. <<bb, bb>> \notin SDom
  BY ProgramsAssumption DEF StrictOrder
<1> QED
  BY <1>1, <1>2, <1>3, <1>4, Numbers DEF Precedes

LEMMA ReplaceLoadResult ==
    ASSUME IInv, ResultInv, pc = "inner",
           NEW Q \in Block, IsNext(Q, j, Block), ReplaceLoad(Q)
    PROVE  ResultInv'
<1>1. /\ Repeats(code, Q, i)
      /\ code' = ReplaceAllUsesWith(code, Q, i)
      /\ worklist' = worklist \cup {Q}
      /\ CSELdElim' = CSELdElim + 1
      /\ j' = Q
      /\ UNCHANGED <<source, bb, pc, i>>
  BY DEF ReplaceLoad
<1>2. /\ i \in Block /\ i <= j /\ j < Q /\ i < Q /\ IsLoad(code[i]) /\ i \in Value
      /\ WellFormed(code)
  BY Numbers DEF IInv, TypeOK, WellFormed, CursorInv, IsNext, Value
<1>3. /\ SameShape(code, code') /\ code' \in [DOMAIN code -> Instruction]
      /\ \A k \in DOMAIN code : Replaced(code[k].args, code'[k].args, Q, i)
  BY <1>1, <1>2, ReplaceEffect
<1>4. CountInv'
  <2> DEFINE n == Cardinality(DOMAIN code)
             m == Cardinality(DOMAIN source)
  <2>3. /\ CSELdElim \in Nat /\ n \in Nat /\ m \in Nat /\ Cardinality(worklist) \in Nat
        /\ CSELdElim + n >= m + Cardinality(worklist)
    BY FiniteParts DEF IInv, TypeOK, ResultInv, CountInv
  <2>4. Cardinality(DOMAIN code') = n /\ Cardinality(DOMAIN source') = m
    BY <1>1, <1>3 DEF SameShape
  <2> HIDE DEF n, m
  <2>1. CASE Q \in worklist
    <3>1. worklist' = worklist /\ CSELdElim' = CSELdElim + 1
      BY <1>1, <2>1
    <3> QED
      BY <2>3, <2>4, <3>1 DEF CountInv
  <2>2. CASE Q \notin worklist
    <3>1. Cardinality(worklist') = Cardinality(worklist) + 1
      BY <1>1, <2>2, FiniteParts, FS_AddElement
    <3> QED
      BY <1>1, <2>3, <2>4, <3>1 DEF CountInv
  <2> QED
    BY <2>1, <2>2
<1>5. BlocksInv'
  BY <1>1, <1>3 DEF ResultInv, BlocksInv, SameShape
<1>6. ASSUME LayoutFollows(SDom), NEW L \in DOMAIN code, NEW R \in DOMAIN code,
             Redundant(L, R)', Compared(L, R)'
      PROVE  code[L].bb = bb /\ R \in worklist'
  <2>1. /\ L < R /\ code[L].bb = code[R].bb /\ IsLoad(code[L]) /\ IsLoad(code[R])
        /\ ~code[R].vol /\ code[L].ty = code[R].ty /\ NoStoreBetween(code, L, R)
        /\ Address(code'[L]) = Address(code'[R])
    BY <1>3, <1>6 DEF Redundant, Repeats, NoStoreBetween, SameShape, IsLoad, IsStore
  <2>2. code[L].bb < bb \/ (code[L].bb = bb /\ (L < i \/ (L = i /\ R <= Q)))
    BY <1>1, <1>3, <1>6 DEF Compared, SameShape
  <2>3. i \notin Range(code[L].args) /\ Q \notin Range(code[L].args)
    BY <1>2, <1>6, <2>1, <2>2, Numbers, AddressSettled
  <2>4. code'[L].args = code[L].args
    BY <1>1, <1>2, <2>3, ReplaceNothing
  <2>5. /\ Len(code[L].args) = 1 /\ Len(code[R].args) = 1
        /\ Address(code[L]) = code[L].args[1] /\ Address(code[R]) = code[R].args[1]
        /\ Address(code'[L]) = code'[L].args[1] /\ Address(code'[R]) = code'[R].args[1]
    BY <1>3, <2>1 DEF IInv, MemoryShaped, SameShape, Address, IsLoad, IsStore
  <2>6. Address(code[L]) \in Range(code[L].args)
    BY <1>2, <2>5 DEF Range
  <2>7. Replaced(code[R].args, code'[R].args, Q, i)
    BY <1>3
  <2>8. Address(code'[R]) = IF Address(code[R]) = Q THEN i ELSE Address(code[R])
    <3>1. 1 \in 1..Len(code[R].args)
      BY <2>5
    <3>2. code'[R].args[1] = IF code[R].args[1] = Q THEN i ELSE code[R].args[1]
      BY ONLY <2>7, <3>1, Zenon DEF Replaced
    <3> QED
      BY <2>5, <3>2
  <2>9. Address(code[L]) = Address(code[R])
    BY <2>1, <2>3, <2>4, <2>5, <2>6, <2>8
  <2>10. Redundant(L, R)
    BY <2>1, <2>9 DEF Redundant, Repeats
  <2>11. R = Q \/ Compared(L, R)
    <3>1. CASE L = i /\ code[L].bb = bb /\ R <= Q /\ R # Q
      <4>1. R \in Block /\ R \in Nat /\ Q \in Nat /\ j \in Nat
        BY <2>1, <3>1, Numbers
      <4> QED
        BY <3>1, <4>1 DEF Compared, IsNext
    <3> QED
      BY <2>2, <3>1 DEF Compared
  <2>12. CASE R = Q
    BY <1>1, <2>1, <2>12, Numbers
  <2>13. CASE Compared(L, R)
    BY <1>1, <1>6, <2>10, <2>13 DEF ResultInv, ComparedInv
  <2> QED
    BY <2>11, <2>12, <2>13
<1>7. LayoutFollows(SDom) => ComparedInv'
  BY <1>1, <1>3, <1>6 DEF ComparedInv, SameShape
<1> QED
  BY <1>1, <1>4, <1>5, <1>7 DEF ResultInv

LEMMA EraseQueuedResult == IInv /\ ResultInv /\ EraseQueued => ResultInv'
<1> SUFFICES ASSUME IInv, ResultInv, EraseQueued PROVE ResultInv'
  OBVIOUS
<1>1. PICK w \in worklist : worklist' = worklist \ {w} /\ code' = Erase(code, w)
  BY DEF EraseQueued
<1>2. pc = "drain" /\ UNCHANGED <<source, bb, pc, i, j, CSELdElim>>
  BY DEF EraseQueued
<1>3. w \in DOMAIN code
  BY DEF IInv, TypeOK, Block, InstsOfBlock
<1>4. DOMAIN code' = DOMAIN code \ {w} /\ \A k \in DOMAIN code' : code'[k] = code[k]
  BY <1>1, EraseEffect
<1>5. CountInv'
  <2>1. /\ Cardinality(worklist') = Cardinality(worklist) - 1
        /\ Cardinality(DOMAIN code') = Cardinality(DOMAIN code) - 1
    BY <1>1, <1>3, <1>4, FiniteParts, FS_RemoveElement
  <2> QED
    BY <1>2, <2>1, FiniteParts DEF IInv, TypeOK, ResultInv, CountInv
<1>6. BlocksInv'
  BY <1>2, <1>4 DEF ResultInv, BlocksInv
\* What is erased is a load: no two loads lose a store between them.
<1>7. ASSUME NEW L \in DOMAIN code', NEW R \in DOMAIN code',
             Redundant(L, R)', Compared(L, R)'
      PROVE  Redundant(L, R) /\ Compared(L, R)
  <2>1. Compared(L, R)
    BY <1>2, <1>4, <1>7 DEF Compared
  <2>2. ~IsStore(code[w])
    BY <1>2, <1>3 DEF IInv, QueuedLoads, IsLoad, IsStore
  <2>3. NoStoreBetween(code, L, R)
    BY <1>4, <1>7, <2>2 DEF Redundant, NoStoreBetween
  <2> QED
    BY <1>4, <1>7, <2>1, <2>3 DEF Redundant, Repeats
<1>8. LayoutFollows(SDom) => ComparedInv'
  BY <1>1, <1>2, <1>4, <1>7 DEF ResultInv, ComparedInv
<1> QED
  BY <1>2, <1>5, <1>6, <1>8 DEF ResultInv

LEMMA NextBlockResult == IInv /\ ResultInv /\ NextBlock => ResultInv'
<1> SUFFICES ASSUME IInv, ResultInv, NextBlock PROVE ResultInv'
  OBVIOUS
<1>1. /\ pc = "drain" /\ worklist = {} /\ bb' = bb + 1 /\ i' = 0 /\ j' = 0
      /\ pc' = IF bb = NumBlocks THEN "done" ELSE "outer"
      /\ UNCHANGED <<source, code, worklist, CSELdElim>>
  BY DEF NextBlock
<1>2. ASSUME NEW L \in DOMAIN code, NEW R \in DOMAIN code, Compared(L, R)'
      PROVE  Compared(L, R)
  <2>1. L > 0 /\ code[L].bb <= bb
    BY <1>1, <1>2, Numbers DEF Compared
  <2> QED
    BY <1>1, <2>1, Numbers DEF Compared
<1> QED
  BY <1>1, <1>2, CursorResult

LEMMA NextResult == IInv /\ ResultInv /\ [Next]_vars => ResultInv'
<1> SUFFICES ASSUME IInv, ResultInv, [Next]_vars PROVE ResultInv'
  OBVIOUS
<1>1. CASE Visit
  BY <1>1, VisitResult
<1>2. CASE BlockEnd
  BY <1>2, BlockEndResult
<1>3. CASE Compare
  BY <1>3, ReplaceLoadResult, StopAtStoreResult, PassOverResult DEF Compare
<1>4. CASE InnerEnd
  BY <1>4, InnerEndResult
<1>5. CASE EraseQueued
  BY <1>5, EraseQueuedResult
<1>6. CASE NextBlock
  BY <1>6, NextBlockResult
<1>7. CASE UNCHANGED vars
  BY <1>7 DEF vars, ResultInv, BlocksInv, CountInv, ComparedInv, Redundant, Compared, Repeats
<1> QED
  BY <1>1, <1>2, <1>3, <1>4, <1>5, <1>6, <1>7 DEF Next

(* ResultInv holds in every state of every execution of load_cse.           *)
THEOREM ResultInvariance == Spec => []ResultInv
<1>1. Spec => [](IInv /\ ResultInv)
  BY InitIInv, InitResult, NextIInv, NextResult, PTL DEF Spec
<1> QED
  BY <1>1, PTL

LEMMA DoneHasNoRepeat == IInv /\ ResultInv => NoRedundantLoad
<1> SUFFICES ASSUME IInv, ResultInv, LayoutFollows(SDom), pc = "done",
                    NEW L \in DOMAIN code, NEW R \in DOMAIN code, Redundant(L, R)
             PROVE  FALSE
  BY DEF NoRedundantLoad, Redundant
<1>1. code[L].bb < bb
  BY Numbers DEF ResultInv, BlocksInv
<1>2. code[L].bb # bb /\ Compared(L, R)
  BY <1>1, Numbers DEF Compared
<1> QED
  BY <1>2 DEF ResultInv, ComparedInv

(* When load_cse returns, no load of a block repeats an earlier one with no  *)
(* store between: one pass is enough.                                       *)
THEOREM OnePassIsEnough == Spec => []NoRedundantLoad
  BY DoneHasNoRepeat, Invariance, ResultInvariance, PTL

(* CSE_RLd is at least the number of loads erased.                          *)
THEOREM CountCovers == Spec => []CountCoversErased
<1>1. IInv /\ ResultInv => CountCoversErased
  BY FiniteParts DEF IInv, TypeOK, ResultInv, CountInv, CountCoversErased
<1> QED
  BY <1>1, Invariance, ResultInvariance, PTL

-----------------------------------------------------------------------------
MeaningInv ==
    /\ WellFormed(source)
    /\ Frame(code, source)
    /\ \A w \in worklist : ~code[w].vol
    /\ NoCalls(source) => SameOnAllPaths(code, source)

LEMMA InitMeaning == Init => MeaningInv
<1> SUFFICES ASSUME Init PROVE MeaningInv
  OBVIOUS
<1>1. WellFormed(source) /\ code = source /\ worklist = {}
  BY ProgramsAssumption DEF Init
<1> QED
  BY <1>1 DEF MeaningInv, Frame, SameOnAllPaths

LEMMA ReplaceLoadMeaning ==
    ASSUME IInv, MeaningInv, pc = "inner", NEW R \in Block, IsNext(R, j, Block), ReplaceLoad(R)
    PROVE  MeaningInv'
<1>1. /\ Repeats(code, R, i) /\ code' = ReplaceAllUsesWith(code, R, i)
      /\ source' = source /\ worklist' = worklist \cup {R}
  BY DEF ReplaceLoad
<1>2. /\ WellFormed(code) /\ DefsBeforeUses(code, SDom) /\ StrictOrder(SDom)
      /\ MemoryShaped(code) /\ worklist \subseteq DOMAIN code
      /\ WellFormed(source) /\ Frame(code, source) /\ DOMAIN source \subseteq Nat
  BY InstAssumption, ProgramsAssumption
     DEF IInv, TypeOK, DominanceKept, MeaningInv, WellFormed, Block, InstsOfBlock
<1>3. /\ R \in DOMAIN code /\ i \in DOMAIN code /\ IsLoad(code[i]) /\ IsLoad(code[R])
      /\ i <= j /\ j < R /\ code[R].bb = bb /\ code[i].bb = bb
      /\ i \in Nat /\ j \in Nat /\ R \in Nat
  BY <1>1, <1>2 DEF IInv, TypeOK, CursorInv, Block, InstsOfBlock, IsNext, WellFormed, Frame, Repeats
<1>4. Frame(code', source)
  BY <1>1, <1>2, ReplaceKeepsFrame
<1>5. ASSUME NoCalls(source)
      PROVE  SameOnAllPaths(code', source)
  <2>1. code[i].args = code[R].args
    <3>1. /\ code[i].args \in Seq(Value) /\ Len(code[i].args) = 1
          /\ code[R].args \in Seq(Value) /\ Len(code[R].args) = 1
      BY <1>2, <1>3 DEF MemoryShaped, WellFormed, Instruction
    <3>2. code[i].args[1] = code[R].args[1]
      BY <1>1, <1>3 DEF Repeats, Address, IsLoad, IsStore
    <3> QED
      BY <3>1, <3>2
  <2>2. ASSUME NEW n \in DOMAIN code, code[n].bb = code[i].bb, i < n, n < R
        PROVE  code[n].op \notin {"store", "call"}
    <3>1. n \in Block /\ n \in Nat /\ n <= j
      BY <1>2, <1>3, <2>2 DEF Block, InstsOfBlock, IsNext, Frame
    <3> QED
      BY <1>2, <1>5, <2>2, <3>1 DEF IInv, CursorInv, IsStore, Frame, NoCalls
  <2> SUFFICES ASSUME NEW l, NEW path, NEW leaf, NEW mem,
                      DOMAIN l \subseteq Nat, LaidOutIn(source, l), Control(path, l)
               PROVE  ObserveOn(path, code', leaf, mem) = ObserveOn(path, source, leaf, mem)
    BY DEF SameOnAllPaths
  <2>3. LaidOutIn(code, l)
    BY <1>2 DEF LaidOutIn, Frame
  <2>4. Repetition(code, l, SDom, i, R)
    BY <1>2, <1>3, <2>1, <2>2, <2>3 DEF Repetition, YieldsValue, IsLoad
  <2>5. ObserveOn(path, code', leaf, mem) = ObserveOn(path, code, leaf, mem)
    BY <1>1, <2>4, ReplacedRuns
  <2> QED
    BY <1>5, <2>5 DEF MeaningInv, SameOnAllPaths
<1>6. \A w \in worklist' : ~code'[w].vol
  <2>1. \A w \in worklist \cup {R} : w \in DOMAIN code /\ ~code[w].vol
    BY <1>1, <1>2, <1>3 DEF MeaningInv, Repeats
  <2>2. \A w \in DOMAIN code : w \in DOMAIN code' /\ code'[w].vol = code[w].vol
    BY <1>1, <1>2, <1>4 DEF Frame, ReplaceAllUsesWith
  <2> QED
    BY <1>1, <2>1, <2>2
<1> QED
  BY <1>1, <1>2, <1>4, <1>5, <1>6 DEF MeaningInv

LEMMA EraseQueuedMeaning == IInv /\ MeaningInv /\ EraseQueued => MeaningInv'
<1> SUFFICES ASSUME IInv, MeaningInv, EraseQueued PROVE MeaningInv'
  OBVIOUS
<1>1. PICK w \in worklist : worklist' = worklist \ {w} /\ code' = Erase(code, w)
  BY DEF EraseQueued
<1>2. /\ source' = source /\ WellFormed(code) /\ w \in DOMAIN code
      /\ IsLoad(code[w]) /\ ~code[w].vol /\ Unused(code, w)
  BY <1>1 DEF EraseQueued, IInv, TypeOK, QueuedUnused, QueuedLoads, MeaningInv, Block, InstsOfBlock
<1>3. /\ DOMAIN code' = DOMAIN code \ {w}
      /\ \A k \in DOMAIN code' : code'[k] = code[k]
  BY <1>1, EraseEffect
<1>4. Frame(code', source)
  BY <1>3 DEF MeaningInv, Frame
<1>5. ASSUME NEW path, NEW leaf, NEW mem, Len(path) \in Nat
      PROVE  ObserveOn(path, code', leaf, mem) = ObserveOn(path, code, leaf, mem)
  <2>1. ASSUME NEW k \in DOMAIN code' PROVE OperandInsts(code', k) \subseteq DOMAIN code'
    <3>1. code'[k] = code[k] /\ k \in DOMAIN code
      BY <1>3
    <3>2. OperandInsts(code, k) \subseteq DOMAIN code /\ w \notin OperandInsts(code, k)
      BY <1>2, <3>1 DEF WellFormed, OperandInsts, Unused, Users
    <3> QED
      BY <1>3, <3>1, <3>2 DEF OperandInsts
  <2>2. \A k \in DOMAIN code \ DOMAIN code' : ~Observable(code[k])
    BY <1>2, <1>3 DEF Observable, IsLoad
  <2> QED
    BY <1>2, <1>3, <1>5, <2>1, <2>2, ErasedRuns
<1>6. NoCalls(source) => SameOnAllPaths(code', source)
  BY <1>5 DEF MeaningInv, SameOnAllPaths, Control
<1>7. \A v \in worklist' : ~code'[v].vol
  BY <1>1, <1>3 DEF MeaningInv, IInv, TypeOK, Block, InstsOfBlock
<1> QED
  BY <1>2, <1>4, <1>6, <1>7 DEF MeaningInv

LEMMA NextMeaning == IInv /\ MeaningInv /\ [Next]_vars => MeaningInv'
<1> SUFFICES ASSUME IInv, MeaningInv, [Next]_vars PROVE MeaningInv'
  OBVIOUS
<1>1. CASE \E R \in Block : pc = "inner" /\ IsNext(R, j, Block) /\ ReplaceLoad(R)
  BY <1>1, ReplaceLoadMeaning
<1>2. CASE EraseQueued
  BY <1>2, EraseQueuedMeaning
<1>3. CASE UNCHANGED <<source, code, worklist>>
  BY <1>3 DEF MeaningInv
<1> QED
  BY <1>1, <1>2, <1>3
     DEF Next, Visit, BlockEnd, Compare, StopAtStore, PassOver, InnerEnd, NextBlock, vars

(* In a module without calls neither moving the uses of a load to an earlier *)
(* one nor erasing it later changes what is seen, on any path control takes: *)
(* between the two no store is left that could have changed the address, and *)
(* what is erased is neither used nor volatile.                             *)
THEOREM KeepsMeaning == Spec => [](NoCalls(source) => SameOnAllPaths(code, source))
<1>1. Spec => [](IInv /\ MeaningInv)
  BY InitIInv, InitMeaning, NextIInv, NextMeaning, PTL DEF Spec
<1>2. IInv /\ MeaningInv => (NoCalls(source) => SameOnAllPaths(code, source))
  BY DEF MeaningInv
<1> QED
  BY <1>1, <1>2, PTL

(* What the run compares: the result and the source on every path straight  *)
(* through the blocks.                                                      *)
THEOREM MeaningIsKept == Spec => []MeaningKept
<1>1. IInv /\ MeaningInv => MeaningKept
  <2> SUFFICES ASSUME IInv, MeaningInv, NoCalls(source),
                      NEW path, Possible(path, source, source, SDom), NEW leaf, NEW mem
               PROVE  ObserveOn(path, code, leaf, mem) = ObserveOn(path, source, leaf, mem)
    BY DEF MeaningKept, SameMeaning, SameMeaningOn
  <2>1. DOMAIN source \subseteq Nat /\ LaidOutIn(source, source) /\ Control(path, source)
    BY InstAssumption DEF MeaningInv, WellFormed, LaidOutIn, Possible
  <2> QED
    BY <2>1 DEF MeaningInv, SameOnAllPaths
<1> QED
  BY <1>1, InitIInv, InitMeaning, NextIInv, NextMeaning, PTL DEF Spec

=============================================================================
