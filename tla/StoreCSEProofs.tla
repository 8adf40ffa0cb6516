--------------------------- MODULE StoreCSEProofs ---------------------------
(****************************************************************************)
(* Proofs about StoreCSE, for every module and every dominance order.       *)
(*                                                                          *)
(* Erasing is legal because a queued load lost its uses and no later step   *)
(* gives it one: the only value that gains uses is one that a store still   *)
(* uses.  The counters are exact because the searches of two stores never   *)
(* overlap: each ends at the next store (QueueBehind).                      *)
(****************************************************************************)
EXTENDS StoreCSE, IRLemmas, FiniteSetTheorems, TLAPS

\* While the inner loop runs: between S and the cursor there is no store.
CursorInv ==
    pc = "inner" => /\ i \in Block /\ IsStore(code[i]) /\ i <= j
                    /\ \A k \in Block : i < k /\ k <= j => ~IsStore(code[k])

\* What is queued is behind the cursors.
QueueBehind ==
    /\ pc = "inner" => \A w \in worklist : w < i \/ (i < w /\ w <= j)
    /\ pc = "outer" => \A w \in worklist :
          w <= i \/ \A k \in Block : i < k /\ k <= w => ~IsStore(code[k])

PhaseInv ==
    /\ pc = "done" => worklist = {}
    /\ pc # "done" => bb \in 1..NumBlocks

CountInv ==
    CSELdStElim + CSERStElim + Cardinality(DOMAIN code)
        = Cardinality(DOMAIN source) + Cardinality(worklist)

IInv ==
    /\ WellFormed(source)
    /\ TypeOK
    /\ MemoryShaped(code)
    /\ DominanceKept
    /\ QueuedUnused
    /\ CursorInv
    /\ QueueBehind
    /\ CountInv
    /\ PhaseInv

-----------------------------------------------------------------------------
LEMMA Positions == WellFormed(code) => DOMAIN code \subseteq Nat /\ Block \subseteq Nat
  BY InstAssumption DEF WellFormed, Block, InstsOfBlock

LEMMA FiniteSets ==
    ASSUME IInv
    PROVE  /\ IsFiniteSet(DOMAIN code) /\ IsFiniteSet(worklist)
           /\ Cardinality(DOMAIN code) \in Nat /\ Cardinality(worklist) \in Nat
           /\ Cardinality(DOMAIN source) \in Nat
<1>1. IsFiniteSet(DOMAIN code) /\ IsFiniteSet(DOMAIN source) /\ worklist \subseteq DOMAIN code
  BY DEF IInv, TypeOK, WellFormed, Block, InstsOfBlock
<1>2. IsFiniteSet(worklist)
  BY <1>1, FS_Subset
<1> QED
  BY <1>1, <1>2, FS_CardinalityType

LEMMA InitIInv == Init => IInv
<1> SUFFICES ASSUME Init PROVE IInv
  OBVIOUS
<1> USE DEF Init
<1>1. WellFormed(source) /\ DefsBeforeUses(source, SDom) /\ MemoryShaped(source)
      /\ NumBlocks \in Nat
  BY ProgramsAssumption
<1>2. TypeOK
  BY <1>1 DEF TypeOK
<1>3. DominanceKept /\ QueuedUnused /\ CursorInv /\ QueueBehind
  BY <1>1 DEF DominanceKept, QueuedUnused, CursorInv, QueueBehind
<1>4. CountInv
  <2>1. Cardinality(DOMAIN source) \in Nat /\ Cardinality({}) = 0
    BY <1>1, FS_CardinalityType, FS_EmptySet DEF WellFormed
  <2> QED
    BY <2>1 DEF CountInv
<1>5. PhaseInv
  BY <1>1 DEF PhaseInv
<1> QED
  BY <1>1, <1>2, <1>3, <1>4, <1>5 DEF IInv

\* Steps that move the cursors only.
LEMMA VisitIInv == IInv /\ Visit => IInv'
<1> SUFFICES ASSUME IInv, Visit PROVE IInv'
  OBVIOUS
<1>1. PICK n \in Block : /\ IsNext(n, i, Block) /\ i' = n /\ j' = n
                         /\ pc' = IF IsStore(code[n]) THEN "inner" ELSE "outer"
  BY DEF Visit
<1>2. pc = "outer" /\ UNCHANGED <<source, code, bb, worklist, CSELdStElim, CSERStElim>>
  BY DEF Visit
<1>3. WellFormed(code) /\ i \in Nat /\ Block \subseteq Nat /\ worklist \subseteq Block
  BY Positions DEF IInv, TypeOK
<1>4. TypeOK'
  BY <1>1, <1>2, <1>3 DEF IInv, TypeOK, Block
<1>5. CursorInv'
  BY <1>1, <1>2, <1>3 DEF CursorInv, Block
<1>6. QueueBehind'
  <2>1. ASSUME NEW w \in worklist
        PROVE  w < n \/ \A k \in Block : i < k /\ k <= w => ~IsStore(code[k])
    BY <1>1, <1>2, <1>3 DEF IInv, QueueBehind, IsNext
  <2>2. ASSUME IsStore(code[n]), NEW w \in worklist PROVE w < n
    BY <1>1, <1>3, <2>1, <2>2 DEF IsNext
  <2>3. ASSUME NEW w \in worklist, NEW k \in Block, n < k, k <= w
        PROVE  ~IsStore(code[k])
    BY <1>1, <1>3, <2>1, <2>3 DEF IsNext
  <2> QED
    BY <1>1, <1>2, <1>3, <2>2, <2>3 DEF QueueBehind, Block
<1> QED
  BY <1>1, <1>2, <1>4, <1>5, <1>6 DEF IInv, DominanceKept, QueuedUnused, CountInv, PhaseInv

LEMMA BlockEndIInv == IInv /\ BlockEnd => IInv'
  BY DEF IInv, BlockEnd, TypeOK, DominanceKept, QueuedUnused, CursorInv,
         QueueBehind, CountInv, PhaseInv, Block

\* The search of one store is over: nothing queued is ahead of the cursor j,
\* and there is no store between i and j.
LEMMA SearchOver ==
    ASSUME IInv, pc = "inner", pc' = "outer", worklist' \subseteq worklist \cup {i},
           UNCHANGED <<source, code, bb, i, j>>
    PROVE  QueueBehind' /\ CursorInv'
<1>1. i \in Block /\ Block \subseteq Nat /\ j \in Nat /\ i \in Nat /\ worklist \subseteq Block
  BY Positions DEF IInv, TypeOK, CursorInv
<1>2. ASSUME NEW w \in worklist', NEW k \in Block, i < k, k <= w
      PROVE  ~IsStore(code[k])
  BY <1>1, <1>2 DEF IInv, QueueBehind, CursorInv
<1> QED
  BY <1>2 DEF QueueBehind, CursorInv, Block

LEMMA StopAtSideEffectIInv ==
    ASSUME IInv, pc = "inner", NEW R \in Block, StopAtSideEffect(R)
    PROVE  IInv'
<1>1. QueueBehind' /\ CursorInv'
  BY SearchOver DEF StopAtSideEffect
<1> QED
  BY <1>1 DEF StopAtSideEffect, IInv, TypeOK, DominanceKept, QueuedUnused, CountInv, PhaseInv, Block

LEMMA InnerEndIInv == IInv /\ InnerEnd => IInv'
<1> SUFFICES ASSUME IInv, InnerEnd PROVE IInv'
  OBVIOUS
<1>1. QueueBehind' /\ CursorInv'
  BY SearchOver DEF InnerEnd
<1> QED
  BY <1>1 DEF InnerEnd, IInv, TypeOK, DominanceKept, QueuedUnused, CountInv, PhaseInv, Block

LEMMA PassOverIInv ==
    ASSUME IInv, pc = "inner", NEW R \in Block, IsNext(R, j, Block), PassOver(R)
    PROVE  IInv'
<1>1. /\ j' = R /\ ~IsStore(code[R])
      /\ UNCHANGED <<source, code, bb, pc, i, worklist, CSELdStElim, CSERStElim>>
  BY DEF PassOver, has_sideeffect, IsStore
<1>2. Block \subseteq Nat /\ i \in Block /\ j \in Nat /\ worklist \subseteq Block
  BY Positions DEF IInv, TypeOK, CursorInv
<1>3. TypeOK'
  BY <1>1, <1>2 DEF IInv, TypeOK, Block
<1>4. CursorInv'
  <2> SUFFICES ASSUME NEW k \in Block, i < k, k <= R PROVE ~IsStore(code[k])
    BY <1>1, <1>2 DEF CursorInv, IInv, IsNext, Block
  <2>1. k <= j \/ k = R
    BY <1>2 DEF IsNext
  <2> QED
    BY <1>1, <2>1 DEF IInv, CursorInv
<1>5. QueueBehind'
  BY <1>1, <1>2 DEF IInv, QueueBehind, IsNext, Block
<1> QED
  BY <1>1, <1>3, <1>4, <1>5 DEF IInv, DominanceKept, QueuedUnused, CountInv, PhaseInv

\* The value a store forwards, and the load that takes it.
LEMMA ForwardedValue ==
    ASSUME IInv, pc = "inner", NEW R \in Block, IsNext(R, j, Block), LoadsBack(code, R, i),
           NEW v, v = StoredValue(code[i])
    PROVE  /\ v \in Value /\ v \in Range(code[i].args) /\ R # v
           /\ v \in Inst => /\ v \in DOMAIN code /\ YieldsValue(code[v])
                            /\ code[v].fn = code[R].fn /\ Precedes(code, v, R, SDom)
<1>1. /\ i \in Block /\ IsStore(code[i]) /\ i \in Nat /\ R \in Nat /\ j \in Nat /\ i < R
      /\ i \in DOMAIN code /\ R \in DOMAIN code /\ code[i].bb = bb /\ code[R].bb = bb
  BY Positions DEF IInv, TypeOK, CursorInv, IsNext, Block, InstsOfBlock
<1>2. code[i].args \in Seq(Value) /\ Len(code[i].args) = 2
  BY <1>1 DEF IInv, TypeOK, WellFormed, Instruction, MemoryShaped
<1>3. v \in Value /\ v \in Range(code[i].args)
  BY <1>2 DEF StoredValue, Range
<1>4. ASSUME v \in Inst
      PROVE  /\ v \in DOMAIN code /\ YieldsValue(code[v])
             /\ code[v].fn = code[R].fn /\ Precedes(code, v, R, SDom)
  <2>1. v \in DOMAIN code /\ YieldsValue(code[v]) /\ code[v].fn = code[i].fn
    BY <1>1, <1>3, <1>4 DEF IInv, TypeOK, WellFormed
  <2>2. code[i].fn = code[R].fn
    BY <1>1 DEF IInv, TypeOK, WellFormed
  <2>3. Precedes(code, v, i, SDom)
    BY <1>1, <1>3, <1>4 DEF IInv, DominanceKept, DefsBeforeUses, OperandInsts, IsStore
  <2>4. v \in Nat
    BY <1>4, InstAssumption
  <2> QED
    BY <1>1, <2>1, <2>2, <2>3, <2>4 DEF Precedes
<1>5. R # v
  <2>1. R \in Inst /\ <<bb, bb>> \notin SDom
    BY <1>1, ProgramsAssumption DEF IInv, TypeOK, WellFormed, StrictOrder
  <2>2. v = R => Precedes(code, R, R, SDom)
    BY <2>1, <1>4
  <2> QED
    BY <1>1, <2>1, <2>2 DEF Precedes
<1> QED
  BY <1>3, <1>4, <1>5

LEMMA ForwardToLoadIInv ==
    ASSUME IInv, pc = "inner", NEW R \in Block, IsNext(R, j, Block), ForwardToLoad(R)
    PROVE  IInv'
<1> DEFINE v == StoredValue(code[i])
<1>1. /\ LoadsBack(code, R, i)
      /\ code' = ReplaceAllUsesWith(code, R, v)
      /\ worklist' = worklist \cup {R}
      /\ CSELdStElim' = CSELdStElim + 1
      /\ j' = R
      /\ UNCHANGED <<source, bb, pc, i, CSERStElim>>
  BY DEF ForwardToLoad
<1>2. /\ v \in Value /\ v \in Range(code[i].args) /\ R # v
      /\ v \in Inst => /\ v \in DOMAIN code /\ YieldsValue(code[v])
                       /\ code[v].fn = code[R].fn /\ Precedes(code, v, R, SDom)
  BY <1>1, ForwardedValue
<1> HIDE DEF v
<1>3. /\ WellFormed(code) /\ DefsBeforeUses(code, SDom) /\ MemoryShaped(code)
      /\ StrictOrder(SDom) /\ R \in DOMAIN code /\ i \in DOMAIN code
  BY ProgramsAssumption DEF IInv, TypeOK, DominanceKept, CursorInv, Block, InstsOfBlock
<1>4. WellFormed(code') /\ DefsBeforeUses(code', SDom) /\ MemoryShaped(code')
  BY <1>1, <1>2, <1>3, ReplaceKeepsSSA
<1>5. SameShape(code, code')
  BY <1>1, <1>2, <1>3, ReplaceEffect
<1>6. Block' = Block /\ \A k \in Block : k \in DOMAIN code /\ code'[k].op = code[k].op
  BY <1>1, <1>5 DEF Block, InstsOfBlock, SameShape
<1>7. TypeOK'
  <2>1. R \in Nat
    BY <1>3, Positions
  <2> QED
    BY <1>1, <1>4, <1>5, <1>6, <2>1 DEF IInv, TypeOK, SameShape
<1>8. QueuedUnused'
  <2>1. ASSUME NEW w \in worklist PROVE w # v /\ Unused(code, w)
    BY <1>2, <1>3 DEF IInv, QueuedUnused, Unused, Users
  <2> QED
    BY <1>1, <1>2, <1>3, <2>1, ReplaceUsers DEF QueuedUnused
<1>9. /\ Block \subseteq Nat /\ i \in Block /\ i \in Nat /\ j \in Nat /\ worklist \subseteq Block
      /\ IsStore(code[i]) /\ i <= j /\ ~IsStore(code[R]) /\ j < R
  BY <1>1, Positions DEF IInv, TypeOK, CursorInv, LoadsBack, IsLoad, IsStore, IsNext
<1>10. CursorInv'
  <2>1. ASSUME NEW k \in Block, i < k, k <= R PROVE ~IsStore(code[k])
    <3>1. k <= j \/ k = R
      BY <1>9, <2>1 DEF IsNext
    <3> QED
      BY <1>9, <2>1, <3>1 DEF IInv, CursorInv
  <2> QED
    BY <1>1, <1>6, <1>9, <2>1 DEF CursorInv, IsStore
<1>11. QueueBehind'
  BY <1>1, <1>6, <1>9 DEF IInv, QueueBehind
<1>12. CountInv'
  <2>1. R \notin worklist
    BY <1>9 DEF IInv, QueueBehind
  <2>2. Cardinality(worklist') = Cardinality(worklist) + 1
    BY <1>1, <2>1, FiniteSets, FS_AddElement
  <2> QED
    BY <1>1, <1>5, <2>2, FiniteSets DEF IInv, CountInv, SameShape, TypeOK
<1> QED
  BY <1>1, <1>4, <1>7, <1>8, <1>10, <1>11, <1>12 DEF IInv, DominanceKept, PhaseInv

LEMMA QueueStoreIInv ==
    ASSUME IInv, pc = "inner", NEW R \in Block, QueueStore(R)
    PROVE  IInv'
<1>1. /\ worklist' = worklist \cup {i} /\ CSERStElim' = CSERStElim + 1 /\ pc' = "outer"
      /\ UNCHANGED <<source, code, bb, i, j, CSELdStElim>>
  BY DEF QueueStore
<1>2. i \in Block /\ i \in Nat /\ IsStore(code[i]) /\ worklist \subseteq Block /\ Block \subseteq Nat
  BY Positions DEF IInv, TypeOK, CursorInv
<1>3. TypeOK'
  BY <1>1, <1>2 DEF IInv, TypeOK, Block
<1>4. QueueBehind' /\ CursorInv'
  BY <1>1, SearchOver
<1>5. QueuedUnused'
  <2>1. \A k \in DOMAIN code : i \notin Range(code[k].args)
    BY <1>2 DEF IInv, TypeOK, WellFormed, YieldsValue, IsStore, Block, InstsOfBlock
  <2> QED
    BY <1>1, <2>1 DEF IInv, QueuedUnused, Unused, Users
<1>6. CountInv'
  <2>1. i \notin worklist
    BY <1>2 DEF IInv, QueueBehind
  <2>2. Cardinality(worklist') = Cardinality(worklist) + 1
    BY <1>1, <2>1, FiniteSets, FS_AddElement
  <2> QED
    BY <1>1, <2>2, FiniteSets DEF IInv, CountInv, TypeOK
<1> QED
  BY <1>1, <1>3, <1>4, <1>5, <1>6 DEF IInv, DominanceKept, PhaseInv

LEMMA EraseQueuedIInv == IInv /\ EraseQueued => IInv'
<1> SUFFICES ASSUME IInv, EraseQueued PROVE IInv'
  OBVIOUS
<1>1. PICK w \in worklist : worklist' = worklist \ {w} /\ code' = Erase(code, w)
  BY DEF EraseQueued
<1>2. pc = "drain" /\ UNCHANGED <<source, bb, pc, i, j, CSELdStElim, CSERStElim>>
  BY DEF EraseQueued
<1>3. w \in DOMAIN code /\ Unused(code, w)
  BY DEF IInv, TypeOK, QueuedUnused, Block, InstsOfBlock
<1>4. WellFormed(code') /\ DefsBeforeUses(code', SDom) /\ MemoryShaped(code')
  BY <1>1, <1>3, EraseUnused DEF IInv, TypeOK, DominanceKept
<1>5. DOMAIN code' = DOMAIN code \ {w} /\ \A k \in DOMAIN code' : code'[k] = code[k]
  BY <1>1, EraseEffect
<1>6. TypeOK'
  BY <1>1, <1>2, <1>4, <1>5 DEF IInv, TypeOK, Block, InstsOfBlock
<1>7. QueuedUnused'
  BY <1>1, <1>5 DEF IInv, QueuedUnused, Unused, Users
<1>8. CountInv'
  <2>1. /\ Cardinality(worklist') = Cardinality(worklist) - 1
        /\ Cardinality(DOMAIN code') = Cardinality(DOMAIN code) - 1
    BY <1>1, <1>3, <1>5, FiniteSets, FS_RemoveElement
  <2> QED
    BY <1>2, <2>1, FiniteSets DEF IInv, CountInv, TypeOK
<1>9. CursorInv' /\ QueueBehind'
  BY <1>2 DEF CursorInv, QueueBehind
<1> QED
  BY <1>2, <1>4, <1>6, <1>7, <1>8, <1>9 DEF IInv, DominanceKept, PhaseInv

LEMMA NextBlockIInv == IInv /\ NextBlock => IInv'
<1> SUFFICES ASSUME IInv, NextBlock PROVE IInv'
  OBVIOUS
<1> USE DEF NextBlock, IInv
<1>1. bb \in 1..NumBlocks /\ NumBlocks \in Nat
  BY ProgramsAssumption DEF PhaseInv
<1>2. TypeOK' /\ PhaseInv'
  BY <1>1 DEF TypeOK, PhaseInv
<1>3. MemoryShaped(code') /\ DominanceKept' /\ QueuedUnused' /\ CountInv'
  BY DEF DominanceKept, QueuedUnused, CountInv
<1>4. CursorInv' /\ QueueBehind'
  BY DEF CursorInv, QueueBehind
<1> QED
  BY <1>2, <1>3, <1>4

LEMMA NextIInv == IInv /\ [Next]_vars => IInv'
<1> SUFFICES ASSUME IInv, [Next]_vars PROVE IInv'
  OBVIOUS
<1>1. CASE Visit
  BY <1>1, VisitIInv
<1>2. CASE BlockEnd
  BY <1>2, BlockEndIInv
<1>3. CASE Compare
  BY <1>3, ForwardToLoadIInv, QueueStoreIInv, StopAtSideEffectIInv, PassOverIInv DEF Compare
<1>4. CASE InnerEnd
  BY <1>4, InnerEndIInv
<1>5. CASE EraseQueued
  BY <1>5, EraseQueuedIInv
<1>6. CASE NextBlock
  BY <1>6, NextBlockIInv
<1>7. CASE UNCHANGED vars
  BY <1>7 DEF vars, IInv, TypeOK, DominanceKept, QueuedUnused, CursorInv,
              QueueBehind, CountInv, Block, PhaseInv
<1> QED
  BY <1>1, <1>2, <1>3, <1>4, <1>5, <1>6, <1>7 DEF Next

(* IInv holds in every state of every execution of store_cse.               *)
THEOREM Invariance == Spec => []IInv
  BY InitIInv, NextIInv, PTL DEF Spec

-----------------------------------------------------------------------------
(* store_cse keeps the module well formed: in particular nothing it leaves   *)
(* has an erased operand, and its queue never outlives its block.            *)
THEOREM TypeCorrect == Spec => []TypeOK
<1>1. IInv => TypeOK
  BY DEF IInv
<1> QED
  BY <1>1, Invariance, PTL

(* Everything store_cse erases without a test has no uses.                  *)
THEOREM ErasesUnused == Spec => []QueuedUnused
<1>1. IInv => QueuedUnused
  BY DEF IInv
<1> QED
  BY <1>1, Invariance, PTL

(* store_cse keeps the SSA rule.                                            *)
THEOREM KeepsDominance == Spec => []DominanceKept
<1>1. IInv => DominanceKept
  BY DEF IInv
<1> QED
  BY <1>1, Invariance, PTL

(* The two printed counters add up to the instructions erased.              *)
THEOREM CountIsExact == Spec => []CountsErased
<1>1. IInv => CountsErased
  <2> SUFFICES ASSUME IInv, pc = "done"
               PROVE  CSELdStElim + CSERStElim = Cardinality(DOMAIN source) - Cardinality(DOMAIN code)
    BY DEF CountsErased
  <2>1. Cardinality(worklist) = 0
    BY FS_EmptySet DEF IInv, PhaseInv
  <2> QED
    BY <2>1, FiniteSets DEF IInv, CountInv, TypeOK
<1> QED
  BY <1>1, Invariance, PTL

-----------------------------------------------------------------------------
(* What store_cse leaves.  A store that has been searched and is not queued *)
(* reaches nothing it could forward to, where what is queued no longer      *)
(* stands in the way: the only queued instructions with a side effect are   *)
(* loads forwarded by a later store, which still stands between, and        *)
(* overwritten stores, whose place the store that overwrites them takes.    *)

\* Instructions change their operands only.
OriginInv ==
    \A k \in DOMAIN code : /\ code[k].op = source[k].op /\ code[k].vol = source[k].vol
                           /\ code[k].bb = source[k].bb

BlocksInv ==
    /\ \A k \in DOMAIN code : code[k].bb \in 1..NumBlocks
    /\ pc = "done" => bb = NumBlocks + 1

\* What the search of a store has gone past.
PassedInv ==
    pc = "inner" =>
        \A k \in Block : i < k /\ k <= j => ~has_sideeffect(code[k]) \/ k \in worklist

\* Nothing with a side effect stands between S and R, but for what is queued.
Clear(S, R) ==
    /\ S < R
    /\ code[S].bb = code[R].bb
    /\ \A k \in DOMAIN code : S < k /\ k < R /\ code[k].bb = code[S].bb
          => ~has_sideeffect(code[k]) \/ k \in worklist

\* S could still forward to R, or be erased for it.
Left(S, R) ==
    /\ IsStore(code[S])
    /\ S \notin worklist /\ R \notin worklist
    /\ Clear(S, R)
    /\ ~VolatileStoreBetween(S, R)
    /\ LoadsBack(code, R, S) \/ Overwrites(code, R, S)

\* The search of S is over.
Searched(S) ==
    \/ code[S].bb < bb
    \/ code[S].bb = bb /\ (pc = "drain" \/ S < i \/ (S = i /\ pc = "outer"))

SearchedInv == \A S, R \in DOMAIN code : Searched(S) => ~Left(S, R)

ResultInv ==
    /\ OriginInv
    /\ BlocksInv
    /\ PassedInv
    /\ LayoutFollows(SDom) => SearchedInv

-----------------------------------------------------------------------------
LEMMA InitResult == Init => ResultInv
<1> SUFFICES ASSUME Init PROVE ResultInv
  OBVIOUS
<1>1. /\ WellFormed(source) /\ NumBlocks \in Nat
      /\ \A n \in DOMAIN source : source[n].bb \in 1..NumBlocks
  BY ProgramsAssumption DEF Init
<1>2. OriginInv /\ BlocksInv /\ PassedInv
  BY <1>1 DEF Init, OriginInv, BlocksInv, PassedInv
<1>3. SearchedInv
  <2> SUFFICES ASSUME NEW S \in DOMAIN code, Searched(S) PROVE FALSE
    BY DEF SearchedInv
  <2>1. S \in Nat \ {0} /\ code[S].bb \in 1..NumBlocks /\ bb = 1 /\ i = 0
    BY <1>1, InstAssumption DEF Init, WellFormed
  <2> QED
    BY <1>1, <2>1 DEF Init, Searched
<1> QED
  BY <1>2, <1>3 DEF ResultInv

\* The types the comparison of positions and blocks needs.
LEMMA Numbers ==
    ASSUME IInv, ResultInv
    PROVE  /\ DOMAIN code \subseteq Nat \ {0} /\ i \in Nat /\ j \in Nat
           /\ bb \in Nat /\ NumBlocks \in Nat
           /\ \A k \in DOMAIN code : code[k].bb \in Nat
           /\ \A k \in Block : k \in DOMAIN code /\ code[k].bb = bb
           /\ \A k \in DOMAIN code : code[k].bb = bb => k \in Block
           /\ worklist \subseteq Block
  BY InstAssumption, ProgramsAssumption
     DEF IInv, ResultInv, TypeOK, WellFormed, BlocksInv, Block, InstsOfBlock

\* Steps that only move the cursors: what they make searched has nothing left.
LEMMA CursorResult ==
    ASSUME IInv, ResultInv, UNCHANGED <<source, code, worklist>>, PassedInv',
           pc' = "done" => bb' = NumBlocks + 1,
           \A S, R \in DOMAIN code : Searched(S)' /\ Left(S, R) => Searched(S)
    PROVE  ResultInv'
<1>1. \A S, R : Left(S, R)' => Left(S, R)
  BY DEF Left, Clear, LoadsBack, Overwrites, VolatileStoreBetween
<1>2. LayoutFollows(SDom) => SearchedInv'
  BY <1>1 DEF ResultInv, SearchedInv
<1>3. OriginInv' /\ BlocksInv'
  BY DEF ResultInv, OriginInv, BlocksInv
<1> QED
  BY <1>2, <1>3 DEF ResultInv

LEMMA VisitResult == IInv /\ ResultInv /\ Visit => ResultInv'
<1> SUFFICES ASSUME IInv, ResultInv, Visit PROVE ResultInv'
  OBVIOUS
<1>1. PICK n \in Block : /\ IsNext(n, i, Block) /\ i' = n /\ j' = n
                         /\ pc' = IF IsStore(code[n]) THEN "inner" ELSE "outer"
  BY DEF Visit
<1>2. pc = "outer" /\ UNCHANGED <<source, code, bb, worklist>>
  BY DEF Visit
<1>3. ASSUME NEW S \in DOMAIN code, NEW R \in DOMAIN code, Searched(S)', Left(S, R)
      PROVE  Searched(S)
  <2>1. S # n
    BY <1>1, <1>2, <1>3, Numbers DEF Searched, Left
  <2>2. code[S].bb = bb => S <= i
    BY <1>1, <1>2, <1>3, <2>1, Numbers DEF Searched, IsNext
  <2> QED
    BY <1>1, <1>2, <1>3, <2>2, Numbers DEF Searched
<1>4. PassedInv'
  BY <1>1, <1>2, Numbers DEF PassedInv, Block
<1> QED
  BY <1>1, <1>2, <1>3, <1>4, CursorResult

LEMMA BlockEndResult == IInv /\ ResultInv /\ BlockEnd => ResultInv'
<1> SUFFICES ASSUME IInv, ResultInv, BlockEnd PROVE ResultInv'
  OBVIOUS
<1>1. /\ pc = "outer" /\ IsLast(i, Block) /\ pc' = "drain"
      /\ UNCHANGED <<source, code, bb, i, j, worklist>>
  BY DEF BlockEnd
<1>2. ASSUME NEW S \in DOMAIN code, Searched(S)' PROVE Searched(S)
  BY <1>1, <1>2, Numbers DEF Searched, IsLast
<1> QED
  BY <1>1, <1>2, CursorResult DEF PassedInv

\* What the store at i could forward to, or be erased for, is ahead of the
\* cursor, and nothing with a side effect is before it.
LEMMA LeftAhead ==
    ASSUME IInv, ResultInv, pc = "inner", NEW R \in DOMAIN code, Left(i, R)
    PROVE  /\ R \in Block /\ j < R
           /\ \A k \in Block : j < k /\ k < R => ~has_sideeffect(code[k])
<1>1. i \in Block /\ code[i].bb = bb /\ i <= j /\ i \in Nat /\ j \in Nat /\ Block \subseteq Nat
  BY Numbers DEF IInv, CursorInv
<1>2. R \in Block /\ i < R /\ R \notin worklist
  BY <1>1, Numbers DEF Left, Clear
<1>3. has_sideeffect(code[R])
  BY DEF Left, LoadsBack, Overwrites, IsLoad, IsStore, has_sideeffect
<1>4. j < R
  <2>1. ~(R <= j)
    BY <1>2, <1>3 DEF ResultInv, PassedInv
  <2>2. R \in Nat /\ j \in Nat
    BY <1>1, <1>2
  <2> QED
    BY <2>1, <2>2
<1>5. ASSUME NEW k \in Block, j < k, k < R PROVE ~has_sideeffect(code[k])
  <2>1. k \notin worklist
    BY <1>1, <1>5 DEF IInv, QueueBehind
  <2> QED
    BY <1>1, <1>2, <1>5, <2>1, Numbers DEF Left, Clear
<1> QED
  BY <1>2, <1>4, <1>5

LEMMA StopAtSideEffectResult ==
    ASSUME IInv, ResultInv, pc = "inner",
           NEW Q \in Block, IsNext(Q, j, Block), StopAtSideEffect(Q)
    PROVE  ResultInv'
<1>1. /\ ~LoadsBack(code, Q, i) /\ ~Overwrites(code, Q, i) /\ has_sideeffect(code[Q])
      /\ pc' = "outer" /\ UNCHANGED <<source, code, bb, i, j, worklist>>
  BY DEF StopAtSideEffect
<1>2. ASSUME NEW R \in DOMAIN code PROVE ~Left(i, R)
  <2> SUFFICES ASSUME Left(i, R) PROVE FALSE
    OBVIOUS
  <2>1. R \in Block /\ j < R /\ \A k \in Block : j < k /\ k < R => ~has_sideeffect(code[k])
    BY LeftAhead
  <2>2. Q <= R /\ j < Q /\ Q \in Nat /\ R \in Nat
    BY <2>1, Numbers DEF IsNext
  <2>3. Q = R
    BY <1>1, <2>1, <2>2
  <2> QED
    BY <1>1, <2>3 DEF Left
<1>3. ASSUME NEW S \in DOMAIN code, NEW R \in DOMAIN code, Searched(S)', Left(S, R)
      PROVE  Searched(S)
  BY <1>1, <1>2, <1>3 DEF Searched
<1> QED
  BY <1>1, <1>3, CursorResult DEF PassedInv

LEMMA InnerEndResult == IInv /\ ResultInv /\ InnerEnd => ResultInv'
<1> SUFFICES ASSUME IInv, ResultInv, InnerEnd PROVE ResultInv'
  OBVIOUS
<1>1. /\ pc = "inner" /\ IsLast(j, Block) /\ pc' = "outer"
      /\ UNCHANGED <<source, code, bb, i, j, worklist>>
  BY DEF InnerEnd
<1>2. ASSUME NEW S \in DOMAIN code, NEW R \in DOMAIN code, Searched(S)', Left(S, R)
      PROVE  Searched(S)
  <2>1. S # i
    BY <1>1, <1>2, LeftAhead, Numbers DEF IsLast
  <2> QED
    BY <1>1, <1>2, <2>1 DEF Searched
<1> QED
  BY <1>1, <1>2, CursorResult DEF PassedInv

LEMMA PassOverResult ==
    ASSUME IInv, ResultInv, pc = "inner", NEW Q \in Block, IsNext(Q, j, Block), PassOver(Q)
    PROVE  ResultInv'
<1>1. /\ ~has_sideeffect(code[Q]) /\ j' = Q
      /\ UNCHANGED <<source, code, bb, pc, i, worklist>>
  BY DEF PassOver
<1>2. PassedInv'
  <2> SUFFICES ASSUME NEW k \in Block, i < k, k <= Q
               PROVE  ~has_sideeffect(code[k]) \/ k \in worklist
    BY <1>1 DEF PassedInv, Block
  <2>1. k <= j \/ k = Q
    BY Numbers DEF IsNext
  <2> QED
    BY <1>1, <2>1 DEF ResultInv, PassedInv
<1> QED
  BY <1>1, <1>2, CursorResult DEF Searched, ResultInv, BlocksInv

\* A store already searched, and what may be left to it, do not read their
\* addresses from an instruction after i.
LEMMA OperandsSettled ==
    ASSUME IInv, ResultInv, LayoutFollows(SDom), NEW L \in DOMAIN code, code[L].op # "phi",
           code[L].bb < bb \/ (code[L].bb = bb /\ L <= i),
           NEW x \in Block, i < x
    PROVE  x \notin Range(code[L].args)
<1> SUFFICES ASSUME x \in Range(code[L].args) PROVE FALSE
  OBVIOUS
<1>1. x \in OperandInsts(code, L) /\ x \in DOMAIN code /\ code[x].bb = bb
  BY DEF IInv, TypeOK, WellFormed, Block, InstsOfBlock, OperandInsts
<1>2. Precedes(code, x, L, SDom)
  BY <1>1 DEF IInv, DominanceKept, DefsBeforeUses
<1>3. code[L].bb < code[x].bb => <<code[x].bb, code[L].bb>> \notin SDom
  BY <1>1, Numbers DEF LayoutFollows
<1>4. <<bb, bb>> \notin SDom
  BY ProgramsAssumption DEF StrictOrder
<1> QED
  BY <1>1, <1>2, <1>3, <1>4, Numbers DEF Precedes

LEMMA ForwardToLoadResult ==
    ASSUME IInv, ResultInv, pc = "inner",
           NEW Q \in Block, IsNext(Q, j, Block), ForwardToLoad(Q)
    PROVE  ResultInv'
<1> DEFINE v == StoredValue(code[i])
<1>1. /\ LoadsBack(code, Q, i)
      /\ code' = ReplaceAllUsesWith(code, Q, v)
      /\ worklist' = worklist \cup {Q}
      /\ j' = Q
      /\ UNCHANGED <<source, bb, pc, i>>
  BY DEF ForwardToLoad
<1>2. v \in Value
  BY <1>1, ForwardedValue
<1> HIDE DEF v
<1>3. /\ i \in Block /\ i \in DOMAIN code /\ code[i].bb = bb /\ i <= j /\ j < Q /\ i < Q
      /\ IsStore(code[i]) /\ WellFormed(code) /\ Q \in Nat /\ Q \in DOMAIN code
  BY Numbers DEF IInv, TypeOK, CursorInv, IsNext
<1>4. SameShape(code, code') /\ code' \in [DOMAIN code -> Instruction]
  BY <1>1, <1>2, <1>3, ReplaceEffect
<1>5. OriginInv' /\ BlocksInv'
  BY <1>1, <1>4 DEF ResultInv, OriginInv, BlocksInv, SameShape
<1>6. Block' = Block /\ \A k \in Block : has_sideeffect(code'[k]) = has_sideeffect(code[k])
  BY <1>1, <1>4 DEF Block, InstsOfBlock, SameShape, has_sideeffect
<1>7. PassedInv'
  <2> SUFFICES ASSUME NEW k \in Block, i < k, k <= Q
               PROVE  ~has_sideeffect(code[k]) \/ k \in worklist'
    BY <1>1, <1>6 DEF PassedInv
  <2>1. k <= j \/ k = Q
    BY Numbers DEF IsNext
  <2> QED
    BY <1>1, <1>3, <2>1 DEF ResultInv, PassedInv
\* The store i, which is not queued, stands between Q and the stores searched.
<1>8. ASSUME LayoutFollows(SDom), NEW S \in DOMAIN code, NEW R \in DOMAIN code,
             Searched(S)', Left(S, R)'
      PROVE  Searched(S) /\ Left(S, R)
  <2>1. Searched(S) /\ (code[S].bb < bb \/ (code[S].bb = bb /\ S < i))
    BY <1>1, <1>3, <1>4, <1>8 DEF Searched, SameShape
  <2>2. S < R /\ code[S].bb = code[R].bb /\ IsStore(code[S])
        /\ S \notin worklist /\ R \notin worklist /\ ~VolatileStoreBetween(S, R)
    BY <1>1, <1>4, <1>8 DEF Left, Clear, SameShape, IsStore, VolatileStoreBetween
  <2>3. i \notin worklist /\ i # Q
    BY <1>3, Numbers DEF IInv, QueueBehind
  <2>4. code[R].bb < bb \/ (code[R].bb = bb /\ R <= i)
    <3> SUFFICES ASSUME code[S].bb = bb, ~(R <= i) PROVE FALSE
      BY <2>1, <2>2
    <3>1. S < i /\ i < R
      BY <1>3, <2>1, Numbers
    <3>2. ~has_sideeffect(code'[i]) \/ i \in worklist'
      BY <1>3, <1>4, <1>8, <3>1 DEF Left, Clear, SameShape
    <3>3. has_sideeffect(code'[i])
      BY <1>3, <1>6 DEF has_sideeffect, IsStore
    <3> QED
      BY <1>1, <2>3, <3>2, <3>3
  <2>5. Clear(S, R)
    <3> SUFFICES ASSUME NEW k \in DOMAIN code, S < k, k < R, code[k].bb = code[S].bb
                 PROVE  ~has_sideeffect(code[k]) \/ k \in worklist
      BY <2>2 DEF Clear
    <3>1. k # Q
      BY <1>3, <2>2, <2>4, Numbers
    <3>2. has_sideeffect(code'[k]) = has_sideeffect(code[k])
      BY <1>4 DEF SameShape, has_sideeffect
    <3>3. ~has_sideeffect(code'[k]) \/ k \in worklist'
      BY <1>4, <1>8 DEF Left, Clear, SameShape
    <3> QED
      BY <1>1, <3>1, <3>2, <3>3
  <2>6. code[S].op # "phi" /\ code[R].op # "phi"
    BY <1>4, <1>8, <2>2 DEF Left, LoadsBack, Overwrites, IsStore, IsLoad, SameShape
  <2>7. Q \notin Range(code[S].args) /\ Q \notin Range(code[R].args)
    <3>1. code[S].bb < bb \/ (code[S].bb = bb /\ S <= i)
      BY <1>3, <2>1, Numbers
    <3> QED
      BY <1>3, <1>8, <2>4, <2>6, <3>1, OperandsSettled
  <2>8. code'[S].args = code[S].args /\ code'[R].args = code[R].args
    BY <1>1, <1>2, <1>3, <2>7, ReplaceNothing
  <2>9. LoadsBack(code, R, S) \/ Overwrites(code, R, S)
    BY <1>4, <1>8, <2>8 DEF Left, LoadsBack, Overwrites, Address, IsLoad, IsStore, SameShape
  <2> QED
    BY <2>1, <2>2, <2>5, <2>9 DEF Left
<1>9. LayoutFollows(SDom) => SearchedInv'
  BY <1>4, <1>8 DEF ResultInv, SearchedInv, SameShape
<1> QED
  BY <1>1, <1>5, <1>7, <1>9 DEF ResultInv

\* The store i goes, but Q takes its place: between the two only what is
\* queued has side effects, and what i did not overwrite Q does not either.
LEMMA QueueStoreResult ==
    ASSUME IInv, ResultInv, pc = "inner",
           NEW Q \in Block, IsNext(Q, j, Block), QueueStore(Q)
    PROVE  ResultInv'
<1>1. /\ Overwrites(code, Q, i) /\ worklist' = worklist \cup {i} /\ pc' = "outer"
      /\ UNCHANGED <<source, code, bb, i, j>>
  BY DEF QueueStore
<1>2. /\ i \in Block /\ i \in DOMAIN code /\ code[i].bb = bb /\ i <= j /\ j < Q /\ i < Q
      /\ IsStore(code[i]) /\ Q \in Nat /\ Q \in DOMAIN code /\ code[Q].bb = bb
      /\ i \notin worklist /\ Q \notin worklist
  BY Numbers DEF IInv, TypeOK, CursorInv, QueueBehind, IsNext
<1>3. ASSUME LayoutFollows(SDom), NEW S \in DOMAIN code, NEW R \in DOMAIN code,
             Searched(S)', Left(S, R)'
      PROVE  FALSE
  <2>1. Searched(S) /\ (code[S].bb < bb \/ (code[S].bb = bb /\ S < i))
    BY <1>1, <1>2, <1>3 DEF Searched, Left
  <2>2. /\ IsStore(code[S]) /\ S \notin worklist /\ R \notin worklist /\ R # i
        /\ S < R /\ code[S].bb = code[R].bb
        /\ ~VolatileStoreBetween(S, R) /\ (LoadsBack(code, R, S) \/ Overwrites(code, R, S))
        /\ \A k \in DOMAIN code : S < k /\ k < R /\ code[k].bb = code[S].bb
              => ~has_sideeffect(code[k]) \/ k \in worklist \/ k = i
    BY <1>1, <1>3 DEF Left, Clear, VolatileStoreBetween, LoadsBack, Overwrites
  <2>3. ~Left(S, R)
    BY <1>3, <2>1 DEF ResultInv, SearchedInv
  <2>4. code[S].bb = bb /\ S < i /\ i < R
    BY <2>1, <2>2, <2>3, <1>2, Numbers DEF Left, Clear
  <2>5. Left(S, i)
    <3>1. Clear(S, i)
      BY <1>2, <2>2, <2>4, Numbers DEF Clear
    <3>2. ~VolatileStoreBetween(S, i)
      BY <2>2, <2>4, <1>2, Numbers, InstAssumption DEF VolatileStoreBetween, IInv, WellFormed
    <3>3. R = Q
      <4>1. has_sideeffect(code[R]) /\ has_sideeffect(code[Q])
        BY <1>1, <2>2 DEF LoadsBack, Overwrites, IsLoad, IsStore, has_sideeffect
      <4>2. ~(R <= j)
        BY <2>2, <2>4, <4>1, Numbers DEF ResultInv, PassedInv
      <4>3. Q <= R
        <5>1. R \in Block /\ R \in Nat /\ j \in Nat
          BY <2>2, <2>4, Numbers
        <5> QED
          BY <4>2, <5>1 DEF IsNext
      <4>4. ~(Q < R)
        BY <1>2, <2>2, <2>4, <4>1, Numbers
      <4> QED
        BY <1>2, <4>3, <4>4, Numbers
    <3>4. Address(code[S]) = Address(code[i])
      BY <1>1, <2>2, <3>3 DEF LoadsBack, Overwrites, IsLoad, IsStore
    <3>5. ~code[i].vol
      <4>1. i \in DOMAIN source /\ source[i].bb = source[S].bb
            /\ IsStore(source[i]) /\ source[i].vol = code[i].vol
        BY <1>2, <2>4 DEF ResultInv, OriginInv, IInv, TypeOK, IsStore
      <4> QED
        BY <2>2, <2>4, <4>1 DEF VolatileStoreBetween
    <3> QED
      BY <1>2, <2>2, <3>1, <3>2, <3>4, <3>5 DEF Left, Overwrites
  <2> QED
    BY <1>2, <1>3, <2>1, <2>5 DEF ResultInv, SearchedInv
<1>4. LayoutFollows(SDom) => SearchedInv'
  BY <1>1, <1>3 DEF SearchedInv
<1>5. OriginInv' /\ BlocksInv' /\ PassedInv'
  BY <1>1 DEF ResultInv, OriginInv, BlocksInv, PassedInv
<1> QED
  BY <1>1, <1>4, <1>5 DEF ResultInv

LEMMA EraseQueuedResult == IInv /\ ResultInv /\ EraseQueued => ResultInv'
<1> SUFFICES ASSUME IInv, ResultInv, EraseQueued PROVE ResultInv'
  OBVIOUS
<1>1. PICK w \in worklist : worklist' = worklist \ {w} /\ code' = Erase(code, w)
  BY DEF EraseQueued
<1>2. pc = "drain" /\ UNCHANGED <<source, bb, pc, i, j>>
  BY DEF EraseQueued
<1>3. DOMAIN code' = DOMAIN code \ {w} /\ \A k \in DOMAIN code' : code'[k] = code[k]
  BY <1>1, EraseEffect
<1>4. OriginInv' /\ BlocksInv' /\ PassedInv'
  BY <1>2, <1>3 DEF ResultInv, OriginInv, BlocksInv, PassedInv
<1>5. ASSUME NEW S \in DOMAIN code', NEW R \in DOMAIN code', Searched(S)', Left(S, R)'
      PROVE  Searched(S) /\ Left(S, R)
  <2>1. Searched(S)
    BY <1>2, <1>3, <1>5 DEF Searched
  <2>2. /\ code'[S] = code[S] /\ code'[R] = code[R]
        /\ S \in DOMAIN code /\ R \in DOMAIN code /\ S # w /\ R # w
    BY <1>3
  <2>3. Clear(S, R)
    <3> SUFFICES ASSUME NEW k \in DOMAIN code, S < k, k < R, code[k].bb = code[S].bb, k # w
                 PROVE  ~has_sideeffect(code[k]) \/ k \in worklist
      BY <1>5, <2>2 DEF Left, Clear
    <3> QED
      BY <1>1, <1>3, <1>5, <2>2 DEF Left, Clear
  <2>4. IsStore(code[S]) /\ ~VolatileStoreBetween(S, R)
        /\ (LoadsBack(code, R, S) \/ Overwrites(code, R, S))
    BY <1>2, <1>5, <2>2 DEF Left, LoadsBack, Overwrites, VolatileStoreBetween
  <2>5. S \notin worklist /\ R \notin worklist
    BY <1>1, <1>5, <2>2 DEF Left
  <2> QED
    BY <2>1, <2>3, <2>4, <2>5 DEF Left
<1>6. LayoutFollows(SDom) => SearchedInv'
  BY <1>3, <1>5 DEF ResultInv, SearchedInv
<1> QED
  BY <1>2, <1>4, <1>6 DEF ResultInv

LEMMA NextBlockResult == IInv /\ ResultInv /\ NextBlock => ResultInv'
<1> SUFFICES ASSUME IInv, ResultInv, NextBlock PROVE ResultInv'
  OBVIOUS
<1>1. /\ pc = "drain" /\ bb' = bb + 1 /\ i' = 0
      /\ pc' = IF bb = NumBlocks THEN "done" ELSE "outer"
      /\ UNCHANGED <<source, code, worklist>>
  BY DEF NextBlock
<1>2. ASSUME NEW S \in DOMAIN code, Searched(S)' PROVE Searched(S)
  <2>1. S > 0 /\ code[S].bb <= bb
    BY <1>1, <1>2, Numbers DEF Searched
  <2> QED
    BY <1>1, <2>1, Numbers DEF Searched
<1> QED
  BY <1>1, <1>2, CursorResult DEF PassedInv

LEMMA NextResult == IInv /\ ResultInv /\ [Next]_vars => ResultInv'
<1> SUFFICES ASSUME IInv, ResultInv, [Next]_vars PROVE ResultInv'
  OBVIOUS
<1>1. CASE Visit
  BY <1>1, VisitResult
<1>2. CASE BlockEnd
  BY <1>2, BlockEndResult
<1>3. CASE Compare
  BY <1>3, ForwardToLoadResult, QueueStoreResult, StopAtSideEffectResult, PassOverResult
     DEF Compare
<1>4. CASE InnerEnd
  BY <1>4, InnerEndResult
<1>5. CASE EraseQueued
  BY <1>5, EraseQueuedResult
<1>6. CASE NextBlock
  BY <1>6, NextBlockResult
<1>7. CASE UNCHANGED vars
  <2>1. UNCHANGED <<source, code, bb, pc, i, j, worklist>>
    BY <1>7 DEF vars
  <2> QED
    BY <2>1, CursorResult DEF ResultInv, PassedInv, BlocksInv, Block, Searched
<1> QED
  BY <1>1, <1>2, <1>3, <1>4, <1>5, <1>6, <1>7 DEF Next

(* ResultInv holds in every state of every execution of store_cse.          *)
THEOREM ResultInvariance == Spec => []ResultInv
<1>1. Spec => [](IInv /\ ResultInv)
  BY InitIInv, InitResult, NextIInv, NextResult, PTL DEF Spec
<1> QED
  BY <1>1, PTL

(* When store_cse returns nothing is left to forward and no store is left    *)
(* that the next side effect of its block overwrites: one pass is enough.   *)
THEOREM OnePassIsEnough == Spec => []NothingLeftToForward
<1>1. IInv /\ ResultInv => NothingLeftToForward
  <2> SUFFICES ASSUME IInv, ResultInv, LayoutFollows(SDom), pc = "done",
                      NEW S \in DOMAIN code, NEW R \in DOMAIN code, IsStore(code[S]),
                      Reaches(code, S, R), ~VolatileStoreBetween(S, R),
                      LoadsBack(code, R, S) \/ Overwrites(code, R, S)
               PROVE  FALSE
    BY DEF NothingLeftToForward
  <2>1. code[S].bb < bb
    BY Numbers DEF ResultInv, BlocksInv
  <2>2. worklist = {}
    BY DEF IInv, PhaseInv
  <2>3. Searched(S) /\ Left(S, R)
    BY <2>1, <2>2 DEF Searched, Left, Clear, Reaches
  <2> QED
    BY <2>3 DEF ResultInv, SearchedInv
<1> QED
  BY <1>1, Invariance, ResultInvariance, PTL

-----------------------------------------------------------------------------
(* Why what is seen stays the same: a load takes what the store before it    *)
(* wrote; and when a queued store is erased a later one of its block still  *)
(* overwrites it, with only queued loads and what has no side effect between *)
(* the two.  What overwrites it may be queued itself, and erased first: then *)
(* what overwrites that one does.                                           *)

QueuedLoads == {w \in worklist : IsLoad(code[w])}

Covers(o, w) ==
    /\ o \in DOMAIN code /\ w < o /\ code[o].bb = code[w].bb
    /\ IsStore(code[o]) /\ Address(code[o]) = Address(code[w])
    /\ \A k \in DOMAIN code : code[k].bb = code[w].bb /\ w < k /\ k < o
          => ~has_sideeffect(code[k]) \/ k \in QueuedLoads

CoveredInv ==
    \A w \in worklist :
        \/ IsLoad(code[w]) /\ ~code[w].vol
        \/ IsStore(code[w]) /\ \E o : Covers(o, w)

LEMMA InitCovered == Init => CoveredInv
  BY DEF Init, CoveredInv

\* The instructions of the block that the search has gone past.
LEMMA PassedBy ==
    ASSUME IInv, ResultInv, CoveredInv, pc = "inner", NEW R \in Block, IsNext(R, j, Block)
    PROVE  /\ i \in DOMAIN code /\ R \in DOMAIN code /\ i < R /\ i \in Nat /\ R \in Nat
           /\ code[i].bb = bb /\ code[R].bb = bb /\ IsStore(code[i])
           /\ \A k \in DOMAIN code : code[k].bb = bb /\ i < k /\ k < R
                 => /\ ~IsStore(code[k])
                    /\ ~has_sideeffect(code[k]) \/ k \in QueuedLoads
<1>1. i \in Block /\ IsStore(code[i]) /\ i <= j /\ j < R
  BY DEF IInv, CursorInv, IsNext
<1>2. ASSUME NEW k \in DOMAIN code, code[k].bb = bb, i < k, k < R
      PROVE  /\ ~IsStore(code[k])
             /\ ~has_sideeffect(code[k]) \/ k \in QueuedLoads
  <2>1. k \in Block /\ k \in Nat /\ j \in Nat /\ R \in Nat
    BY <1>2, Numbers
  <2>2. k <= j
    BY <1>2, <2>1 DEF IsNext
  <2>3. ~IsStore(code[k]) /\ (~has_sideeffect(code[k]) \/ k \in worklist)
    BY <1>2, <2>1, <2>2 DEF IInv, CursorInv, ResultInv, PassedInv
  <2> QED
    BY <2>3 DEF CoveredInv, QueuedLoads
<1> QED
  BY <1>1, <1>2, Numbers

LEMMA ForwardToLoadCovered ==
    ASSUME IInv, ResultInv, CoveredInv, pc = "inner",
           NEW R \in Block, IsNext(R, j, Block), ForwardToLoad(R)
    PROVE  CoveredInv'
<1> DEFINE v == StoredValue(code[i])
<1>1. /\ LoadsBack(code, R, i)
      /\ code' = ReplaceAllUsesWith(code, R, v)
      /\ worklist' = worklist \cup {R}
  BY DEF ForwardToLoad
<1>2. v \in Value /\ WellFormed(code) /\ R \in DOMAIN code /\ worklist \subseteq DOMAIN code
  BY <1>1, ForwardedValue DEF IInv, TypeOK, Block, InstsOfBlock
<1> HIDE DEF v
<1>3. SameShape(code, code') /\ \A k \in DOMAIN code : Replaced(code[k].args, code'[k].args, R, v)
  BY <1>1, <1>2, ReplaceEffect
<1>4. /\ DOMAIN code' = DOMAIN code
      /\ \A k \in DOMAIN code :
            /\ code'[k].op = code[k].op /\ code'[k].vol = code[k].vol
            /\ code'[k].bb = code[k].bb
            /\ IsLoad(code'[k]) = IsLoad(code[k]) /\ IsStore(code'[k]) = IsStore(code[k])
            /\ has_sideeffect(code'[k]) = has_sideeffect(code[k])
  BY <1>3 DEF SameShape, IsLoad, IsStore, has_sideeffect
<1>5. QueuedLoads \subseteq QueuedLoads'
  BY <1>1, <1>2, <1>4 DEF QueuedLoads
\* An address changes wherever it is used.
<1>6. ASSUME NEW k \in DOMAIN code, IsStore(code[k])
      PROVE  Address(code'[k]) = IF Address(code[k]) = R THEN v ELSE Address(code[k])
  <2>1. 2 \in 1..Len(code[k].args) /\ IsStore(code'[k])
    BY <1>4, <1>6 DEF IInv, MemoryShaped
  <2>2. Replaced(code[k].args, code'[k].args, R, v)
    BY <1>3
  <2>3. code'[k].args[2] = IF code[k].args[2] = R THEN v ELSE code[k].args[2]
    BY ONLY <2>1, <2>2, Zenon DEF Replaced
  <2> QED
    BY <1>6, <2>1, <2>3 DEF Address
<1>7. ASSUME NEW w \in worklist', ~(IsLoad(code'[w]) /\ ~code'[w].vol)
      PROVE  IsStore(code'[w]) /\ \E o : Covers(o, w)'
  <2>1. w \in worklist /\ w \in DOMAIN code
    BY <1>1, <1>2, <1>4, <1>7 DEF LoadsBack
  <2>2. IsStore(code[w]) /\ \E o : Covers(o, w)
    BY <1>4, <1>7, <2>1 DEF CoveredInv
  <2>3. PICK o : Covers(o, w)
    BY <2>2
  <2>4. /\ o \in DOMAIN code /\ w < o /\ code[o].bb = code[w].bb
        /\ IsStore(code[o]) /\ Address(code[o]) = Address(code[w])
        /\ \A k \in DOMAIN code : code[k].bb = code[w].bb /\ w < k /\ k < o
              => ~has_sideeffect(code[k]) \/ k \in QueuedLoads
    BY <2>3 DEF Covers
  <2>5. Address(code'[o]) = Address(code'[w])
    BY <1>6, <2>1, <2>2, <2>4
  <2>6. Covers(o, w)'
    BY <1>4, <1>5, <2>1, <2>4, <2>5 DEF Covers
  <2> QED
    BY <1>4, <2>1, <2>2, <2>6
<1> QED
  BY <1>7 DEF CoveredInv

LEMMA QueueStoreCovered ==
    ASSUME IInv, ResultInv, CoveredInv, pc = "inner",
           NEW R \in Block, IsNext(R, j, Block), QueueStore(R)
    PROVE  CoveredInv'
<1>1. Overwrites(code, R, i) /\ worklist' = worklist \cup {i} /\ code' = code
  BY DEF QueueStore
<1>2. Covers(R, i) /\ IsStore(code[i])
  BY <1>1, PassedBy DEF Covers, Overwrites
<1>3. QueuedLoads \subseteq QueuedLoads'
  BY <1>1 DEF QueuedLoads
<1>4. \A o, w : Covers(o, w) => Covers(o, w)'
  BY <1>1, <1>3 DEF Covers
<1> QED
  BY <1>1, <1>2, <1>4 DEF CoveredInv

LEMMA EraseQueuedCovered == IInv /\ ResultInv /\ CoveredInv /\ EraseQueued => CoveredInv'
<1> SUFFICES ASSUME IInv, ResultInv, CoveredInv, EraseQueued PROVE CoveredInv'
  OBVIOUS
<1>1. PICK x \in worklist : worklist' = worklist \ {x} /\ code' = Erase(code, x)
  BY DEF EraseQueued
<1>2. DOMAIN code' = DOMAIN code \ {x} /\ \A k \in DOMAIN code' : code'[k] = code[k]
  BY <1>1, EraseEffect
<1>3. worklist \subseteq DOMAIN code /\ DOMAIN code \subseteq Nat
  BY Numbers
<1>4. \A k \in QueuedLoads \ {x} : k \in QueuedLoads'
  BY <1>1, <1>2, <1>3 DEF QueuedLoads
<1>5. ASSUME NEW w, NEW o, w \in DOMAIN code', Covers(o, w), o # x PROVE Covers(o, w)'
  BY <1>2, <1>4, <1>5 DEF Covers
<1>6. ASSUME NEW w \in worklist', IsStore(code[w])
      PROVE  \E o : Covers(o, w)'
  <2>1. w \in worklist /\ w # x /\ w \in DOMAIN code'
    BY <1>1, <1>2, <1>3
  <2>2. PICK o : Covers(o, w)
    BY <1>6, <2>1 DEF CoveredInv, IsLoad, IsStore
  <2>3. CASE o # x
    BY <1>5, <2>1, <2>2, <2>3
  <2>4. CASE o = x
    <3>1. IsStore(code[x]) /\ x \in DOMAIN code
      BY <2>2, <2>4 DEF Covers
    <3>2. PICK p : Covers(p, x)
      BY <3>1 DEF CoveredInv, IsLoad, IsStore
    <3>3. /\ p \in DOMAIN code' /\ x < p /\ code[p].bb = code[x].bb
          /\ IsStore(code[p]) /\ Address(code[p]) = Address(code[x])
          /\ \A k \in DOMAIN code' : code[k].bb = code[x].bb /\ x < k /\ k < p
                => ~has_sideeffect(code[k]) \/ k \in QueuedLoads'
      BY <1>2, <1>3, <1>4, <3>2 DEF Covers
    <3>4. /\ w < x /\ code[x].bb = code[w].bb /\ Address(code[x]) = Address(code[w])
          /\ \A k \in DOMAIN code' : code[k].bb = code[w].bb /\ w < k /\ k < x
                => ~has_sideeffect(code[k]) \/ k \in QueuedLoads'
      BY <1>2, <1>4, <2>2, <2>4 DEF Covers
    <3>5. w < p
      BY <1>2, <1>3, <2>1, <3>3, <3>4
    <3>6. ASSUME NEW k \in DOMAIN code', code[k].bb = code[w].bb, w < k, k < p
          PROVE  ~has_sideeffect(code[k]) \/ k \in QueuedLoads'
      <4>1. k < x \/ x < k
        BY <1>2, <1>3, <3>6
      <4> QED
        BY <3>3, <3>4, <3>6, <4>1
    <3>7. Covers(p, w)'
      BY <1>2, <2>1, <3>3, <3>4, <3>5, <3>6 DEF Covers
    <3> QED
      BY <3>7
  <2> QED
    BY <2>3, <2>4
<1>7. \A w \in worklist' : w \in worklist /\ code'[w] = code[w]
  BY <1>1, <1>2, <1>3
<1> QED
  BY <1>6, <1>7 DEF CoveredInv

LEMMA NextCovered == IInv /\ ResultInv /\ CoveredInv /\ [Next]_vars => CoveredInv'
<1> SUFFICES ASSUME IInv, ResultInv, CoveredInv, [Next]_vars PROVE CoveredInv'
  OBVIOUS
<1>1. CASE \E R \in Block : pc = "inner" /\ IsNext(R, j, Block) /\ ForwardToLoad(R)
  BY <1>1, ForwardToLoadCovered
<1>2. CASE \E R \in Block : pc = "inner" /\ IsNext(R, j, Block) /\ QueueStore(R)
  BY <1>2, QueueStoreCovered
<1>3. CASE EraseQueued
  BY <1>3, EraseQueuedCovered
<1>4. CASE UNCHANGED <<code, worklist>>
  BY <1>4 DEF CoveredInv, Covers, QueuedLoads
<1> QED
  BY <1>1, <1>2, <1>3, <1>4
     DEF Next, Visit, BlockEnd, Compare, StopAtSideEffect, PassOver, InnerEnd, NextBlock, vars

-----------------------------------------------------------------------------
MeaningInv ==
    /\ Frame(code, source)
    /\ NoVolatileStores(source) /\ Shaped(source)
          => Shaped(code) /\ SameOnPossiblePaths(SDom, [Leaf -> Bit], code, source)

LEMMA InitMeaning == Init => MeaningInv
  BY DEF Init, MeaningInv, Frame, SameOnPossiblePaths

LEMMA ForwardToLoadMeaning ==
    ASSUME IInv, ResultInv, CoveredInv, MeaningInv, pc = "inner",
           NEW R \in Block, IsNext(R, j, Block), ForwardToLoad(R)
    PROVE  MeaningInv'
<1> DEFINE v == code[i].args[1]
<1>1. /\ LoadsBack(code, R, i) /\ code' = ReplaceAllUsesWith(code, R, v)
      /\ source' = source
  BY DEF ForwardToLoad, StoredValue
<1>2. /\ WellFormed(code) /\ DefsBeforeUses(code, SDom) /\ StrictOrder(SDom)
      /\ Frame(code, source) /\ v \in Value
  BY <1>1, ForwardedValue, ProgramsAssumption
     DEF IInv, TypeOK, DominanceKept, MeaningInv, StoredValue
<1>3. Frame(code', source)
  BY <1>1, <1>2, ReplaceKeepsFrame
<1>4. /\ i \in DOMAIN code /\ R \in DOMAIN code /\ i < R /\ code[i].bb = code[R].bb
      /\ code[i].op = "store" /\ code[R].op = "load" /\ code[R].args[1] = code[i].args[2]
  BY <1>1, PassedBy DEF LoadsBack, IsLoad, IsStore, Address
<1>5. \A n \in DOMAIN code : code[n].bb = code[i].bb /\ i < n /\ n < R
         => code[n].op \notin {"store", "call"}
  BY PassedBy DEF QueuedLoads, IsLoad, has_sideeffect
<1>6. ASSUME NoVolatileStores(source), Shaped(source)
      PROVE  Shaped(code') /\ SameOnPossiblePaths(SDom, [Leaf -> Bit], code', source)
  <2>1. Shaped(code) /\ SameOnPossiblePaths(SDom, [Leaf -> Bit], code, source)
    BY <1>6 DEF MeaningInv
  <2>2. SameOnPossiblePaths(SDom, [Leaf -> Bit], code', code)
    BY <1>1, <1>2, <1>4, <1>5, <2>1, StoredMeaning
  <2>3. Shaped(code')
    BY <1>1, <1>2, <2>1, ShapedKept
  <2> QED
    BY <1>2, <2>1, <2>2, <2>3, MeaningOnward
<1> QED
  BY <1>1, <1>3, <1>6 DEF MeaningInv

LEMMA EraseQueuedMeaning ==
    IInv /\ ResultInv /\ CoveredInv /\ MeaningInv /\ EraseQueued => MeaningInv'
<1> SUFFICES ASSUME IInv, ResultInv, CoveredInv, MeaningInv, EraseQueued PROVE MeaningInv'
  OBVIOUS
<1>1. PICK w \in worklist : worklist' = worklist \ {w} /\ code' = Erase(code, w)
  BY DEF EraseQueued
<1>2. /\ source' = source /\ WellFormed(code) /\ DefsBeforeUses(code, SDom)
      /\ StrictOrder(SDom) /\ Frame(code, source)
      /\ w \in DOMAIN code /\ Unused(code, w)
  BY ProgramsAssumption
     DEF EraseQueued, IInv, TypeOK, DominanceKept, QueuedUnused, MeaningInv, Block, InstsOfBlock
<1>3. DOMAIN code' = DOMAIN code \ {w} /\ \A k \in DOMAIN code' : code'[k] = code[k]
  BY <1>1, EraseEffect
<1>4. Frame(code', source)
  BY <1>2, <1>3 DEF Frame
<1>5. ASSUME NoVolatileStores(source), Shaped(source)
      PROVE  Shaped(code') /\ SameOnPossiblePaths(SDom, [Leaf -> Bit], code', source)
  <2>1. Shaped(code) /\ SameOnPossiblePaths(SDom, [Leaf -> Bit], code, source)
    BY <1>5 DEF MeaningInv
  <2>2. SameOnPossiblePaths(SDom, [Leaf -> Bit], code', code)
    <3>1. CASE IsLoad(code[w]) /\ ~code[w].vol
      BY <1>1, <1>2, <2>1, <3>1, ErasedMeaning DEF Observable, IsLoad
    <3>2. CASE IsStore(code[w]) /\ \E o : Covers(o, w)
      <4>1. PICK o : Covers(o, w)
        BY <3>2
      <4>2. /\ o \in DOMAIN code /\ w < o /\ code[w].bb = code[o].bb
            /\ code[w].op = "store" /\ code[o].op = "store"
            /\ code[o].args[2] = code[w].args[2]
            /\ \A n \in DOMAIN code \ QueuedLoads :
                  code[n].bb = code[w].bb /\ w < n /\ n < o => ~has_sideeffect(code[n])
        BY <3>2, <4>1 DEF Covers, IsStore, Address
      <4>3. ~code[w].vol /\ ~code[o].vol
        BY <1>2, <1>5, <4>2 DEF NoVolatileStores, IsStore, Frame
      <4>4. \A n \in DOMAIN code \cap QueuedLoads : ~Observable(code[n]) /\ Unused(code, n)
        BY DEF QueuedLoads, CoveredInv, IInv, QueuedUnused, Observable, IsLoad, IsStore
      <4> QED
        BY <1>1, <1>2, <2>1, <4>2, <4>3, <4>4, OverwrittenMeaning
    <3> QED
      BY <1>1, <3>1, <3>2 DEF CoveredInv
  <2>3. Shaped(code')
    BY <1>1, <1>2, <2>1, ShapedKept
  <2> QED
    BY <1>2, <2>1, <2>2, <2>3, MeaningOnward
<1> QED
  BY <1>2, <1>4, <1>5 DEF MeaningInv

LEMMA NextMeaning ==
    IInv /\ ResultInv /\ CoveredInv /\ MeaningInv /\ [Next]_vars => MeaningInv'
<1> SUFFICES ASSUME IInv, ResultInv, CoveredInv, MeaningInv, [Next]_vars PROVE MeaningInv'
  OBVIOUS
<1>1. CASE \E R \in Block : pc = "inner" /\ IsNext(R, j, Block) /\ ForwardToLoad(R)
  BY <1>1, ForwardToLoadMeaning
<1>2. CASE EraseQueued
  BY <1>2, EraseQueuedMeaning
<1>3. CASE UNCHANGED <<source, code>>
  BY <1>3 DEF MeaningInv
<1> QED
  BY <1>1, <1>2, <1>3
     DEF Next, Visit, BlockEnd, Compare, QueueStore, StopAtSideEffect, PassOver, InnerEnd,
         NextBlock, vars

LEMMA MeaningInvariance == Spec => [](IInv /\ MeaningInv)
  BY InitIInv, InitResult, InitCovered, InitMeaning,
     NextIInv, NextResult, NextCovered, NextMeaning, PTL DEF Spec

(* In a module without volatile stores what is seen stays the same on every  *)
(* path the verifier allows, also one that enters a block again and again,  *)
(* whatever values the leaves and memory have: when a load takes the value  *)
(* that is stored, and when a store that a later one overwrites is erased.  *)
THEOREM KeepsMeaning ==
    Spec => [](NoVolatileStores(source) /\ Shaped(source)
                  => SameOnPossiblePaths(SDom, [Leaf -> Bit], code, source))
<1>1. IInv /\ MeaningInv => (NoVolatileStores(source) /\ Shaped(source)
                                => SameOnPossiblePaths(SDom, [Leaf -> Bit], code, source))
  BY DEF MeaningInv
<1> QED
  BY <1>1, MeaningInvariance, PTL

(* What the run compares: the result and the source on every path straight  *)
(* through the blocks.                                                      *)
THEOREM MeaningIsKept == Spec => []MeaningKept
<1>1. IInv /\ MeaningInv => MeaningKept
  <2> SUFFICES ASSUME IInv, MeaningInv, NoVolatileStores(source), Shaped(source),
                      NEW path, Possible(path, source, source, SDom),
                      NEW leaf \in [Leaf -> Bit], NEW mem \in [Bit -> Bit]
               PROVE  ObserveOn(path, code, leaf, mem) = ObserveOn(path, source, leaf, mem)
    BY DEF MeaningKept, SameMeaning, SameMeaningOn
  <2>1. DOMAIN source \subseteq Nat /\ LaidOutIn(source, source)
    BY InstAssumption DEF IInv, WellFormed, LaidOutIn
  <2> QED
    BY <2>1 DEF MeaningInv, SameOnPossiblePaths
<1> QED
  BY <1>1, MeaningInvariance, PTL

=============================================================================
