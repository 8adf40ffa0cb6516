--------------------------- MODULE BasicCSEProofs ---------------------------
(****************************************************************************)
(* Proofs about BasicCSE, for every module and every dominance order.       *)
(*                                                                          *)
(* That one pass is enough rests on the SSA rule: moving the uses of b to i *)
(* changes only instructions after b, hence no candidate already compared,  *)
(* and nothing that comes to use i matches a candidate before i.            *)
(****************************************************************************)
EXTENDS BasicCSE, IRLemmas, TLAPS

PhaseInv == pc # "done" => bb \in 1..NumBlocks

\* The inner loop runs for a candidate, whose match j comes after it.
CursorInv == pc = "inner" => i \in Block /\ cse_candidate(code[i]) /\ i <= j

\* The pass has compared a with b.
Compared(a, b) ==
    \/ code[a].bb < bb
    \/ code[a].bb = bb /\ (a < i \/ (a = i /\ (pc = "outer" \/ b <= j)))

\* a is a candidate that b, later in its block, repeats.
Repeated(a, b) ==
    /\ a < b
    /\ code[a].bb = code[b].bb
    /\ cse_candidate(code[a])
    /\ code[a].op # "phi"
    /\ Matches(code, a, b)

ComparedInv ==
    \A a, b \in DOMAIN code : Repeated(a, b) /\ Compared(a, b) => Unused(code, b)

\* When the pass is over every block is behind it.
BlocksInv ==
    /\ \A k \in DOMAIN code : code[k].bb \in 1..NumBlocks
    /\ pc = "done" => bb = NumBlocks + 1

IInv ==
    /\ TypeOK
    /\ MemoryShaped(code)
    /\ DominanceKept
    /\ PhaseInv
    /\ CursorInv
    /\ BlocksInv
    /\ LayoutFollows(SDom) => ComparedInv

-----------------------------------------------------------------------------
LEMMA InitIInv == Init => IInv
<1> SUFFICES ASSUME Init PROVE IInv
  OBVIOUS
<1>1. /\ WellFormed(source) /\ DefsBeforeUses(source, SDom) /\ MemoryShaped(source)
      /\ \A n \in DOMAIN source : source[n].bb \in 1..NumBlocks
      /\ NumBlocks \in Nat
  BY ProgramsAssumption DEF Init
<1>2. TypeOK /\ PhaseInv /\ BlocksInv
  BY <1>1 DEF Init, TypeOK, PhaseInv, BlocksInv
<1>3. ComparedInv
  <2> SUFFICES ASSUME NEW a \in DOMAIN code, NEW b \in DOMAIN code, Compared(a, b)
               PROVE  FALSE
    BY DEF ComparedInv
  <2>1. a \in Nat \ {0} /\ code[a].bb \in 1..NumBlocks /\ bb = 1 /\ i = 0
    BY <1>1, InstAssumption DEF Init, WellFormed
  <2> QED
    BY <1>1, <2>1 DEF Compared
<1> QED
  BY <1>1, <1>2, <1>3 DEF Init, IInv, DominanceKept, CursorInv

LEMMA VisitIInv == IInv /\ Visit => IInv'
<1> SUFFICES ASSUME IInv, Visit PROVE IInv'
  OBVIOUS
<1>1. PICK n \in Block :
         /\ IsNext(n, i, Block) /\ i' = n /\ j' = n
         /\ pc' = IF cse_candidate(code[n]) THEN "inner" ELSE "outer"
  BY DEF Visit
<1>2. pc = "outer" /\ UNCHANGED <<source, code, bb, CSEElim>>
  BY DEF Visit
<1>3. /\ DOMAIN code \subseteq Nat /\ n \in Nat /\ n \in DOMAIN code /\ i \in Nat
      /\ i < n /\ code[n].bb = bb /\ bb \in Nat
  BY <1>1, InstAssumption, ProgramsAssumption
     DEF IInv, TypeOK, WellFormed, Block, InstsOfBlock, IsNext
<1>4. /\ TypeOK' /\ PhaseInv' /\ CursorInv' /\ BlocksInv'
      /\ DominanceKept' /\ MemoryShaped(code')
  BY <1>1, <1>2, <1>3
     DEF IInv, TypeOK, PhaseInv, CursorInv, BlocksInv, DominanceKept, Block
<1>5. ASSUME NEW a \in DOMAIN code, NEW b \in DOMAIN code,
             Repeated(a, b)', Compared(a, b)'
      PROVE  Repeated(a, b) /\ Compared(a, b)
  <2>1. Repeated(a, b)
    BY <1>2, <1>5 DEF Repeated, Matches
  <2>2. a # n
    <3>1. a = n => pc' = "inner" /\ b <= n
      BY <1>1, <1>2, <1>3, <1>5, <2>1 DEF Compared, Repeated
    <3> QED
      BY <1>3, <2>1, <3>1 DEF Repeated
  <2>3. code[a].bb = bb => a <= i
    BY <1>1, <1>2, <1>3, <1>5, <2>2 DEF Compared, IsNext, Block, InstsOfBlock
  <2> QED
    BY <1>1, <1>2, <1>3, <1>5, <2>1, <2>2, <2>3 DEF Compared
<1>6. LayoutFollows(SDom) => ComparedInv'
  BY <1>2, <1>5 DEF IInv, ComparedInv
<1> QED
  BY <1>4, <1>6 DEF IInv

LEMMA MoveUsesIInv ==
    ASSUME IInv, pc = "inner", NEW b \in Block, IsNext(b, j, Block), MoveUses(b)
    PROVE  IInv'
<1>1. /\ Matches(code, i, b)
      /\ code' = ReplaceAllUsesWith(code, b, i)
      /\ CSEElim' = CSEElim + 1
      /\ j' = b
      /\ UNCHANGED <<source, bb, pc, i>>
  BY DEF MoveUses
<1>2. /\ DOMAIN code \subseteq Nat /\ b \in DOMAIN code /\ i \in DOMAIN code
      /\ i \in Nat /\ j \in Nat /\ b \in Nat /\ bb \in Nat
      /\ i <= j /\ j < b /\ i < b /\ code[b].bb = bb /\ code[i].bb = bb
      /\ cse_candidate(code[i]) /\ <<bb, bb>> \notin SDom
  BY InstAssumption, ProgramsAssumption
     DEF IInv, TypeOK, CursorInv, WellFormed, Block, InstsOfBlock, IsNext, StrictOrder
<1>3. /\ WellFormed(code) /\ DefsBeforeUses(code, SDom) /\ MemoryShaped(code)
      /\ StrictOrder(SDom)
  BY ProgramsAssumption DEF IInv, TypeOK, DominanceKept
<1>4. /\ i \in Value /\ YieldsValue(code[i]) /\ code[i].fn = code[b].fn
      /\ Precedes(code, i, b, SDom)
  BY <1>2, <1>3 DEF WellFormed, Value, YieldsValue, cse_candidate, Precedes
<1>5. WellFormed(code') /\ DefsBeforeUses(code', SDom) /\ MemoryShaped(code')
  BY <1>1, <1>2, <1>3, <1>4, ReplaceKeepsSSA
<1>6. /\ SameShape(code, code') /\ code' \in [DOMAIN code -> Instruction]
      /\ \A k \in DOMAIN code : Replaced(code[k].args, code'[k].args, b, i)
  BY <1>1, <1>3, <1>4, ReplaceEffect
<1>7. TypeOK' /\ PhaseInv' /\ CursorInv' /\ BlocksInv'
  BY <1>1, <1>2, <1>5, <1>6
     DEF IInv, TypeOK, PhaseInv, CursorInv, BlocksInv, SameShape, Block, InstsOfBlock,
         cse_candidate
\* A use in an instruction that is not a phi comes after its operand.
<1>8. ASSUME LayoutFollows(SDom), NEW k \in DOMAIN code, code[k].op # "phi",
             NEW o \in {i, b}, o \in Range(code[k].args)
      PROVE  code[k].bb > bb \/ (code[k].bb = bb /\ k > o)
  <2>1. o \in DOMAIN code /\ o \in OperandInsts(code, k) /\ code[o].bb = bb
    BY <1>2, <1>3, <1>8 DEF OperandInsts, WellFormed
  <2>2. Precedes(code, o, k, SDom)
    BY <1>3, <1>8, <2>1 DEF DefsBeforeUses
  <2> QED
    BY <1>8, <2>1, <2>2 DEF Precedes, LayoutFollows
<1>9. ASSUME LayoutFollows(SDom)
      PROVE  ComparedInv'
  <2> SUFFICES ASSUME NEW a \in DOMAIN code, NEW c \in DOMAIN code,
                      Repeated(a, c)', Compared(a, c)'
               PROVE  Unused(code', c)
    BY <1>6 DEF ComparedInv, SameShape
  <2>1. /\ a < c /\ code[a].bb = code[c].bb /\ cse_candidate(code[a])
        /\ code[a].op # "phi" /\ code[c].op # "phi" /\ code[a].op = code[c].op
        /\ code[a].ty = code[c].ty /\ code'[a].args = code'[c].args
    BY <1>6 DEF Repeated, Matches, SameShape, cse_candidate
  <2>2. code[a].bb < bb \/ (code[a].bb = bb /\ (a < i \/ (a = i /\ c <= b)))
    BY <1>1, <1>2, <1>6 DEF Compared, SameShape
  \* Neither i nor b is an operand of a.
  <2>3. ~(i \in Range(code[a].args)) /\ ~(b \in Range(code[a].args))
    <3>1. code[a].bb \in Nat /\ a \in Nat
      BY <1>2 DEF IInv, BlocksInv
    <3> QED
      BY <1>2, <1>8, <1>9, <2>1, <2>2, <3>1
  <2>4. code'[a].args = code[a].args /\ code'[c].args = code[c].args
    <3>1. /\ Replaced(code[a].args, code'[a].args, b, i)
          /\ Replaced(code[c].args, code'[c].args, b, i)
      BY <1>6
    <3>2. Range(code'[a].args) = Range(code[a].args)
      BY <2>3, <3>1 DEF Replaced
    <3>3. i \notin Range(code'[c].args)
      BY <2>1, <2>3, <3>2
    <3>4. b \notin Range(code[c].args)
      BY <3>1, <3>3 DEF Replaced
    <3> QED
      BY <1>1, <1>3, <1>4, <2>3, <3>4, ReplaceNothing
  <2>5. Matches(code, a, c)
    BY <2>1, <2>4 DEF Matches
  <2>6. CASE c = b
    BY <1>1, <1>2, <1>3, <1>4, <2>6, ReplaceUsers
  <2>7. CASE c = i
    <3>1. a < i /\ code[a].bb = bb /\ Matches(code, a, b)
      BY <1>1, <1>2, <2>1, <2>2, <2>5, <2>7 DEF Matches
    <3>2. Repeated(a, b) /\ Compared(a, b) /\ Repeated(a, i) /\ Compared(a, i)
      BY <1>2, <2>1, <2>5, <2>7, <3>1 DEF Repeated, Compared
    <3>3. Unused(code, b) /\ Unused(code, i)
      BY <1>2, <1>9, <3>2 DEF IInv, ComparedInv
    <3> QED
      BY <1>1, <1>2, <1>3, <1>4, <2>7, <3>3, ReplaceUsers
  <2>8. CASE c # b /\ c # i
    <3>1. Repeated(a, c) /\ Compared(a, c)
      BY <1>1, <1>2, <2>1, <2>2, <2>5, <2>8 DEF Repeated, Compared, IsNext, Block, InstsOfBlock
    <3>2. Unused(code, c)
      BY <1>9, <3>1 DEF IInv, ComparedInv
    <3> QED
      BY <1>1, <1>2, <1>3, <1>4, <2>8, <3>2, ReplaceUsers
  <2> QED
    BY <2>6, <2>7, <2>8
<1> QED
  BY <1>1, <1>5, <1>7, <1>9 DEF IInv, DominanceKept

LEMMA PassOverIInv ==
    ASSUME IInv, pc = "inner", NEW b \in Block, IsNext(b, j, Block), PassOver(b)
    PROVE  IInv'
<1>1. ~Matches(code, i, b) /\ j' = b /\ UNCHANGED <<source, code, bb, pc, i, CSEElim>>
  BY DEF PassOver
<1>2. /\ DOMAIN code \subseteq Nat /\ b \in DOMAIN code /\ b \in Nat
      /\ i \in Nat /\ j \in Nat /\ bb \in Nat /\ i <= j /\ j < b
  BY InstAssumption, ProgramsAssumption
     DEF IInv, TypeOK, CursorInv, WellFormed, Block, InstsOfBlock, IsNext
<1>3. /\ TypeOK' /\ PhaseInv' /\ CursorInv' /\ BlocksInv'
      /\ DominanceKept' /\ MemoryShaped(code')
  BY <1>1, <1>2 DEF IInv, TypeOK, PhaseInv, CursorInv, BlocksInv, DominanceKept, Block
<1>4. ASSUME NEW a \in DOMAIN code, NEW c \in DOMAIN code,
             Repeated(a, c)', Compared(a, c)'
      PROVE  Repeated(a, c) /\ Compared(a, c)
  <2>1. Repeated(a, c)
    BY <1>1, <1>4 DEF Repeated, Matches
  <2>2. ~(a = i /\ c = b)
    BY <2>1 DEF Repeated, PassOver
  <2>3. a = i /\ code[a].bb = bb /\ c <= b => c <= j
    BY <1>2, <2>1, <2>2 DEF Repeated, IsNext, Block, InstsOfBlock
  <2> QED
    BY <1>1, <1>2, <1>4, <2>1, <2>3 DEF Compared
<1>5. LayoutFollows(SDom) => ComparedInv'
  BY <1>1, <1>4 DEF IInv, ComparedInv
<1> QED
  BY <1>3, <1>5 DEF IInv

LEMMA InnerEndIInv == IInv /\ InnerEnd => IInv'
<1> SUFFICES ASSUME IInv, InnerEnd PROVE IInv'
  OBVIOUS
<1>1. /\ pc = "inner" /\ IsLast(j, Block) /\ pc' = "outer"
      /\ UNCHANGED <<source, code, bb, i, j, CSEElim>>
  BY DEF InnerEnd
<1>2. /\ TypeOK' /\ PhaseInv' /\ CursorInv' /\ BlocksInv'
      /\ DominanceKept' /\ MemoryShaped(code')
  BY <1>1 DEF IInv, TypeOK, PhaseInv, CursorInv, BlocksInv, DominanceKept
<1>3. ASSUME NEW a \in DOMAIN code, NEW c \in DOMAIN code,
             Repeated(a, c)', Compared(a, c)'
      PROVE  Repeated(a, c) /\ Compared(a, c)
  <2>1. Repeated(a, c)
    BY <1>1, <1>3 DEF Repeated, Matches
  <2>2. code[a].bb = bb => c <= j
    BY <1>1, <2>1 DEF Repeated, IsLast, Block, InstsOfBlock
  <2> QED
    BY <1>1, <1>3, <2>1, <2>2 DEF Compared
<1>4. LayoutFollows(SDom) => ComparedInv'
  BY <1>1, <1>3 DEF IInv, ComparedInv
<1> QED
  BY <1>1, <1>2, <1>4 DEF IInv

LEMMA NextBlockIInv == IInv /\ NextBlock => IInv'
<1> SUFFICES ASSUME IInv, NextBlock PROVE IInv'
  OBVIOUS
<1>1. /\ pc = "outer" /\ IsLast(i, Block) /\ bb' = bb + 1
      /\ pc' = IF bb = NumBlocks THEN "done" ELSE "outer"
      /\ i' = 0 /\ j' = 0 /\ UNCHANGED <<source, code, CSEElim>>
  BY DEF NextBlock
<1>2. /\ bb \in 1..NumBlocks /\ NumBlocks \in Nat
      /\ DOMAIN code \subseteq Nat \ {0} /\ code \in [DOMAIN code -> Instruction]
  BY <1>1, InstAssumption, ProgramsAssumption DEF IInv, TypeOK, PhaseInv, WellFormed
<1>3. /\ TypeOK' /\ PhaseInv' /\ CursorInv' /\ BlocksInv'
      /\ DominanceKept' /\ MemoryShaped(code')
  BY <1>1, <1>2 DEF IInv, TypeOK, PhaseInv, CursorInv, BlocksInv, DominanceKept
<1>4. ASSUME NEW a \in DOMAIN code, NEW c \in DOMAIN code,
             Repeated(a, c)', Compared(a, c)'
      PROVE  Repeated(a, c) /\ Compared(a, c)
  <2>1. Repeated(a, c)
    BY <1>1, <1>4 DEF Repeated, Matches
  <2>2. code[a].bb \in Nat /\ a > 0
    BY <1>2 DEF Instruction
  <2>3. code[a].bb < bb \/ code[a].bb = bb
    BY <1>1, <1>2, <1>4, <2>2 DEF Compared
  <2>4. code[a].bb = bb => a <= i
    BY <1>1 DEF IsLast, Block, InstsOfBlock
  <2> QED
    BY <1>1, <1>2, <2>1, <2>2, <2>3, <2>4 DEF Compared, IInv, TypeOK
<1>5. LayoutFollows(SDom) => ComparedInv'
  BY <1>1, <1>4 DEF IInv, ComparedInv
<1> QED
  BY <1>3, <1>5 DEF IInv

LEMMA NextIInv == IInv /\ [Next]_vars => IInv'
<1> SUFFICES ASSUME IInv, [Next]_vars PROVE IInv'
  OBVIOUS
<1>1. CASE Visit
  BY <1>1, VisitIInv
<1>2. CASE Compare
  BY <1>2, MoveUsesIInv, PassOverIInv DEF Compare
<1>3. CASE InnerEnd
  BY <1>3, InnerEndIInv
<1>4. CASE NextBlock
  BY <1>4, NextBlockIInv
<1>5. CASE UNCHANGED vars
  BY <1>5 DEF vars, IInv, TypeOK, DominanceKept, PhaseInv, CursorInv, BlocksInv, ComparedInv,
              Repeated, Compared, Matches, Block
<1> QED
  BY <1>1, <1>2, <1>3, <1>4, <1>5 DEF Next

(* IInv holds in every state of every execution of cse.                     *)
THEOREM Invariance == Spec => []IInv
  BY InitIInv, NextIInv, PTL DEF Spec

-----------------------------------------------------------------------------
(* cse keeps the module well formed and all of its instructions.            *)
THEOREM TypeCorrect == Spec => []TypeOK
<1>1. IInv => TypeOK
  BY DEF IInv
<1> QED
  BY <1>1, Invariance, PTL

(* cse keeps the SSA rule.                                                  *)
THEOREM KeepsDominance == Spec => []DominanceKept
<1>1. IInv => DominanceKept
  BY DEF IInv
<1> QED
  BY <1>1, Invariance, PTL

LEMMA DoneHasNoRepeat == IInv => NoRedundantUse
<1> SUFFICES ASSUME IInv, LayoutFollows(SDom), pc = "done",
                    NEW a \in DOMAIN code, NEW b \in DOMAIN code,
                    a < b, code[a].bb = code[b].bb, cse_candidate(code[a]),
                    code[a].op # "phi", Matches(code, a, b)
             PROVE  Unused(code, b)
  BY DEF NoRedundantUse
<1>1. Repeated(a, b)
  BY DEF Repeated
<1>2. Compared(a, b)
  BY ProgramsAssumption DEF IInv, BlocksInv, Compared
<1> QED
  BY <1>1, <1>2 DEF IInv, ComparedInv

(* When cse returns every candidate that repeats an earlier one of its      *)
(* block is without uses, phis apart: one pass over each block is enough.   *)
THEOREM OnePassIsEnough == Spec => []NoRedundantUse
  BY DoneHasNoRepeat, Invariance, PTL

-----------------------------------------------------------------------------
MeaningInv ==
    /\ WellFormed(source)
    /\ Frame(code, source)
    /\ MatchesTell(source) => SameOnAllPaths(code, source)

LEMMA InitMeaning == Init => MeaningInv
<1> SUFFICES ASSUME Init PROVE MeaningInv
  OBVIOUS
<1>1. WellFormed(source) /\ code = source
  BY ProgramsAssumption DEF Init
<1> QED
  BY <1>1 DEF MeaningInv, Frame, SameOnAllPaths

LEMMA MoveUsesMeaning ==
    ASSUME IInv, MeaningInv, pc = "inner", NEW b \in Block, IsNext(b, j, Block), MoveUses(b)
    PROVE  MeaningInv'
<1>1. Matches(code, i, b) /\ code' = ReplaceAllUsesWith(code, b, i) /\ source' = source
  BY DEF MoveUses
<1>2. /\ WellFormed(code) /\ DefsBeforeUses(code, SDom) /\ StrictOrder(SDom)
      /\ WellFormed(source) /\ Frame(code, source) /\ DOMAIN source \subseteq Nat
  BY InstAssumption, ProgramsAssumption DEF IInv, TypeOK, DominanceKept, MeaningInv, WellFormed
<1>3. /\ b \in DOMAIN code /\ i \in DOMAIN code /\ cse_candidate(code[i])
      /\ i <= j /\ j < b /\ code[b].bb = bb /\ code[i].bb = bb
      /\ i \in Nat /\ j \in Nat /\ b \in Nat
  BY <1>2 DEF IInv, TypeOK, CursorInv, Block, InstsOfBlock, IsNext, WellFormed, Frame
<1>4. Frame(code', source)
  BY <1>1, <1>2, ReplaceKeepsFrame
<1>5. ASSUME MatchesTell(source)
      PROVE  SameOnAllPaths(code', source)
  <2>1. code[i].attr = code[b].attr
    BY <1>1, <1>2, <1>3, <1>5 DEF MatchesTell, Matches, Frame, cse_candidate
  <2> SUFFICES ASSUME NEW l, NEW path, NEW leaf, NEW mem,
                      DOMAIN l \subseteq Nat, LaidOutIn(source, l), Control(path, l)
               PROVE  ObserveOn(path, code', leaf, mem) = ObserveOn(path, source, leaf, mem)
    BY DEF SameOnAllPaths
  <2>2. LaidOutIn(code, l)
    BY <1>2 DEF LaidOutIn, Frame
  <2>3. Repetition(code, l, SDom, i, b)
    BY <1>1, <1>2, <1>3, <2>1, <2>2
       DEF Repetition, Matches, cse_candidate, YieldsValue, IsLoad
  <2>4. ObserveOn(path, code', leaf, mem) = ObserveOn(path, code, leaf, mem)
    BY <1>1, <2>3, ReplacedRuns
  <2> QED
    BY <1>5, <2>4 DEF MeaningInv, SameOnAllPaths
<1> QED
  BY <1>1, <1>2, <1>4, <1>5 DEF MeaningInv

LEMMA NextMeaning == IInv /\ MeaningInv /\ [Next]_vars => MeaningInv'
<1> SUFFICES ASSUME IInv, MeaningInv, [Next]_vars PROVE MeaningInv'
  OBVIOUS
<1>1. CASE \E b \in Block : pc = "inner" /\ IsNext(b, j, Block) /\ MoveUses(b)
  BY <1>1, MoveUsesMeaning
<1>2. CASE UNCHANGED <<source, code>>
  BY <1>2 DEF MeaningInv
<1> QED
  BY <1>1, <1>2 DEF Next, Visit, Compare, PassOver, InnerEnd, NextBlock, vars

(* Moving the uses of a candidate to an earlier one it matches never changes *)
(* what is seen, on any path control takes through the blocks and however    *)
(* often it goes round a loop, if candidates that match do not differ in     *)
(* what the pass does not compare.                                          *)
THEOREM KeepsMeaning == Spec => [](MatchesTell(source) => SameOnAllPaths(code, source))
<1>1. Spec => [](IInv /\ MeaningInv)
  BY InitIInv, InitMeaning, NextIInv, NextMeaning, PTL DEF Spec
<1>2. IInv /\ MeaningInv => (MatchesTell(source) => SameOnAllPaths(code, source))
  BY DEF MeaningInv
<1> QED
  BY <1>1, <1>2, PTL

=============================================================================
