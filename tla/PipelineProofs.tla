--------------------------- MODULE PipelineProofs ----------------------------
(****************************************************************************)
(* Proofs about Pipeline, for every module, every numbering of functions    *)
(* and blocks and every dominance order.                                    *)
(*                                                                          *)
(* What holds inside a pass is taken from the proofs about that pass: each  *)
(* is instantiated with the modules `Accepted', and its invariant holds     *)
(* again whenever the pass is called because what the pass before leaves is *)
(* accepted.  simplify has no proofs of its own elsewhere; its steps are    *)
(* dealt with here.                                                         *)
(*                                                                          *)
(* What only the sequence of passes achieves rests on what each hands on:   *)
(* no rewriting makes an observable instruction removable, as no opcode     *)
(* ever changes (Origin, ObservableInv); and of two loads whose addresses   *)
(* the source computes alike (Twins), the addresses match until cse has     *)
(* made them one value, load_cse has made the loads one, or the later load  *)
(* is volatile (TwinsInv).  simplify visits one address before the other,   *)
(* so that in between only what they simplify to agrees (HalfSimplified).   *)
(*                                                                          *)
(* What is seen (MeaningInv) is kept change by change: the lemmas about     *)
(* runs of IRLemmas apply to each replacement and to each erasure.          *)
(****************************************************************************)
EXTENDS Pipeline, IRLemmas, FiniteSetTheorems, TLAPS

AcceptedModules == {c \in UNION {[D -> Instruction] : D \in SUBSET Inst} : Accepted(c)}

DceP == INSTANCE DCEProofs
            WITH source <- given, fn <- bb, pos <- i, Programs <- AcceptedModules
CseP == INSTANCE BasicCSEProofs WITH source <- given, Programs <- AcceptedModules
LoadP == INSTANCE LoadCSEProofs WITH source <- given, Programs <- AcceptedModules
StoreP == INSTANCE StoreCSEProofs WITH source <- given, Programs <- AcceptedModules

\* Instructions change their operands only, and none is added.
Origin ==
    /\ DOMAIN code \subseteq DOMAIN source
    /\ \A k \in DOMAIN code :
          /\ code[k].op = source[k].op /\ code[k].vol = source[k].vol
          /\ code[k].ty = source[k].ty
          /\ code[k].fn = source[k].fn /\ code[k].bb = source[k].bb
    /\ pass = "dce" => \A k \in DOMAIN code : code[k] = source[k]

\* The counters of the passes still to come.
CountersInv ==
    /\ pass \in {"dce", "simplify"} => CSEElim = 0
    /\ pass \in {"dce", "simplify", "cse"} => CSELdElim = 0
    /\ pass \in {"dce", "simplify", "cse", "load_cse"} => CSELdStElim = 0 /\ CSERStElim = 0

\* What is waiting to be erased.
QueueKinds ==
    /\ pass = "load_cse" => \A w \in worklist : IsLoad(code[w]) /\ ~code[w].vol
    /\ pass = "store_cse" => \A w \in worklist :
          IsStore(code[w]) \/ (IsLoad(code[w]) /\ ~code[w].vol)

Gone == {r \in DOMAIN source : Observable(source[r])} \ DOMAIN code

QueuedStores == {w \in worklist : pass = "store_cse" /\ IsStore(code[w])}

\* Every store that goes is counted when it is queued.
ObservableInv ==
    /\ \A r \in Gone : IsStore(source[r])
    /\ CSERStElim = Cardinality(Gone) + Cardinality(QueuedStores)

\* What simplify has visited; of that, what it would still simplify is unused.
Visited(n) == code[n].bb < bb \/ (code[n].bb = bb /\ n <= i)

SimplifiedInv ==
    \A n \in DOMAIN code :
        Visited(n) /\ code[n].op # "phi" /\ Simp!SimplifyInstruction(code, n) # {}
        => Unused(code, n)

SimplifyInv ==
    /\ pc \in {"visit", "done"} /\ i \in Nat /\ bb \in 1..NumBlocks + 1
    /\ pc = "visit" => bb \in 1..NumBlocks
    /\ pc = "done" => bb = NumBlocks + 1
    /\ LayoutFollows(SDom) => SimplifiedInv

\* What EqualAddressesLoadedOnce says two loads of the source must not be.
Twins(L, R) ==
    /\ L < R /\ source[L].bb = source[R].bb
    /\ IsLoad(source[L]) /\ IsLoad(source[R])
    /\ source[L].ty = source[R].ty
    /\ SameAddress(source, L, R)
    /\ Loads!NoStoreBetween(source, L, R)

\* simplify has moved the uses of one address to v, and will those of the other.
HalfSimplified(L, R) ==
    \E y \in DOMAIN code, v \in Value :
        /\ {Address(code[L]), Address(code[R])} = {y, v}
        /\ code[y].bb = bb /\ i < y
        /\ code[y].op # "phi"
        /\ Simp!SimplifyInstruction(code, y) = {v}

\* The addresses of twins on their way through the passes.
TwinsInv ==
    \A L, R \in DOMAIN code : Twins(L, R) =>
        /\ pass \in {"dce", "cse"} => SameAddress(code, L, R)
        /\ pass = "simplify" => SameAddress(code, L, R) \/ HalfSimplified(L, R)
        /\ pass = "load_cse" => Address(code[L]) = Address(code[R])
        /\ pass \in {"store_cse", "returned"} => source[R].vol

\* The pass at hand is in a state its own proofs know.
PassInv ==
    /\ pass = "dce" => DceP!IInv
    /\ pass = "simplify" => SimplifyInv
    /\ pass = "cse" => CseP!IInv
    /\ pass = "load_cse" => LoadP!IInv /\ LoadP!ResultInv
    /\ pass = "store_cse" => StoreP!IInv /\ StoreP!ResultInv /\ StoreP!CoveredInv

Passes == {"dce", "simplify", "cse", "load_cse", "store_cse", "returned"}

IInv ==
    /\ source \in Programs
    /\ pass \in Passes
    /\ Accepted(code)
    /\ Origin
    /\ CountersInv
    /\ PassInv
    /\ QueueKinds
    /\ ObservableInv
    /\ LayoutFollows(SDom) => TwinsInv

-----------------------------------------------------------------------------
(* The instances.  Each pass, and each of its proofs, has a copy of its own *)
(* of the definitions of IR and of the pass; the copies are the same.       *)

LEMMA AcceptedModule == \A c : Accepted(c) => c \in AcceptedModules
  BY DEF AcceptedModules, Accepted, WellFormed

LEMMA SameSteps ==
    /\ Dce!Next <=> DceP!Next
    /\ Basic!Next <=> CseP!Next
    /\ Loads!Next <=> LoadP!Next
    /\ Stores!Next <=> StoreP!Next
<1>1. Dce!Next <=> DceP!Next
  BY DEF Dce!Next, DceP!Next, Dce!ScanInstruction, DceP!ScanInstruction,
         Dce!ScanEnd, DceP!ScanEnd, Dce!Drain, DceP!Drain, Dce!EraseDead,
         DceP!EraseDead, Dce!DropLive, DceP!DropLive, Dce!NextFunction,
         DceP!NextFunction, Dce!InstsOf, DceP!InstsOf, Dce!isDead,
         DceP!isDead, Dce!Unused, DceP!Unused, Dce!Users, DceP!Users,
         Dce!Range, DceP!Range, Dce!Removable, DceP!Removable,
         Dce!RemovableOp, DceP!RemovableOp, Dce!OperandInsts,
         DceP!OperandInsts, Dce!IsNext, DceP!IsNext, Dce!IsLast,
         DceP!IsLast, Dce!Erase, DceP!Erase, Dce!Restrict, DceP!Restrict
<1>2. Basic!Next <=> CseP!Next
  BY DEF Basic!Next, CseP!Next, Basic!Visit, CseP!Visit, Basic!Compare,
         CseP!Compare, Basic!MoveUses, CseP!MoveUses, Basic!PassOver,
         CseP!PassOver, Basic!InnerEnd, CseP!InnerEnd, Basic!NextBlock,
         CseP!NextBlock, Basic!Matches, CseP!Matches, Basic!Block,
         CseP!Block, Basic!cse_candidate, CseP!cse_candidate, Basic!IsNext,
         CseP!IsNext, Basic!IsLast, CseP!IsLast, Basic!InstsOfBlock,
         CseP!InstsOfBlock, Basic!ReplaceAllUsesWith,
         CseP!ReplaceAllUsesWith, Basic!Substituted, CseP!Substituted
<1>3. Loads!Next <=> LoadP!Next
  BY DEF Loads!Next, LoadP!Next, Loads!Visit, LoadP!Visit, Loads!BlockEnd,
         LoadP!BlockEnd, Loads!Compare, LoadP!Compare, Loads!ReplaceLoad,
         LoadP!ReplaceLoad, Loads!StopAtStore, LoadP!StopAtStore,
         Loads!PassOver, LoadP!PassOver, Loads!InnerEnd, LoadP!InnerEnd,
         Loads!EraseQueued, LoadP!EraseQueued, Loads!NextBlock,
         LoadP!NextBlock, Loads!Repeats, LoadP!Repeats, Loads!Block,
         LoadP!Block, Loads!IsNext, LoadP!IsNext, Loads!IsLast,
         LoadP!IsLast, Loads!InstsOfBlock, LoadP!InstsOfBlock, Loads!Erase,
         LoadP!Erase, Loads!Restrict, LoadP!Restrict,
         Loads!ReplaceAllUsesWith, LoadP!ReplaceAllUsesWith,
         Loads!Substituted, LoadP!Substituted, Loads!IsLoad, LoadP!IsLoad,
         Loads!IsStore, LoadP!IsStore, Loads!Address, LoadP!Address
<1>4. Stores!Next <=> StoreP!Next
  BY DEF Stores!Next, StoreP!Next, Stores!Visit, StoreP!Visit,
         Stores!BlockEnd, StoreP!BlockEnd, Stores!Compare, StoreP!Compare,
         Stores!ForwardToLoad, StoreP!ForwardToLoad, Stores!QueueStore,
         StoreP!QueueStore, Stores!StopAtSideEffect,
         StoreP!StopAtSideEffect, Stores!PassOver, StoreP!PassOver,
         Stores!InnerEnd, StoreP!InnerEnd, Stores!EraseQueued,
         StoreP!EraseQueued, Stores!NextBlock, StoreP!NextBlock,
         Stores!LoadsBack, StoreP!LoadsBack, Stores!Overwrites,
         StoreP!Overwrites, Stores!StoredValue, StoreP!StoredValue,
         Stores!Block, StoreP!Block, Stores!has_sideeffect,
         StoreP!has_sideeffect, Stores!IsNext, StoreP!IsNext, Stores!IsLast,
         StoreP!IsLast, Stores!InstsOfBlock, StoreP!InstsOfBlock,
         Stores!Erase, StoreP!Erase, Stores!Restrict, StoreP!Restrict,
         Stores!ReplaceAllUsesWith, StoreP!ReplaceAllUsesWith,
         Stores!Substituted, StoreP!Substituted, Stores!IsLoad, StoreP!IsLoad,
         Stores!IsStore, StoreP!IsStore, Stores!Address, StoreP!Address
<1> QED
  BY <1>1, <1>2, <1>3, <1>4

LEMMA SameModules ==
    ASSUME NEW c
    PROVE  /\ DceP!WellFormed(c) <=> WellFormed(c)
           /\ CseP!WellFormed(c) <=> WellFormed(c)
           /\ CseP!DefsBeforeUses(c, SDom) <=> DefsBeforeUses(c, SDom)
           /\ CseP!MemoryShaped(c) <=> MemoryShaped(c)
           /\ LoadP!WellFormed(c) <=> WellFormed(c)
           /\ LoadP!DefsBeforeUses(c, SDom) <=> DefsBeforeUses(c, SDom)
           /\ LoadP!MemoryShaped(c) <=> MemoryShaped(c)
           /\ StoreP!WellFormed(c) <=> WellFormed(c)
           /\ StoreP!DefsBeforeUses(c, SDom) <=> DefsBeforeUses(c, SDom)
           /\ StoreP!MemoryShaped(c) <=> MemoryShaped(c)
<1>1. DceP!WellFormed(c) <=> WellFormed(c)
  BY DEF DceP!WellFormed, WellFormed, DceP!Instruction, Instruction,
         DceP!Opcode, Opcode, DceP!Value, Value, DceP!YieldsValue,
         YieldsValue, DceP!Range, Range, DceP!IsFiniteSet, IsFiniteSet
<1>2. /\ CseP!WellFormed(c) <=> WellFormed(c)
      /\ CseP!DefsBeforeUses(c, SDom) <=> DefsBeforeUses(c, SDom)
      /\ CseP!MemoryShaped(c) <=> MemoryShaped(c)
  BY DEF CseP!WellFormed, WellFormed, CseP!Instruction, Instruction,
         CseP!Opcode, Opcode, CseP!Value, Value, CseP!YieldsValue,
         YieldsValue, CseP!Range, Range, CseP!IsFiniteSet, IsFiniteSet,
         CseP!DefsBeforeUses, DefsBeforeUses, CseP!OperandInsts,
         OperandInsts, CseP!Precedes, Precedes, CseP!StrictOrder,
         StrictOrder, CseP!MemoryShaped, MemoryShaped, CseP!IsLoad, IsLoad,
         CseP!IsStore, IsStore
<1>3. /\ LoadP!WellFormed(c) <=> WellFormed(c)
      /\ LoadP!DefsBeforeUses(c, SDom) <=> DefsBeforeUses(c, SDom)
      /\ LoadP!MemoryShaped(c) <=> MemoryShaped(c)
  BY DEF LoadP!WellFormed, WellFormed, LoadP!Instruction, Instruction,
         LoadP!Opcode, Opcode, LoadP!Value, Value, LoadP!YieldsValue,
         YieldsValue, LoadP!Range, Range, LoadP!IsFiniteSet, IsFiniteSet,
         LoadP!DefsBeforeUses, DefsBeforeUses, LoadP!OperandInsts,
         OperandInsts, LoadP!Precedes, Precedes, LoadP!StrictOrder,
         StrictOrder, LoadP!MemoryShaped, MemoryShaped, LoadP!IsLoad,
         IsLoad, LoadP!IsStore, IsStore
<1>4. /\ StoreP!WellFormed(c) <=> WellFormed(c)
      /\ StoreP!DefsBeforeUses(c, SDom) <=> DefsBeforeUses(c, SDom)
      /\ StoreP!MemoryShaped(c) <=> MemoryShaped(c)
  BY DEF StoreP!WellFormed, WellFormed, StoreP!Instruction, Instruction,
         StoreP!Opcode, Opcode, StoreP!Value, Value, StoreP!YieldsValue,
         YieldsValue, StoreP!Range, Range, StoreP!IsFiniteSet, IsFiniteSet,
         StoreP!DefsBeforeUses, DefsBeforeUses, StoreP!OperandInsts,
         OperandInsts, StoreP!Precedes, Precedes, StoreP!StrictOrder,
         StrictOrder, StoreP!MemoryShaped, MemoryShaped, StoreP!IsLoad,
         IsLoad, StoreP!IsStore, IsStore
<1> QED
  BY <1>1, <1>2, <1>3, <1>4

LEMMA SameOrder ==
    /\ CseP!StrictOrder(SDom) /\ LoadP!StrictOrder(SDom) /\ StoreP!StrictOrder(SDom)
  BY ProgramsAssumption
     DEF StrictOrder, CseP!StrictOrder, LoadP!StrictOrder, StoreP!StrictOrder

\* What the proofs of the passes assume of the modules they are given.
LEMMA PassesAssume ==
    /\ NumFns \in Nat /\ NumBlocks \in Nat
    /\ \A c \in AcceptedModules :
          /\ DceP!WellFormed(c) /\ CseP!WellFormed(c) /\ LoadP!WellFormed(c) /\ StoreP!WellFormed(c)
          /\ CseP!DefsBeforeUses(c, SDom) /\ CseP!MemoryShaped(c)
          /\ LoadP!DefsBeforeUses(c, SDom) /\ LoadP!MemoryShaped(c)
          /\ StoreP!DefsBeforeUses(c, SDom) /\ StoreP!MemoryShaped(c)
          /\ \A n \in DOMAIN c : c[n].fn \in 1..NumFns /\ c[n].bb \in 1..NumBlocks
  BY ProgramsAssumption, SameModules DEF AcceptedModules, Accepted

(* A pass called with an accepted module is in a state its proofs know.     *)
LEMMA Starts ==
    /\ DceP!Init => DceP!IInv
    /\ CseP!Init => CseP!IInv
    /\ LoadP!Init => LoadP!IInv /\ LoadP!ResultInv
    /\ StoreP!Init => StoreP!IInv /\ StoreP!ResultInv /\ StoreP!CoveredInv
<1>1. DceP!Init => DceP!IInv
  BY InstAssumption, PassesAssume, DceP!InitIInv
<1>2. CseP!Init => CseP!IInv
  BY InstAssumption, PassesAssume, SameOrder, CseP!InitIInv
<1>3. LoadP!Init => LoadP!IInv /\ LoadP!ResultInv
  BY InstAssumption, PassesAssume, SameOrder, LoadP!InitIInv, LoadP!InitResult
<1>4. StoreP!Init => StoreP!IInv /\ StoreP!ResultInv /\ StoreP!CoveredInv
  BY InstAssumption, PassesAssume, SameOrder, StoreP!InitIInv, StoreP!InitResult,
     StoreP!InitCovered
<1> QED
  BY <1>1, <1>2, <1>3, <1>4

(* Its steps, and those that leave everything as it is, stay in such states. *)
LEMMA Steps ==
    /\ DceP!IInv /\ (Dce!Next \/ UNCHANGED vars) => DceP!IInv'
    /\ CseP!IInv /\ (Basic!Next \/ UNCHANGED vars) => CseP!IInv'
    /\ LoadP!IInv /\ LoadP!ResultInv /\ (Loads!Next \/ UNCHANGED vars)
          => LoadP!IInv' /\ LoadP!ResultInv'
    /\ StoreP!IInv /\ StoreP!ResultInv /\ StoreP!CoveredInv /\ (Stores!Next \/ UNCHANGED vars)
          => StoreP!IInv' /\ StoreP!ResultInv' /\ StoreP!CoveredInv'
<1>1. UNCHANGED vars => UNCHANGED <<DceP!vars, CseP!vars, LoadP!vars, StoreP!vars>>
  BY DEF vars, locals, counters, DceP!vars, CseP!vars, LoadP!vars, StoreP!vars
<1>2. DceP!IInv /\ [DceP!Next]_(DceP!vars) => DceP!IInv'
  BY InstAssumption, PassesAssume, DceP!NextIInv
<1>3. CseP!IInv /\ [CseP!Next]_(CseP!vars) => CseP!IInv'
  BY InstAssumption, PassesAssume, SameOrder, CseP!NextIInv
<1>4. LoadP!IInv /\ LoadP!ResultInv /\ [LoadP!Next]_(LoadP!vars)
         => LoadP!IInv' /\ LoadP!ResultInv'
  BY InstAssumption, PassesAssume, SameOrder, LoadP!NextIInv, LoadP!NextResult
<1>5. StoreP!IInv /\ StoreP!ResultInv /\ StoreP!CoveredInv /\ [StoreP!Next]_(StoreP!vars)
         => StoreP!IInv' /\ StoreP!ResultInv' /\ StoreP!CoveredInv'
  BY InstAssumption, PassesAssume, SameOrder, StoreP!NextIInv, StoreP!NextResult,
     StoreP!NextCovered
<1> QED
  BY <1>1, <1>2, <1>3, <1>4, <1>5, SameSteps

-----------------------------------------------------------------------------
(* SimplifyInstruction.                                                     *)

\* I is `op' with two operands.
Binary(I, op) == I.op = op /\ Len(I.args) = 2

(* What it returns, phis apart: a value that the operands alone determine.  *)
LEMMA SimplifyPlain ==
    ASSUME NEW c, NEW n, c[n].op # "phi"
    PROVE  LET I == c[n]
           IN  /\ Binary(I, "add") /\ I.args[2] = Zero
                  => Simp!SimplifyInstruction(c, n) = {I.args[1]} \ {n}
               /\ Binary(I, "add") /\ I.args[2] # Zero /\ I.args[1] = Zero
                  => Simp!SimplifyInstruction(c, n) = {I.args[2]} \ {n}
               /\ Binary(I, "icmp") /\ I.args[1] = I.args[2]
                  => Simp!SimplifyInstruction(c, n) = {Zero}
               /\ Simp!SimplifyInstruction(c, n) # {} =>
                     \/ Binary(I, "add") /\ (I.args[2] = Zero \/ I.args[1] = Zero)
                     \/ Binary(I, "icmp") /\ I.args[1] = I.args[2]
  BY DEF Simp!SimplifyInstruction, Binary

(* What it returns may take the place of the instruction everywhere.        *)
LEMMA SimplifyResult ==
    ASSUME NEW c, Accepted(c), NEW n \in DOMAIN c, NEW v \in Simp!SimplifyInstruction(c, n)
    PROVE  /\ v \in Value /\ v # n
           /\ v = Zero \/ v \in Range(c[n].args)
           /\ v \in Inst => /\ v \in DOMAIN c /\ YieldsValue(c[v])
                            /\ c[v].fn = c[n].fn /\ Precedes(c, v, n, SDom)
<1>1. /\ WellFormed(c) /\ DefsBeforeUses(c, SDom)
      /\ c[n].args \in Seq(Value) /\ n \in Inst /\ Zero \in Leaf
  BY ProgramsAssumption DEF Accepted, WellFormed, Instruction
<1>2. Zero \in Value /\ Zero \notin Inst
  BY <1>1, InstAssumption DEF Value
<1>3. CASE c[n].op = "phi"
  <2>1. /\ v \in Value /\ Range(c[n].args) \ {n} = {v}
        /\ v \in Inst => Precedes(c, v, n, SDom)
    BY <1>3 DEF Simp!SimplifyInstruction, Simp!Value, Value, Simp!Range, Range,
                Simp!Precedes, Precedes
  <2>2. v \in Range(c[n].args) /\ v # n
    BY <2>1
  <2> QED
    BY <1>1, <2>1, <2>2 DEF WellFormed
<1>4. CASE c[n].op # "phi"
  <2>1. \A k \in 1..Len(c[n].args) : c[n].args[k] \in Value /\ c[n].args[k] \in Range(c[n].args)
    BY <1>1 DEF Range
  <2>2. Binary(c[n], "add") => c[n].args[1] \in Value \cap Range(c[n].args)
                               /\ c[n].args[2] \in Value \cap Range(c[n].args)
    BY <2>1 DEF Binary
  <2>3. v \in Value /\ v # n /\ (v = Zero \/ v \in Range(c[n].args))
    BY <1>1, <1>2, <1>4, <2>2, SimplifyPlain, InstAssumption
  <2>4. v \in Inst => v \in OperandInsts(c, n)
    BY <1>2, <2>3 DEF OperandInsts
  <2>5. v \in Inst => v \in DOMAIN c /\ YieldsValue(c[v]) /\ c[v].fn = c[n].fn
    BY <1>1, <2>4 DEF WellFormed, OperandInsts
  <2>6. v \in Inst => Precedes(c, v, n, SDom)
    BY <1>1, <1>4, <2>4 DEF DefsBeforeUses
  <2> QED
    BY <2>3, <2>5, <2>6
<1> QED
  BY <1>3, <1>4

(* It depends on the opcode and the operands only, phis apart...            *)
LEMMA SimplifySame ==
    ASSUME NEW c, NEW d, NEW x, NEW y, c[x].op # "phi",
           d[y].op = c[x].op, d[y].args = c[x].args, NEW v
    PROVE  v \in Simp!SimplifyInstruction(c, x) /\ v # y
           => Simp!SimplifyInstruction(d, y) = {v}
<1> SUFFICES ASSUME v \in Simp!SimplifyInstruction(c, x), v # y
             PROVE  Simp!SimplifyInstruction(d, y) = {v}
  OBVIOUS
<1>1. \A op : Binary(d[y], op) <=> Binary(c[x], op)
  BY DEF Binary
<1>2. CASE Binary(c[x], "add") /\ c[x].args[2] = Zero
  BY <1>1, <1>2, SimplifyPlain
<1>3. CASE Binary(c[x], "add") /\ c[x].args[2] # Zero /\ c[x].args[1] = Zero
  BY <1>1, <1>3, SimplifyPlain
<1>4. CASE Binary(c[x], "icmp") /\ c[x].args[1] = c[x].args[2]
  BY <1>1, <1>4, SimplifyPlain
<1> QED
  BY <1>2, <1>3, <1>4, SimplifyPlain

(* ... and follows the operands when the uses of n move to w.               *)
LEMMA SimplifyMoved ==
    ASSUME NEW c, WellFormed(c), NEW y \in DOMAIN c, c[y].op # "phi",
           NEW v, Simp!SimplifyInstruction(c, y) = {v},
           NEW n \in Inst, NEW w \in Value, NEW d, d = ReplaceAllUsesWith(c, n, w),
           y # IF v = n THEN w ELSE v
    PROVE  Simp!SimplifyInstruction(d, y) = {IF v = n THEN w ELSE v}
<1> DEFINE at(a) == IF a = n THEN w ELSE a
<1>1. /\ SameShape(c, d) /\ Replaced(c[y].args, d[y].args, n, w)
      /\ n # Zero
  BY ReplaceEffect, InstAssumption, ProgramsAssumption
<1>2. /\ d[y].op # "phi" /\ at(Zero) = Zero
      /\ \A op : Binary(d[y], op) <=> Binary(c[y], op)
      /\ \A op : Binary(c[y], op) => /\ d[y].args[1] = at(c[y].args[1])
                                     /\ d[y].args[2] = at(c[y].args[2])
  BY <1>1 DEF SameShape, Replaced, Binary
<1> HIDE DEF at
<1>3. CASE Binary(c[y], "add") /\ c[y].args[2] = Zero
  <2>1. v = c[y].args[1]
    BY <1>3, SimplifyPlain
  <2>2. Binary(d[y], "add") /\ d[y].args[2] = Zero /\ d[y].args[1] = at(v)
    BY <1>2, <1>3, <2>1
  <2>3. Simp!SimplifyInstruction(d, y) = {at(v)} \ {y}
    BY <1>2, <2>2, SimplifyPlain
  <2> QED
    BY <2>3 DEF at
<1>4. CASE Binary(c[y], "add") /\ c[y].args[2] # Zero /\ c[y].args[1] = Zero
  <2>1. v = c[y].args[2]
    BY <1>4, SimplifyPlain
  <2>2. Binary(d[y], "add") /\ d[y].args[1] = Zero /\ d[y].args[2] = at(v)
    BY <1>2, <1>4, <2>1
  <2>3. Simp!SimplifyInstruction(d, y) = {at(v)} \ {y}
    BY <1>2, <2>2, SimplifyPlain
  <2> QED
    BY <2>3 DEF at
<1>5. CASE Binary(c[y], "icmp") /\ c[y].args[1] = c[y].args[2]
  <2>1. v = Zero
    BY <1>5, SimplifyPlain
  <2>2. Binary(d[y], "icmp") /\ d[y].args[1] = d[y].args[2]
    BY <1>2, <1>5
  <2>3. Simp!SimplifyInstruction(d, y) = {at(v)}
    BY <1>2, <2>1, <2>2, SimplifyPlain
  <2> QED
    BY <2>3 DEF at
<1> QED
  BY <1>3, <1>4, <1>5, SimplifyPlain

-----------------------------------------------------------------------------
(* What a step of each pass does to the module, in the operators of this    *)
(* module.                                                                  *)

DceErases == \E w \in DOMAIN code : isDead(code, w) /\ code' = Erase(code, w)

LEMMA DceStep ==
    ASSUME IInv, RunDce
    PROVE  /\ pass = "dce" /\ pass' = "dce" /\ DceP!IInv'
           /\ UNCHANGED <<source, CSEElim, CSELdElim, CSELdStElim, CSERStElim>>
           /\ code' = code \/ DceErases
<1>1. /\ pass = "dce" /\ Dce!Next /\ DceP!IInv
      /\ UNCHANGED <<source, pass, CSEElim, CSELdElim, CSELdStElim, CSERStElim>>
  BY DEF RunDce, IInv, PassInv
<1>2. DceP!IInv'
  BY <1>1, Steps
<1>3. worklist \subseteq DOMAIN code
  BY <1>1 DEF DceP!IInv, DceP!WorklistLive, DceP!InstsOf
<1>4. code' = code \/ DceErases
  <2>1. ASSUME NEW w \in worklist, Dce!EraseDead(w)
        PROVE  DceErases
    BY <1>3, <2>1
       DEF DceErases, Dce!EraseDead, Dce!isDead, isDead, Dce!Removable, Removable,
           Dce!RemovableOp, RemovableOp, Dce!Unused, Unused, Dce!Users, Users,
           Dce!Range, Range, Dce!Erase, Erase, Dce!Restrict, Restrict
  <2> QED
    BY <1>1, <2>1 DEF Dce!Next, Dce!ScanInstruction, Dce!ScanEnd, Dce!Drain,
                      Dce!DropLive, Dce!NextFunction
<1> QED
  BY <1>1, <1>2, <1>4

SimplifyMoves(n, v) ==
    /\ v \in Simp!SimplifyInstruction(code, n)
    /\ code' = ReplaceAllUsesWith(code, n, v)

LEMMA SimplifyStep ==
    ASSUME IInv, RunSimplify
    PROVE  /\ pass = "simplify" /\ pass' = "simplify" /\ SimplifyInv /\ pc = "visit"
           /\ UNCHANGED <<source, worklist, CSEElim, CSELdElim, CSELdStElim, CSERStElim>>
           /\ \/ \E n \in InstsOfBlock(code, bb) :
                    /\ IsNext(n, i, InstsOfBlock(code, bb)) /\ i' = n
                    /\ UNCHANGED <<bb, pc>>
                    /\ \/ \E v \in Value : SimplifyMoves(n, v)
                       \/ Simp!SimplifyInstruction(code, n) = {} /\ code' = code
              \/ /\ IsLast(i, InstsOfBlock(code, bb))
                 /\ bb' = bb + 1 /\ i' = 0 /\ code' = code
                 /\ pc' = IF bb = NumBlocks THEN "done" ELSE "visit"
<1>1. /\ pass = "simplify" /\ Simp!Next /\ SimplifyInv
      /\ UNCHANGED <<source, pass, worklist, CSEElim, CSELdElim, CSELdStElim, CSERStElim>>
  BY DEF RunSimplify, IInv, PassInv
<1>2. CASE Simp!Visit
  <2>1. PICK n \in Simp!Block : /\ Simp!IsNext(n, i, Simp!Block)
                                /\ Simp!MoveUses(n) \/ Simp!Keep(n)
    BY <1>2 DEF Simp!Visit
  <2>2. pc = "visit"
    BY <1>2 DEF Simp!Visit
  <2>3. n \in InstsOfBlock(code, bb) /\ IsNext(n, i, InstsOfBlock(code, bb))
    BY <2>1 DEF Simp!Block, Simp!InstsOfBlock, InstsOfBlock, Simp!IsNext, IsNext
  <2>4. CASE Simp!MoveUses(n)
    <3>1. PICK v \in Simp!SimplifyInstruction(code, n) :
             code' = Simp!ReplaceAllUsesWith(code, n, v)
      BY <2>4 DEF Simp!MoveUses
    <3>2. SimplifyMoves(n, v)
      BY <3>1 DEF SimplifyMoves, Simp!ReplaceAllUsesWith, ReplaceAllUsesWith,
                  Simp!Substituted, Substituted
    <3>3. v \in Value
      BY <1>1, <2>3, <3>1, SimplifyResult DEF IInv, InstsOfBlock
    <3> QED
      BY <1>1, <2>2, <2>3, <2>4, <3>2, <3>3 DEF Simp!MoveUses
  <2>5. CASE Simp!Keep(n)
    BY <1>1, <2>2, <2>3, <2>5 DEF Simp!Keep
  <2> QED
    BY <2>1, <2>4, <2>5
<1>3. CASE Simp!NextBlock
  BY <1>1, <1>3 DEF Simp!NextBlock, Simp!IsLast, IsLast, Simp!Block, Simp!InstsOfBlock,
                    InstsOfBlock
<1> QED
  BY <1>1, <1>2, <1>3 DEF Simp!Next

LEMMA CseStep ==
    ASSUME IInv, RunCse
    PROVE  /\ pass = "cse" /\ pass' = "cse" /\ CseP!IInv /\ CseP!IInv'
           /\ UNCHANGED <<source, worklist, CSELdElim, CSELdStElim, CSERStElim>>
           /\ \/ code' = code
              \/ \E b \in DOMAIN code :
                    /\ i \in DOMAIN code /\ code[i].bb = code[b].bb /\ i < b
                    /\ cse_candidate(code[i]) /\ Basic!Matches(code, i, b)
                    /\ code' = ReplaceAllUsesWith(code, b, i)
<1>1. /\ pass = "cse" /\ Basic!Next /\ CseP!IInv
      /\ UNCHANGED <<source, pass, worklist, CSELdElim, CSELdStElim, CSERStElim>>
  BY DEF RunCse, IInv, PassInv
<1>2. CseP!IInv'
  BY <1>1, Steps
<1>3. ASSUME Basic!Compare, code' # code
      PROVE  \E b \in DOMAIN code :
                /\ i \in DOMAIN code /\ code[i].bb = code[b].bb /\ i < b
                /\ cse_candidate(code[i]) /\ Basic!Matches(code, i, b)
                /\ code' = ReplaceAllUsesWith(code, b, i)
  <2>1. PICK b \in Basic!Block : Basic!IsNext(b, j, Basic!Block) /\ Basic!MoveUses(b)
    BY <1>3 DEF Basic!Compare, Basic!PassOver
  <2>2. b \in DOMAIN code /\ code[b].bb = bb
    BY <2>1 DEF Basic!Block, Basic!InstsOfBlock
  <2>3. i \in DOMAIN code /\ code[i].bb = bb /\ cse_candidate(code[i])
    BY <1>1, <1>3 DEF Basic!Compare, CseP!IInv, CseP!CursorInv, CseP!Block,
                      CseP!InstsOfBlock, CseP!cse_candidate, cse_candidate
  <2>4. i < b
    <3>1. i <= j /\ i \in Nat /\ j \in Nat
      BY <1>1, <1>3 DEF Basic!Compare, CseP!IInv, CseP!CursorInv, CseP!TypeOK
    <3>2. j < b /\ b \in Nat
      BY <2>1, <2>2, InstAssumption DEF Basic!IsNext, IInv, Accepted, WellFormed
    <3> QED
      BY <3>1, <3>2
  <2>5. Basic!Matches(code, i, b) /\ code' = ReplaceAllUsesWith(code, b, i)
    BY <2>1 DEF Basic!MoveUses, Basic!ReplaceAllUsesWith, ReplaceAllUsesWith,
                Basic!Substituted, Substituted
  <2> QED
    BY <2>2, <2>3, <2>4, <2>5
<1> QED
  BY <1>1, <1>2, <1>3 DEF Basic!Next, Basic!Visit, Basic!InnerEnd, Basic!NextBlock

\* Loads i and R of a block read the same address, with no store between.
Rereads(R) ==
    /\ i \in DOMAIN code /\ R \in DOMAIN code /\ i < R /\ code[i].bb = code[R].bb
    /\ IsLoad(code[i]) /\ IsLoad(code[R]) /\ ~code[R].vol
    /\ Address(code[i]) = Address(code[R])
    /\ \A n \in DOMAIN code : code[n].bb = code[i].bb /\ i < n /\ n < R => ~IsStore(code[n])

LEMMA LoadStep ==
    ASSUME IInv, RunLoadCse
    PROVE  /\ pass = "load_cse" /\ pass' = "load_cse"
           /\ LoadP!IInv' /\ LoadP!ResultInv' /\ worklist \subseteq DOMAIN code
           /\ UNCHANGED <<source, CSEElim, CSELdStElim, CSERStElim>>
           /\ \/ code' = code /\ worklist' = worklist
              \/ \E R \in DOMAIN code :
                    /\ Rereads(R)
                    /\ code' = ReplaceAllUsesWith(code, R, i)
                    /\ worklist' = worklist \cup {R}
              \/ \E w \in worklist : /\ Unused(code, w)
                                     /\ code' = Erase(code, w) /\ worklist' = worklist \ {w}
<1>1. /\ pass = "load_cse" /\ Loads!Next /\ LoadP!IInv /\ LoadP!ResultInv
      /\ UNCHANGED <<source, pass, CSEElim, CSELdStElim, CSERStElim>>
  BY DEF RunLoadCse, IInv, PassInv
<1>2. LoadP!IInv' /\ LoadP!ResultInv'
  BY <1>1, Steps
<1>3. worklist \subseteq DOMAIN code /\ DOMAIN code \subseteq Nat
  BY <1>1, InstAssumption
     DEF LoadP!IInv, LoadP!TypeOK, LoadP!Block, LoadP!InstsOfBlock, IInv, Accepted, WellFormed
<1>4. ASSUME NEW R \in Loads!Block, Loads!IsNext(R, j, Loads!Block), Loads!ReplaceLoad(R),
             pc = "inner"
      PROVE  /\ R \in DOMAIN code /\ Rereads(R)
             /\ code' = ReplaceAllUsesWith(code, R, i)
             /\ worklist' = worklist \cup {R}
  <2>1. /\ R \in DOMAIN code /\ code[R].bb = bb /\ j < R
        /\ \A k \in DOMAIN code : code[k].bb = bb /\ k > j => R <= k
    BY <1>4 DEF Loads!Block, Loads!InstsOfBlock, Loads!IsNext
  <2>2. /\ i \in DOMAIN code /\ code[i].bb = bb /\ IsLoad(code[i]) /\ i <= j /\ j \in Nat
        /\ \A k \in DOMAIN code : code[k].bb = bb /\ i < k /\ k <= j => ~IsStore(code[k])
    BY <1>1, <1>4 DEF LoadP!IInv, LoadP!CursorInv, LoadP!Block, LoadP!InstsOfBlock,
                      LoadP!TypeOK, LoadP!IsLoad, IsLoad, LoadP!IsStore, IsStore
  <2>3. /\ IsLoad(code[R]) /\ ~code[R].vol /\ worklist' = worklist \cup {R}
        /\ Address(code[i]) = Address(code[R])
    BY <1>4 DEF Loads!ReplaceLoad, Loads!Repeats, Loads!IsLoad, IsLoad, Loads!Address,
                Address, Loads!IsStore, IsStore
  <2>4. code' = ReplaceAllUsesWith(code, R, i)
    BY <1>4 DEF Loads!ReplaceLoad, Loads!ReplaceAllUsesWith, ReplaceAllUsesWith,
                Loads!Substituted, Substituted
  <2>5. i < R /\ \A n \in DOMAIN code : n < R => n <= j \/ code[n].bb # bb
    BY <1>3, <2>1, <2>2
  <2> QED
    BY <2>1, <2>2, <2>3, <2>4, <2>5 DEF Rereads
<1>5. Loads!EraseQueued =>
         \E w \in worklist : /\ Unused(code, w)
                             /\ code' = Erase(code, w) /\ worklist' = worklist \ {w}
  BY <1>1 DEF Loads!EraseQueued, Loads!Erase, Erase, Loads!Restrict, Restrict,
              LoadP!IInv, LoadP!QueuedUnused, LoadP!Unused, Unused, LoadP!Users, Users,
              LoadP!Range, Range
<1> QED
  BY <1>1, <1>2, <1>3, <1>4, <1>5
     DEF Loads!Next, Loads!Visit, Loads!BlockEnd, Loads!Compare, Loads!StopAtStore,
         Loads!PassOver, Loads!InnerEnd, Loads!NextBlock

\* The load R reads what the store i of its block has written.
ReadsBack(R) ==
    /\ i \in DOMAIN code /\ R \in DOMAIN code /\ i < R /\ code[i].bb = code[R].bb
    /\ IsStore(code[i]) /\ IsLoad(code[R]) /\ ~code[R].vol
    /\ Address(code[i]) = Address(code[R])
    /\ \A n \in DOMAIN code : code[n].bb = code[i].bb /\ i < n /\ n < R
          => code[n].op \notin {"store", "call"}

\* A later store overwrites w; only queued loads stand between.
CoveredBy(o, w) ==
    /\ o \in DOMAIN code /\ w < o /\ code[o].bb = code[w].bb
    /\ IsStore(code[o]) /\ Address(code[o]) = Address(code[w])
    /\ \A k \in DOMAIN code : code[k].bb = code[w].bb /\ w < k /\ k < o
          => ~has_sideeffect(code[k]) \/ (k \in worklist /\ IsLoad(code[k]))

LEMMA StoreStep ==
    ASSUME IInv, RunStoreCse
    PROVE  /\ pass = "store_cse" /\ pass' = "store_cse"
           /\ StoreP!IInv' /\ StoreP!ResultInv' /\ StoreP!CoveredInv'
           /\ worklist \subseteq DOMAIN code
           /\ \A w \in worklist : Unused(code, w)
           /\ UNCHANGED <<source, CSEElim, CSELdElim>>
           /\ \/ UNCHANGED <<code, worklist, CSERStElim>>
              \/ \E R \in DOMAIN code, v \in Value :
                    /\ ReadsBack(R) /\ v = code[i].args[1]
                    /\ code' = ReplaceAllUsesWith(code, R, v)
                    /\ worklist' = worklist \cup {R} /\ UNCHANGED CSERStElim
              \/ /\ i \in DOMAIN code /\ i \notin worklist /\ IsStore(code[i])
                 /\ code' = code
                 /\ worklist' = worklist \cup {i} /\ CSERStElim' = CSERStElim + 1
              \/ \E w \in worklist :
                    /\ IsStore(code[w]) => \E o : CoveredBy(o, w)
                    /\ code' = Erase(code, w)
                    /\ worklist' = worklist \ {w} /\ UNCHANGED CSERStElim
<1>1. /\ pass = "store_cse" /\ Stores!Next
      /\ StoreP!IInv /\ StoreP!ResultInv /\ StoreP!CoveredInv
      /\ UNCHANGED <<source, pass, CSEElim, CSELdElim>>
  BY DEF RunStoreCse, IInv, PassInv
<1>2. StoreP!IInv' /\ StoreP!ResultInv' /\ StoreP!CoveredInv'
  BY <1>1, Steps
<1>3. worklist \subseteq DOMAIN code /\ DOMAIN code \subseteq Nat
  BY <1>1, InstAssumption
     DEF StoreP!IInv, StoreP!TypeOK, StoreP!Block, StoreP!InstsOfBlock, IInv, Accepted, WellFormed
<1>4. pc = "inner" => i \in DOMAIN code /\ IsStore(code[i]) /\ i \notin worklist
  BY <1>1, <1>3
     DEF StoreP!IInv, StoreP!CursorInv, StoreP!QueueBehind, StoreP!Block,
         StoreP!InstsOfBlock, StoreP!IsStore, IsStore
<1>5. ASSUME NEW R \in Stores!Block, Stores!IsNext(R, j, Stores!Block),
             Stores!ForwardToLoad(R), pc = "inner"
      PROVE  /\ R \in DOMAIN code /\ ReadsBack(R)
             /\ code[i].args[1] \in Value
             /\ code' = ReplaceAllUsesWith(code, R, code[i].args[1])
             /\ worklist' = worklist \cup {R} /\ UNCHANGED CSERStElim
  <2>1. /\ R \in StoreP!Block /\ StoreP!IsNext(R, j, StoreP!Block)
    BY <1>5 DEF Stores!Block, StoreP!Block, Stores!InstsOfBlock, StoreP!InstsOfBlock,
                Stores!IsNext, StoreP!IsNext
  <2>2. /\ i \in DOMAIN code /\ R \in DOMAIN code /\ i < R
        /\ code[i].bb = bb /\ code[R].bb = bb /\ StoreP!IsStore(code[i])
        /\ \A k \in DOMAIN code : code[k].bb = bb /\ i < k /\ k < R
              => /\ ~StoreP!IsStore(code[k])
                 /\ ~StoreP!has_sideeffect(code[k]) \/ k \in StoreP!QueuedLoads
    BY <1>1, <1>5, <2>1, InstAssumption, PassesAssume, SameOrder, StoreP!PassedBy
  <2>3. /\ IsLoad(code[R]) /\ ~code[R].vol /\ Address(code[i]) = Address(code[R])
        /\ worklist' = worklist \cup {R} /\ UNCHANGED CSERStElim
    BY <1>5 DEF Stores!ForwardToLoad, Stores!LoadsBack, Stores!IsLoad, IsLoad, Stores!Address,
                Address, Stores!IsStore, IsStore
  <2>4. ReadsBack(R)
    BY <2>2, <2>3 DEF ReadsBack, StoreP!QueuedLoads, StoreP!IsStore, IsStore, StoreP!IsLoad,
                      StoreP!has_sideeffect
  <2>5. code[i].args[1] \in Value
    <3>1. code[i].args \in Seq(Value) /\ Len(code[i].args) = 2
      BY <1>4, <1>5 DEF IInv, Accepted, WellFormed, Instruction, MemoryShaped
    <3> QED
      BY <3>1
  <2>6. code' = ReplaceAllUsesWith(code, R, code[i].args[1])
    BY <1>5 DEF Stores!ForwardToLoad, Stores!ReplaceAllUsesWith, ReplaceAllUsesWith,
                Stores!Substituted, Substituted, Stores!StoredValue
  <2> QED
    BY <2>2, <2>3, <2>4, <2>5, <2>6
<1>6. ASSUME NEW w \in worklist, IsStore(code[w])
      PROVE  \E o : CoveredBy(o, w)
  <2>1. PICK o : StoreP!Covers(o, w)
    BY <1>1, <1>6 DEF StoreP!CoveredInv, StoreP!IsLoad, IsStore
  <2>2. CoveredBy(o, w)
    BY <2>1 DEF StoreP!Covers, CoveredBy, StoreP!IsStore, IsStore, StoreP!IsLoad, IsLoad,
                StoreP!Address, Address, StoreP!has_sideeffect, has_sideeffect,
                StoreP!QueuedLoads
  <2> QED
    BY <2>2
<1>7. Stores!EraseQueued =>
         \E w \in worklist : /\ code' = Erase(code, w)
                             /\ worklist' = worklist \ {w} /\ UNCHANGED CSERStElim
  BY DEF Stores!EraseQueued, Stores!Erase, Erase, Stores!Restrict, Restrict
<1>8. Stores!Compare =>
         \/ UNCHANGED <<code, worklist, CSERStElim>>
         \/ /\ pc = "inner"
            /\ \E R \in Stores!Block :
                  Stores!IsNext(R, j, Stores!Block) /\ Stores!ForwardToLoad(R)
         \/ /\ pc = "inner" /\ code' = code
            /\ worklist' = worklist \cup {i} /\ CSERStElim' = CSERStElim + 1
  BY DEF Stores!Compare, Stores!QueueStore, Stores!StopAtSideEffect, Stores!PassOver
<1>9. \A w \in worklist : Unused(code, w)
  BY <1>1 DEF StoreP!IInv, StoreP!QueuedUnused, StoreP!Unused, Unused, StoreP!Users, Users,
              StoreP!Range, Range
<1> QED
  BY <1>1, <1>2, <1>3, <1>4, <1>5, <1>6, <1>7, <1>8, <1>9
     DEF Stores!Next, Stores!Visit, Stores!BlockEnd, Stores!InnerEnd, Stores!NextBlock

-----------------------------------------------------------------------------
LEMMA InitIInv == Init => IInv
<1> SUFFICES ASSUME Init PROVE IInv
  OBVIOUS
<1>1. /\ source \in Programs /\ given = source /\ code = source /\ pass = "dce"
      /\ worklist = {} /\ Accepted(source)
      /\ CSEElim = 0 /\ CSELdElim = 0 /\ CSELdStElim = 0 /\ CSERStElim = 0
  BY ProgramsAssumption DEF Init
<1>2. DceP!IInv
  <2>1. DceP!Init
    BY <1>1, AcceptedModule DEF Init, DceP!Init, Entry
  <2> QED
    BY <2>1, Starts
<1>3. ObservableInv
  <2>1. Gone = {} /\ QueuedStores = {}
    BY <1>1 DEF Gone, QueuedStores
  <2>2. Cardinality({}) = 0
    BY FS_EmptySet
  <2> QED
    BY <1>1, <2>1, <2>2 DEF ObservableInv
<1>4. TwinsInv
  BY <1>1 DEF TwinsInv, Twins
<1> QED
  BY <1>1, <1>2, <1>3, <1>4 DEF IInv, Passes, Origin, CountersInv, PassInv, QueueKinds

(* The sets that ObservableInv counts are finite.                           *)
LEMMA FiniteParts ==
    ASSUME IInv
    PROVE  /\ Accepted(source)
           /\ IsFiniteSet(Gone) /\ Cardinality(Gone) \in Nat
           /\ IsFiniteSet(QueuedStores) /\ Cardinality(QueuedStores) \in Nat
<1>1. Accepted(source) /\ Accepted(code)
  BY ProgramsAssumption DEF IInv
<1>2. IsFiniteSet(DOMAIN source) /\ IsFiniteSet(DOMAIN code)
  BY <1>1 DEF Accepted, WellFormed
<1>3. IsFiniteSet(Gone)
  BY <1>2, FS_Subset DEF Gone
<1>4. QueuedStores \subseteq DOMAIN code
  BY DEF QueuedStores, IInv, PassInv, StoreP!IInv, StoreP!TypeOK, StoreP!Block,
         StoreP!InstsOfBlock
<1>5. IsFiniteSet(QueuedStores)
  BY <1>2, <1>4, FS_Subset
<1> QED
  BY <1>1, <1>3, <1>5, FS_CardinalityType

\* d has instructions of c, up to their operands.
Within(c, d) ==
    /\ DOMAIN d \subseteq DOMAIN c
    /\ \A k \in DOMAIN d :
          /\ d[k].op = c[k].op /\ d[k].vol = c[k].vol /\ d[k].ty = c[k].ty
          /\ d[k].fn = c[k].fn /\ d[k].bb = c[k].bb

LEMMA MutationsWithin ==
    ASSUME NEW c, WellFormed(c)
    PROVE  /\ Within(c, c)
           /\ \A k : Within(c, Erase(c, k))
           /\ \A r : \A v \in Value : Within(c, ReplaceAllUsesWith(c, r, v))
<1>1. \A k : Within(c, Erase(c, k))
  BY EraseEffect DEF Within
<1>2. \A r : \A v \in Value : Within(c, ReplaceAllUsesWith(c, r, v))
  BY ReplaceEffect DEF Within, SameShape
<1> QED
  BY <1>1, <1>2 DEF Within

(* What does not depend on the operands stays as it is.                     *)
LEMMA WithinKept ==
    ASSUME IInv, pass # "dce", UNCHANGED <<source, pass>>, Within(code, code'),
           WellFormed(code'), MemoryShaped(code'), DefsBeforeUses(code', SDom)
    PROVE  Accepted(code)' /\ Origin' /\ (source \in Programs)' /\ (pass \in Passes)'
<1>1. Accepted(code')
  BY DEF IInv, Accepted, Within
<1>2. Origin'
  BY DEF IInv, Origin, Within
<1> QED
  BY <1>1, <1>2 DEF IInv

(* Without an erasure nothing observable goes, and what is queued stays.    *)
LEMMA NothingGone ==
    ASSUME IInv, UNCHANGED source, DOMAIN code' = DOMAIN code
    PROVE  Gone' = Gone
  BY DEF Gone

(* Nor does it when what is erased is not observable.                       *)
LEMMA UnobservableGone ==
    ASSUME IInv, UNCHANGED source, NEW w \in DOMAIN code, ~Observable(code[w]),
           code' = Erase(code, w)
    PROVE  Gone' = Gone
<1>1. DOMAIN code' = DOMAIN code \ {w}
  BY EraseEffect
<1>2. ~Observable(source[w])
  BY DEF IInv, Origin, Observable
<1> QED
  BY <1>1, <1>2 DEF Gone

(* A load uses its address.                                                 *)
LEMMA AddressUsed ==
    ASSUME NEW c, Accepted(c), NEW L \in DOMAIN c, IsLoad(c[L])
    PROVE  Address(c[L]) \in Range(c[L].args) /\ Address(c[L]) \in Value
<1>1. c[L].args \in Seq(Value) /\ Len(c[L].args) = 1 /\ Address(c[L]) = c[L].args[1]
  BY DEF Accepted, WellFormed, MemoryShaped, Instruction, IsLoad, IsStore, Address
<1> QED
  BY <1>1 DEF Range

(* The address of a load under replaceAllUsesWith.                          *)
LEMMA AddressMoves ==
    ASSUME NEW c, Accepted(c), NEW L \in DOMAIN c, IsLoad(c[L]),
           NEW r, NEW v \in Value, NEW d, d = ReplaceAllUsesWith(c, r, v)
    PROVE  Address(d[L]) = IF Address(c[L]) = r THEN v ELSE Address(c[L])
<1>1. WellFormed(c) /\ c[L].args \in Seq(Value) /\ Len(c[L].args) = 1 /\ ~IsStore(c[L])
  BY DEF Accepted, WellFormed, MemoryShaped, Instruction, IsLoad, IsStore
<1>2. Replaced(c[L].args, d[L].args, r, v) /\ ~IsStore(d[L])
  BY <1>1, ReplaceEffect DEF SameShape, IsStore
<1>3. Address(c[L]) = c[L].args[1] /\ Address(d[L]) = d[L].args[1]
  BY <1>1, <1>2 DEF Address
<1> QED
  BY <1>1, <1>2, <1>3 DEF Replaced

(* Instructions with equal operands keep equal operands.                    *)
LEMMA MatchesMoves ==
    ASSUME NEW c, WellFormed(c), NEW x \in DOMAIN c, NEW y \in DOMAIN c,
           Basic!Matches(c, x, y),
           NEW r, NEW v \in Value, NEW d, d = ReplaceAllUsesWith(c, r, v)
    PROVE  Basic!Matches(d, x, y)
<1>1. SameShape(c, d)
  BY ReplaceEffect
<1>2. c \in [DOMAIN c -> Instruction]
  BY DEF WellFormed
<1>3. \A k \in DOMAIN c : d[k].args = Substituted(c[k].args, r, v)
  BY <1>2 DEF ReplaceAllUsesWith, Instruction
<1> QED
  BY <1>1, <1>3 DEF SameShape, Basic!Matches

-----------------------------------------------------------------------------
(* dce: what it erases has no use, hence is no twin's address, and is not   *)
(* observable.                                                              *)
LEMMA DceIInv == IInv /\ RunDce => IInv'
<1> SUFFICES ASSUME IInv, RunDce PROVE IInv'
  OBVIOUS
<1>1. /\ pass = "dce" /\ pass' = "dce" /\ DceP!IInv'
      /\ UNCHANGED <<source, CSEElim, CSELdElim, CSELdStElim, CSERStElim>>
      /\ code' = code \/ DceErases
  BY DceStep
<1>2. /\ Accepted(code) /\ Accepted(source) /\ Origin
  BY FiniteParts DEF IInv
<1>3. \A k \in DOMAIN code : code[k] = source[k]
  BY <1>1, <1>2 DEF Origin
<1>4. /\ Accepted(code') /\ Gone' = Gone
      /\ DOMAIN code' \subseteq DOMAIN code /\ \A k \in DOMAIN code' : code'[k] = code[k]
  <2>1. CASE code' = code
    BY <1>1, <1>2, <2>1, NothingGone
  <2>2. ASSUME NEW w \in DOMAIN code, isDead(code, w), code' = Erase(code, w)
        PROVE  /\ Accepted(code') /\ Gone' = Gone
               /\ DOMAIN code' \subseteq DOMAIN code
               /\ \A k \in DOMAIN code' : code'[k] = code[k]
    <3>1. DOMAIN code' = DOMAIN code \ {w} /\ \A k \in DOMAIN code' : code'[k] = code[k]
      BY <2>2, EraseEffect
    <3>2. WellFormed(code') /\ DefsBeforeUses(code', SDom) /\ MemoryShaped(code')
      BY <1>2, <2>2, EraseUnused DEF Accepted, isDead
    <3>3. Accepted(code')
      BY <1>2, <3>1, <3>2 DEF Accepted
    <3>4. ~Observable(code[w])
      BY <1>2, <2>2 DEF Accepted, WellFormed, isDead, Removable, RemovableOp, Observable
    <3> QED
      BY <1>1, <2>2, <3>1, <3>3, <3>4, UnobservableGone
  <2> QED
    BY <1>1, <2>1, <2>2 DEF DceErases
<1>5. Origin'
  BY <1>1, <1>2, <1>3, <1>4 DEF Origin
<1>6. ObservableInv'
  <2>1. QueuedStores = {} /\ QueuedStores' = {}
    BY <1>1 DEF QueuedStores
  <2> QED
    BY <1>1, <1>4, <2>1 DEF IInv, ObservableInv
<1>7. TwinsInv'
  <2> SUFFICES ASSUME NEW L \in DOMAIN code', NEW R \in DOMAIN code', Twins(L, R)'
               PROVE  SameAddress(code', L, R)
    BY <1>1 DEF TwinsInv
  <2>1. SameAddress(source, L, R) /\ IsLoad(source[L]) /\ IsLoad(source[R])
    BY <1>1 DEF Twins, SameAddress
  <2>2. \A k \in DOMAIN code' : code'[k] = source[k]
    BY <1>3, <1>4
  <2>3. /\ Address(code'[L]) \in Range(code'[L].args)
        /\ Address(code'[R]) \in Range(code'[R].args)
    BY <1>4, <2>1, <2>2, AddressUsed
  <2>4. \A k \in DOMAIN code' : \A o \in Range(code'[k].args) : o \in Inst => o \in DOMAIN code'
    BY <1>4 DEF Accepted, WellFormed
  <2>5. DOMAIN source \subseteq Inst
    BY <1>2 DEF Accepted, WellFormed
  <2> QED
    BY <2>1, <2>2, <2>3, <2>4, <2>5 DEF SameAddress, Basic!Matches
<1> QED
  BY <1>1, <1>4, <1>5, <1>6, <1>7 DEF IInv, CountersInv, PassInv, QueueKinds

(* cse: the operands of what matched are rewritten alike, so it still does. *)
LEMMA CseIInv == IInv /\ RunCse => IInv'
<1> SUFFICES ASSUME IInv, RunCse PROVE IInv'
  OBVIOUS
<1>1. /\ pass = "cse" /\ pass' = "cse" /\ CseP!IInv'
      /\ UNCHANGED <<source, worklist, CSELdElim, CSELdStElim, CSERStElim>>
  BY CseStep
<1>2. Accepted(code) /\ WellFormed(code) /\ DOMAIN code \subseteq Value
  BY DEF IInv, Accepted, WellFormed, Value
<1>3. \/ code' = code
      \/ \E b \in DOMAIN code :
            /\ i \in DOMAIN code /\ code[i].bb = code[b].bb
            /\ cse_candidate(code[i]) /\ Basic!Matches(code, i, b)
            /\ code' = ReplaceAllUsesWith(code, b, i)
  BY CseStep
<1>4. Within(code, code') /\ DOMAIN code' = DOMAIN code
  <2>1. ASSUME i \in DOMAIN code, NEW b, code' = ReplaceAllUsesWith(code, b, i)
        PROVE  SameShape(code, code')
    BY <1>2, <2>1, ReplaceEffect
  <2> QED
    BY <1>3, <2>1 DEF SameShape, Within
<1>5. WellFormed(code') /\ MemoryShaped(code') /\ DefsBeforeUses(code', SDom)
  <2>1. CseP!WellFormed(code') /\ CseP!MemoryShaped(code') /\ CseP!DefsBeforeUses(code', SDom)
    BY <1>1 DEF CseP!IInv, CseP!TypeOK, CseP!DominanceKept
  <2> QED
    BY <2>1, SameModules
<1>6. /\ Accepted(code)' /\ Origin' /\ (source \in Programs)' /\ (pass \in Passes)'
  BY <1>1, <1>4, <1>5, WithinKept
<1>7. ObservableInv'
  <2>1. QueuedStores = {} /\ QueuedStores' = {} /\ Gone' = Gone
    BY <1>1, <1>4, NothingGone DEF QueuedStores
  <2> QED
    BY <1>1, <2>1 DEF IInv, ObservableInv
<1>8. ASSUME LayoutFollows(SDom) PROVE TwinsInv'
  <2> SUFFICES ASSUME NEW L \in DOMAIN code, NEW R \in DOMAIN code, Twins(L, R)
               PROVE  SameAddress(code', L, R)
    BY <1>1, <1>4 DEF TwinsInv, Twins, SameAddress
  <2>1. SameAddress(code, L, R) /\ IsLoad(code[L]) /\ IsLoad(code[R])
    BY <1>1, <1>8 DEF IInv, TwinsInv, Twins, Origin, IsLoad
  <2>2. CASE code' = code
    BY <2>1, <2>2
  <2>3. ASSUME NEW b \in DOMAIN code, i \in DOMAIN code, code[i].bb = code[b].bb,
               cse_candidate(code[i]), Basic!Matches(code, i, b),
               code' = ReplaceAllUsesWith(code, b, i)
        PROVE  SameAddress(code', L, R)
    <3> DEFINE x == Address(code[L])
               y == Address(code[R])
               at(a) == IF a = b THEN i ELSE a
    <3>1. i \in Value
      BY <1>2, <2>3
    <3>2. Address(code'[L]) = at(x) /\ Address(code'[R]) = at(y)
      BY <1>2, <2>1, <2>3, <3>1, AddressMoves
    <3>3. CASE x = y
      BY <3>2, <3>3 DEF SameAddress
    <3>4. CASE x # y
      <4>1. /\ x \in DOMAIN code /\ y \in DOMAIN code /\ code[x].bb = code[y].bb
            /\ cse_candidate(code[x]) /\ code[x].op # "phi" /\ Basic!Matches(code, x, y)
        BY <2>1, <3>4 DEF SameAddress
      <4>2. /\ at(x) \in DOMAIN code /\ at(y) \in DOMAIN code
            /\ code[at(x)].bb = code[at(y)].bb
            /\ cse_candidate(code[at(x)]) /\ code[at(x)].op # "phi"
            /\ Basic!Matches(code, at(x), at(y))
        BY <2>3, <4>1 DEF Basic!Matches, cse_candidate
      <4>3. Basic!Matches(code', at(x), at(y))
        BY <1>2, <2>3, <3>1, <4>2, MatchesMoves
      <4> QED
        BY <1>4, <3>2, <4>2, <4>3 DEF SameAddress, Within, cse_candidate
    <3> QED
      BY <3>3, <3>4
  <2> QED
    BY <1>3, <2>2, <2>3
<1> QED
  BY <1>1, <1>6, <1>7, <1>8 DEF IInv, CountersInv, PassInv, QueueKinds

(* load_cse: equal addresses stay equal, and what is erased is no volatile  *)
(* load.                                                                    *)
LEMMA LoadIInv == IInv /\ RunLoadCse => IInv'
<1> SUFFICES ASSUME IInv, RunLoadCse PROVE IInv'
  OBVIOUS
<1>1. /\ pass = "load_cse" /\ pass' = "load_cse"
      /\ LoadP!IInv' /\ LoadP!ResultInv' /\ worklist \subseteq DOMAIN code
      /\ UNCHANGED <<source, CSEElim, CSELdStElim, CSERStElim>>
  BY LoadStep
<1>2. Accepted(code) /\ WellFormed(code) /\ DOMAIN code \subseteq Value
  BY DEF IInv, Accepted, WellFormed, Value
<1>3. \/ code' = code /\ worklist' = worklist
      \/ \E R \in DOMAIN code :
            /\ i \in DOMAIN code /\ IsLoad(code[R]) /\ ~code[R].vol
            /\ code' = ReplaceAllUsesWith(code, R, i)
            /\ worklist' = worklist \cup {R}
      \/ \E w \in worklist : code' = Erase(code, w) /\ worklist' = worklist \ {w}
  BY LoadStep DEF Rereads
<1>4. \A w \in worklist : IsLoad(code[w]) /\ ~code[w].vol
  BY <1>1 DEF IInv, QueueKinds
<1>5. /\ Within(code, code') /\ Gone' = Gone
      /\ worklist' \subseteq DOMAIN code'
      /\ \A w \in worklist' : IsLoad(code[w]) /\ ~code[w].vol
      /\ \A k, l \in DOMAIN code' :
            IsLoad(code[k]) /\ IsLoad(code[l]) /\ Address(code[k]) = Address(code[l])
            => Address(code'[k]) = Address(code'[l])
  <2>1. CASE code' = code /\ worklist' = worklist
    BY <1>1, <1>2, <1>4, <2>1, MutationsWithin, NothingGone
  <2>2. ASSUME i \in DOMAIN code, NEW R \in DOMAIN code, IsLoad(code[R]), ~code[R].vol,
               code' = ReplaceAllUsesWith(code, R, i), worklist' = worklist \cup {R}
        PROVE  /\ Within(code, code') /\ Gone' = Gone
               /\ worklist' \subseteq DOMAIN code'
               /\ \A w \in worklist' : IsLoad(code[w]) /\ ~code[w].vol
               /\ \A k, l \in DOMAIN code' :
                     IsLoad(code[k]) /\ IsLoad(code[l]) /\ Address(code[k]) = Address(code[l])
                     => Address(code'[k]) = Address(code'[l])
    <3>1. Within(code, code') /\ DOMAIN code' = DOMAIN code
      BY <1>2, <2>2, MutationsWithin, ReplaceEffect DEF SameShape
    <3>2. Gone' = Gone
      BY <1>1, <3>1, NothingGone
    <3>3. \A l \in DOMAIN code : IsLoad(code[l]) =>
             Address(code'[l]) = IF Address(code[l]) = R THEN i ELSE Address(code[l])
      BY <1>2, <2>2, AddressMoves
    <3> QED
      BY <1>1, <1>4, <2>2, <3>1, <3>2, <3>3
  <2>3. ASSUME NEW w \in worklist, code' = Erase(code, w), worklist' = worklist \ {w}
        PROVE  /\ Within(code, code') /\ Gone' = Gone
               /\ worklist' \subseteq DOMAIN code'
               /\ \A l \in worklist' : IsLoad(code[l]) /\ ~code[l].vol
               /\ \A k, l \in DOMAIN code' :
                     IsLoad(code[k]) /\ IsLoad(code[l]) /\ Address(code[k]) = Address(code[l])
                     => Address(code'[k]) = Address(code'[l])
    <3>1. /\ DOMAIN code' = DOMAIN code \ {w}
          /\ \A k \in DOMAIN code' : code'[k] = code[k]
      BY <2>3, EraseEffect
    <3>2. ~Observable(code[w])
      BY <1>4 DEF IsLoad, Observable
    <3>3. Gone' = Gone
      BY <1>1, <2>3, <3>2, UnobservableGone
    <3> QED
      BY <1>1, <1>4, <2>3, <3>1, <3>3 DEF Within
  <2> QED
    BY <1>3, <2>1, <2>2, <2>3
<1>6. WellFormed(code') /\ MemoryShaped(code') /\ DefsBeforeUses(code', SDom)
  <2>1. LoadP!WellFormed(code') /\ LoadP!MemoryShaped(code') /\ LoadP!DefsBeforeUses(code', SDom)
    BY <1>1 DEF LoadP!IInv, LoadP!TypeOK, LoadP!DominanceKept
  <2> QED
    BY <2>1, SameModules
<1>7. /\ Accepted(code)' /\ Origin' /\ (source \in Programs)' /\ (pass \in Passes)'
  BY <1>1, <1>5, <1>6, WithinKept
<1>8. ObservableInv' /\ QueueKinds'
  <2>1. QueuedStores = {} /\ QueuedStores' = {}
    BY <1>1 DEF QueuedStores
  <2>2. QueueKinds'
    BY <1>1, <1>5 DEF QueueKinds, Within, IsLoad
  <2> QED
    BY <1>1, <1>5, <2>1, <2>2 DEF IInv, ObservableInv
<1>9. ASSUME LayoutFollows(SDom) PROVE TwinsInv'
  <2> SUFFICES ASSUME NEW L \in DOMAIN code', NEW R \in DOMAIN code', Twins(L, R)
               PROVE  Address(code'[L]) = Address(code'[R])
    BY <1>1 DEF TwinsInv, Twins, SameAddress
  <2>1. /\ L \in DOMAIN code /\ R \in DOMAIN code
        /\ Address(code[L]) = Address(code[R]) /\ IsLoad(code[L]) /\ IsLoad(code[R])
    BY <1>1, <1>5, <1>9 DEF IInv, TwinsInv, Twins, Origin, IsLoad, Within
  <2> QED
    BY <1>5, <2>1
<1> QED
  BY <1>1, <1>7, <1>8, <1>9 DEF IInv, CountersInv, PassInv

(* store_cse: a store is counted when it is queued, and goes once.          *)
LEMMA StoreIInv == IInv /\ RunStoreCse => IInv'
<1> SUFFICES ASSUME IInv, RunStoreCse PROVE IInv'
  OBVIOUS
<1>1. /\ pass = "store_cse" /\ pass' = "store_cse"
      /\ StoreP!IInv' /\ StoreP!ResultInv' /\ StoreP!CoveredInv'
      /\ worklist \subseteq DOMAIN code
      /\ UNCHANGED <<source, CSEElim, CSELdElim>>
  BY StoreStep
<1>2. /\ WellFormed(code) /\ QueueKinds /\ Origin
      /\ \A r \in Gone : IsStore(source[r])
      /\ CSERStElim = Cardinality(Gone) + Cardinality(QueuedStores)
      /\ QueuedStores = {w \in worklist : IsStore(code[w])}
  BY <1>1 DEF IInv, Accepted, ObservableInv, QueuedStores
<1>3. /\ IsFiniteSet(Gone) /\ Cardinality(Gone) \in Nat
      /\ IsFiniteSet(QueuedStores) /\ Cardinality(QueuedStores) \in Nat
  BY FiniteParts
<1>4. QueuedStores' = {w \in worklist' : IsStore(code'[w])}
  BY <1>1 DEF QueuedStores
<1>5. Within(code, code') /\ QueueKinds' /\ ObservableInv'
  <2>1. CASE UNCHANGED <<code, worklist, CSERStElim>>
    <3>1. Gone' = Gone /\ QueuedStores' = QueuedStores
      BY <1>1, <1>2, <1>4, <2>1, NothingGone
    <3> QED
      BY <1>1, <1>2, <2>1, <3>1, MutationsWithin DEF QueueKinds, ObservableInv
  <2>2. ASSUME NEW R \in DOMAIN code, NEW v \in Value, IsLoad(code[R]), ~code[R].vol,
               code' = ReplaceAllUsesWith(code, R, v), worklist' = worklist \cup {R},
               UNCHANGED CSERStElim
        PROVE  Within(code, code') /\ QueueKinds' /\ ObservableInv'
    <3>1. Within(code, code') /\ DOMAIN code' = DOMAIN code
      BY <1>2, <2>2, MutationsWithin, ReplaceEffect DEF SameShape
    <3>2. Gone' = Gone
      BY <1>1, <3>1, NothingGone
    <3>3. QueuedStores' = QueuedStores
      BY <1>1, <1>2, <1>4, <2>2, <3>1 DEF Within, IsStore, IsLoad
    <3>4. QueueKinds'
      BY <1>1, <1>2, <2>2, <3>1 DEF QueueKinds, Within, IsLoad, IsStore
    <3> QED
      BY <1>1, <1>2, <2>2, <3>1, <3>2, <3>3, <3>4 DEF ObservableInv
  <2>3. CASE /\ i \in DOMAIN code /\ i \notin worklist /\ IsStore(code[i])
             /\ code' = code
             /\ worklist' = worklist \cup {i} /\ CSERStElim' = CSERStElim + 1
    <3>1. Gone' = Gone /\ Within(code, code')
      BY <1>1, <1>2, <2>3, NothingGone, MutationsWithin
    <3>2. QueuedStores' = QueuedStores \cup {i} /\ i \notin QueuedStores
      BY <1>2, <1>4, <2>3
    <3>3. Cardinality(QueuedStores') = Cardinality(QueuedStores) + 1
      BY <1>3, <3>2, FS_AddElement
    <3>4. QueueKinds'
      BY <1>1, <1>2, <2>3 DEF QueueKinds
    <3>5. CSERStElim' = Cardinality(Gone') + Cardinality(QueuedStores')
      <4>1. CSERStElim' = Cardinality(Gone) + Cardinality(QueuedStores) + 1
        BY <1>2, <2>3
      <4> QED
        BY <1>3, <3>1, <3>3, <4>1
    <3>6. \A r \in Gone' : IsStore(source'[r])
      BY <1>1, <1>2, <3>1
    <3> QED
      BY <3>1, <3>4, <3>5, <3>6 DEF ObservableInv
  <2>4. ASSUME NEW w \in worklist, code' = Erase(code, w), worklist' = worklist \ {w},
               UNCHANGED CSERStElim
        PROVE  Within(code, code') /\ QueueKinds' /\ ObservableInv'
    <3>1. /\ DOMAIN code' = DOMAIN code \ {w} /\ w \in DOMAIN code
          /\ \A k \in DOMAIN code' : code'[k] = code[k]
      BY <1>1, <2>4, EraseEffect
    <3>2. Within(code, code') /\ QueueKinds'
      BY <1>1, <1>2, <2>4, <3>1 DEF Within, QueueKinds
    <3>3. QueuedStores' = QueuedStores \ {w}
      BY <1>1, <1>2, <1>4, <2>4, <3>1
    <3>4. CASE IsStore(code[w])
      <4>1. w \in QueuedStores /\ w \notin Gone
        BY <1>2, <3>1, <3>4 DEF Gone
      <4>2. IsStore(source[w]) /\ w \in DOMAIN source
        BY <1>2, <3>1, <3>4 DEF Origin, IsStore
      <4>3. Gone' = Gone \cup {w}
        BY <1>1, <3>1, <4>2 DEF Gone, Observable, IsStore
      <4>4. /\ Cardinality(QueuedStores') = Cardinality(QueuedStores) - 1
            /\ Cardinality(Gone') = Cardinality(Gone) + 1
        BY <1>3, <3>3, <4>1, <4>3, FS_AddElement, FS_RemoveElement
      <4> QED
        <5>1. \A r \in Gone' : IsStore(source'[r])
          BY <1>1, <1>2, <4>2, <4>3
        <5>2. CSERStElim' = Cardinality(Gone') + Cardinality(QueuedStores')
          <6>1. CSERStElim' = Cardinality(Gone) + Cardinality(QueuedStores)
            BY <1>2, <2>4
          <6> QED
            BY <1>3, <4>4, <6>1
        <5> QED
          BY <3>2, <5>1, <5>2 DEF ObservableInv
    <3>5. CASE ~IsStore(code[w])
      <4>1. ~Observable(code[w])
        BY <1>1, <1>2, <3>5 DEF QueueKinds, Observable, IsLoad, IsStore
      <4>2. Gone' = Gone
        BY <1>1, <2>4, <3>1, <4>1, UnobservableGone
      <4>3. QueuedStores' = QueuedStores
        BY <1>2, <3>3, <3>5
      <4> QED
        BY <1>1, <1>2, <2>4, <3>2, <4>2, <4>3 DEF ObservableInv
    <3> QED
      BY <3>4, <3>5
  <2>5. \A R : ReadsBack(R) => IsLoad(code[R]) /\ ~code[R].vol
    BY DEF ReadsBack
  <2> QED
    BY StoreStep, <2>1, <2>2, <2>3, <2>4, <2>5
<1>6. WellFormed(code') /\ MemoryShaped(code') /\ DefsBeforeUses(code', SDom)
  <2>1. StoreP!WellFormed(code') /\ StoreP!MemoryShaped(code') /\ StoreP!DefsBeforeUses(code', SDom)
    BY <1>1 DEF StoreP!IInv, StoreP!TypeOK, StoreP!DominanceKept
  <2> QED
    BY <2>1, SameModules
<1>7. /\ Accepted(code)' /\ Origin' /\ (source \in Programs)' /\ (pass \in Passes)'
  BY <1>1, <1>5, <1>6, WithinKept
<1>8. ASSUME LayoutFollows(SDom) PROVE TwinsInv'
  BY <1>1, <1>5, <1>8 DEF IInv, TwinsInv, Twins, SameAddress, Within
<1> QED
  BY <1>1, <1>5, <1>7, <1>8 DEF IInv, CountersInv, PassInv

-----------------------------------------------------------------------------
(* simplify moves the uses of n to v.                                       *)
LEMMA SimplifyMovesEffect ==
    ASSUME IInv, NEW n \in DOMAIN code, NEW v \in Value, SimplifyMoves(n, v)
    PROVE  /\ SameShape(code, code') /\ n # v /\ n \in Inst
           /\ WellFormed(code') /\ MemoryShaped(code') /\ DefsBeforeUses(code', SDom)
<1>1. Accepted(code) /\ WellFormed(code) /\ MemoryShaped(code) /\ DefsBeforeUses(code, SDom)
  BY DEF IInv, Accepted
<1>2. v \in Simp!SimplifyInstruction(code, n) /\ code' = ReplaceAllUsesWith(code, n, v)
  BY DEF SimplifyMoves
<1>3. /\ v # n
      /\ v \in Inst => /\ v \in DOMAIN code /\ YieldsValue(code[v])
                       /\ code[v].fn = code[n].fn /\ Precedes(code, v, n, SDom)
  BY <1>1, <1>2, SimplifyResult
<1>4. WellFormed(code') /\ MemoryShaped(code') /\ DefsBeforeUses(code', SDom)
  BY <1>1, <1>2, <1>3, ProgramsAssumption, ReplaceKeepsSSA
<1> QED
  BY <1>1, <1>2, <1>3, <1>4, ReplaceEffect DEF WellFormed

(* A user of n is no phi and not visited yet, or it is a phi.               *)
LEMMA UsersAhead ==
    ASSUME IInv, LayoutFollows(SDom), bb \in Nat,
           NEW n \in InstsOfBlock(code, bb), NEW m \in DOMAIN code,
           code[m].op # "phi", n \in Range(code[m].args)
    PROVE  ~(code[m].bb < bb) /\ (code[m].bb = bb => n < m)
<1>1. n \in DOMAIN code /\ code[n].bb = bb /\ n \in Inst /\ code[m].bb \in Nat
      /\ DefsBeforeUses(code, SDom) /\ StrictOrder(SDom)
  BY ProgramsAssumption DEF IInv, Accepted, WellFormed, InstsOfBlock, Instruction
<1>2. Precedes(code, n, m, SDom)
  BY <1>1 DEF DefsBeforeUses, OperandInsts
<1> QED
  BY <1>1, <1>2 DEF Precedes, StrictOrder, LayoutFollows

(* One visit is enough: what was visited does not change any more, and what *)
(* it simplifies to gains no use it could have had removed.                 *)
LEMMA SimplifiedMoves ==
    ASSUME IInv, SimplifyInv, LayoutFollows(SDom), bb' = bb,
           NEW n \in InstsOfBlock(code, bb), IsNext(n, i, InstsOfBlock(code, bb)), i' = n,
           NEW v \in Value, SimplifyMoves(n, v)
    PROVE  SimplifiedInv'
<1>1. /\ Accepted(code) /\ WellFormed(code) /\ SimplifiedInv /\ bb \in Nat /\ i \in Nat
      /\ n \in DOMAIN code /\ code[n].bb = bb /\ DOMAIN code \subseteq Nat
  BY InstAssumption, ProgramsAssumption
     DEF IInv, Accepted, WellFormed, SimplifyInv, InstsOfBlock
<1>2. SameShape(code, code') /\ n # v /\ code' = ReplaceAllUsesWith(code, n, v)
  BY <1>1, SimplifyMovesEffect DEF SimplifyMoves
<1>3. v = Zero \/ v \in Range(code[n].args)
  BY <1>1, SimplifyResult DEF SimplifyMoves
<1>4. Unused(code', n) /\ \A m : m # v /\ Unused(code, m) => Unused(code', m)
  BY <1>1, <1>2, ReplaceUsers
<1> SUFFICES ASSUME NEW m \in DOMAIN code, Visited(m)', code'[m].op # "phi", m # n,
                    Simp!SimplifyInstruction(code', m) # {}
             PROVE  Unused(code', m)
  BY <1>2, <1>4 DEF SimplifiedInv, SameShape
<1>5. Visited(m) /\ code[m].op # "phi" /\ m \in Nat /\ (code[m].bb = bb => m < n)
  BY <1>1, <1>2 DEF Visited, SameShape, IsNext, InstsOfBlock
<1>6. n \notin Range(code[m].args)
  BY <1>1, <1>5, UsersAhead DEF Visited
<1>7. code'[m].args = code[m].args /\ code'[m].op = code[m].op
  BY <1>1, <1>2, <1>6, ReplaceNothing DEF SameShape
<1>8. Simp!SimplifyInstruction(code, m) # {}
  <2>1. PICK w : w \in Simp!SimplifyInstruction(code', m)
    OBVIOUS
  <2>2. Accepted(code')
    BY <1>1, <1>2, SimplifyMovesEffect DEF Accepted, SameShape
  <2>3. w # m
    BY <1>2, <2>1, <2>2, SimplifyResult DEF SameShape
  <2>4. Simp!SimplifyInstruction(code, m) = {w}
    BY <1>7, <2>1, <2>3, SimplifySame
  <2> QED
    BY <2>4
<1>9. Unused(code, m)
  BY <1>1, <1>5, <1>8 DEF SimplifiedInv
<1>10. m # v
  <2>1. m # Zero
    BY <1>1, InstAssumption, ProgramsAssumption DEF WellFormed
  <2>2. m \notin Range(code[n].args)
    BY <1>1, <1>9 DEF Unused, Users
  <2> QED
    BY <1>3, <2>1, <2>2
<1> QED
  BY <1>4, <1>9, <1>10

(* The addresses of twins: equal, equal computations, or one moved and the  *)
(* other about to follow.                                                   *)
LEMMA TwinsMove ==
    ASSUME IInv, SimplifyInv, LayoutFollows(SDom), bb' = bb,
           NEW n \in InstsOfBlock(code, bb), IsNext(n, i, InstsOfBlock(code, bb)), i' = n,
           NEW w \in Value, SimplifyMoves(n, w),
           NEW L \in DOMAIN code, IsLoad(code[L]), NEW R \in DOMAIN code, IsLoad(code[R]),
           SameAddress(code, L, R) \/ HalfSimplified(L, R)
    PROVE  SameAddress(code', L, R) \/ HalfSimplified(L, R)'
<1> DEFINE at(a) == IF a = n THEN w ELSE a
           x == Address(code[L])
           y == Address(code[R])
<1>1. /\ Accepted(code) /\ WellFormed(code) /\ SimplifiedInv /\ i \in Nat
      /\ n \in DOMAIN code /\ code[n].bb = bb /\ DOMAIN code \subseteq Nat
  BY InstAssumption, ProgramsAssumption
     DEF IInv, Accepted, WellFormed, SimplifyInv, InstsOfBlock
<1>2. /\ SameShape(code, code') /\ n # w /\ n \in Inst
      /\ code' = ReplaceAllUsesWith(code, n, w) /\ w \in Simp!SimplifyInstruction(code, n)
  BY <1>1, SimplifyMovesEffect DEF SimplifyMoves
<1>3. Address(code'[L]) = at(x) /\ Address(code'[R]) = at(y)
  BY <1>1, <1>2, AddressMoves
<1>4. /\ x \in Range(code[L].args) /\ y \in Range(code[R].args)
      /\ x \in Value /\ y \in Value /\ at(x) \in Value /\ at(y) \in Value
  BY <1>1, AddressUsed
<1> HIDE DEF at, x, y
<1>5. CASE x = y
  BY <1>3, <1>5 DEF SameAddress
<1>6. CASE SameAddress(code, L, R) /\ x # y /\ n # x /\ n # y
  <2>1. /\ x \in DOMAIN code /\ y \in DOMAIN code /\ code[x].bb = code[y].bb
        /\ cse_candidate(code[x]) /\ code[x].op # "phi" /\ Basic!Matches(code, x, y)
    BY <1>6 DEF SameAddress, x, y
  <2>2. Basic!Matches(code', x, y)
    BY <1>1, <1>2, <2>1, MatchesMoves
  <2> QED
    BY <1>2, <1>3, <1>6, <2>1, <2>2 DEF SameAddress, SameShape, cse_candidate, at
<1>7. ASSUME SameAddress(code, L, R), x # y, NEW o, {x, y} = {n, o}, o # n
      PROVE  SameAddress(code', L, R) \/ HalfSimplified(L, R)'
  <2>1. /\ o \in DOMAIN code /\ code[o].bb = bb /\ code[n].op # "phi"
        /\ code[o].op = code[n].op /\ code[o].args = code[n].args
    BY <1>1, <1>7 DEF SameAddress, Basic!Matches, x, y
  <2>2. {Address(code'[L]), Address(code'[R])} = {o, w}
    BY <1>3, <1>7 DEF at
  <2>3. CASE w = o
    BY <2>2, <2>3 DEF SameAddress
  <2>4. CASE w # o
    <3>1. Simp!SimplifyInstruction(code, o) = {w}
      BY <1>2, <2>1, <2>4, SimplifySame
    <3>2. n < o
      <4>1. ~Visited(o)
        BY <1>1, <1>4, <1>7, <2>1, <3>1 DEF SimplifiedInv, Unused, Users
      <4> QED
        BY <1>1, <1>7, <2>1, <4>1 DEF Visited, IsNext, InstsOfBlock
    <3>3. n \notin Range(code[o].args)
      <4>1. n \notin Range(code[n].args)
        BY <1>1, <2>1, UsersAhead DEF SimplifyInv
      <4> QED
        BY <2>1, <4>1
    <3>4. code'[o].args = code[o].args
      BY <1>1, <1>2, <2>1, <3>3, ReplaceNothing
    <3>5. /\ o \in DOMAIN code' /\ code'[o].bb = bb /\ code'[o].op # "phi"
          /\ code'[o].op = code[o].op
      BY <1>2, <2>1 DEF SameShape
    <3>6. Simp!SimplifyInstruction(code', o) = {w}
      BY <2>1, <2>4, <3>1, <3>4, <3>5, SimplifySame
    <3> QED
      BY <2>2, <3>2, <3>5, <3>6 DEF HalfSimplified
  <2> QED
    BY <2>3, <2>4
<1>8. ASSUME NEW o \in DOMAIN code, NEW v \in Value, {x, y} = {o, v},
             code[o].bb = bb, i < o, code[o].op # "phi",
             Simp!SimplifyInstruction(code, o) = {v}
      PROVE  SameAddress(code', L, R) \/ HalfSimplified(L, R)'
  <2>1. o # v
    BY <1>1, <1>8, SimplifyResult
  <2>2. CASE n = o
    <3>1. w = v
      BY <1>2, <1>8, <2>2
    <3> QED
      BY <1>3, <1>8, <2>1, <2>2, <3>1 DEF at, SameAddress
  <2>3. CASE n # o
    <3>1. {Address(code'[L]), Address(code'[R])} = {o, at(v)} /\ at(v) \in Value
      BY <1>3, <1>4, <1>8, <2>3 DEF at
    <3>2. CASE at(v) = o
      BY <3>1, <3>2 DEF SameAddress
    <3>3. CASE at(v) # o
      <4>1. Simp!SimplifyInstruction(code', o) = {at(v)}
        BY <1>1, <1>2, <1>8, <3>3, SimplifyMoved DEF at
      <4>2. n < o
        BY <1>1, <1>8, <2>3 DEF IsNext, InstsOfBlock
      <4> QED
        BY <1>2, <1>8, <3>1, <4>1, <4>2 DEF HalfSimplified, SameShape
    <3> QED
      BY <3>2, <3>3
  <2> QED
    BY <2>2, <2>3
<1>9. HalfSimplified(L, R) => SameAddress(code', L, R) \/ HalfSimplified(L, R)'
  BY <1>8 DEF HalfSimplified, x, y
<1> QED
  BY <1>5, <1>6, <1>7, <1>9

LEMMA SimplifyIInv == IInv /\ RunSimplify => IInv'
<1> SUFFICES ASSUME IInv, RunSimplify PROVE IInv'
  OBVIOUS
<1> DEFINE B == InstsOfBlock(code, bb)
<1>1. /\ pass = "simplify" /\ pass' = "simplify" /\ SimplifyInv /\ pc = "visit"
      /\ UNCHANGED <<source, worklist, CSEElim, CSELdElim, CSELdStElim, CSERStElim>>
  BY SimplifyStep
<1>2. /\ Accepted(code) /\ WellFormed(code) /\ bb \in 1..NumBlocks /\ bb \in Nat /\ i \in Nat
      /\ NumBlocks \in Nat /\ DOMAIN code \subseteq Nat \ {0}
      /\ MemoryShaped(code) /\ DefsBeforeUses(code, SDom)
  BY <1>1, InstAssumption, ProgramsAssumption DEF IInv, Accepted, WellFormed, SimplifyInv
<1>3. \/ \E n \in B : /\ IsNext(n, i, B) /\ i' = n /\ UNCHANGED <<bb, pc>>
                      /\ \/ \E v \in Value : SimplifyMoves(n, v)
                         \/ Simp!SimplifyInstruction(code, n) = {} /\ code' = code
      \/ /\ IsLast(i, B) /\ bb' = bb + 1 /\ i' = 0 /\ code' = code
         /\ pc' = IF bb = NumBlocks THEN "done" ELSE "visit"
  BY SimplifyStep
<1>4. /\ Within(code, code') /\ DOMAIN code' = DOMAIN code
      /\ WellFormed(code') /\ MemoryShaped(code') /\ DefsBeforeUses(code', SDom)
  <2>1. CASE code' = code
    BY <1>2, <2>1, MutationsWithin
  <2>2. ASSUME NEW n \in B, NEW v \in Value, SimplifyMoves(n, v)
        PROVE  /\ SameShape(code, code')
               /\ WellFormed(code') /\ MemoryShaped(code') /\ DefsBeforeUses(code', SDom)
    BY <2>2, SimplifyMovesEffect DEF InstsOfBlock
  <2> QED
    BY <1>3, <2>1, <2>2 DEF SameShape, Within
<1>5. /\ Accepted(code)' /\ Origin' /\ (source \in Programs)' /\ (pass \in Passes)'
  BY <1>1, <1>4, WithinKept
<1>6. ObservableInv'
  <2>1. QueuedStores = {} /\ QueuedStores' = {} /\ Gone' = Gone
    BY <1>1, <1>4, NothingGone DEF QueuedStores
  <2> QED
    BY <1>1, <2>1 DEF IInv, ObservableInv
<1>7. ASSUME LayoutFollows(SDom) PROVE SimplifiedInv'
  <2>1. SimplifiedInv
    BY <1>1, <1>7 DEF SimplifyInv
  <2>2. ASSUME NEW n \in B, IsNext(n, i, B), i' = n, UNCHANGED bb,
               NEW v \in Value, SimplifyMoves(n, v)
        PROVE  SimplifiedInv'
    BY <1>1, <1>7, <2>2, SimplifiedMoves
  <2>3. ASSUME NEW n \in B, IsNext(n, i, B), i' = n, UNCHANGED <<bb, code>>,
               Simp!SimplifyInstruction(code, n) = {}
        PROVE  SimplifiedInv'
    <3>1. \A m \in DOMAIN code : Visited(m)' => Visited(m) \/ m = n
      BY <1>2, <2>3 DEF Visited, IsNext, InstsOfBlock
    <3> QED
      BY <2>1, <2>3, <3>1 DEF SimplifiedInv
  <2>4. ASSUME IsLast(i, B), bb' = bb + 1, i' = 0, code' = code
        PROVE  SimplifiedInv'
    <3>1. \A m \in DOMAIN code : Visited(m)' => Visited(m)
      <4>1. \A m \in DOMAIN code : code[m].bb \in Nat
        BY <1>2 DEF WellFormed, Instruction
      <4> QED
        BY <1>2, <2>4, <4>1 DEF Visited, IsLast, InstsOfBlock
    <3> QED
      BY <2>1, <2>4, <3>1 DEF SimplifiedInv
  <2> QED
    BY <1>3, <2>2, <2>3, <2>4
<1>8. SimplifyInv'
  <2>1. (pc \in {"visit", "done"})' /\ i' \in Nat /\ bb' \in 1..NumBlocks + 1
    <3>1. B \subseteq Nat
      BY <1>2 DEF InstsOfBlock
    <3> HIDE DEF B
    <3> QED
      BY <1>1, <1>2, <1>3, <3>1
  <2>2. /\ (pc = "visit" => bb \in 1..NumBlocks)'
        /\ (pc = "done" => bb = NumBlocks + 1)'
    BY <1>1, <1>2, <1>3
  <2> QED
    BY <1>7, <2>1, <2>2 DEF SimplifyInv
<1>9. ASSUME LayoutFollows(SDom) PROVE TwinsInv'
  <2> SUFFICES ASSUME NEW L \in DOMAIN code, NEW R \in DOMAIN code, Twins(L, R)
               PROVE  SameAddress(code', L, R) \/ HalfSimplified(L, R)'
    BY <1>1, <1>4 DEF TwinsInv, Twins, SameAddress
  <2>1. /\ SameAddress(code, L, R) \/ HalfSimplified(L, R)
        /\ IsLoad(code[L]) /\ IsLoad(code[R])
    BY <1>1, <1>9 DEF IInv, TwinsInv, Twins, Origin, IsLoad
  <2>2. ASSUME NEW n \in B, IsNext(n, i, B), i' = n, UNCHANGED bb,
               NEW v \in Value, SimplifyMoves(n, v)
        PROVE  SameAddress(code', L, R) \/ HalfSimplified(L, R)'
    BY <1>1, <1>9, <2>1, <2>2, TwinsMove
  <2>3. ASSUME code' = code, HalfSimplified(L, R),
               \/ \E n \in B : /\ IsNext(n, i, B) /\ i' = n /\ UNCHANGED bb
                               /\ Simp!SimplifyInstruction(code, n) = {}
               \/ IsLast(i, B)
        PROVE  HalfSimplified(L, R)'
    <3>1. PICK y \in DOMAIN code, v \in Value :
             /\ {Address(code[L]), Address(code[R])} = {y, v}
             /\ code[y].bb = bb /\ i < y /\ code[y].op # "phi"
             /\ Simp!SimplifyInstruction(code, y) = {v}
      BY <2>3 DEF HalfSimplified
    <3>2. ~IsLast(i, B)
      BY <1>2, <3>1 DEF IsLast, InstsOfBlock
    <3>3. PICK n \in B : /\ IsNext(n, i, B) /\ i' = n /\ UNCHANGED bb
                         /\ Simp!SimplifyInstruction(code, n) = {}
      BY <2>3, <3>2
    <3>4. n < y
      BY <1>2, <3>1, <3>3 DEF IsNext, InstsOfBlock
    <3> QED
      BY <2>3, <3>1, <3>3, <3>4 DEF HalfSimplified
  <2>4. code' = code /\ SameAddress(code, L, R) => SameAddress(code', L, R)
    OBVIOUS
  <2> QED
    BY <1>3, <2>1, <2>2, <2>3, <2>4
<1> QED
  BY <1>1, <1>5, <1>6, <1>8, <1>9 DEF IInv, CountersInv, PassInv, QueueKinds

-----------------------------------------------------------------------------
(* The pass at hand has returned: what it leaves is what the next one needs. *)

\* After simplify no twin waits for the other.
LEMMA SimplifyDone ==
    ASSUME IInv, pass = "simplify", pc = "done", NEW L, NEW R
    PROVE  ~HalfSimplified(L, R)
<1>1. bb = NumBlocks + 1 /\ NumBlocks \in Nat /\ \A k \in DOMAIN code : code[k].bb \in 1..NumBlocks
  BY ProgramsAssumption DEF IInv, PassInv, SimplifyInv, Accepted
<1> QED
  BY <1>1 DEF HalfSimplified

\* After cse equal addresses are one value: the later computation has no use.
LEMMA CseDone ==
    ASSUME IInv, pass = "cse", pc = "done", LayoutFollows(SDom),
           NEW L \in DOMAIN code, NEW R \in DOMAIN code, Twins(L, R)
    PROVE  Address(code[L]) = Address(code[R])
<1>1. CseP!IInv /\ Accepted(code)
  BY DEF IInv, PassInv
<1>2. CseP!NoRedundantUse
  BY <1>1, InstAssumption, PassesAssume, SameOrder, CseP!DoneHasNoRepeat
<1>3. ASSUME NEW a \in DOMAIN code, NEW b \in DOMAIN code, a < b, code[a].bb = code[b].bb,
             cse_candidate(code[a]), code[a].op # "phi", Basic!Matches(code, a, b)
      PROVE  Unused(code, b)
  BY <1>2, <1>3
     DEF CseP!NoRedundantUse, CseP!LayoutFollows, LayoutFollows, CseP!cse_candidate,
         cse_candidate, CseP!Matches, Basic!Matches, CseP!Unused, Unused, CseP!Users, Users,
         CseP!Range, Range
<1>4. SameAddress(code, L, R) /\ IsLoad(code[L]) /\ IsLoad(code[R])
  BY DEF IInv, TwinsInv, Twins, Origin, IsLoad
<1>5. Address(code[L]) \in Range(code[L].args) /\ Address(code[R]) \in Range(code[R].args)
  BY <1>1, <1>4, AddressUsed
<1>6. \A a : Unused(code, a) => a # Address(code[L]) /\ a # Address(code[R])
  BY <1>5 DEF Unused, Users
<1> SUFFICES ASSUME Address(code[L]) # Address(code[R]) PROVE FALSE
  OBVIOUS
<1>7. PICK x \in DOMAIN code, y \in DOMAIN code :
         /\ x = Address(code[L]) /\ y = Address(code[R]) /\ x # y
         /\ code[x].bb = code[y].bb /\ cse_candidate(code[x]) /\ code[x].op # "phi"
         /\ Basic!Matches(code, x, y)
  BY <1>4 DEF SameAddress
<1>8. x \in Nat /\ y \in Nat
  BY <1>1, InstAssumption DEF Accepted, WellFormed
<1>9. CASE x < y
  BY <1>3, <1>6, <1>7, <1>9
<1>10. CASE y < x
  <2>1. cse_candidate(code[y]) /\ code[y].op # "phi" /\ Basic!Matches(code, y, x)
    BY <1>7 DEF Basic!Matches, cse_candidate
  <2> QED
    BY <1>3, <1>6, <1>7, <1>10, <2>1
<1> QED
  BY <1>7, <1>8, <1>9, <1>10

\* After load_cse the later of two twins is only there because it is volatile.
LEMMA LoadDone ==
    ASSUME IInv, pass = "load_cse", pc = "done", LayoutFollows(SDom),
           NEW L \in DOMAIN code, NEW R \in DOMAIN code, Twins(L, R)
    PROVE  source[R].vol
<1>1. LoadP!IInv /\ LoadP!ResultInv /\ Origin
  BY DEF IInv, PassInv
<1>2. LoadP!NoRedundantLoad
  BY <1>1, InstAssumption, PassesAssume, SameOrder, LoadP!DoneHasNoRepeat
<1>3. Address(code[L]) = Address(code[R]) /\ LoadP!Address(code[L]) = LoadP!Address(code[R])
  BY DEF IInv, TwinsInv, LoadP!Address, Address, LoadP!IsStore, IsStore
<1>4. /\ L < R /\ code[L].bb = code[R].bb /\ code[L].ty = code[R].ty
      /\ LoadP!IsLoad(code[L]) /\ LoadP!IsLoad(code[R]) /\ code[R].vol = source[R].vol
  BY <1>1 DEF Twins, Origin, IsLoad, LoadP!IsLoad
<1>5. LoadP!NoStoreBetween(code, L, R)
  BY <1>1 DEF Twins, Origin, Loads!NoStoreBetween, LoadP!NoStoreBetween, Loads!IsStore,
              LoadP!IsStore
<1> QED
  BY <1>2, <1>3, <1>4, <1>5
     DEF LoadP!NoRedundantLoad, LoadP!Repeats, LoadP!LayoutFollows, LayoutFollows

(* The same, a step later.                                                  *)
LEMMA StartsLater ==
    /\ CseP!Init' => CseP!IInv'
    /\ LoadP!Init' => LoadP!IInv' /\ LoadP!ResultInv'
    /\ StoreP!Init' => StoreP!IInv' /\ StoreP!ResultInv' /\ StoreP!CoveredInv'
  BY Starts, PTL

LEMMA CallIInv == IInv /\ Call => IInv'
<1> SUFFICES ASSUME IInv, Call PROVE IInv'
  OBVIOUS
<1>1. /\ pc = "done" /\ pass \in DOMAIN Following /\ pass' = Following[pass]
      /\ pc' = Entry[pass'] /\ given' = code
      /\ bb' = 1 /\ i' = 0 /\ j' = 0 /\ worklist' = {}
      /\ UNCHANGED <<source, code, counters>>
  BY DEF Call
<1>2. Accepted(code) /\ code \in AcceptedModules
  BY AcceptedModule DEF IInv
<1>3. \/ pass = "dce" /\ pass' = "simplify"
      \/ pass = "simplify" /\ pass' = "cse"
      \/ pass = "cse" /\ pass' = "load_cse"
      \/ pass = "load_cse" /\ pass' = "store_cse"
  BY <1>1 DEF Following
<1>4. /\ CountersInv'
      /\ pass' = "cse" => CSEElim' = 0
      /\ pass' = "load_cse" => CSELdElim' = 0
      /\ pass' = "store_cse" => CSELdStElim' = 0 /\ CSERStElim' = 0
      /\ pass' # "simplify" => pc' = IF NumBlocks = 0 THEN "done" ELSE "outer"
  BY <1>1, <1>3 DEF IInv, CountersInv, counters, Entry
<1>5. PassInv'
  <2>1. CASE pass' = "simplify"
    <3>1. SimplifyInv'
      <4>1. \A m \in DOMAIN code : m > 0 /\ code[m].bb >= 1 /\ m \in Nat /\ code[m].bb \in Nat
        BY <1>2, InstAssumption, ProgramsAssumption DEF Accepted, WellFormed
      <4>2. SimplifiedInv'
        BY <1>1, <4>1 DEF SimplifiedInv, Visited
      <4> QED
        BY <1>1, <2>1, <4>2, ProgramsAssumption DEF SimplifyInv, Entry
    <3> QED
      BY <2>1, <3>1 DEF PassInv
  <2>2. CASE pass' = "cse"
    <3>1. CseP!Init'
      BY <1>1, <1>2, <1>4, <2>2 DEF CseP!Init
    <3> QED
      BY <2>2, <3>1, StartsLater DEF PassInv
  <2>3. CASE pass' = "load_cse"
    <3>1. LoadP!Init'
      BY <1>1, <1>2, <1>4, <2>3 DEF LoadP!Init
    <3> QED
      BY <2>3, <3>1, StartsLater DEF PassInv
  <2>4. CASE pass' = "store_cse"
    <3>1. StoreP!Init'
      BY <1>1, <1>2, <1>4, <2>4 DEF StoreP!Init
    <3> QED
      BY <2>4, <3>1, StartsLater DEF PassInv
  <2> QED
    BY <1>3, <2>1, <2>2, <2>3, <2>4
<1>6. ObservableInv' /\ QueueKinds'
  <2>1. QueuedStores = {} /\ QueuedStores' = {} /\ Gone' = Gone
    BY <1>1, <1>3, NothingGone DEF QueuedStores
  <2> QED
    BY <1>1, <2>1 DEF IInv, ObservableInv, QueueKinds, counters
<1>7. ASSUME LayoutFollows(SDom) PROVE TwinsInv'
  <2> SUFFICES ASSUME NEW L \in DOMAIN code, NEW R \in DOMAIN code, Twins(L, R)
               PROVE  /\ pass' \in {"dce", "cse"} => SameAddress(code, L, R)
                      /\ pass' = "simplify" => SameAddress(code, L, R) \/ HalfSimplified(L, R)'
                      /\ pass' = "load_cse" => Address(code[L]) = Address(code[R])
                      /\ pass' \in {"store_cse", "returned"} => source[R].vol
    BY <1>1 DEF TwinsInv, Twins, SameAddress
  <2>1. TwinsInv
    BY <1>7 DEF IInv
  <2>2. CASE pass' \in {"simplify", "cse"}
    BY <1>1, <1>3, <2>1, <2>2, SimplifyDone DEF TwinsInv
  <2>3. CASE pass' = "load_cse"
    BY <1>1, <1>3, <1>7, <2>3, CseDone
  <2>4. CASE pass' = "store_cse"
    BY <1>1, <1>3, <1>7, <2>4, LoadDone
  <2> QED
    BY <1>3, <2>2, <2>3, <2>4
<1>8. Origin' /\ (pass \in Passes)'
  BY <1>1, <1>3 DEF IInv, Origin, Passes
<1> QED
  BY <1>1, <1>2, <1>4, <1>5, <1>6, <1>7, <1>8 DEF IInv

LEMMA ReportIInv == IInv /\ Report => IInv'
<1> SUFFICES ASSUME IInv, Report PROVE IInv'
  OBVIOUS
<1>1. /\ pc = "done" /\ pass = "store_cse" /\ pass' = "returned"
      /\ UNCHANGED <<source, given, code, locals, counters>>
  BY DEF Report
<1>2. worklist = {} /\ worklist' = {}
  BY <1>1 DEF IInv, PassInv, StoreP!IInv, StoreP!PhaseInv, locals
<1>3. ObservableInv'
  <2>1. QueuedStores = {} /\ QueuedStores' = {} /\ Gone' = Gone
    BY <1>1, <1>2, NothingGone DEF QueuedStores
  <2> QED
    BY <1>1, <2>1 DEF IInv, ObservableInv, counters
<1>4. LayoutFollows(SDom) => TwinsInv'
  BY <1>1 DEF IInv, TwinsInv, Twins, SameAddress
<1> QED
  BY <1>1, <1>3, <1>4 DEF IInv, Passes, Origin, CountersInv, PassInv, QueueKinds

LEMMA StutterIInv == IInv /\ UNCHANGED vars => IInv'
<1> SUFFICES ASSUME IInv, UNCHANGED vars PROVE IInv'
  OBVIOUS
<1>1. UNCHANGED <<source, given, code, pass, pc, bb, i, worklist,
                  CSEElim, CSELdElim, CSELdStElim, CSERStElim>>
  BY DEF vars, locals, counters
<1>2. SimplifyInv => SimplifyInv'
  BY <1>1 DEF SimplifyInv, SimplifiedInv, Visited
<1>3. PassInv'
  BY <1>1, <1>2, Steps DEF IInv, PassInv
<1>4. ObservableInv'
  BY <1>1 DEF IInv, ObservableInv, Gone, QueuedStores
<1>5. LayoutFollows(SDom) => TwinsInv'
  <2>1. \A L, R : HalfSimplified(L, R)' <=> HalfSimplified(L, R)
    BY <1>1 DEF HalfSimplified
  <2>2. \A L, R : Twins(L, R)' <=> Twins(L, R)
    BY <1>1 DEF Twins, SameAddress
  <2>3. \A L, R : SameAddress(code', L, R) <=> SameAddress(code, L, R)
    BY <1>1
  <2> QED
    BY <1>1, <2>1, <2>2, <2>3 DEF IInv, TwinsInv
<1> QED
  BY <1>1, <1>3, <1>4, <1>5 DEF IInv, Origin, CountersInv, QueueKinds

LEMMA NextIInv == IInv /\ [Next]_vars => IInv'
<1> SUFFICES ASSUME IInv, [Next]_vars PROVE IInv'
  OBVIOUS
<1>1. CASE RunDce
  BY <1>1, DceIInv
<1>2. CASE RunSimplify
  BY <1>2, SimplifyIInv
<1>3. CASE RunCse
  BY <1>3, CseIInv
<1>4. CASE RunLoadCse
  BY <1>4, LoadIInv
<1>5. CASE RunStoreCse
  BY <1>5, StoreIInv
<1>6. CASE Call
  BY <1>6, CallIInv
<1>7. CASE Report
  BY <1>7, ReportIInv
<1>8. CASE UNCHANGED vars
  BY <1>8, StutterIInv
<1> QED
  BY <1>1, <1>2, <1>3, <1>4, <1>5, <1>6, <1>7, <1>8 DEF Next

-----------------------------------------------------------------------------
(* The invariant of the pipeline.                                           *)
THEOREM Invariance == Spec => []IInv
<1>1. Init => IInv
  BY InitIInv
<1>2. IInv /\ [Next]_vars => IInv'
  BY NextIInv
<1> QED
  BY <1>1, <1>2, PTL DEF Spec

(* Between any two steps of any pass the module is one the verifier accepts, *)
(* of the shape the next pass is written for.                               *)
THEOREM KeepsDominance == Spec => []DominanceKept
<1>1. IInv => DominanceKept
  BY DEF IInv, Accepted, DominanceKept
<1> QED
  BY <1>1, Invariance, PTL

(* No pass erases a call, a branch or a volatile load, also after the others *)
(* have rewritten the module, and CSE_RSt counts the stores that went.      *)
THEOREM KeepsObservable == Spec => []ObservableKept
<1>1. IInv => ObservableKept
  <2> SUFFICES ASSUME IInv PROVE ObservableKept
    OBVIOUS
  <2>1. /\ \A r \in Gone : IsStore(source[r])
        /\ CSERStElim = Cardinality(Gone) + Cardinality(QueuedStores)
    BY DEF IInv, ObservableInv
  <2>2. pass = "returned" => Cardinality(Gone) = CSERStElim
    <3>1. pass = "returned" => Cardinality(QueuedStores) = 0
      BY FS_EmptySet DEF QueuedStores
    <3> QED
      BY <2>1, <3>1, FiniteParts
  <2> QED
    BY <2>1, <2>2 DEF ObservableKept, Gone
<1> QED
  BY <1>1, Invariance, PTL

(* What the order of the calls is for: an address that a block computes     *)
(* twice is loaded once, up to the next store.                              *)
THEOREM LoadsEqualAddressesOnce == Spec => []EqualAddressesLoadedOnce
<1>1. IInv => EqualAddressesLoadedOnce
  BY DEF IInv, TwinsInv, Twins, EqualAddressesLoadedOnce
<1> QED
  BY <1>1, Invariance, PTL

(* One visit of each instruction is enough: when simplify returns nothing   *)
(* uses what SimplifyInstruction would still simplify, phis apart.          *)
THEOREM SimplifiesOnce == Spec => [](pass = "simplify" => Simp!NoSimplifiableUse)
<1>1. IInv /\ pass = "simplify" => Simp!NoSimplifiableUse
  <2> SUFFICES ASSUME IInv, pass = "simplify", pc = "done", LayoutFollows(SDom)
               PROVE  \A n \in DOMAIN code :
                         code[n].op # "phi" /\ Simp!SimplifyInstruction(code, n) # {}
                         => Unused(code, n)
    BY DEF Simp!NoSimplifiableUse, Simp!LayoutFollows, LayoutFollows, Simp!Unused, Unused,
           Simp!Users, Users, Simp!Range, Range
  <2>1. SimplifiedInv /\ bb = NumBlocks + 1 /\ NumBlocks \in Nat
        /\ \A n \in DOMAIN code : code[n].bb \in 1..NumBlocks
    BY ProgramsAssumption DEF IInv, PassInv, SimplifyInv, Accepted
  <2> QED
    BY <2>1 DEF SimplifiedInv, Visited
<1> QED
  BY <1>1, Invariance, PTL

-----------------------------------------------------------------------------
(* What is seen when the module runs.                                       *)

\* The values of the leaves, the constant 0 among them.
Bits == {f \in [Leaf -> Bit] : f[Zero] = 0}

MeaningInv ==
    /\ Frame(code, source)
    /\ Faithful(source) /\ Shaped(source)
          => Shaped(code) /\ SameOnPossiblePaths(SDom, Bits, code, source)

LEMMA InitMeaning == Init => MeaningInv
  BY DEF Init, MeaningInv, Frame, SameOnPossiblePaths

\* What SimplifyInstruction returns has the value that the instruction yields.
LEMMA SimplifyYields ==
    ASSUME NEW c, Accepted(c), Shaped(c), NEW n \in DOMAIN c,
           NEW v \in Simp!SimplifyInstruction(c, n), Forwardable(c, c, SDom, n, v),
           NEW l, DOMAIN l \subseteq Nat, LaidOutIn(c, l),
           NEW path, Possible(path, c, l, SDom),
           NEW leaf \in Bits, NEW mem, NEW q, IsRun(q, path, c, leaf, mem),
           \A k \in 0..Len(path) : BitState(q[k])
    PROVE  Yields(path, q, leaf, n, v)
<1>1. /\ WellFormed(c) /\ Len(path) \in Nat /\ leaf \in [Leaf -> Bit] /\ leaf[Zero] = 0
      /\ Zero \in Leaf /\ v \in Value /\ v # n
  BY ProgramsAssumption DEF Accepted, Possible, Control, Bits, Forwardable
<1>2. CASE c[n].op = "phi"
  <2>1. /\ Range(c[n].args) \ {n} = {v}
        /\ v \in Inst => <<c[v].bb, c[n].bb>> \in SDom
    BY <1>2 DEF Simp!SimplifyInstruction, Simp!Value, Value, Simp!Range, Range
  <2>2. Range(c[n].args) \subseteq {n, v}
    BY <2>1
  <2>3. \A k \in 0..Len(path) : DOMAIN q[k].val = Inst
    BY DEF BitState
  <2>4. Forwardable(c, l, SDom, n, v)
    BY DEF Forwardable
  <2> QED
    BY <1>1, <1>2, <2>1, <2>2, <2>3, <2>4, PhiYields
<1>3. CASE Binary(c[n], "add") /\ c[n].args[2] = Zero
  <2>1. v = c[n].args[1] /\ c[n].op = "add"
    BY <1>3, SimplifyPlain DEF Binary
  <2> QED
    BY <1>1, <1>3, <2>1, SumYields
<1>4. CASE Binary(c[n], "add") /\ c[n].args[2] # Zero /\ c[n].args[1] = Zero
  <2>1. v = c[n].args[2] /\ c[n].op = "add"
    BY <1>4, SimplifyPlain DEF Binary
  <2> QED
    BY <1>1, <1>4, <2>1, SumYields
<1>5. CASE Binary(c[n], "icmp") /\ c[n].args[1] = c[n].args[2]
  <2>1. v = Zero /\ c[n].op = "icmp"
    BY <1>5, SimplifyPlain DEF Binary
  <2> QED
    BY <1>1, <1>5, <2>1, SameYields
<1> QED
  BY <1>2, <1>3, <1>4, <1>5, SimplifyPlain

LEMMA SimplifyMeaning ==
    ASSUME NEW c, Accepted(c), Shaped(c), NEW n \in DOMAIN c,
           NEW v \in Simp!SimplifyInstruction(c, n)
    PROVE  SameOnPossiblePaths(SDom, Bits, ReplaceAllUsesWith(c, n, v), c)
<1>1. /\ WellFormed(c) /\ DefsBeforeUses(c, SDom) /\ StrictOrder(SDom)
      /\ Bits \subseteq [Leaf -> Bit]
      /\ DOMAIN c \subseteq Inst /\ DOMAIN c \subseteq Nat /\ LaidOutIn(c, c)
  BY InstAssumption, ProgramsAssumption DEF Accepted, WellFormed, Bits, LaidOutIn
<1>2. Forwardable(c, c, SDom, n, v)
  BY <1>1, SimplifyResult DEF Forwardable
<1>3. ASSUME NEW l, NEW path, DOMAIN l \subseteq Nat, LaidOutIn(c, l),
             Possible(path, c, l, SDom), NEW leaf \in Bits, NEW mem \in [Bit -> Bit]
      PROVE  Yields(path, Run(path, c, leaf, mem), leaf, n, v)
  <2> DEFINE q == Run(path, c, leaf, mem)
  <2>1. Control(path, l) /\ leaf \in [Leaf -> Bit]
    BY <1>1, <1>3 DEF Possible
  <2>2. Len(path) \in Nat
    BY <2>1 DEF Control
  <2>3. q = Run(path, c, leaf, mem)
    OBVIOUS
  <2> HIDE DEF q
  <2>4. IsRun(q, path, c, leaf, mem)
    BY <2>2, <2>3, RunIs DEF IsRun
  <2>5. \A k \in 0..Len(path) : BitState(q[k])
    BY <1>1, <1>3, <2>1, <2>4, RunBits
  <2>6. Yields(path, q, leaf, n, v)
    BY <1>2, <1>3, <2>4, <2>5, SimplifyYields
  <2> QED
    BY <2>3, <2>6
<1> QED
  BY <1>1, <1>2, <1>3, ForwardedMeaning

-----------------------------------------------------------------------------
(* One change of the module by a pass: what is seen stays as it was.        *)

LEMMA MovedMeaning ==
    ASSUME IInv, MeaningInv, source' = source, NEW r, NEW v \in Value,
           code' = ReplaceAllUsesWith(code, r, v),
           Faithful(source) /\ Shaped(code) => SameOnPossiblePaths(SDom, Bits, code', code)
    PROVE  MeaningInv'
<1>1. WellFormed(code) /\ Frame(code, source)
  BY DEF IInv, Accepted, MeaningInv
<1>2. Frame(code', source)
  BY <1>1, ReplaceKeepsFrame
<1>3. ASSUME Faithful(source), Shaped(source)
      PROVE  Shaped(code') /\ SameOnPossiblePaths(SDom, Bits, code', source)
  <2>1. Shaped(code) /\ SameOnPossiblePaths(SDom, Bits, code, source)
    BY <1>3 DEF MeaningInv
  <2>2. Shaped(code')
    BY <1>1, <2>1, ShapedKept
  <2>3. SameOnPossiblePaths(SDom, Bits, code', code)
    BY <1>3, <2>1
  <2> QED
    BY <1>1, <2>1, <2>2, <2>3, MeaningOnward
<1>4. MeaningInv' <=> /\ Frame(code', source)
                      /\ Faithful(source) /\ Shaped(source)
                            => Shaped(code') /\ SameOnPossiblePaths(SDom, Bits, code', source)
  BY DEF MeaningInv
<1> QED
  BY <1>2, <1>3, <1>4

LEMMA ErasedKeepsMeaning ==
    ASSUME IInv, MeaningInv, source' = source, NEW w, code' = Erase(code, w),
           Faithful(source) /\ Shaped(code) => SameOnPossiblePaths(SDom, Bits, code', code)
    PROVE  MeaningInv'
<1>1. WellFormed(code) /\ Frame(code, source)
  BY DEF IInv, Accepted, MeaningInv
<1>2. Frame(code', source)
  <2>1. PICK d : d = code'
    OBVIOUS
  <2>2. DOMAIN d \subseteq DOMAIN code /\ \A k \in DOMAIN d : d[k] = code[k]
    BY <2>1, EraseEffect
  <2>3. Frame(d, source)
    BY <1>1, <2>2 DEF Frame
  <2> QED
    BY <2>1, <2>3
<1>3. ASSUME Faithful(source), Shaped(source)
      PROVE  Shaped(code') /\ SameOnPossiblePaths(SDom, Bits, code', source)
  <2>1. Shaped(code) /\ SameOnPossiblePaths(SDom, Bits, code, source)
    BY <1>3 DEF MeaningInv
  <2>2. Shaped(code')
    BY <1>1, <2>1, ShapedKept
  <2>3. SameOnPossiblePaths(SDom, Bits, code', code)
    BY <1>3, <2>1
  <2> QED
    BY <1>1, <2>1, <2>2, <2>3, MeaningOnward
<1>4. MeaningInv' <=> /\ Frame(code', source)
                      /\ Faithful(source) /\ Shaped(source)
                            => Shaped(code') /\ SameOnPossiblePaths(SDom, Bits, code', source)
  BY DEF MeaningInv
<1> QED
  BY <1>2, <1>3, <1>4

LEMMA SameCodeMeaning == MeaningInv /\ UNCHANGED <<source, code>> => MeaningInv'
<1> SUFFICES ASSUME MeaningInv, source' = source, code' = code PROVE MeaningInv'
  OBVIOUS
<1>1. MeaningInv' <=> /\ Frame(code, source)
                      /\ Faithful(source) /\ Shaped(source)
                            => Shaped(code) /\ SameOnPossiblePaths(SDom, Bits, code, source)
  BY DEF MeaningInv
<1> QED
  BY <1>1 DEF MeaningInv

-----------------------------------------------------------------------------
LEMMA DceMeaning == IInv /\ MeaningInv /\ RunDce => MeaningInv'
<1> SUFFICES ASSUME IInv, MeaningInv, RunDce PROVE MeaningInv'
  OBVIOUS
<1>1. source' = source /\ (code' = code \/ DceErases)
  BY DceStep
<1>2. ASSUME NEW w \in DOMAIN code, isDead(code, w), code' = Erase(code, w)
      PROVE  MeaningInv'
  <2>1. WellFormed(code) /\ Unused(code, w) /\ ~Observable(code[w])
    BY <1>2 DEF IInv, Accepted, isDead, Removable, RemovableOp, Observable, WellFormed
  <2>2. Shaped(code) => SameOnPossiblePaths(SDom, Bits, code', code)
    BY <1>2, <2>1, ErasedMeaning
  <2> QED
    BY <1>1, <1>2, <2>2, ErasedKeepsMeaning
<1> QED
  BY <1>1, <1>2, SameCodeMeaning DEF DceErases

LEMMA SimplifyKeepsMeaning == IInv /\ MeaningInv /\ RunSimplify => MeaningInv'
<1> SUFFICES ASSUME IInv, MeaningInv, RunSimplify PROVE MeaningInv'
  OBVIOUS
<1>1. /\ source' = source
      /\ \/ code' = code
         \/ \E n \in InstsOfBlock(code, bb), v \in Value : SimplifyMoves(n, v)
  BY SimplifyStep
<1>2. ASSUME NEW n \in InstsOfBlock(code, bb), NEW v \in Value, SimplifyMoves(n, v)
      PROVE  MeaningInv'
  <2>1. /\ Accepted(code) /\ n \in DOMAIN code
        /\ v \in Simp!SimplifyInstruction(code, n)
        /\ code' = ReplaceAllUsesWith(code, n, v)
    BY <1>2 DEF IInv, InstsOfBlock, SimplifyMoves
  <2>2. Shaped(code) => SameOnPossiblePaths(SDom, Bits, code', code)
    BY <2>1, SimplifyMeaning
  <2> QED
    BY <1>1, <2>1, <2>2, MovedMeaning
<1> QED
  BY <1>1, <1>2, SameCodeMeaning

\* What Matches does not compare is equal, as it was in the source.
LEMMA CseMeaning == IInv /\ MeaningInv /\ RunCse => MeaningInv'
<1> SUFFICES ASSUME IInv, MeaningInv, RunCse PROVE MeaningInv'
  OBVIOUS
<1>1. /\ source' = source
      /\ \/ code' = code
         \/ \E b \in DOMAIN code :
               /\ i \in DOMAIN code /\ code[i].bb = code[b].bb /\ i < b
               /\ cse_candidate(code[i]) /\ Basic!Matches(code, i, b)
               /\ code' = ReplaceAllUsesWith(code, b, i)
  BY CseStep
<1>2. /\ WellFormed(code) /\ DefsBeforeUses(code, SDom) /\ StrictOrder(SDom)
      /\ DOMAIN code \subseteq Nat /\ DOMAIN code \subseteq Value /\ LaidOutIn(code, code)
      /\ Frame(code, source)
  BY InstAssumption, ProgramsAssumption
     DEF IInv, Accepted, WellFormed, Value, LaidOutIn, MeaningInv
<1>3. ASSUME NEW b \in DOMAIN code, i \in DOMAIN code, code[i].bb = code[b].bb, i < b,
             cse_candidate(code[i]), Basic!Matches(code, i, b),
             code' = ReplaceAllUsesWith(code, b, i)
      PROVE  MeaningInv'
  <2>1. code[i].op = code[b].op /\ code[i].ty = code[b].ty /\ code[i].args = code[b].args
    BY <1>3 DEF Basic!Matches
  <2>2. Faithful(source) => code[i].attr = code[b].attr
    BY <1>2, <1>3, <2>1
       DEF Faithful, Basic!MatchesTell, Basic!cse_candidate, cse_candidate, Frame
  <2>3. Faithful(source) => Repetition(code, code, SDom, i, b)
    BY <1>2, <1>3, <2>1, <2>2 DEF Repetition, YieldsValue, cse_candidate, IsLoad
  <2>4. Faithful(source) /\ Shaped(code) => SameOnPossiblePaths(SDom, Bits, code', code)
    BY <1>3, <2>3, RepeatedMeaning
  <2> QED
    BY <1>1, <1>2, <1>3, <2>4, MovedMeaning
<1> QED
  BY <1>1, <1>3, SameCodeMeaning

\* There is nothing that writes the address between the two loads.
LEMMA LoadMeaning == IInv /\ MeaningInv /\ RunLoadCse => MeaningInv'
<1> SUFFICES ASSUME IInv, MeaningInv, RunLoadCse PROVE MeaningInv'
  OBVIOUS
<1>1. /\ source' = source /\ pass = "load_cse" /\ worklist \subseteq DOMAIN code
      /\ \/ code' = code
         \/ \E R \in DOMAIN code : Rereads(R) /\ code' = ReplaceAllUsesWith(code, R, i)
         \/ \E w \in worklist : Unused(code, w) /\ code' = Erase(code, w)
  BY LoadStep
<1>2. /\ WellFormed(code) /\ DefsBeforeUses(code, SDom) /\ StrictOrder(SDom)
      /\ MemoryShaped(code)
      /\ DOMAIN code \subseteq Nat /\ DOMAIN code \subseteq Value /\ LaidOutIn(code, code)
      /\ Frame(code, source)
  BY InstAssumption, ProgramsAssumption
     DEF IInv, Accepted, WellFormed, Value, LaidOutIn, MeaningInv
<1>3. ASSUME NEW R \in DOMAIN code, Rereads(R), code' = ReplaceAllUsesWith(code, R, i)
      PROVE  MeaningInv'
  <2>1. /\ i \in DOMAIN code /\ i < R /\ code[i].bb = code[R].bb
        /\ code[i].op = "load" /\ code[R].op = "load"
        /\ code[i].args[1] = code[R].args[1]
    BY <1>3 DEF Rereads, IsLoad, IsStore, Address
  <2>2. code[i].args = code[R].args
    <3>1. /\ code[i].args \in Seq(Value) /\ Len(code[i].args) = 1
          /\ code[R].args \in Seq(Value) /\ Len(code[R].args) = 1
      BY <1>2, <2>1 DEF MemoryShaped, WellFormed, Instruction, IsLoad
    <3> QED
      BY <2>1, <3>1
  <2>3. Faithful(source) => \A n \in DOMAIN code :
           code[n].bb = code[i].bb /\ i < n /\ n < R => code[n].op \notin {"store", "call"}
    BY <1>2, <1>3 DEF Rereads, Faithful, Loads!NoCalls, Frame, IsStore
  <2>4. Faithful(source) => Repetition(code, code, SDom, i, R)
    BY <1>2, <2>1, <2>2, <2>3 DEF Repetition, YieldsValue
  <2>5. Faithful(source) /\ Shaped(code) => SameOnPossiblePaths(SDom, Bits, code', code)
    BY <1>3, <2>4, RepeatedMeaning
  <2> QED
    BY <1>1, <1>2, <1>3, <2>1, <2>5, MovedMeaning
<1>4. ASSUME NEW w \in worklist, Unused(code, w), code' = Erase(code, w)
      PROVE  MeaningInv'
  <2>1. w \in DOMAIN code /\ ~Observable(code[w])
    BY <1>1, <1>4 DEF IInv, QueueKinds, IsLoad, Observable
  <2>2. Shaped(code) => SameOnPossiblePaths(SDom, Bits, code', code)
    BY <1>2, <1>4, <2>1, ErasedMeaning
  <2> QED
    BY <1>1, <1>4, <2>2, ErasedKeepsMeaning
<1> QED
  BY <1>1, <1>3, <1>4, SameCodeMeaning

\* A load takes the value stored before it; of two stores the later one stays.
LEMMA StoreMeaning == IInv /\ MeaningInv /\ RunStoreCse => MeaningInv'
<1> SUFFICES ASSUME IInv, MeaningInv, RunStoreCse PROVE MeaningInv'
  OBVIOUS
<1>1. /\ source' = source /\ pass = "store_cse" /\ worklist \subseteq DOMAIN code
      /\ \A w \in worklist : Unused(code, w)
      /\ \/ code' = code
         \/ \E R \in DOMAIN code, v \in Value :
               ReadsBack(R) /\ v = code[i].args[1] /\ code' = ReplaceAllUsesWith(code, R, v)
         \/ \E w \in worklist : /\ IsStore(code[w]) => \E o : CoveredBy(o, w)
                                /\ code' = Erase(code, w)
  BY StoreStep
<1>2. /\ WellFormed(code) /\ DefsBeforeUses(code, SDom) /\ StrictOrder(SDom)
      /\ Frame(code, source) /\ Bits \subseteq [Leaf -> Bit]
      /\ \A w \in worklist : IsStore(code[w]) \/ (IsLoad(code[w]) /\ ~code[w].vol)
  BY <1>1, ProgramsAssumption DEF IInv, Accepted, MeaningInv, Bits, QueueKinds
<1>3. ASSUME NEW R \in DOMAIN code, NEW v \in Value, ReadsBack(R), v = code[i].args[1],
             code' = ReplaceAllUsesWith(code, R, v)
      PROVE  MeaningInv'
  <2>1. /\ i \in DOMAIN code /\ i < R /\ code[i].bb = code[R].bb
        /\ code[i].op = "store" /\ code[R].op = "load"
        /\ code[R].args[1] = code[i].args[2]
        /\ \A n \in DOMAIN code : code[n].bb = code[i].bb /\ i < n /\ n < R
              => code[n].op \notin {"store", "call"}
    BY <1>3 DEF ReadsBack, IsLoad, IsStore, Address
  <2>2. Shaped(code) => SameOnPossiblePaths(SDom, Bits, code', code)
    BY <1>2, <1>3, <2>1, StoredMeaning
  <2> QED
    BY <1>1, <1>3, <2>2, MovedMeaning
<1>4. ASSUME NEW w \in worklist, IsStore(code[w]) => \E o : CoveredBy(o, w),
             code' = Erase(code, w)
      PROVE  MeaningInv'
  <2>1. w \in DOMAIN code /\ Unused(code, w)
    BY <1>1
  <2>2. CASE IsLoad(code[w]) /\ ~code[w].vol
    <3>1. ~Observable(code[w])
      BY <2>2 DEF IsLoad, Observable
    <3>2. Shaped(code) => SameOnPossiblePaths(SDom, Bits, code', code)
      BY <1>2, <1>4, <2>1, <3>1, ErasedMeaning
    <3> QED
      BY <1>1, <1>4, <3>2, ErasedKeepsMeaning
  <2>3. CASE IsStore(code[w])
    <3> DEFINE U == {k \in worklist : IsLoad(code[k])}
    <3>1. PICK o : CoveredBy(o, w)
      BY <1>4, <2>3
    <3>2. /\ o \in DOMAIN code /\ w < o /\ code[w].bb = code[o].bb
          /\ code[w].op = "store" /\ code[o].op = "store"
          /\ code[o].args[2] = code[w].args[2]
          /\ \A n \in DOMAIN code \ U :
                code[n].bb = code[w].bb /\ w < n /\ n < o => ~has_sideeffect(code[n])
      BY <2>3, <3>1 DEF CoveredBy, IsStore, Address
    <3>3. Faithful(source) => ~code[w].vol /\ ~code[o].vol
      BY <1>2, <2>1, <3>2 DEF Faithful, Stores!NoVolatileStores, Stores!IsStore, Frame
    <3>4. \A n \in DOMAIN code \cap U : ~Observable(code[n]) /\ Unused(code, n)
      BY <1>1, <1>2 DEF Observable, IsLoad, IsStore
    <3> HIDE DEF U
    <3>5. Faithful(source) /\ Shaped(code) => SameOnPossiblePaths(SDom, Bits, code', code)
      BY <1>2, <1>4, <2>1, <3>2, <3>3, <3>4, OverwrittenMeaning
    <3> QED
      BY <1>1, <1>4, <3>5, ErasedKeepsMeaning
  <2> QED
    BY <1>2, <2>2, <2>3
<1> QED
  BY <1>1, <1>3, <1>4, SameCodeMeaning

LEMMA NextMeaning == IInv /\ MeaningInv /\ [Next]_vars => MeaningInv'
<1> SUFFICES ASSUME IInv, MeaningInv, [Next]_vars PROVE MeaningInv'
  OBVIOUS
<1>1. CASE RunDce
  BY <1>1, DceMeaning
<1>2. CASE RunSimplify
  BY <1>2, SimplifyKeepsMeaning
<1>3. CASE RunCse
  BY <1>3, CseMeaning
<1>4. CASE RunLoadCse
  BY <1>4, LoadMeaning
<1>5. CASE RunStoreCse
  BY <1>5, StoreMeaning
<1>6. CASE Call \/ Report \/ UNCHANGED vars
  BY <1>6, SameCodeMeaning DEF Call, Report, vars
<1> QED
  BY <1>1, <1>2, <1>3, <1>4, <1>5, <1>6 DEF Next

LEMMA MeaningInvariance == Spec => [](IInv /\ MeaningInv)
  BY InitIInv, InitMeaning, NextIInv, NextMeaning, PTL DEF Spec

(* In a module in which what the passes do not compare or test does not     *)
(* occur, what is seen stays the same from the first step of dce to the     *)
(* last of store_cse, on every path the verifier allows, also one that      *)
(* enters a block again and again, whatever values the leaves and memory    *)
(* have.                                                                    *)
THEOREM KeepsMeaning ==
    Spec => [](Faithful(source) /\ Shaped(source)
                  => SameOnPossiblePaths(SDom, Bits, code, source))
<1>1. IInv /\ MeaningInv => (Faithful(source) /\ Shaped(source)
                                => SameOnPossiblePaths(SDom, Bits, code, source))
  BY DEF MeaningInv
<1> QED
  BY <1>1, MeaningInvariance, PTL

(* What the run compares: the compiled module and the source on every path  *)
(* straight through the blocks.                                             *)
THEOREM MeaningIsKept == Spec => []MeaningKept
<1>1. IInv /\ MeaningInv => MeaningKept
  <2> SUFFICES ASSUME IInv, MeaningInv, Faithful(source), Shaped(source),
                      NEW path, Possible(path, source, source, SDom),
                      NEW leaf \in Bits, NEW mem \in [Bit -> Bit]
               PROVE  ObserveOn(path, code, leaf, mem) = ObserveOn(path, source, leaf, mem)
    BY DEF MeaningKept, SameMeaning, SameMeaningOn, Bits
  <2>1. DOMAIN source \subseteq Nat /\ LaidOutIn(source, source)
    BY InstAssumption, ProgramsAssumption DEF IInv, Accepted, WellFormed, LaidOutIn
  <2> QED
    BY <2>1 DEF MeaningInv, SameOnPossiblePaths
<1> QED
  BY <1>1, MeaningInvariance, PTL

=============================================================================
