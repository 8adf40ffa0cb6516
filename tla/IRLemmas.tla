------------------------------ MODULE IRLemmas ------------------------------
(****************************************************************************)
(* What replaceAllUsesWith and eraseFromParent do to a well-formed module,  *)
(* and to what is seen of it when it runs: lemmas shared by the proofs      *)
(* about the passes.                                                        *)
(****************************************************************************)
EXTENDS Semantics, FiniteSetTheorems, TLAPS

\* c and d have the same instructions up to their operands.
SameShape(c, d) ==
    /\ DOMAIN d = DOMAIN c
    /\ \A k \in DOMAIN c :
          /\ d[k].op = c[k].op /\ d[k].vol = c[k].vol /\ d[k].ty = c[k].ty
          /\ d[k].fn = c[k].fn /\ d[k].bb = c[k].bb
          /\ Len(d[k].args) = Len(c[k].args)

(* Erasing leaves every other instruction as it was.                        *)
LEMMA EraseEffect ==
    ASSUME NEW c, NEW i
    PROVE  /\ DOMAIN Erase(c, i) = DOMAIN c \ {i}
           /\ \A k \in DOMAIN c \ {i} : Erase(c, i)[k] = c[k]
  BY DEF Erase, Restrict

(* Erasing an unused instruction keeps the module well formed, the SSA rule *)
(* and the shape of loads and stores.                                       *)
LEMMA EraseUnused ==
    ASSUME NEW c, WellFormed(c), NEW i \in DOMAIN c, Unused(c, i),
           NEW sdom, DefsBeforeUses(c, sdom), MemoryShaped(c),
           NEW d, d = Erase(c, i)
    PROVE  WellFormed(d) /\ DefsBeforeUses(d, sdom) /\ MemoryShaped(d)
<1>1. DOMAIN d = DOMAIN c \ {i} /\ \A k \in DOMAIN d : d[k] = c[k]
  BY EraseEffect
<1>2. d = [k \in DOMAIN d |-> d[k]]
  BY DEF Erase, Restrict
<1>3. \A k \in DOMAIN c : i \notin Range(c[k].args)
  BY DEF Unused, Users
<1>4. IsFiniteSet(DOMAIN d)
  BY <1>1, FS_Subset DEF WellFormed
<1>5. d \in [DOMAIN d -> Instruction]
  BY <1>1, <1>2 DEF WellFormed
<1>6. WellFormed(d)
  BY <1>1, <1>3, <1>4, <1>5 DEF WellFormed
<1>7. DefsBeforeUses(d, sdom)
  <2> SUFFICES ASSUME NEW k \in DOMAIN d, d[k].op # "phi", NEW o \in OperandInsts(d, k)
               PROVE  Precedes(d, o, k, sdom)
    BY DEF DefsBeforeUses
  <2>1. d[k] = c[k] /\ o \in OperandInsts(c, k) /\ k \in DOMAIN c
    BY <1>1 DEF OperandInsts
  <2>2. d[o] = c[o]
    BY <1>1, <1>3, <2>1 DEF OperandInsts, WellFormed
  <2>3. Precedes(c, o, k, sdom)
    BY <2>1 DEF DefsBeforeUses
  <2> QED
    BY <2>1, <2>2, <2>3 DEF Precedes
<1>8. MemoryShaped(d)
  BY <1>1 DEF MemoryShaped
<1> QED
  BY <1>6, <1>7, <1>8

-----------------------------------------------------------------------------
\* t is s with v in the place of r.
Replaced(s, t, r, v) ==
    /\ \A n \in 1..Len(s) : t[n] = IF s[n] = r THEN v ELSE s[n]
    /\ Range(t) = IF r \in Range(s) THEN (Range(s) \ {r}) \cup {v} ELSE Range(s)

LEMMA ReplacedArgs ==
    ASSUME NEW s \in Seq(Value), NEW r, NEW v \in Value,
           NEW t, t = Substituted(s, r, v)
    PROVE  t \in Seq(Value) /\ Len(t) = Len(s) /\ Replaced(s, t, r, v)
<1>1. t = [n \in 1..Len(s) |-> IF s[n] = r THEN v ELSE s[n]]
  BY DEF Substituted
<1>2. t \in Seq(Value) /\ Len(t) = Len(s) /\ DOMAIN t = 1..Len(s) /\ DOMAIN s = 1..Len(s)
  BY <1>1
<1>3. \A n \in 1..Len(s) : t[n] = IF s[n] = r THEN v ELSE s[n]
  BY <1>1
<1>4. Range(t) = IF r \in Range(s) THEN (Range(s) \ {r}) \cup {v} ELSE Range(s)
  BY <1>2, <1>3 DEF Range
<1> QED
  BY <1>2, <1>3, <1>4 DEF Replaced

(* Replacing the uses of r by v changes operands only: r loses every use to *)
(* v, and no other use changes.                                             *)
LEMMA ReplaceEffect ==
    ASSUME NEW c, WellFormed(c), NEW r, NEW v \in Value,
           NEW d, d = ReplaceAllUsesWith(c, r, v)
    PROVE  /\ SameShape(c, d)
           /\ d \in [DOMAIN c -> Instruction]
           /\ \A k \in DOMAIN c : Replaced(c[k].args, d[k].args, r, v)
<1>1. c \in [DOMAIN c -> Instruction]
  BY DEF WellFormed
<1>2. DOMAIN d = DOMAIN c /\ d = [k \in DOMAIN c |-> d[k]]
  BY DEF ReplaceAllUsesWith
<1>3. ASSUME NEW k \in DOMAIN c
      PROVE  /\ d[k] \in Instruction
             /\ d[k].op = c[k].op /\ d[k].vol = c[k].vol /\ d[k].ty = c[k].ty
             /\ d[k].fn = c[k].fn /\ d[k].bb = c[k].bb
             /\ Len(d[k].args) = Len(c[k].args)
             /\ Replaced(c[k].args, d[k].args, r, v)
  <2>1. c[k] \in Instruction /\ c[k].args \in Seq(Value)
    BY <1>1 DEF Instruction
  <2>2. PICK t : t = Substituted(c[k].args, r, v)
    OBVIOUS
  <2>3. t \in Seq(Value) /\ Len(t) = Len(c[k].args) /\ Replaced(c[k].args, t, r, v)
    BY <2>1, <2>2, ReplacedArgs
  <2>4. d[k] = [c[k] EXCEPT !.args = t]
    BY <2>2 DEF ReplaceAllUsesWith
  <2> QED
    BY <2>1, <2>3, <2>4 DEF Instruction
<1> QED
  BY <1>2, <1>3 DEF SameShape

(* An instruction that does not use r keeps its operands.                   *)
LEMMA ReplaceNothing ==
    ASSUME NEW c, WellFormed(c), NEW r, NEW v \in Value, NEW k \in DOMAIN c,
           r \notin Range(c[k].args), NEW d, d = ReplaceAllUsesWith(c, r, v)
    PROVE  d[k].args = c[k].args
<1>1. /\ d \in [DOMAIN c -> Instruction] /\ SameShape(c, d)
      /\ Replaced(c[k].args, d[k].args, r, v)
  BY ReplaceEffect
<1>2. c[k].args \in Seq(Value) /\ d[k].args \in Seq(Value)
  BY <1>1 DEF WellFormed, Instruction
<1>3. \A n \in 1..Len(c[k].args) : c[k].args[n] \in Range(c[k].args)
  BY <1>2 DEF Range
<1> QED
  BY <1>1, <1>2, <1>3 DEF Replaced, SameShape

(* Replacing r by a value of the same function that precedes it keeps the   *)
(* module well formed, the SSA rule and the shape of loads and stores.      *)
LEMMA ReplaceKeepsSSA ==
    ASSUME NEW c, WellFormed(c), NEW r \in DOMAIN c, NEW v \in Value,
           NEW sdom, StrictOrder(sdom), DefsBeforeUses(c, sdom), MemoryShaped(c),
           v \in Inst => /\ v \in DOMAIN c /\ YieldsValue(c[v])
                         /\ c[v].fn = c[r].fn /\ Precedes(c, v, r, sdom),
           NEW d, d = ReplaceAllUsesWith(c, r, v)
    PROVE  WellFormed(d) /\ DefsBeforeUses(d, sdom) /\ MemoryShaped(d)
<1>1. /\ SameShape(c, d) /\ d \in [DOMAIN c -> Instruction]
      /\ \A k \in DOMAIN c : Replaced(c[k].args, d[k].args, r, v)
  BY ReplaceEffect
<1>2. r \in Inst /\ DOMAIN c \subseteq Nat
  BY InstAssumption DEF WellFormed
<1>3. ASSUME NEW k \in DOMAIN d, NEW o \in OperandInsts(d, k)
      PROVE  /\ o \in DOMAIN c
             /\ o \in OperandInsts(c, k) \/ (o = v /\ r \in OperandInsts(c, k))
             /\ c[o].fn = c[k].fn /\ YieldsValue(c[o])
  <2>1. k \in DOMAIN c /\ Replaced(c[k].args, d[k].args, r, v) /\ o \in Inst
    BY <1>1, <1>3 DEF OperandInsts, SameShape
  <2>2. o \in OperandInsts(c, k) \/ (o = v /\ r \in OperandInsts(c, k))
    BY <1>2, <1>3, <2>1 DEF OperandInsts, Replaced
  <2>3. \A x \in OperandInsts(c, k) :
           x \in DOMAIN c /\ c[x].fn = c[k].fn /\ YieldsValue(c[x])
    BY <2>1 DEF OperandInsts, WellFormed
  <2> QED
    BY <2>1, <2>2, <2>3
<1>4. WellFormed(d)
  BY <1>1, <1>3 DEF WellFormed, SameShape, OperandInsts, YieldsValue
<1>5. DefsBeforeUses(d, sdom)
  <2> SUFFICES ASSUME NEW k \in DOMAIN d, d[k].op # "phi", NEW o \in OperandInsts(d, k)
               PROVE  Precedes(d, o, k, sdom)
    BY DEF DefsBeforeUses
  <2>1. k \in DOMAIN c /\ c[k].op # "phi"
    BY <1>1 DEF SameShape
  <2>2. CASE o \in OperandInsts(c, k)
    <3>1. Precedes(c, o, k, sdom)
      BY <2>1, <2>2 DEF DefsBeforeUses
    <3> QED
      BY <1>1, <1>3, <2>1, <3>1 DEF Precedes, SameShape
  <2>3. CASE o = v /\ r \in OperandInsts(c, k)
    <3>1. Precedes(c, r, k, sdom) /\ Precedes(c, v, r, sdom) /\ v \in DOMAIN c
      BY <1>3, <2>1, <2>3 DEF DefsBeforeUses, OperandInsts
    <3>2. Precedes(c, v, k, sdom)
      BY <1>2, <2>1, <3>1 DEF Precedes, StrictOrder
    <3> QED
      BY <1>1, <2>1, <2>3, <3>1, <3>2 DEF Precedes, SameShape
  <2> QED
    BY <1>3, <2>2, <2>3
<1>6. MemoryShaped(d)
  BY <1>1 DEF MemoryShaped, SameShape, IsLoad, IsStore
<1> QED
  BY <1>4, <1>5, <1>6

(* The uses r loses are the uses v gains.                                   *)
LEMMA ReplaceUsers ==
    ASSUME NEW c, WellFormed(c), NEW r, NEW v \in Value, r # v,
           NEW d, d = ReplaceAllUsesWith(c, r, v)
    PROVE  /\ Unused(d, r)
           /\ \A x : x # v /\ Unused(c, x) => Unused(d, x)
           /\ Unused(c, r) => \A x : Unused(c, x) => Unused(d, x)
<1>1. /\ DOMAIN d = DOMAIN c
      /\ \A k \in DOMAIN c : Replaced(c[k].args, d[k].args, r, v)
  BY ReplaceEffect DEF SameShape
<1>2. ASSUME NEW k \in DOMAIN c, NEW x, x \in Range(d[k].args)
      PROVE  x # r /\ (x \in Range(c[k].args) \/ (x = v /\ r \in Range(c[k].args)))
  <2>1. Replaced(c[k].args, d[k].args, r, v)
    BY <1>1
  <2>2. CASE r \in Range(c[k].args)
    BY <1>2, <2>1, <2>2 DEF Replaced
  <2>3. CASE r \notin Range(c[k].args)
    BY <1>2, <2>1, <2>3 DEF Replaced
  <2> QED
    BY <2>2, <2>3
<1>3. \A x : Unused(c, x) <=> \A k \in DOMAIN c : x \notin Range(c[k].args)
  BY DEF Unused, Users
<1>4. \A x : Unused(d, x) <=> \A k \in DOMAIN c : x \notin Range(d[k].args)
  BY <1>1 DEF Unused, Users
<1>5. Unused(d, r)
  BY <1>2, <1>4
<1>6. \A x : x # v /\ Unused(c, x) => Unused(d, x)
  BY <1>2, <1>3, <1>4
<1>7. Unused(c, r) => \A x : Unused(c, x) => Unused(d, x)
  BY <1>2, <1>3, <1>4
<1> QED
  BY <1>5, <1>6, <1>7

-----------------------------------------------------------------------------
(* A set of natural numbers that is not empty has a least member.           *)
LEMMA LeastNatural ==
    ASSUME NEW T \in SUBSET Nat, T # {}
    PROVE  \E x \in T : \A y \in T : x <= y
<1> DEFINE R == {ss \in Nat \X Nat : ss[1] < ss[2]}
<1>1. IsWellFoundedOn(R, Nat)
  BY NatLessThanWellFounded DEF OpToRel
<1>2. PICK x \in T : \A y \in T : ~ (<<y, x>> \in R)
  BY <1>1, WFMin
<1>3. ASSUME NEW y \in T PROVE x <= y
  <2>1. ~(<<y, x>>[1] < <<y, x>>[2])
    BY <1>2
  <2> QED
    BY <2>1
<1> QED
  BY <1>3

(* A run starts from Start and goes on step by step.                        *)
LEMMA RunIs ==
    ASSUME NEW path, Len(path) \in Nat, NEW c, NEW leaf, NEW mem,
           NEW r, r = Run(path, c, leaf, mem)
    PROVE  /\ r[0] = Start(mem)
           /\ \A k \in 1..Len(path) : r[k] = Step(c, r[k - 1], path[k], leaf)
<1> DEFINE Is(f, m) == f = [k \in 0..m |-> IF k = 0 THEN Start(mem)
                                           ELSE Step(c, f[k - 1], path[k], leaf)]
           T == {m \in Nat : ~\E f : Is(f, m)}
<1>1. T = {}
  <2>1. SUFFICES ASSUME T # {} PROVE FALSE
    OBVIOUS
  <2>2. PICK m \in T : \A l \in T : m <= l
    BY <2>1, T \in SUBSET Nat, LeastNatural
  <2>3. CASE m = 0
    <3>1. Is([k \in 0..0 |-> Start(mem)], m)
      BY <2>3
    <3> QED
      BY <3>1
  <2>4. CASE m # 0
    <3>1. m - 1 \in Nat /\ ~(m <= m - 1)
      BY <2>4
    <3>2. PICK f : Is(f, m - 1)
      BY <2>2, <3>1
    <3> DEFINE g == [k \in 0..m |-> IF k = m THEN Step(c, f[m - 1], path[m], leaf) ELSE f[k]]
    <3>3. \A k \in 0..m - 1 : g[k] = f[k]
      OBVIOUS
    <3>4. ASSUME NEW k \in 0..m
          PROVE  g[k] = IF k = 0 THEN Start(mem) ELSE Step(c, g[k - 1], path[k], leaf)
      <4>1. CASE k = m
        BY <2>4, <3>1, <3>3, <4>1
      <4>2. CASE k # m
        <5>1. k \in 0..m - 1 /\ (k # 0 => k - 1 \in 0..m - 1)
          BY <3>1, <4>2
        <5>2. f[k] = IF k = 0 THEN Start(mem) ELSE Step(c, f[k - 1], path[k], leaf)
          BY <3>2, <5>1
        <5> HIDE DEF g
        <5> QED
          BY <3>3, <5>1, <5>2
      <4> QED
        BY <4>1, <4>2
    <3>5. Is(g, m)
      <4>1. g = [k \in 0..m |-> g[k]]
        OBVIOUS
      <4> HIDE DEF g
      <4> QED
        BY <3>4, <4>1
    <3> QED
      BY <3>5
  <2> QED
    BY <2>3, <2>4
<1>2. PICK f : Is(f, Len(path))
  BY <1>1
<1>3. Is(r, Len(path))
  BY <1>2 DEF Run
<1> QED
  BY <1>3

\* s and t show the same and agree on the values of the instructions S.
Alike(s, t, S) ==
    /\ s.mem = t.mem /\ s.events = t.events
    /\ DOMAIN s.val = Inst /\ DOMAIN t.val = Inst
    /\ \A n \in S : s.val[n] = t.val[n] /\ s.entry[n] = t.entry[n]

LEMMA EnteredAlike ==
    ASSUME NEW S, NEW s, NEW t, Alike(s, t, S), NEW e
    PROVE  Alike(Entered(s, e), Entered(t, e), S)
  BY DEF Entered, Alike

LEMMA ExecuteAlike ==
    ASSUME NEW S \in SUBSET Inst, NEW s, NEW t, Alike(s, t, S),
           NEW I \in Instruction, Range(I.args) \cap Inst \subseteq S,
           NEW n, NEW leaf, NEW pred
    PROVE  Alike(Execute(s, I, n, leaf, pred), Execute(t, I, n, leaf, pred), S)
<1>1. Operands(I, Readable(s, I), leaf) = Operands(I, Readable(t, I), leaf)
  <2>1. ASSUME NEW k \in DOMAIN I.args, I.args[k] \notin Leaf
        PROVE  I.args[k] \in S
    BY <2>1 DEF Instruction, Value, Range
  <2> QED
    BY <2>1 DEF Operands, Readable, Alike
<1> QED
  BY <1>1 DEF Execute, Alike

LEMMA ExecuteUnseen ==
    ASSUME NEW S \in SUBSET Inst, NEW s, NEW t, Alike(s, t, S),
           NEW I \in Instruction, ~Observable(I), NEW n, n \notin S,
           NEW leaf, NEW pred
    PROVE  Alike(s, Execute(t, I, n, leaf, pred), S)
<1> DEFINE a == Operands(I, Readable(t, I), leaf)
<1> HIDE DEF a
<1>1. MemoryAfter(I, a, t.mem) = t.mem
  BY DEF MemoryAfter, Observable
<1>2. EventsAfter(I, a, t.mem, t.events) = t.events
  BY DEF EventsAfter, Observable
<1> QED
  BY <1>1, <1>2 DEF Execute, Alike, a

(* Erasing what has no visible effect and no user left does not change what *)
(* is seen, on any path, back and forth and round in loops.                 *)
LEMMA ErasedRuns ==
    ASSUME NEW d, WellFormed(d), NEW c, DOMAIN c \subseteq DOMAIN d,
           \A k \in DOMAIN c : c[k] = d[k] /\ OperandInsts(c, k) \subseteq DOMAIN c,
           \A k \in DOMAIN d \ DOMAIN c : ~Observable(d[k]),
           NEW path, Len(path) \in Nat, NEW leaf, NEW mem
    PROVE  ObserveOn(path, c, leaf, mem) = ObserveOn(path, d, leaf, mem)
<1> DEFINE r == Run(path, c, leaf, mem)
           q == Run(path, d, leaf, mem)
           T == {k \in 0..Len(path) : ~Alike(r[k], q[k], DOMAIN c)}
<1>1. /\ r[0] = Start(mem)
      /\ \A k \in 1..Len(path) : r[k] = Step(c, r[k - 1], path[k], leaf)
  BY RunIs
<1>2. /\ q[0] = Start(mem)
      /\ \A k \in 1..Len(path) : q[k] = Step(d, q[k - 1], path[k], leaf)
  BY RunIs
<1> HIDE DEF r, q
<1>3. DOMAIN c \subseteq Inst /\ \A k \in DOMAIN d : d[k] \in Instruction
  BY DEF WellFormed
<1>4. ASSUME NEW k \in 1..Len(path), Alike(r[k - 1], q[k - 1], DOMAIN c)
      PROVE  Alike(r[k], q[k], DOMAIN c)
  <2> DEFINE e == path[k]
             s == Entered(r[k - 1], e)
             t == Entered(q[k - 1], e)
  <2>1. Alike(s, t, DOMAIN c)
    BY <1>4, EnteredAlike
  <2>2. /\ r[k] = IF e.at \in DOMAIN c THEN Execute(s, c[e.at], e.at, leaf, e.pred) ELSE s
        /\ q[k] = IF e.at \in DOMAIN d THEN Execute(t, d[e.at], e.at, leaf, e.pred) ELSE t
    BY <1>1, <1>2 DEF Step
  <2> HIDE DEF s, t
  <2>3. CASE e.at \in DOMAIN c
    <3>1. Range(d[e.at].args) \cap Inst \subseteq DOMAIN c
      BY <2>3 DEF OperandInsts
    <3> QED
      BY <1>3, <2>1, <2>2, <2>3, <3>1, ExecuteAlike
  <2>4. CASE e.at \in DOMAIN d \ DOMAIN c
    BY <1>3, <2>1, <2>2, <2>4, ExecuteUnseen
  <2>5. CASE e.at \notin DOMAIN d
    BY <2>1, <2>2, <2>5
  <2> QED
    BY <2>3, <2>4, <2>5
<1>5. Alike(r[0], q[0], DOMAIN c)
  BY <1>1, <1>2, <1>3 DEF Start, Alike
<1>6. T = {}
  <2>1. SUFFICES ASSUME T # {} PROVE FALSE
    OBVIOUS
  <2>2. PICK k \in T : \A l \in T : k <= l
    BY <2>1, T \in SUBSET Nat, LeastNatural
  <2>3. k \in 1..Len(path)
    BY <1>5, <2>2
  <2>4. k - 1 \in 0..Len(path) /\ k - 1 \notin T
    BY <2>2, <2>3
  <2> QED
    BY <1>4, <2>2, <2>3, <2>4
<1>7. Alike(r[Len(path)], q[Len(path)], DOMAIN c)
  BY <1>6
<1> QED
  BY <1>7 DEF ObserveOn, Alike, r, q

-----------------------------------------------------------------------------
\* b computes again what i, before it in its block, has computed: from the same
\* operands, and from the same memory if they are loads.  c is laid out in d.
Repetition(c, d, sdom, i, b) ==
    /\ WellFormed(c) /\ DefsBeforeUses(c, sdom) /\ StrictOrder(sdom)
    /\ DOMAIN d \subseteq Nat /\ LaidOutIn(c, d)
    /\ i \in DOMAIN c /\ b \in DOMAIN c /\ i < b /\ c[i].bb = c[b].bb
    /\ c[i].op = c[b].op /\ c[i].args = c[b].args /\ YieldsValue(c[i])
    /\ c[i].op \in {"icmp", "phi"} => c[i].attr = c[b].attr
    /\ IsLoad(c[i]) => \A n \in DOMAIN c :
          c[n].bb = c[i].bb /\ i < n /\ n < b => c[n].op \notin {"store", "call"}

\* At step e of a path i has been executed and b, again, not yet.
Awaited(d, i, b, e) == d[e.at].bb = d[i].bb /\ i <= e.at /\ e.at < b

\* The two have the same value, but while b is awaited, when i has the one that
\* b is going to have.
Repeating(s, c, i, b, leaf, awaited, pred) ==
    /\ DOMAIN s.val = Inst
    /\ s.entry[i] = s.entry[b]
    /\ IF awaited
       THEN s.val[i] = Result(c[i], Operands(c[i], Readable(s, c[i]), leaf), s.mem, pred)
       ELSE s.val[i] = s.val[b]

\* What computes a value in Result from memory is a load.
LEMMA ResultOf ==
    ASSUME NEW I, NEW J, I.op = J.op, I.op \in {"icmp", "phi"} => I.attr = J.attr,
           NEW a, NEW pred, NEW m, NEW l, IsLoad(I) => m = l
    PROVE  Result(I, a, m, pred) = Result(J, a, l, pred)
<1>1. I.op = "load" => m = l
  BY DEF IsLoad
<1> QED
  BY <1>1 DEF Result

\* An operand of an instruction, phis apart, is not between it and a repetition.
LEMMA OperandsBefore ==
    ASSUME NEW c, NEW d, NEW sdom, NEW i, NEW b, Repetition(c, d, sdom, i, b),
           NEW n \in DOMAIN c, c[n].bb = c[i].bb, i <= n, n < b
    PROVE  c[i].op # "phi" => n \notin Range(c[i].args)
<1>1. n \in Inst /\ i \in Nat /\ n \in Nat
  BY DEF Repetition, LaidOutIn, WellFormed
<1>2. ASSUME c[i].op # "phi", n \in Range(c[i].args) PROVE FALSE
  <2>1. Precedes(c, n, i, sdom)
    BY <1>1, <1>2 DEF Repetition, LaidOutIn, DefsBeforeUses, OperandInsts
  <2> QED
    BY <1>1, <2>1 DEF Precedes, Repetition, LaidOutIn, StrictOrder
<1> QED
  BY <1>2

(* One step of a path while i and b are Repeating.                          *)
LEMMA RepeatingStep ==
    ASSUME NEW c, NEW d, NEW sdom, NEW i, NEW b, Repetition(c, d, sdom, i, b),
           NEW s, NEW leaf, NEW e \in PathStep(d), NEW was \in BOOLEAN, NEW pred,
           Repeating(s, c, i, b, leaf, was, pred),
           was => pred = e.pred /\ ~e.entered /\ (e.at = b \/ Awaited(d, i, b, e)),
           was => e.at # i,
           ~was => e.at # b /\ (Awaited(d, i, b, e) => e.at = i)
    PROVE  Repeating(Step(c, s, e, leaf), c, i, b, leaf, Awaited(d, i, b, e), e.pred)
<1> DEFINE n == e.at
           t == Entered(s, e)
           u == Step(c, s, e, leaf)
           a == Operands(c[i], Readable(t, c[i]), leaf)
<1>1. /\ n \in DOMAIN d /\ n \in Nat /\ i \in Nat /\ b \in Nat /\ i # b /\ i < b
      /\ i \in Inst /\ b \in Inst /\ YieldsValue(c[i]) /\ YieldsValue(c[b])
      /\ c[i].bb = d[i].bb /\ c[b].bb = d[i].bb
      /\ i \in DOMAIN c /\ b \in DOMAIN c
      /\ \A k \in DOMAIN c : c[k].bb = d[k].bb
      /\ c[i] \in Instruction
  BY DEF PathStep, Repetition, LaidOutIn, WellFormed, YieldsValue
<1>2. /\ DOMAIN t.val = Inst /\ t.entry[i] = t.entry[b] /\ t.mem = s.mem
      /\ t.val = s.val /\ (was => t.entry = s.entry)
  BY DEF Entered, Repeating
<1>3. /\ DOMAIN u.val = Inst /\ u.entry = t.entry
      /\ \A k \in Inst : k # n => u.val[k] = t.val[k]
      /\ n \notin DOMAIN c => u = t
  BY <1>2 DEF Step, Execute
\* What a phi reads does not change inside a block, what others read not here.
<1>4. ASSUME n \in DOMAIN c, Awaited(d, i, b, e)
      PROVE  Operands(c[i], Readable(u, c[i]), leaf) = a
  <2>1. c[i].op # "phi" => n \notin Range(c[i].args)
    BY <1>1, <1>4, OperandsBefore DEF Awaited
  <2>2. CASE c[i].op = "phi"
    BY <1>3, <2>2 DEF Readable
  <2>3. CASE c[i].op # "phi"
    <3>1. ASSUME NEW k \in DOMAIN c[i].args, c[i].args[k] \notin Leaf
          PROVE  c[i].args[k] \in Inst /\ c[i].args[k] # n
      BY <1>1, <2>1, <2>3, <3>1 DEF Instruction, Value, Range
    <3> QED
      BY <1>3, <2>3, <3>1 DEF Operands, Readable
  <2> QED
    BY <2>2, <2>3
<1>5. ASSUME n \in DOMAIN c, n \in {i, b}
      PROVE  u.val[n] = Result(c[n], Operands(c[n], Readable(t, c[n]), leaf), t.mem, e.pred)
  BY <1>1, <1>2, <1>5 DEF Step, Execute
<1>6. CASE was /\ n = b
  <2>1. ~Awaited(d, i, b, e)
    BY <1>1, <1>6 DEF Awaited
  <2>2. t.val[i] = Result(c[i], a, t.mem, e.pred)
    BY <1>2, <1>6 DEF Repeating, Readable
  <2>3. Operands(c[b], Readable(t, c[b]), leaf) = a
    BY DEF Operands, Readable, Repetition, LaidOutIn
  <2>4. u.val[b] = Result(c[i], a, t.mem, e.pred)
    BY <1>1, <1>5, <1>6, <2>3, ResultOf DEF Repetition, LaidOutIn
  <2> QED
    BY <1>1, <1>2, <1>3, <1>6, <2>1, <2>2, <2>4 DEF Repeating
<1>7. CASE was /\ n # b
  <2>1. Awaited(d, i, b, e) /\ i < n /\ n < b /\ n # i
    BY <1>1, <1>7 DEF Awaited
  <2>2. t.val[i] = Result(c[i], a, t.mem, e.pred)
    BY <1>2, <1>7 DEF Repeating, Readable
  <2>3. CASE n \in DOMAIN c
    <3>1. IsLoad(c[i]) => u.mem = t.mem
      <4>1. IsLoad(c[i]) => c[n].op \notin {"store", "call"}
        BY <1>1, <2>1, <2>3 DEF Repetition, LaidOutIn, Awaited
      <4> QED
        BY <2>3, <4>1 DEF Step, Execute, MemoryAfter
    <3>2. Result(c[i], a, u.mem, e.pred) = Result(c[i], a, t.mem, e.pred)
      BY <3>1, ResultOf
    <3>3. u.val[i] = t.val[i]
      BY <1>1, <1>3, <2>1
    <3> QED
      BY <1>2, <1>3, <1>4, <2>1, <2>2, <2>3, <3>2, <3>3 DEF Repeating
  <2>4. CASE n \notin DOMAIN c
    BY <1>2, <1>3, <2>1, <2>2, <2>4 DEF Repeating
  <2> QED
    BY <2>3, <2>4
<1>8. CASE ~was /\ n = i
  <2>1. Awaited(d, i, b, e) /\ n \in DOMAIN c
    BY <1>1, <1>8 DEF Awaited
  <2>2. u.val[i] = Result(c[i], a, t.mem, e.pred)
    BY <1>5, <1>8, <2>1
  <2>3. IsLoad(c[i]) => u.mem = t.mem
    BY <1>8, <2>1 DEF Step, Execute, MemoryAfter, IsLoad
  <2>4. Result(c[i], a, u.mem, e.pred) = Result(c[i], a, t.mem, e.pred)
    BY <2>3, ResultOf
  <2> QED
    BY <1>2, <1>3, <1>4, <2>1, <2>2, <2>4 DEF Repeating
<1>9. CASE ~was /\ n # i
  <2>1. ~Awaited(d, i, b, e) /\ n # b
    BY <1>9
  <2>2. s.val[i] = s.val[b]
    BY <1>9 DEF Repeating
  <2> QED
    BY <1>1, <1>2, <1>3, <1>9, <2>1, <2>2 DEF Repeating
<1> QED
  BY <1>6, <1>7, <1>8, <1>9

\* Where control is before and after a step, with regard to i and b.
LEMMA AwaitedStep ==
    ASSUME NEW c, NEW d, NEW sdom, NEW i, NEW b, Repetition(c, d, sdom, i, b),
           NEW path, Control(path, d), NEW k \in 1..Len(path),
           NEW was \in BOOLEAN, was <=> k > 1 /\ Awaited(d, i, b, path[k - 1]),
           NEW e, e = path[k]
    PROVE  /\ e \in PathStep(d)
           /\ was => /\ e.pred = path[k - 1].pred /\ ~e.entered /\ e.at # i
                     /\ e.at = b \/ Awaited(d, i, b, e)
           /\ ~was => e.at # b /\ (Awaited(d, i, b, e) => e.at = i)
<1> DEFINE n == e.at
           f == path[k - 1]
<1>1. /\ path \in Seq(PathStep(d)) /\ Len(path) \in Nat
      /\ e \in PathStep(d) /\ (k > 1 => f \in PathStep(d))
      /\ IF e.entered THEN Enters(d, n) /\ (k > 1 => Exits(d, f.at))
                      ELSE k > 1 /\ GoesOn(d, f, e)
  BY DEF Control
<1>2. /\ n \in DOMAIN d /\ n \in Nat /\ (k > 1 => f.at \in DOMAIN d /\ f.at \in Nat)
      /\ i \in Nat /\ b \in Nat /\ i < b /\ i \in DOMAIN d /\ b \in DOMAIN d
      /\ d[b].bb = d[i].bb
  BY <1>1 DEF PathStep, Repetition, LaidOutIn
<1>3. ASSUME was
      PROVE  /\ e.pred = f.pred /\ ~e.entered /\ n # i
             /\ n = b \/ Awaited(d, i, b, e)
  <2>1. k > 1 /\ d[f.at].bb = d[i].bb /\ i <= f.at /\ f.at < b
    BY <1>3 DEF Awaited
  <2>2. ~Exits(d, f.at)
    BY <1>2, <2>1 DEF Exits, IsLast, InstsOfBlock
  <2>3. GoesOn(d, f, e) /\ ~e.entered
    BY <1>1, <2>1, <2>2
  <2>4. f.at < n /\ n <= b /\ d[n].bb = d[i].bb
    BY <1>2, <2>1, <2>3 DEF GoesOn, IsNext, InstsOfBlock
  <2> QED
    BY <1>2, <2>1, <2>3, <2>4 DEF GoesOn, Awaited
<1>4. ASSUME ~was, n # i, n = b \/ Awaited(d, i, b, e) PROVE FALSE
  <2>1. d[n].bb = d[i].bb /\ i < n /\ n <= b
    BY <1>2, <1>4 DEF Awaited
  <2>2. ~Enters(d, n)
    BY <1>2, <2>1 DEF Enters, InstsOfBlock
  <2>3. k > 1 /\ GoesOn(d, f, e)
    BY <1>1, <2>2
  <2>4. /\ d[f.at].bb = d[i].bb /\ f.at < n
        /\ \A m \in InstsOfBlock(d, d[f.at].bb) : m > f.at => n <= m
    BY <2>1, <2>3 DEF GoesOn, IsNext
  <2>5. i \in InstsOfBlock(d, d[f.at].bb)
    BY <1>2, <2>4 DEF InstsOfBlock
  <2>6. i <= f.at
    BY <1>2, <2>1, <2>3, <2>4, <2>5
  <2> QED
    BY <1>2, <1>4, <2>1, <2>3, <2>4, <2>6 DEF Awaited
<1> QED
  BY <1>1, <1>2, <1>3, <1>4

(* Where the values of r and v are the same, an instruction with v in the   *)
(* place of r computes the same.                                            *)
LEMMA SubstitutedStep ==
    ASSUME NEW c, WellFormed(c), NEW r \in Inst, NEW v \in Inst,
           NEW s, NEW e, NEW leaf, NEW n, n = e.at,
           n \in DOMAIN c /\ r \in Range(c[n].args) =>
              Readable(Entered(s, e), c[n])[v] = Readable(Entered(s, e), c[n])[r]
    PROVE  Step(ReplaceAllUsesWith(c, r, v), s, e, leaf) = Step(c, s, e, leaf)
<1> DEFINE x == ReplaceAllUsesWith(c, r, v)
           t == Entered(s, e)
<1>1. DOMAIN x = DOMAIN c
  BY DEF ReplaceAllUsesWith
<1>2. CASE n \notin DOMAIN c
  BY <1>1, <1>2 DEF Step
<1>3. CASE n \in DOMAIN c
  <2> DEFINE I == c[n]
             J == x[n]
             val == Readable(t, I)
  <2>1. I \in Instruction /\ I.args \in Seq(Value)
    BY <1>3 DEF WellFormed, Instruction
  <2>2. /\ J.op = I.op /\ J.attr = I.attr /\ J.vol = I.vol
        /\ J.args = Substituted(I.args, r, v)
    BY <1>3, <2>1 DEF ReplaceAllUsesWith, Instruction
  <2>3. DOMAIN J.args = DOMAIN I.args
        /\ \A k \in DOMAIN I.args : J.args[k] = IF I.args[k] = r THEN v ELSE I.args[k]
    BY <2>2 DEF Substituted
  <2>4. r \notin Leaf /\ v \notin Leaf
    BY InstAssumption
  <2>5. \A k \in DOMAIN I.args : I.args[k] = r => val[v] = val[r]
    BY <1>3 DEF Range
  <2> HIDE DEF I, J, val
  <2>6. Operands(J, val, leaf) = Operands(I, val, leaf)
    BY <2>3, <2>4, <2>5 DEF Operands
  <2>7. Readable(t, J) = Readable(t, I)
    BY <2>2 DEF Readable
  <2>8. Operands(J, Readable(t, J), leaf) = Operands(I, Readable(t, I), leaf)
    BY <2>6, <2>7 DEF val
  <2>9. ASSUME NEW a, NEW m, NEW l
        PROVE  /\ Result(J, a, m, e.pred) = Result(I, a, m, e.pred)
               /\ MemoryAfter(J, a, m) = MemoryAfter(I, a, m)
               /\ EventsAfter(J, a, m, l) = EventsAfter(I, a, m, l)
               /\ YieldsValue(J) = YieldsValue(I)
    BY <2>2 DEF Result, MemoryAfter, EventsAfter, YieldsValue
  <2> HIDE DEF t, x
  <2>10. Execute(t, J, n, leaf, e.pred) = Execute(t, I, n, leaf, e.pred)
    BY <2>8, <2>9 DEF Execute
  <2> QED
    BY <1>1, <1>3, <2>10 DEF Step, I, J, t, x
<1> QED
  BY <1>2, <1>3

\* What is left in c is as in d, operands apart.
Frame(c, d) ==
    /\ DOMAIN c \subseteq DOMAIN d
    /\ \A n \in DOMAIN c : /\ c[n].op = d[n].op /\ c[n].ty = d[n].ty
                           /\ c[n].attr = d[n].attr /\ c[n].bb = d[n].bb
                           /\ c[n].vol = d[n].vol

LEMMA ReplaceKeepsFrame ==
    ASSUME NEW c, WellFormed(c), NEW r, NEW v, NEW d, Frame(c, d)
    PROVE  Frame(ReplaceAllUsesWith(c, r, v), d)
<1> DEFINE x == ReplaceAllUsesWith(c, r, v)
<1>1. DOMAIN x = DOMAIN c
  BY DEF ReplaceAllUsesWith
<1>2. ASSUME NEW n \in DOMAIN c
      PROVE  /\ x[n].op = c[n].op /\ x[n].ty = c[n].ty
             /\ x[n].attr = c[n].attr /\ x[n].bb = c[n].bb
             /\ x[n].vol = c[n].vol
  <2>1. c[n] \in Instruction
    BY DEF WellFormed
  <2>2. x[n] = [c[n] EXCEPT !.args = Substituted(c[n].args, r, v)]
    BY DEF ReplaceAllUsesWith
  <2> QED
    BY <2>1, <2>2 DEF Instruction
<1> HIDE DEF x
<1>3. Frame(x, d)
  BY <1>1, <1>2 DEF Frame
<1> QED
  BY <1>3 DEF x

(* Moving the uses of a repetition to what it repeats does not change what  *)
(* is seen, on any path.                                                    *)
LEMMA ReplacedRuns ==
    ASSUME NEW c, NEW d, NEW sdom, NEW i, NEW b, Repetition(c, d, sdom, i, b),
           NEW path, Control(path, d), NEW leaf, NEW mem
    PROVE  ObserveOn(path, ReplaceAllUsesWith(c, b, i), leaf, mem)
           = ObserveOn(path, c, leaf, mem)
<1> DEFINE x == ReplaceAllUsesWith(c, b, i)
           r == Run(path, x, leaf, mem)
           q == Run(path, c, leaf, mem)
           Was(k) == k > 0 /\ Awaited(d, i, b, path[k])
           Holds(k) == r[k] = q[k] /\ Repeating(q[k], c, i, b, leaf, Was(k), path[k].pred)
           T == {k \in 0..Len(path) : ~Holds(k)}
<1>0. Len(path) \in Nat
  BY DEF Control
<1>1. /\ r[0] = Start(mem)
      /\ \A k \in 1..Len(path) : r[k] = Step(x, r[k - 1], path[k], leaf)
  BY <1>0, RunIs
<1>2. /\ q[0] = Start(mem)
      /\ \A k \in 1..Len(path) : q[k] = Step(c, q[k - 1], path[k], leaf)
  BY <1>0, RunIs
<1> HIDE DEF r, q, x
<1>3. WellFormed(c) /\ i \in Inst /\ b \in Inst
  BY DEF Repetition, LaidOutIn, WellFormed
<1>4. ASSUME NEW k \in 1..Len(path), Holds(k - 1)
      PROVE  Holds(k)
  <2> DEFINE e == path[k]
             s == q[k - 1]
             t == Entered(s, e)
             was == Was(k - 1)
  <2>1. was \in BOOLEAN /\ (was <=> k > 1 /\ Awaited(d, i, b, path[k - 1]))
    <3>1. k - 1 > 0 <=> k > 1
      BY <1>0
    <3> QED
      BY <3>1
  <2>2. /\ e \in PathStep(d)
        /\ was => /\ e.pred = path[k - 1].pred /\ ~e.entered /\ e.at # i
                  /\ e.at = b \/ Awaited(d, i, b, e)
        /\ ~was => e.at # b /\ (Awaited(d, i, b, e) => e.at = i)
    <3> HIDE DEF was
    <3> QED
      BY <2>1, AwaitedStep
  <2>3. Repeating(s, c, i, b, leaf, was, path[k - 1].pred)
    BY <1>4
  <2>4. /\ q[k] = Step(c, s, e, leaf) /\ r[k] = Step(x, s, e, leaf)
    BY <1>0, <1>1, <1>2, <1>4
  <2> HIDE DEF e, s, was
  <2>5. Repeating(q[k], c, i, b, leaf, Awaited(d, i, b, e), e.pred)
    BY <2>1, <2>2, <2>3, <2>4, RepeatingStep
  \* An instruction that uses b, phis apart, is not reached before b.
  <2>6. ASSUME NEW n, n = e.at, n \in DOMAIN c, b \in Range(c[n].args)
        PROVE  Readable(t, c[n])[i] = Readable(t, c[n])[b]
    <3>1. CASE ~was
      BY <2>3, <3>1 DEF Readable, Entered, Repeating
    <3>2. CASE was /\ c[n].op = "phi"
      BY <2>2, <2>3, <3>2 DEF Readable, Entered, Repeating
    <3>3. CASE was /\ c[n].op # "phi"
      <4>1. n <= b /\ c[n].bb = c[b].bb /\ n \in Nat /\ b \in Nat
        BY <2>2, <2>6, <3>3 DEF Awaited, Repetition, LaidOutIn
      <4>2. Precedes(c, b, n, sdom)
        BY <1>3, <2>6, <3>3 DEF Repetition, LaidOutIn, DefsBeforeUses, OperandInsts
      <4> QED
        BY <4>1, <4>2 DEF Precedes, Repetition, LaidOutIn, StrictOrder
    <3> QED
      BY <3>1, <3>2, <3>3
  <2>7. r[k] = q[k]
    BY <1>3, <2>4, <2>6, SubstitutedStep DEF x, t
  <2>8. Was(k) = Awaited(d, i, b, e)
    BY DEF Awaited, e
  <2> HIDE DEF Was
  <2> QED
    BY <2>5, <2>7, <2>8 DEF e
<1>5. Holds(0)
  BY <1>1, <1>2, <1>3 DEF Start, Repeating
<1>6. T = {}
  <2>1. SUFFICES ASSUME T # {} PROVE FALSE
    OBVIOUS
  <2>2. PICK k \in T : \A l \in T : k <= l
    BY <2>1, T \in SUBSET Nat, LeastNatural
  <2>3. k \in 1..Len(path)
    BY <1>0, <1>5, <2>2
  <2>4. k - 1 \in 0..Len(path) /\ k - 1 \notin T
    BY <1>0, <2>2, <2>3
  <2> QED
    BY <1>4, <2>2, <2>3, <2>4
<1>7. r[Len(path)] = q[Len(path)]
  BY <1>0, <1>6
<1> QED
  BY <1>7 DEF ObserveOn, r, q, x

-----------------------------------------------------------------------------
\* Induction along a path.
LEMMA AlongPath ==
    ASSUME NEW L \in Nat, NEW S,
           \A k \in 0..L : (\A h \in 0..(k - 1) : h \in S) => k \in S
    PROVE  \A k \in 0..L : k \in S
<1> DEFINE T == {k \in 0..L : k \notin S}
<1>1. SUFFICES ASSUME T # {} PROVE FALSE
  OBVIOUS
<1>2. PICK k \in T : \A m \in T : k <= m
  BY <1>1, T \in SUBSET Nat, LeastNatural
<1>3. \A h \in 0..(k - 1) : h \in S
  BY <1>2
<1> QED
  BY <1>2, <1>3

\* Where control is after a step, with regard to the block it was in.
LEMMA ControlStep ==
    ASSUME NEW l, DOMAIN l \subseteq Nat, NEW path, Control(path, l)
    PROVE  /\ Len(path) \in Nat
           /\ \A k \in 1..Len(path) :
                 /\ path[k].at \in DOMAIN l /\ path[k].at \in Nat
                 /\ path[k].entered \in BOOLEAN /\ path[k].pred \in {1, 2}
                 /\ path[k].entered =>
                       /\ \A n \in DOMAIN l : l[n].bb = l[path[k].at].bb => path[k].at <= n
                       /\ k > 1 => \A n \in DOMAIN l :
                             l[n].bb = l[path[k - 1].at].bb => n <= path[k - 1].at
                 /\ ~path[k].entered =>
                       /\ k > 1 /\ l[path[k].at].bb = l[path[k - 1].at].bb
                       /\ path[k].pred = path[k - 1].pred
                       /\ path[k - 1].at < path[k].at
                       /\ \A n \in DOMAIN l : l[n].bb = l[path[k].at].bb =>
                             n <= path[k - 1].at \/ path[k].at <= n
<1>1. path \in Seq(PathStep(l)) /\ Len(path) \in Nat
  BY DEF Control
<1>2. \A k \in 1..Len(path) : path[k] \in PathStep(l)
  BY <1>1
<1>3. ASSUME NEW k \in 1..Len(path)
      PROVE  /\ path[k].at \in DOMAIN l /\ path[k].at \in Nat
             /\ path[k].entered \in BOOLEAN /\ path[k].pred \in {1, 2}
             /\ k > 1 => k - 1 \in 1..Len(path) /\ path[k - 1].at \in DOMAIN l /\ path[k - 1].at \in Nat
  BY <1>2, k > 1 => k - 1 \in 1..Len(path) DEF PathStep
<1>4. ASSUME NEW k \in 1..Len(path), path[k].entered
      PROVE  /\ \A n \in DOMAIN l : l[n].bb = l[path[k].at].bb => path[k].at <= n
             /\ k > 1 => \A n \in DOMAIN l :
                   l[n].bb = l[path[k - 1].at].bb => n <= path[k - 1].at
  <2>1. Enters(l, path[k].at) /\ (k > 1 => Exits(l, path[k - 1].at))
    BY <1>4 DEF Control
  <2> QED
    BY <2>1 DEF Enters, Exits, IsLast, InstsOfBlock
<1>5. ASSUME NEW k \in 1..Len(path), ~path[k].entered
      PROVE  /\ k > 1 /\ l[path[k].at].bb = l[path[k - 1].at].bb
             /\ path[k].pred = path[k - 1].pred
             /\ path[k - 1].at < path[k].at
             /\ \A n \in DOMAIN l : l[n].bb = l[path[k].at].bb =>
                   n <= path[k - 1].at \/ path[k].at <= n
  <2>1. k > 1 /\ GoesOn(l, path[k - 1], path[k])
    BY <1>5 DEF Control
  <2> QED
    BY <1>3, <2>1 DEF GoesOn, IsNext, InstsOfBlock
<1> QED
  BY <1>1, <1>3, <1>4, <1>5

\* Where control is in a block it has come through all of it up to there.
LEMMA Passed ==
    ASSUME NEW l, DOMAIN l \subseteq Nat, NEW path, Control(path, l), NEW r \in DOMAIN l
    PROVE  \A k \in 1..Len(path) : l[path[k].at].bb = l[r].bb /\ r <= path[k].at =>
              \E g \in 1..k : /\ path[g].at = r
                              /\ \A m \in (g + 1)..k : /\ l[path[m].at].bb = l[r].bb
                                                       /\ r < path[m].at
                                                       /\ path[m].pred = path[g].pred
<1> DEFINE P(k) == l[path[k].at].bb = l[r].bb /\ r <= path[k].at =>
              \E g \in 1..k : /\ path[g].at = r
                              /\ \A m \in (g + 1)..k : /\ l[path[m].at].bb = l[r].bb
                                                       /\ r < path[m].at
                                                       /\ path[m].pred = path[g].pred
           S == {k \in 0..Len(path) : k > 0 => P(k)}
<1>1. Len(path) \in Nat
  BY ControlStep
<1>2. ASSUME NEW k \in 0..Len(path), \A h \in 0..(k - 1) : h \in S, k > 0,
             l[path[k].at].bb = l[r].bb, r <= path[k].at
      PROVE  \E g \in 1..k : /\ path[g].at = r
                             /\ \A m \in (g + 1)..k : /\ l[path[m].at].bb = l[r].bb
                                                      /\ r < path[m].at
                                                      /\ path[m].pred = path[g].pred
  <2>1. k \in 1..Len(path)
    BY <1>2
  <2>2. CASE path[k].at = r
    BY <2>1, <2>2
  <2>3. CASE path[k].at # r
    <3>1. r \in Nat /\ path[k].at \in Nat /\ r < path[k].at
      BY <1>2, <2>1, <2>3, ControlStep
    <3>2. /\ k > 1 /\ l[path[k].at].bb = l[path[k - 1].at].bb
          /\ r <= path[k - 1].at /\ path[k].pred = path[k - 1].pred
      <4>1. ~path[k].entered
        BY <1>2, <2>1, <3>1, ControlStep
      <4>2. /\ k > 1 /\ l[path[k].at].bb = l[path[k - 1].at].bb
            /\ path[k].pred = path[k - 1].pred
            /\ r <= path[k - 1].at \/ path[k].at <= r
        BY <1>2, <2>1, <4>1, ControlStep
      <4> QED
        BY <3>1, <4>2
    <3>3. k - 1 \in 0..(k - 1) /\ k - 1 > 0
      BY <2>1, <3>2
    <3>4. P(k - 1)
      BY <1>2, <3>3
    <3>5. PICK g \in 1..(k - 1) :
             /\ path[g].at = r
             /\ \A m \in (g + 1)..(k - 1) : /\ l[path[m].at].bb = l[r].bb
                                            /\ r < path[m].at
                                            /\ path[m].pred = path[g].pred
      BY <1>2, <3>2, <3>4
    <3>6. path[k - 1].pred = path[g].pred
      BY <3>3, <3>5
    <3>7. ASSUME NEW m \in (g + 1)..k
          PROVE  l[path[m].at].bb = l[r].bb /\ r < path[m].at /\ path[m].pred = path[g].pred
      <4>1. m = k \/ m \in (g + 1)..(k - 1)
        BY <2>1
      <4> QED
        BY <1>2, <3>1, <3>2, <3>5, <3>6, <4>1
    <3>8. g \in 1..k
      BY <2>1
    <3> QED
      BY <3>5, <3>7, <3>8
  <2> QED
    BY <2>2, <2>3
<1>3. \A k \in 0..Len(path) : k \in S
  <2> HIDE DEF P
  <2>1. \A k \in 0..Len(path) : (\A h \in 0..(k - 1) : h \in S) => k \in S
    BY <1>2 DEF P
  <2> HIDE DEF S
  <2> QED
    BY <1>1, <2>1, AlongPath
<1> QED
  BY <1>1, <1>3

\* Control has passed r, and the instruction v not since.
Recent(path, k, r, v) ==
    \E g \in 1..k : path[g].at = r /\ \A m \in (g + 1)..k : v \in Inst => path[m].at # v

\* v is computed before r, in its block or in one that dominates it (in c, laid
\* out in l).
Forwardable(c, l, sdom, r, v) ==
    /\ StrictOrder(sdom) /\ DOMAIN l \subseteq Nat /\ LaidOutIn(c, l)
    /\ DOMAIN c \subseteq Inst
    /\ r \in DOMAIN c /\ v \in Value /\ v # r
    /\ v \in Inst => v \in DOMAIN c /\ Precedes(c, v, r, sdom)

\* So v is not between r and its uses.
LEMMA NotHere ==
    ASSUME NEW c, NEW l, NEW sdom, NEW r, NEW v, Forwardable(c, l, sdom, r, v),
           NEW n \in DOMAIN l,
           \/ l[n].bb = l[r].bb /\ r < n
           \/ /\ l[n].bb # l[r].bb
              /\ <<l[n].bb, l[r].bb>> \notin sdom
    PROVE  v \in Inst => n # v
<1> SUFFICES ASSUME n = v, v \in Inst PROVE FALSE
  OBVIOUS
<1>1. r \in Inst /\ r \in Nat /\ n \in Nat /\ DOMAIN c \subseteq DOMAIN l /\ r \in DOMAIN c
      /\ \A m \in DOMAIN c : l[m].bb = c[m].bb
  BY DEF Forwardable, LaidOutIn
<1>2. <<l[r].bb, l[r].bb>> \notin sdom
  BY DEF Forwardable, StrictOrder
<1>3. Precedes(c, v, r, sdom) /\ v \in DOMAIN c
  BY DEF Forwardable
<1> QED
  BY <1>1, <1>2, <1>3 DEF Precedes

LEMMA RecentInBlock ==
    ASSUME NEW c, NEW l, NEW sdom, NEW r, NEW v, Forwardable(c, l, sdom, r, v),
           NEW path, Control(path, l), NEW k \in 1..Len(path),
           l[path[k].at].bb = l[r].bb, r <= path[k].at
    PROVE  Recent(path, k, r, v)
<1>1. r \in DOMAIN l /\ DOMAIN l \subseteq Nat /\ Len(path) \in Nat
  BY ControlStep DEF Forwardable, LaidOutIn
<1>2. PICK g \in 1..k :
         /\ path[g].at = r
         /\ \A m \in (g + 1)..k : l[path[m].at].bb = l[r].bb /\ r < path[m].at
  BY <1>1, Passed
<1>3. ASSUME NEW m \in (g + 1)..k PROVE v \in Inst => path[m].at # v
  <2>1. m \in 1..Len(path) /\ path[m].at \in DOMAIN l
    BY <1>1, ControlStep
  <2> QED
    BY <1>2, <2>1, NotHere
<1> QED
  BY <1>2, <1>3 DEF Recent

\* One step further.
LEMMA RecentStep ==
    ASSUME NEW path, NEW k \in Nat, NEW r, NEW v, Recent(path, k, r, v),
           v \in Inst => path[k + 1].at # v
    PROVE  Recent(path, k + 1, r, v)
<1>1. PICK g \in 1..k :
         path[g].at = r /\ \A m \in (g + 1)..k : v \in Inst => path[m].at # v
  BY DEF Recent
<1>2. \A m \in (g + 1)..(k + 1) : m \in (g + 1)..k \/ m = k + 1
  OBVIOUS
<1>3. g \in 1..(k + 1)
  OBVIOUS
<1> QED
  BY <1>1, <1>2, <1>3 DEF Recent

LEMMA RecentDominated ==
    ASSUME NEW c, NEW l, NEW sdom, NEW r, NEW v, Forwardable(c, l, sdom, r, v),
           NEW path, Control(path, l), ThroughDominators(path, l, sdom),
           NEW k \in 1..Len(path), <<l[r].bb, l[path[k].at].bb>> \in sdom
    PROVE  k > 1 /\ Recent(path, k - 1, r, v) /\ Recent(path, k, r, v)
<1> DEFINE X == l[r].bb
           B(m) == l[path[m].at].bb
<1>1. /\ r \in DOMAIN l /\ r \in Nat /\ DOMAIN l \subseteq Nat /\ Len(path) \in Nat
      /\ StrictOrder(sdom)
  BY ControlStep DEF Forwardable, LaidOutIn
<1>2. PICK h \in 1..(k - 1) : B(h) = X /\ \A m \in h..(k - 1) : <<B(m), X>> \notin sdom
  <2>1. \A e \in sdom : e[2] = B(k) => \E h \in 1..(k - 1) :
            B(h) = e[1] /\ \A m \in h..(k - 1) : <<B(m), e[1]>> \notin sdom
    BY DEF ThroughDominators
  <2> QED
    BY <2>1
<1>3. k > 1 /\ X # B(k) /\ <<B(k), X>> \notin sdom
  <2>1. X # B(k)
    BY <1>1 DEF StrictOrder
  <2>2. <<B(k), X>> \in sdom => <<X, X>> \in sdom
    BY <1>1 DEF StrictOrder
  <2>3. <<X, X>> \notin sdom
    BY <1>1 DEF StrictOrder
  <2> QED
    BY <2>1, <2>2, <2>3
<1>4. ASSUME NEW m \in 1..Len(path), m > 1, B(m) # X, <<B(m), X>> \notin sdom,
             B(m - 1) = X \/ Recent(path, m - 1, r, v)
      PROVE  Recent(path, m - 1, r, v) /\ Recent(path, m, r, v)
  <2>1. path[m].at \in DOMAIN l /\ m - 1 \in 1..Len(path) /\ m - 1 \in Nat
    BY <1>1, <1>4, ControlStep
  <2>2. Recent(path, m - 1, r, v)
    <3>1. CASE B(m - 1) = X
      <4>1. path[m].entered
        BY <1>1, <1>4, <3>1, ControlStep
      <4>2. r <= path[m - 1].at
        BY <1>1, <1>4, <3>1, <4>1, ControlStep
      <4> QED
        BY <2>1, <3>1, <4>2, RecentInBlock
    <3> QED
      BY <1>4, <3>1
  <2>3. v \in Inst => path[m].at # v
    BY <1>4, <2>1, NotHere
  <2>4. (m - 1) + 1 = m
    BY <2>1
  <2>5. Recent(path, (m - 1) + 1, r, v)
    BY <2>1, <2>2, <2>3, <2>4, RecentStep
  <2> QED
    BY <2>2, <2>4, <2>5
<1> DEFINE S == {m \in 0..Len(path) : h <= m /\ m < k => B(m) = X \/ Recent(path, m, r, v)}
<1>5. ASSUME NEW m \in 0..Len(path), \A n \in 0..(m - 1) : n \in S PROVE m \in S
  <2> SUFFICES ASSUME h <= m, m < k, B(m) # X PROVE Recent(path, m, r, v)
    OBVIOUS
  <2>1. m \in 1..Len(path) /\ m > h /\ m > 1 /\ m - 1 \in 0..(m - 1) /\ h <= m - 1 /\ m - 1 < k
    <3>1. m # h
      BY <1>2
    <3> QED
      BY <3>1
  <2>2. B(m - 1) = X \/ Recent(path, m - 1, r, v)
    <3>1. m - 1 \in S
      BY <1>5, <2>1
    <3> QED
      BY <2>1, <3>1
  <2>3. <<B(m), X>> \notin sdom
    BY <1>2
  <2> QED
    BY <1>4, <2>1, <2>2, <2>3
<1>6. k - 1 \in S
  <2>1. k - 1 \in 0..Len(path)
    BY <1>1
  <2> HIDE DEF S
  <2> QED
    BY <1>1, <1>5, <2>1, AlongPath
<1>7. B(k - 1) = X \/ Recent(path, k - 1, r, v)
  BY <1>2, <1>6
<1> QED
  BY <1>3, <1>4, <1>7

\* Wherever control executes a use of r, it has come through r, and not through v
\* since.
LEMMA RecentAtUse ==
    ASSUME NEW c, NEW l, NEW sdom, NEW r, NEW v, Forwardable(c, l, sdom, r, v),
           DefsBeforeUses(c, sdom),
           NEW path, Control(path, l), ThroughDominators(path, l, sdom),
           NEW k \in 1..Len(path), NEW n \in DOMAIN c, path[k].at = n,
           c[n].op # "phi", r \in Range(c[n].args)
    PROVE  k > 1 /\ Recent(path, k - 1, r, v)
<1>1. /\ r \in DOMAIN l /\ r \in DOMAIN c /\ DOMAIN l \subseteq Nat /\ Len(path) \in Nat
      /\ n \in DOMAIN l /\ l[n].bb = c[n].bb /\ l[r].bb = c[r].bb
  BY ControlStep DEF Forwardable, LaidOutIn
<1>2. Precedes(c, r, n, sdom)
  <2>1. r \in OperandInsts(c, n)
    BY DEF OperandInsts, Forwardable
  <2> QED
    BY <2>1 DEF DefsBeforeUses
<1>3. CASE <<c[r].bb, c[n].bb>> \in sdom
  BY <1>1, <1>3, RecentDominated
<1>4. CASE c[r].bb = c[n].bb /\ r < n
  <2>1. ~path[k].entered
    <3>1. path[k].entered => path[k].at <= r
      BY <1>1, <1>4, ControlStep
    <3>2. n \in Nat /\ r \in Nat
      BY <1>1
    <3> QED
      BY <1>4, <3>1, <3>2
  <2>2. k > 1 /\ l[path[k - 1].at].bb = l[r].bb /\ (r <= path[k - 1].at \/ n <= r)
    BY <1>1, <1>4, <2>1, ControlStep
  <2>3. r <= path[k - 1].at /\ k - 1 \in 1..Len(path)
    BY <1>1, <1>4, <2>2
  <2> QED
    BY <2>2, <2>3, RecentInBlock
<1> QED
  BY <1>2, <1>3, <1>4 DEF Precedes

\* Also where a phi that takes r is reached.
LEMMA RecentAtPhi ==
    ASSUME NEW c, NEW l, NEW sdom, NEW r, NEW v, Forwardable(c, l, sdom, r, v),
           NEW path, Possible(path, c, l, sdom),
           NEW k \in 1..Len(path), path[k].entered,
           NEW n \in DOMAIN c, l[path[k].at].bb = c[n].bb,
           c[n].op = "phi", Taken(c[n], path[k].pred) = r
    PROVE  k > 1 /\ Recent(path, k - 1, r, v)
<1> DEFINE from == l[path[k - 1].at].bb
<1>1. /\ r \in DOMAIN l /\ r \in DOMAIN c /\ r \in Inst
      /\ DOMAIN l \subseteq Nat /\ Control(path, l)
      /\ ThroughDominators(path, l, sdom) /\ l[r].bb = c[r].bb
  BY DEF Forwardable, LaidOutIn, Possible
<1>2. k > 1 /\ (c[r].bb = from \/ <<c[r].bb, from>> \in sdom)
  BY <1>1 DEF Possible, PhisComputed
<1>3. k - 1 \in 1..Len(path)
  BY <1>1, <1>2, ControlStep
<1>4. CASE c[r].bb = from
  <2>1. r <= path[k - 1].at
    BY <1>1, <1>2, <1>4, ControlStep
  <2> QED
    BY <1>1, <1>2, <1>3, <1>4, <2>1, RecentInBlock
<1>5. CASE <<c[r].bb, from>> \in sdom
  BY <1>1, <1>2, <1>3, <1>5, RecentDominated
<1> QED
  BY <1>2, <1>4, <1>5

\* The states of a run.
IsRun(q, path, c, leaf, mem) ==
    /\ q[0] = Start(mem)
    /\ \A k \in 1..Len(path) : q[k] = Step(c, q[k - 1], path[k], leaf)

\* Step m of a path is where control entered the block it is in at step k.
EntryStep(path, l, q, k, m) ==
    /\ path[m].entered /\ path[m].pred = path[k].pred
    /\ \A h \in m..k : l[path[h].at].bb = l[path[k].at].bb
    /\ Entered(q[k - 1], path[k]).entry = q[m - 1].val

\* What a phi reads are the values as control came into its block.
LEMMA EntryOf ==
    ASSUME NEW l, DOMAIN l \subseteq Nat, NEW path, Control(path, l),
           NEW c, NEW leaf, NEW mem, NEW q, IsRun(q, path, c, leaf, mem)
    PROVE  \A k \in 1..Len(path) : \E m \in 1..k : EntryStep(path, l, q, k, m)
<1> DEFINE P(k, m) == EntryStep(path, l, q, k, m)
           S == {k \in 0..Len(path) : k > 0 => \E m \in 1..k : P(k, m)}
<1>1. Len(path) \in Nat
  BY ControlStep
<1>2. ASSUME NEW k \in 0..Len(path), \A h \in 0..(k - 1) : h \in S, k > 0
      PROVE  \E m \in 1..k : P(k, m)
  <2>1. k \in 1..Len(path)
    BY <1>2
  <2>2. CASE path[k].entered
    <3>1. P(k, k)
      BY <2>1, <2>2 DEF Entered, EntryStep
    <3> QED
      BY <2>1, <3>1
  <2>3. CASE ~path[k].entered
    <3>1. /\ k > 1 /\ l[path[k].at].bb = l[path[k - 1].at].bb
          /\ path[k].pred = path[k - 1].pred
      BY <2>1, <2>3, ControlStep
    <3>2. k - 1 \in 0..(k - 1) /\ k - 1 > 0 /\ k - 1 \in 1..Len(path)
      BY <2>1, <3>1
    <3>3. PICK m \in 1..(k - 1) : P(k - 1, m)
      BY <1>2, <3>2
    <3>4. Entered(q[k - 1], path[k]).entry = q[k - 1].entry
      BY <2>3 DEF Entered
    <3>5. q[k - 1] = Step(c, q[(k - 1) - 1], path[k - 1], leaf)
      BY <3>2 DEF IsRun
    <3>6. q[k - 1].entry = Entered(q[(k - 1) - 1], path[k - 1]).entry
      BY <3>5 DEF Step, Execute
    <3>7. ASSUME NEW h \in m..k PROVE l[path[h].at].bb = l[path[k].at].bb
      <4>1. h = k \/ h \in m..(k - 1)
        BY <2>1
      <4> QED
        BY <3>1, <3>3, <4>1 DEF EntryStep
    <3>8. P(k, m)
      BY <3>1, <3>3, <3>4, <3>6, <3>7 DEF EntryStep
    <3> QED
      BY <2>1, <3>8
  <2> QED
    BY <2>2, <2>3
<1>3. \A k \in 0..Len(path) : k \in S
  <2> HIDE DEF P
  <2>1. \A k \in 0..Len(path) : (\A h \in 0..(k - 1) : h \in S) => k \in S
    BY <1>2
  <2> HIDE DEF S
  <2> QED
    BY <1>1, <2>1, AlongPath
<1> QED
  BY <1>1, <1>3

\* Among the values val and those of the leaves, r has that of v.
Agrees(val, leaf, r, v) == val[r] = IF v \in Leaf THEN leaf[v] ELSE val[v]

\* When r is executed it yields the value v has, if it has done so before.
Yields(path, q, leaf, r, v) ==
    \A k \in 1..Len(path) :
        /\ path[k].at = r
        /\ \A h \in 0..(k - 1) : Recent(path, h, r, v) => Agrees(q[h].val, leaf, r, v)
        => Agrees(q[k].val, leaf, r, v)

\* r has the value v has, if it has been executed and v not since.
Settled(path, q, leaf, r, v) ==
    \A k \in 0..Len(path) : Recent(path, k, r, v) => Agrees(q[k].val, leaf, r, v)

\* If r yields the value of v it has it until v is executed again.
LEMMA AgreesWhileRecent ==
    ASSUME NEW path, Len(path) \in Nat, NEW c, NEW leaf, NEW mem,
           NEW q, IsRun(q, path, c, leaf, mem), NEW r \in Inst, NEW v \in Value,
           \A k \in 0..Len(path) : DOMAIN q[k].val = Inst,
           Yields(path, q, leaf, r, v)
    PROVE  Settled(path, q, leaf, r, v)
<1> DEFINE P(k) == Recent(path, k, r, v) => Agrees(q[k].val, leaf, r, v)
           S == {k \in 0..Len(path) : P(k)}
<1>1. ASSUME NEW k \in 0..Len(path), \A h \in 0..(k - 1) : P(h), Recent(path, k, r, v)
      PROVE  Agrees(q[k].val, leaf, r, v)
  <2>1. PICK g \in 1..k :
           path[g].at = r /\ \A m \in (g + 1)..k : v \in Inst => path[m].at # v
    BY <1>1 DEF Recent
  <2>2. k \in 1..Len(path) /\ k - 1 \in 0..(k - 1) /\ k - 1 \in 0..Len(path)
    BY <2>1
  <2>3. CASE path[k].at = r
    BY <1>1, <2>2, <2>3 DEF Yields
  <2>4. CASE path[k].at # r
    <3>1. g \in 1..(k - 1) /\ k \in (g + 1)..k
      BY <2>1, <2>2, <2>4
    <3>2. Recent(path, k - 1, r, v)
      <4>1. \A m \in (g + 1)..(k - 1) : m \in (g + 1)..k
        BY <2>2
      <4> QED
        BY <2>1, <3>1, <4>1 DEF Recent
    <3>3. Agrees(q[k - 1].val, leaf, r, v)
      BY <1>1, <2>2, <3>2
    <3>4. v \in Inst => path[k].at # v
      BY <2>1, <3>1
    <3>5. q[k] = Step(c, q[k - 1], path[k], leaf)
      BY <2>2 DEF IsRun
    <3>6. \A n \in Inst : n # path[k].at => q[k].val[n] = q[k - 1].val[n]
      BY <2>2, <3>5 DEF Step, Execute, Entered
    <3>7. v \notin Leaf => v \in Inst
      BY DEF Value
    <3> QED
      BY <2>4, <3>3, <3>4, <3>6, <3>7 DEF Agrees
  <2> QED
    BY <2>3, <2>4
<1>2. \A k \in 0..Len(path) : k \in S
  <2>1. \A k \in 0..Len(path) : (\A h \in 0..(k - 1) : h \in S) => k \in S
    BY <1>1
  <2> HIDE DEF S
  <2> QED
    BY <2>1, AlongPath
<1> QED
  BY <1>2 DEF Settled

\* Where r and v have the same value an instruction with v in the place of r
\* computes the same; a phi also if r is not what it takes.
LEMMA SubstitutedOperand ==
    ASSUME NEW c, WellFormed(c), Shaped(c), NEW r \in Inst, NEW v \in Value,
           NEW s, NEW e, e.pred \in {1, 2}, NEW leaf,
           /\ e.at \in DOMAIN c /\ r \in Range(c[e.at].args)
           /\ c[e.at].op = "phi" => Taken(c[e.at], e.pred) = r
           => Agrees(Readable(Entered(s, e), c[e.at]), leaf, r, v)
    PROVE  Step(ReplaceAllUsesWith(c, r, v), s, e, leaf) = Step(c, s, e, leaf)
<1> DEFINE x == ReplaceAllUsesWith(c, r, v)
           t == Entered(s, e)
           n == e.at
<1>1. DOMAIN x = DOMAIN c
  BY DEF ReplaceAllUsesWith
<1>2. CASE n \notin DOMAIN c
  BY <1>1, <1>2 DEF Step
<1>3. CASE n \in DOMAIN c
  <2> DEFINE I == c[n]
             J == x[n]
             val == Readable(t, I)
             a == Operands(I, val, leaf)
             b == Operands(J, val, leaf)
  <2>1. I \in Instruction /\ I.args \in Seq(Value) /\ (I.op = "phi" => ~I.vol)
    BY <1>3 DEF WellFormed, Instruction
  <2>2. /\ J.op = I.op /\ J.attr = I.attr /\ J.vol = I.vol
        /\ J.args = Substituted(I.args, r, v)
    BY <1>3, <2>1 DEF ReplaceAllUsesWith, Instruction
  <2>3. DOMAIN J.args = DOMAIN I.args
        /\ \A k \in DOMAIN I.args : J.args[k] = IF I.args[k] = r THEN v ELSE I.args[k]
    BY <2>2 DEF Substituted
  <2>4. r \notin Leaf
    BY InstAssumption
  <2>5. \A k \in DOMAIN I.args : I.args[k] = r => r \in Range(I.args)
    BY DEF Range
  <2>6. DOMAIN a = DOMAIN I.args /\ DOMAIN b = DOMAIN I.args
    BY <2>3 DEF Operands
  <2>7. ASSUME NEW k \in DOMAIN I.args, I.args[k] # r PROVE b[k] = a[k]
    BY <2>3, <2>7 DEF Operands
  <2>8. Readable(t, J) = val
    BY <2>2 DEF Readable
  <2>9. ASSUME NEW m, NEW h
        PROVE  /\ Result(J, b, m, e.pred) = Result(I, a, m, e.pred)
               /\ MemoryAfter(J, b, m) = MemoryAfter(I, a, m)
               /\ EventsAfter(J, b, m, h) = EventsAfter(I, a, m, h)
    <3>1. CASE I.op = "phi" /\ Taken(I, e.pred) # r
      <4> DEFINE p == IF I.attr = "fwd" THEN e.pred ELSE 3 - e.pred
      <4>1. p \in DOMAIN I.args /\ I.args[p] # r
        <5>1. Len(I.args) >= 2 /\ Len(I.args) \in Nat
          BY <1>3, <2>1, <3>1 DEF Shaped
        <5>2. p \in {1, 2}
          OBVIOUS
        <5> QED
          BY <2>1, <3>1, <5>1, <5>2 DEF Taken
      <4>2. b[p] = a[p]
        BY <2>7, <4>1
      <4> HIDE DEF a, b, I, J
      <4> QED
        BY <2>1, <2>2, <3>1, <4>2 DEF Result, MemoryAfter, EventsAfter
    <3>2. CASE ~(I.op = "phi" /\ Taken(I, e.pred) # r)
      <4>1. ASSUME NEW k \in DOMAIN I.args, I.args[k] = r PROVE b[k] = a[k]
        <5>1. Agrees(val, leaf, r, v)
          BY <1>3, <2>5, <3>2, <4>1
        <5> QED
          BY <2>3, <2>4, <4>1, <5>1 DEF Agrees, Operands
      <4>2. a = b
        <5>1. a = [k \in DOMAIN I.args |-> a[k]] /\ b = [k \in DOMAIN I.args |-> b[k]]
          BY <2>3 DEF Operands
        <5> HIDE DEF a, b
        <5> QED
          BY <2>7, <4>1, <5>1
      <4> HIDE DEF a, b, I, J
      <4> QED
        BY <2>2, <4>2 DEF Result, MemoryAfter, EventsAfter
    <3> QED
      BY <3>1, <3>2
  <2>10. YieldsValue(J) = YieldsValue(I)
    BY <2>2 DEF YieldsValue
  <2> HIDE DEF t, x, a, b, I, J
  <2>11. Execute(t, J, n, leaf, e.pred) = Execute(t, I, n, leaf, e.pred)
    BY <2>8, <2>9, <2>10 DEF Execute, a, b
  <2> QED
    BY <1>1, <1>3, <2>11 DEF Step, I, J, t, x
<1> QED
  BY <1>2, <1>3

\* All values are bits, and memory holds bits.
BitState(s) ==
    s.val \in [Inst -> Bit] /\ s.entry \in [Inst -> Bit] /\ s.mem \in [Bit -> Bit]

LEMMA StepBits ==
    ASSUME NEW c, WellFormed(c), Shaped(c), NEW leaf \in [Leaf -> Bit],
           NEW s, BitState(s), NEW e, e.pred \in {1, 2}
    PROVE  BitState(Step(c, s, e, leaf))
<1> DEFINE t == Entered(s, e)
           n == e.at
<1>1. BitState(t)
  BY DEF BitState, Entered
<1>2. CASE n \notin DOMAIN c
  BY <1>1, <1>2 DEF Step
<1>3. CASE n \in DOMAIN c
  <2> DEFINE I == c[n]
             a == Operands(I, Readable(t, I), leaf)
  <2>1. I \in Instruction /\ I.args \in Seq(Value) /\ Len(I.args) \in Nat
    BY <1>3 DEF WellFormed, Instruction
  <2>2. /\ I.op \in {"add", "icmp", "phi", "store"} => Len(I.args) >= 2
        /\ I.op \in {"load", "extract"} => Len(I.args) >= 1
    BY <1>3 DEF Shaped
  <2>3. ASSUME NEW k \in 1..Len(I.args) PROVE a[k] \in Bit
    <3>1. I.args[k] \in Leaf \/ I.args[k] \in Inst
      BY <2>1, <2>3 DEF Value
    <3>2. Readable(t, I) \in [Inst -> Bit]
      BY <1>1 DEF BitState, Readable
    <3> QED
      BY <2>1, <3>1, <3>2 DEF Operands
  <2>4. I.op \in {"add", "icmp", "phi", "store"} => a[1] \in Bit /\ a[2] \in Bit
    BY <2>1, <2>2, <2>3
  <2>5. I.op \in {"load", "extract"} => a[1] \in Bit
    BY <2>1, <2>2, <2>3
  <2> HIDE DEF a, I, t
  <2>6. t.mem \in [Bit -> Bit]
    BY <1>1 DEF BitState
  <2>7. Result(I, a, t.mem, e.pred) \in Bit
    <3>1. CASE I.op = "add"
      BY <2>4, <3>1 DEF Result, Bit
    <3>2. CASE I.op = "icmp"
      BY <3>2 DEF Result, Bit
    <3>3. CASE I.op = "phi"
      <4>1. Result(I, a, t.mem, e.pred) = a[IF I.attr = "fwd" THEN e.pred ELSE 3 - e.pred]
        BY <3>3 DEF Result
      <4>2. (IF I.attr = "fwd" THEN e.pred ELSE 3 - e.pred) \in {1, 2}
        OBVIOUS
      <4> QED
        BY <2>4, <3>3, <4>1, <4>2
    <3>4. CASE I.op = "load"
      BY <2>5, <2>6, <3>4 DEF Result
    <3>5. CASE I.op = "extract"
      BY <2>5, <3>5 DEF Result
    <3>6. CASE I.op \notin {"add", "icmp", "phi", "load", "extract"}
      BY <3>6 DEF Result, Bit
    <3> QED
      BY <3>1, <3>2, <3>3, <3>4, <3>5, <3>6
  <2>8. MemoryAfter(I, a, t.mem) \in [Bit -> Bit]
    <3>1. CASE I.op = "store"
      BY <2>4, <2>6, <3>1 DEF MemoryAfter
    <3>2. CASE I.op = "call"
      <4>1. \A x \in Bit : 1 - t.mem[x] \in Bit
        BY <2>6 DEF Bit
      <4> QED
        BY <3>2, <4>1 DEF MemoryAfter
    <3>3. CASE I.op \notin {"store", "call"}
      BY <2>6, <3>3 DEF MemoryAfter
    <3> QED
      BY <3>1, <3>2, <3>3
  <2>9. BitState(Execute(t, I, n, leaf, e.pred))
    BY <1>1, <2>7, <2>8 DEF BitState, Execute, a
  <2> QED
    BY <1>3, <2>9 DEF Step, t, I
<1> QED
  BY <1>2, <1>3

LEMMA RunBits ==
    ASSUME NEW c, WellFormed(c), Shaped(c), NEW leaf \in [Leaf -> Bit],
           NEW mem \in [Bit -> Bit], NEW l, DOMAIN l \subseteq Nat,
           NEW path, Control(path, l), NEW q, IsRun(q, path, c, leaf, mem)
    PROVE  \A k \in 0..Len(path) : BitState(q[k])
<1> DEFINE S == {k \in 0..Len(path) : BitState(q[k])}
<1>1. Len(path) \in Nat
  BY ControlStep
<1>2. ASSUME NEW k \in 0..Len(path), \A h \in 0..(k - 1) : h \in S PROVE BitState(q[k])
  <2>1. CASE k = 0
    <3>1. q[0] = Start(mem)
      BY DEF IsRun
    <3> QED
      BY <2>1, <3>1 DEF Start, BitState, Bit
  <2>2. CASE k # 0
    <3>1. k \in 1..Len(path) /\ k - 1 \in 0..(k - 1)
      BY <2>2
    <3>2. BitState(q[k - 1]) /\ path[k].pred \in {1, 2}
      BY <1>2, <3>1, ControlStep
    <3>3. q[k] = Step(c, q[k - 1], path[k], leaf)
      BY <3>1 DEF IsRun
    <3> QED
      BY <3>2, <3>3, StepBits
  <2> QED
    BY <2>1, <2>2
<1>3. \A k \in 0..Len(path) : k \in S
  <2>1. \A k \in 0..Len(path) : (\A h \in 0..(k - 1) : h \in S) => k \in S
    BY <1>2
  <2> HIDE DEF S
  <2> QED
    BY <1>1, <2>1, AlongPath
<1> QED
  BY <1>3

\* One step of two runs, of c and of x, in which v is in the place of r.
LEMMA ForwardedStep ==
    ASSUME NEW c, WellFormed(c), Shaped(c), NEW sdom, DefsBeforeUses(c, sdom),
           NEW l, NEW r, NEW v, Forwardable(c, l, sdom, r, v),
           NEW path, Possible(path, c, l, sdom), NEW leaf, NEW mem,
           NEW q, IsRun(q, path, c, leaf, mem), Settled(path, q, leaf, r, v),
           NEW k \in 1..Len(path)
    PROVE  Step(ReplaceAllUsesWith(c, r, v), q[k - 1], path[k], leaf) = q[k]
<1>1. /\ Len(path) \in Nat /\ Control(path, l) /\ ThroughDominators(path, l, sdom)
      /\ DOMAIN l \subseteq Nat /\ LaidOutIn(c, l) /\ r \in Inst /\ v \in Value
  BY ControlStep DEF Possible, Forwardable
<1>2. \E m \in 1..k : EntryStep(path, l, q, k, m)
  BY <1>1, EntryOf
<1>3. q[k] = Step(c, q[k - 1], path[k], leaf)
  BY DEF IsRun
<1>4. PICK s : s = q[k - 1]
  OBVIOUS
<1>5. PICK e : e = path[k]
  OBVIOUS
<1>6. /\ e.pred \in {1, 2} /\ e.at \in DOMAIN l /\ k - 1 \in 0..Len(path)
  BY <1>1, <1>5, ControlStep
<1>7. ASSUME e.at \in DOMAIN c, r \in Range(c[e.at].args),
             c[e.at].op = "phi" => Taken(c[e.at], e.pred) = r
      PROVE  Agrees(Readable(Entered(s, e), c[e.at]), leaf, r, v)
  <2>1. CASE c[e.at].op # "phi"
    <3>1. Recent(path, k - 1, r, v)
      BY <1>1, <1>5, <1>7, <2>1, RecentAtUse
    <3>2. Agrees(s.val, leaf, r, v)
      BY <1>4, <1>6, <3>1 DEF Settled
    <3> QED
      BY <2>1, <3>2 DEF Readable, Entered
  <2>2. CASE c[e.at].op = "phi"
    <3>1. PICK m \in 1..k :
             /\ path[m].entered /\ path[m].pred = path[k].pred
             /\ \A h \in m..k : l[path[h].at].bb = l[path[k].at].bb
             /\ Entered(q[k - 1], path[k]).entry = q[m - 1].val
      BY <1>2 DEF EntryStep
    <3>2. m \in 1..Len(path) /\ m - 1 \in 0..Len(path) /\ m \in m..k
      BY <1>1
    <3>3. l[path[m].at].bb = c[e.at].bb
      BY <1>1, <1>5, <1>7, <3>1, <3>2 DEF LaidOutIn
    <3>4. Recent(path, m - 1, r, v)
      BY <1>5, <1>7, <2>2, <3>1, <3>2, <3>3, RecentAtPhi
    <3>5. Agrees(q[m - 1].val, leaf, r, v)
      BY <3>2, <3>4 DEF Settled
    <3> QED
      BY <1>4, <1>5, <2>2, <3>1, <3>5 DEF Readable
  <2> QED
    BY <2>1, <2>2
<1>8. /\ e.at \in DOMAIN c /\ r \in Range(c[e.at].args)
      /\ c[e.at].op = "phi" => Taken(c[e.at], e.pred) = r
      => Agrees(Readable(Entered(s, e), c[e.at]), leaf, r, v)
  BY <1>7
<1>9. e.pred \in {1, 2} /\ r \in Inst /\ v \in Value
  BY <1>1, <1>6
<1>10. Step(ReplaceAllUsesWith(c, r, v), s, e, leaf) = Step(c, s, e, leaf)
  BY <1>8, <1>9, SubstitutedOperand, SMTT(90)
<1> QED
  BY <1>3, <1>4, <1>5, <1>10

\* Two runs that take the same steps are the same.
LEMMA SameRuns ==
    ASSUME NEW path, Len(path) \in Nat, NEW c, NEW x, NEW leaf, NEW mem,
           NEW q, IsRun(q, path, c, leaf, mem),
           \A k \in 1..Len(path) : Step(x, q[k - 1], path[k], leaf) = q[k]
    PROVE  ObserveOn(path, x, leaf, mem) = <<q[Len(path)].events, q[Len(path)].mem>>
<1> DEFINE p == Run(path, x, leaf, mem)
           S == {k \in 0..Len(path) : p[k] = q[k]}
<1>1. IsRun(p, path, x, leaf, mem)
  BY RunIs DEF IsRun
<1> HIDE DEF p
<1>2. ASSUME NEW k \in 0..Len(path), \A h \in 0..(k - 1) : h \in S PROVE k \in S
  <2>1. CASE k = 0
    BY <1>1, <2>1 DEF IsRun
  <2>2. CASE k # 0
    <3>1. k \in 1..Len(path) /\ k - 1 \in 0..(k - 1)
      BY <2>2
    <3>2. p[k - 1] = q[k - 1]
      BY <1>2, <3>1
    <3> QED
      BY <1>1, <3>1, <3>2 DEF IsRun
  <2> QED
    BY <2>1, <2>2
<1>3. p[Len(path)] = q[Len(path)]
  <2>1. \A k \in 0..Len(path) : (\A h \in 0..(k - 1) : h \in S) => k \in S
    BY <1>2
  <2>2. Len(path) \in 0..Len(path)
    OBVIOUS
  <2> HIDE DEF S
  <2>3. Len(path) \in S
    BY <2>1, <2>2, AlongPath
  <2> QED
    BY <2>3 DEF S
<1> QED
  BY <1>3 DEF ObserveOn, p

(* Moving the uses of r to a value v computed before it does not change what *)
(* is seen if r, when it is executed, yields the value v has, for then it    *)
(* has it wherever a use of r is executed.                                  *)
LEMMA ForwardedRuns ==
    ASSUME NEW c, WellFormed(c), Shaped(c), NEW sdom, DefsBeforeUses(c, sdom),
           NEW l, NEW r, NEW v, Forwardable(c, l, sdom, r, v),
           NEW path, Possible(path, c, l, sdom),
           NEW leaf \in [Leaf -> Bit], NEW mem \in [Bit -> Bit],
           Yields(path, Run(path, c, leaf, mem), leaf, r, v)
    PROVE  ObserveOn(path, ReplaceAllUsesWith(c, r, v), leaf, mem)
           = ObserveOn(path, c, leaf, mem)
<1> DEFINE q == Run(path, c, leaf, mem)
<1>1. Len(path) \in Nat /\ Control(path, l) /\ DOMAIN l \subseteq Nat /\ r \in Inst /\ v \in Value
  BY ControlStep DEF Possible, Forwardable
<1>2. IsRun(q, path, c, leaf, mem)
  BY <1>1, RunIs DEF IsRun
<1>3. Yields(path, q, leaf, r, v)
  OBVIOUS
<1>4. ObserveOn(path, c, leaf, mem) = <<q[Len(path)].events, q[Len(path)].mem>>
  BY DEF ObserveOn
<1> HIDE DEF q
<1>5. \A k \in 0..Len(path) : DOMAIN q[k].val = Inst
  BY <1>1, <1>2, RunBits DEF BitState
<1>6. Settled(path, q, leaf, r, v)
  BY <1>1, <1>2, <1>3, <1>5, AgreesWhileRecent
<1>7. \A k \in 1..Len(path) :
         Step(ReplaceAllUsesWith(c, r, v), q[k - 1], path[k], leaf) = q[k]
  BY <1>2, <1>6, ForwardedStep
<1> QED
  BY <1>1, <1>2, <1>4, <1>7, SameRuns

-----------------------------------------------------------------------------
\* Neither mutation takes an operand away.
LEMMA ShapedKept ==
    ASSUME NEW c, WellFormed(c), Shaped(c)
    PROVE  /\ \A r : \A v \in Value : Shaped(ReplaceAllUsesWith(c, r, v))
           /\ \A w : Shaped(Erase(c, w))
<1>1. ASSUME NEW r, NEW v \in Value PROVE Shaped(ReplaceAllUsesWith(c, r, v))
  <2>1. PICK d : d = ReplaceAllUsesWith(c, r, v)
    OBVIOUS
  <2>2. /\ DOMAIN d = DOMAIN c
        /\ \A n \in DOMAIN c : d[n].op = c[n].op /\ Len(d[n].args) = Len(c[n].args)
    BY <2>1, ReplaceEffect DEF SameShape
  <2> QED
    BY <2>1, <2>2 DEF Shaped
<1>2. ASSUME NEW w PROVE Shaped(Erase(c, w))
  <2>1. PICK d : d = Erase(c, w)
    OBVIOUS
  <2>2. \A n \in DOMAIN d : n \in DOMAIN c /\ d[n] = c[n]
    BY <2>1, EraseEffect
  <2> QED
    BY <2>1, <2>2 DEF Shaped
<1> QED
  BY <1>1, <1>2

\* A phi has the operand it takes.
LEMMA TakenOperand ==
    ASSUME NEW c, WellFormed(c), Shaped(c), NEW n \in DOMAIN c, c[n].op = "phi",
           NEW pred \in {1, 2}
    PROVE  /\ Taken(c[n], pred) \in Range(c[n].args)
           /\ \A r : \A v \in Value :
                 Taken(ReplaceAllUsesWith(c, r, v)[n], pred)
                 = IF Taken(c[n], pred) = r THEN v ELSE Taken(c[n], pred)
<1> DEFINE p == IF c[n].attr = "fwd" THEN pred ELSE 3 - pred
<1>1. c[n] \in Instruction /\ c[n].args \in Seq(Value) /\ Len(c[n].args) >= 2
      /\ Len(c[n].args) \in Nat
  BY DEF WellFormed, Instruction, Shaped
<1>2. p \in {1, 2}
  OBVIOUS
<1>3. p \in 1..Len(c[n].args) /\ Taken(c[n], pred) = c[n].args[p]
  BY <1>1, <1>2 DEF Taken
<1>4. Taken(c[n], pred) \in Range(c[n].args)
  BY <1>1, <1>3 DEF Range
<1>5. ASSUME NEW r, NEW v \in Value
      PROVE  Taken(ReplaceAllUsesWith(c, r, v)[n], pred)
             = IF Taken(c[n], pred) = r THEN v ELSE Taken(c[n], pred)
  <2>1. PICK d : d = ReplaceAllUsesWith(c, r, v)
    OBVIOUS
  <2>2. Replaced(c[n].args, d[n].args, r, v)
    BY <2>1, ReplaceEffect
  <2>3. d[n].attr = c[n].attr
    BY <1>1, <2>1 DEF ReplaceAllUsesWith, Instruction
  <2>4. Taken(d[n], pred) = d[n].args[p]
    BY <2>3 DEF Taken
  <2> HIDE DEF p
  <2> QED
    BY <1>3, <2>1, <2>2, <2>4 DEF Replaced
<1> QED
  BY <1>4, <1>5

\* A path stays possible when the uses of a value move to one computed before it.
LEMMA PossibleReplaced ==
    ASSUME NEW c, WellFormed(c), Shaped(c), NEW sdom, StrictOrder(sdom),
           NEW r \in DOMAIN c, NEW v \in Value,
           v \in Inst => Precedes(c, v, r, sdom) /\ v \in DOMAIN c,
           NEW l, NEW path, Possible(path, c, l, sdom)
    PROVE  Possible(path, ReplaceAllUsesWith(c, r, v), l, sdom)
<1> DEFINE x == ReplaceAllUsesWith(c, r, v)
<1>1. SameShape(c, x)
  BY ReplaceEffect
<1>2. Control(path, l) /\ PhisComputed(path, c, l, sdom) /\ r \in Inst /\ r \notin Leaf
  BY InstAssumption DEF Possible, WellFormed
<1>3. ASSUME NEW k \in 1..Len(path), NEW n \in DOMAIN x,
             path[k].entered, x[n].op = "phi", x[n].bb = l[path[k].at].bb
      PROVE  /\ k > 1
             /\ LET o == Taken(x[n], path[k].pred)
                    from == l[path[k - 1].at].bb
                IN  o \in Inst => x[o].bb = from \/ <<x[o].bb, from>> \in sdom
  <2> DEFINE from == l[path[k - 1].at].bb
             a == Taken(c[n], path[k].pred)
             o == Taken(x[n], path[k].pred)
  <2>1. n \in DOMAIN c /\ c[n].op = "phi" /\ c[n].bb = l[path[k].at].bb
    BY <1>1, <1>3 DEF SameShape
  <2>2. k > 1 /\ (a \in Inst => c[a].bb = from \/ <<c[a].bb, from>> \in sdom)
    BY <1>2, <1>3, <2>1 DEF PhisComputed
  <2>3. path[k].pred \in {1, 2}
    <3>1. path \in Seq(PathStep(l))
      BY <1>2 DEF Control
    <3>2. path[k] \in PathStep(l)
      BY <3>1
    <3> QED
      BY <3>2 DEF PathStep
  <2>4. a \in Range(c[n].args) /\ o = IF a = r THEN v ELSE a
    BY <2>1, <2>3, TakenOperand
  <2>5. a \in Inst => a \in DOMAIN c
    BY <2>1, <2>4 DEF WellFormed
  <2> HIDE DEF a, o, from, x
  <2>6. ASSUME o \in Inst PROVE x[o].bb = from \/ <<x[o].bb, from>> \in sdom
    <3>1. CASE a = r
      <4>1. o = v /\ v \in DOMAIN c /\ (c[v].bb = c[r].bb \/ <<c[v].bb, c[r].bb>> \in sdom)
        BY <2>4, <2>6, <3>1 DEF Precedes
      <4>2. x[v].bb = c[v].bb
        BY <1>1, <4>1 DEF SameShape
      <4>3. c[r].bb = from \/ <<c[r].bb, from>> \in sdom
        BY <1>2, <2>2, <3>1
      <4>4. <<c[v].bb, c[r].bb>> \in sdom /\ <<c[r].bb, from>> \in sdom => <<c[v].bb, from>> \in sdom
        BY DEF StrictOrder
      <4> QED
        BY <4>1, <4>2, <4>3, <4>4
    <3>2. CASE a # r
      <4>1. o = a /\ a \in DOMAIN c /\ x[a].bb = c[a].bb
        BY <1>1, <2>4, <2>5, <2>6, <3>2 DEF SameShape
      <4> QED
        BY <2>2, <2>6, <4>1
    <3> QED
      BY <3>1, <3>2
  <2> QED
    BY <2>2, <2>6 DEF o, from
<1> HIDE DEF x
<1>4. PhisComputed(path, x, l, sdom)
  BY <1>3 DEF PhisComputed
<1> QED
  BY <1>4 DEF Possible, x

LEMMA PossibleErased ==
    ASSUME NEW c, WellFormed(c), Shaped(c), NEW w, Unused(c, w),
           NEW sdom, NEW l, NEW path, Possible(path, c, l, sdom)
    PROVE  Possible(path, Erase(c, w), l, sdom)
<1> DEFINE x == Erase(c, w)
<1>1. DOMAIN x = DOMAIN c \ {w} /\ \A n \in DOMAIN x : x[n] = c[n]
  BY EraseEffect
<1>2. Control(path, l) /\ PhisComputed(path, c, l, sdom)
  BY DEF Possible
<1> HIDE DEF x
<1>3. ASSUME NEW k \in 1..Len(path), NEW n \in DOMAIN x,
             path[k].entered, x[n].op = "phi", x[n].bb = l[path[k].at].bb
      PROVE  /\ k > 1
             /\ LET o == Taken(x[n], path[k].pred)
                    from == l[path[k - 1].at].bb
                IN  o \in Inst => x[o].bb = from \/ <<x[o].bb, from>> \in sdom
  <2> DEFINE from == l[path[k - 1].at].bb
             o == Taken(x[n], path[k].pred)
  <2>1. n \in DOMAIN c /\ x[n] = c[n]
    BY <1>1
  <2>2. k > 1 /\ (o \in Inst => c[o].bb = from \/ <<c[o].bb, from>> \in sdom)
    BY <1>2, <1>3, <2>1 DEF PhisComputed
  <2>3. path[k].pred \in {1, 2}
    <3>1. path \in Seq(PathStep(l))
      BY <1>2 DEF Control
    <3>2. path[k] \in PathStep(l)
      BY <3>1
    <3> QED
      BY <3>2 DEF PathStep
  <2>4. o \in Range(c[n].args)
    BY <1>3, <2>1, <2>3, TakenOperand
  <2>5. o \in Inst => o \in DOMAIN c /\ o # w
    BY <2>1, <2>4 DEF WellFormed, Unused, Users
  <2> HIDE DEF o, from
  <2>6. o \in Inst => x[o] = c[o]
    BY <1>1, <2>5
  <2> QED
    BY <2>2, <2>6 DEF o, from
<1>4. PhisComputed(path, x, l, sdom)
  BY <1>3 DEF PhisComputed
<1> QED
  BY <1>4 DEF Possible, x

LEMMA LaidOutBefore ==
    ASSUME NEW c, NEW d, Frame(c, d), NEW l, LaidOutIn(d, l)
    PROVE  LaidOutIn(c, l)
  BY DEF LaidOutIn, Frame

\* One change after another.
LEMMA MeaningOnward ==
    ASSUME NEW sdom, NEW leaves, NEW e, NEW c, NEW d, Frame(c, d),
           SameOnPossiblePaths(sdom, leaves, e, c), SameOnPossiblePaths(sdom, leaves, c, d)
    PROVE  SameOnPossiblePaths(sdom, leaves, e, d)
<1> SUFFICES ASSUME NEW l, NEW path, DOMAIN l \subseteq Nat, LaidOutIn(d, l),
                    Possible(path, d, l, sdom)
             PROVE  /\ Possible(path, e, l, sdom)
                    /\ \A leaf \in leaves, mem \in [Bit -> Bit] :
                          ObserveOn(path, e, leaf, mem) = ObserveOn(path, d, leaf, mem)
  BY DEF SameOnPossiblePaths
<1>1. LaidOutIn(c, l)
  BY LaidOutBefore
<1>2. /\ Possible(path, c, l, sdom)
      /\ \A leaf \in leaves, mem \in [Bit -> Bit] :
            ObserveOn(path, c, leaf, mem) = ObserveOn(path, d, leaf, mem)
  BY DEF SameOnPossiblePaths
<1>3. /\ Possible(path, e, l, sdom)
      /\ \A leaf \in leaves, mem \in [Bit -> Bit] :
            ObserveOn(path, e, leaf, mem) = ObserveOn(path, c, leaf, mem)
  BY <1>1, <1>2 DEF SameOnPossiblePaths
<1> QED
  BY <1>2, <1>3

(* Erasing what is neither used nor observable.                             *)
LEMMA ErasedMeaning ==
    ASSUME NEW c, WellFormed(c), Shaped(c), NEW w \in DOMAIN c, Unused(c, w),
           ~Observable(c[w]), NEW sdom, NEW leaves
    PROVE  SameOnPossiblePaths(sdom, leaves, Erase(c, w), c)
<1> DEFINE x == Erase(c, w)
<1>1. DOMAIN x = DOMAIN c \ {w} /\ \A n \in DOMAIN x : x[n] = c[n]
  BY EraseEffect
<1> HIDE DEF x
<1>2. ASSUME NEW k \in DOMAIN x PROVE OperandInsts(x, k) \subseteq DOMAIN x
  BY <1>1 DEF OperandInsts, WellFormed, Unused, Users
<1>3. ASSUME NEW l, NEW path, Possible(path, c, l, sdom), NEW leaf, NEW mem
      PROVE  ObserveOn(path, x, leaf, mem) = ObserveOn(path, c, leaf, mem)
  <2>1. Len(path) \in Nat
    BY <1>3 DEF Possible, Control
  <2> QED
    BY <1>1, <1>2, <2>1, ErasedRuns DEF OperandInsts
<1>4. \A l, path : Possible(path, c, l, sdom) => Possible(path, x, l, sdom)
  BY PossibleErased DEF x
<1> QED
  BY <1>3, <1>4 DEF SameOnPossiblePaths, x

(* Moving the uses of a repetition to what it repeats.                      *)
LEMMA RepeatedMeaning ==
    ASSUME NEW c, NEW sdom, NEW i, NEW b, Repetition(c, c, sdom, i, b), Shaped(c), NEW leaves
    PROVE  SameOnPossiblePaths(sdom, leaves, ReplaceAllUsesWith(c, b, i), c)
<1>1. /\ WellFormed(c) /\ StrictOrder(sdom) /\ b \in DOMAIN c /\ i \in DOMAIN c /\ i \in Inst
      /\ i \in Value /\ Precedes(c, i, b, sdom)
  BY DEF Repetition, WellFormed, Value, Precedes
<1> SUFFICES ASSUME NEW l, NEW path, DOMAIN l \subseteq Nat, LaidOutIn(c, l),
                    Possible(path, c, l, sdom)
             PROVE  /\ Possible(path, ReplaceAllUsesWith(c, b, i), l, sdom)
                    /\ \A leaf \in leaves, mem \in [Bit -> Bit] :
                          ObserveOn(path, ReplaceAllUsesWith(c, b, i), leaf, mem)
                          = ObserveOn(path, c, leaf, mem)
  BY DEF SameOnPossiblePaths
<1>2. Repetition(c, l, sdom, i, b)
  BY DEF Repetition
<1>3. Control(path, l)
  BY DEF Possible
<1> QED
  BY <1>1, <1>2, <1>3, PossibleReplaced, ReplacedRuns

(* Moving the uses of r to v where r yields what v has.                     *)
LEMMA ForwardedMeaning ==
    ASSUME NEW c, WellFormed(c), Shaped(c), NEW sdom, DefsBeforeUses(c, sdom),
           NEW r, NEW v, Forwardable(c, c, sdom, r, v),
           NEW leaves, leaves \subseteq [Leaf -> Bit],
           \A l, path : DOMAIN l \subseteq Nat /\ LaidOutIn(c, l) /\ Possible(path, c, l, sdom) =>
               \A leaf \in leaves, mem \in [Bit -> Bit] :
                   Yields(path, Run(path, c, leaf, mem), leaf, r, v)
    PROVE  SameOnPossiblePaths(sdom, leaves, ReplaceAllUsesWith(c, r, v), c)
<1>1. /\ StrictOrder(sdom) /\ r \in DOMAIN c /\ v \in Value
      /\ v \in Inst => Precedes(c, v, r, sdom) /\ v \in DOMAIN c
  BY DEF Forwardable
<1> SUFFICES ASSUME NEW l, NEW path, DOMAIN l \subseteq Nat, LaidOutIn(c, l),
                    Possible(path, c, l, sdom)
             PROVE  /\ Possible(path, ReplaceAllUsesWith(c, r, v), l, sdom)
                    /\ \A leaf \in leaves, mem \in [Bit -> Bit] :
                          ObserveOn(path, ReplaceAllUsesWith(c, r, v), leaf, mem)
                          = ObserveOn(path, c, leaf, mem)
  BY DEF SameOnPossiblePaths
<1>2. Forwardable(c, l, sdom, r, v)
  BY DEF Forwardable
<1>3. Possible(path, ReplaceAllUsesWith(c, r, v), l, sdom)
  BY <1>1, PossibleReplaced
<1>4. ASSUME NEW leaf \in leaves, NEW mem \in [Bit -> Bit]
      PROVE  ObserveOn(path, ReplaceAllUsesWith(c, r, v), leaf, mem)
             = ObserveOn(path, c, leaf, mem)
  <2>1. Yields(path, Run(path, c, leaf, mem), leaf, r, v) /\ leaf \in [Leaf -> Bit]
    OBVIOUS
  <2> QED
    BY <1>2, <2>1, ForwardedRuns
<1> QED
  BY <1>3, <1>4

-----------------------------------------------------------------------------
\* The value an instruction yields when control comes to it.
LEMMA ValueAt ==
    ASSUME NEW c, NEW path, NEW leaf, NEW mem, NEW q, IsRun(q, path, c, leaf, mem),
           NEW k \in 1..Len(path), DOMAIN q[k - 1].val = Inst,
           NEW r \in DOMAIN c \cap Inst, path[k].at = r, YieldsValue(c[r]),
           NEW a, a = Operands(c[r], Readable(Entered(q[k - 1], path[k]), c[r]), leaf)
    PROVE  /\ q[k].val[r] = Result(c[r], a, q[k - 1].mem, path[k].pred)
           /\ \A n \in Inst : n # r => q[k].val[n] = q[k - 1].val[n]
<1>1. q[k] = Execute(Entered(q[k - 1], path[k]), c[r], r, leaf, path[k].pred)
  BY DEF IsRun, Step
<1>2. Entered(q[k - 1], path[k]).val = q[k - 1].val /\ Entered(q[k - 1], path[k]).mem = q[k - 1].mem
  BY DEF Entered
<1> QED
  BY <1>1, <1>2 DEF Execute

\* n has the value it had, if it has not been executed since.
Kept(path, q, n) ==
    \A g, k \in 0..Len(path) :
        g <= k /\ (\A h \in (g + 1)..k : path[h].at # n) => q[k].val[n] = q[g].val[n]

\* A value stays until its instruction is executed again.
LEMMA KeptValue ==
    ASSUME NEW c, NEW path, Len(path) \in Nat, NEW leaf, NEW mem,
           NEW q, IsRun(q, path, c, leaf, mem), NEW n \in Inst,
           \A k \in 0..Len(path) : DOMAIN q[k].val = Inst
    PROVE  Kept(path, q, n)
<1> SUFFICES ASSUME NEW g \in 0..Len(path)
             PROVE  \A k \in 0..Len(path) :
                       g <= k /\ (\A h \in (g + 1)..k : path[h].at # n)
                       => q[k].val[n] = q[g].val[n]
  BY DEF Kept
<1> DEFINE P(k) == g <= k /\ (\A h \in (g + 1)..k : path[h].at # n)
                   => q[k].val[n] = q[g].val[n]
           S == {k \in 0..Len(path) : P(k)}
<1>1. ASSUME NEW k \in 0..Len(path), \A h \in 0..(k - 1) : P(h),
             g <= k, \A h \in (g + 1)..k : path[h].at # n
      PROVE  q[k].val[n] = q[g].val[n]
  <2>1. CASE k = g
    BY <2>1
  <2>2. CASE k # g
    <3>1. k \in 1..Len(path) /\ k - 1 \in 0..(k - 1) /\ g <= k - 1 /\ k \in (g + 1)..k
          /\ k - 1 \in 0..Len(path)
      BY <1>1, <2>2
    <3>2. \A h \in (g + 1)..(k - 1) : path[h].at # n
      BY <1>1, <3>1
    <3>3. q[k - 1].val[n] = q[g].val[n]
      BY <1>1, <3>1, <3>2
    <3>4. q[k] = Step(c, q[k - 1], path[k], leaf) /\ path[k].at # n
      BY <1>1, <3>1 DEF IsRun
    <3>5. q[k].val[n] = q[k - 1].val[n]
      BY <3>1, <3>4 DEF Step, Execute, Entered
    <3> QED
      BY <3>3, <3>5
  <2> QED
    BY <2>1, <2>2
<1>2. \A k \in 0..Len(path) : k \in S
  <2>1. \A k \in 0..Len(path) : (\A h \in 0..(k - 1) : h \in S) => k \in S
    BY <1>1
  <2> HIDE DEF S
  <2> QED
    BY <2>1, AlongPath
<1> QED
  BY <1>2

\* x + 0, 0 + x: the other operand.
LEMMA SumYields ==
    ASSUME NEW c, WellFormed(c), Shaped(c), NEW path, Len(path) \in Nat,
           NEW leaf, NEW mem, NEW q, IsRun(q, path, c, leaf, mem),
           \A k \in 0..Len(path) : BitState(q[k]),
           NEW r \in DOMAIN c, c[r].op = "add", leaf \in [Leaf -> Bit],
           NEW v \in Value, v # r, NEW z \in Leaf, leaf[z] = 0,
           \/ c[r].args[1] = v /\ c[r].args[2] = z
           \/ c[r].args[2] = v /\ c[r].args[1] = z
    PROVE  Yields(path, q, leaf, r, v)
<1> SUFFICES ASSUME NEW k \in 1..Len(path), path[k].at = r
             PROVE  Agrees(q[k].val, leaf, r, v)
  BY DEF Yields
<1> DEFINE a == Operands(c[r], Readable(Entered(q[k - 1], path[k]), c[r]), leaf)
           old == q[k - 1].val
           x == IF v \in Leaf THEN leaf[v] ELSE old[v]
<1>1. /\ c[r] \in Instruction /\ c[r].args \in Seq(Value) /\ r \in Inst
      /\ Len(c[r].args) >= 2 /\ Len(c[r].args) \in Nat
  BY DEF WellFormed, Instruction, Shaped
<1>2. k - 1 \in 0..Len(path) /\ old \in [Inst -> Bit]
  BY DEF BitState
<1>3. Readable(Entered(q[k - 1], path[k]), c[r]) = old
  BY DEF Readable, Entered
<1>4. a[1] = (IF c[r].args[1] \in Leaf THEN leaf[c[r].args[1]] ELSE old[c[r].args[1]])
      /\ a[2] = (IF c[r].args[2] \in Leaf THEN leaf[c[r].args[2]] ELSE old[c[r].args[2]])
  BY <1>1, <1>3 DEF Operands
<1>5. x \in Bit
  BY <1>2 DEF Value
<1>6. (a[1] = x /\ a[2] = 0) \/ (a[1] = 0 /\ a[2] = x)
  BY <1>4
<1>7. /\ q[k].val[r] = Result(c[r], a, q[k - 1].mem, path[k].pred)
      /\ \A n \in Inst : n # r => q[k].val[n] = old[n]
  <2>1. YieldsValue(c[r]) /\ DOMAIN q[k - 1].val = Inst /\ r \in DOMAIN c \cap Inst
    BY <1>1, <1>2 DEF YieldsValue
  <2> QED
    BY <2>1, ValueAt
<1> HIDE DEF a, x
<1>8. Result(c[r], a, q[k - 1].mem, path[k].pred) = (a[1] + a[2]) % 2
  BY DEF Result
<1>9. (a[1] + a[2]) % 2 = x
  BY <1>5, <1>6 DEF Bit
<1>10. v \notin Leaf => q[k].val[v] = old[v]
  BY <1>7 DEF Value
<1> QED
  BY <1>7, <1>8, <1>9, <1>10 DEF Agrees, x

\* A strict comparison of a value with itself: false.
LEMMA SameYields ==
    ASSUME NEW c, WellFormed(c), Shaped(c), NEW path, Len(path) \in Nat,
           NEW leaf, NEW mem, NEW q, IsRun(q, path, c, leaf, mem),
           \A k \in 0..Len(path) : BitState(q[k]),
           NEW r \in DOMAIN c, c[r].op = "icmp", c[r].args[1] = c[r].args[2],
           leaf \in [Leaf -> Bit], NEW z \in Leaf, leaf[z] = 0
    PROVE  Yields(path, q, leaf, r, z)
<1> SUFFICES ASSUME NEW k \in 1..Len(path), path[k].at = r
             PROVE  Agrees(q[k].val, leaf, r, z)
  BY DEF Yields
<1> DEFINE old == Readable(Entered(q[k - 1], path[k]), c[r])
           a == Operands(c[r], old, leaf)
<1>1. /\ c[r] \in Instruction /\ c[r].args \in Seq(Value) /\ r \in Inst
      /\ Len(c[r].args) >= 2 /\ Len(c[r].args) \in Nat
  BY DEF WellFormed, Instruction, Shaped
<1>2. k - 1 \in 0..Len(path) /\ q[k - 1].val \in [Inst -> Bit]
  BY DEF BitState
<1>3. old \in [Inst -> Bit]
  BY <1>2 DEF Readable, Entered
<1>4. c[r].args[1] \in Value
  BY <1>1
<1> HIDE DEF old
<1>5. a[1] = a[2] /\ a[1] \in Bit
  BY <1>1, <1>3, <1>4 DEF Operands, Value
<1>6. q[k].val[r] = Result(c[r], a, q[k - 1].mem, path[k].pred)
  <2>1. YieldsValue(c[r]) /\ DOMAIN q[k - 1].val = Inst /\ r \in DOMAIN c \cap Inst
    BY <1>1, <1>2 DEF YieldsValue
  <2> QED
    BY <2>1, ValueAt DEF old
<1> HIDE DEF a
<1>7. Result(c[r], a, q[k - 1].mem, path[k].pred) = 0
  <2>1. ~(a[1] < a[2]) /\ ~(a[1] > a[2])
    BY <1>5 DEF Bit
  <2> QED
    BY <2>1 DEF Result
<1> QED
  BY <1>6, <1>7 DEF Agrees

-----------------------------------------------------------------------------
\* A phi of one value, itself apart: that value.
LEMMA PhiYields ==
    ASSUME NEW c, WellFormed(c), Shaped(c), NEW sdom, NEW l,
           NEW r, NEW v, Forwardable(c, l, sdom, r, v),
           NEW path, Possible(path, c, l, sdom), NEW leaf \in [Leaf -> Bit],
           NEW mem, NEW q, IsRun(q, path, c, leaf, mem),
           \A k \in 0..Len(path) : DOMAIN q[k].val = Inst,
           c[r].op = "phi", Range(c[r].args) \subseteq {r, v},
           v \in Inst => <<c[v].bb, c[r].bb>> \in sdom
    PROVE  Yields(path, q, leaf, r, v)
<1> SUFFICES ASSUME NEW k \in 1..Len(path), path[k].at = r,
                    \A h \in 0..(k - 1) : Recent(path, h, r, v) => Agrees(q[h].val, leaf, r, v)
             PROVE  Agrees(q[k].val, leaf, r, v)
  BY DEF Yields
<1>1. /\ r \in DOMAIN c /\ r \in Inst /\ r \notin Leaf /\ Len(path) \in Nat
      /\ Control(path, l) /\ DOMAIN l \subseteq Nat /\ l[r].bb = c[r].bb
      /\ path[k].pred \in {1, 2} /\ v \in Value /\ v # r
  BY InstAssumption, ControlStep DEF Forwardable, LaidOutIn, Possible
<1>2. PICK m \in 1..k :
         /\ path[m].entered /\ path[m].pred = path[k].pred
         /\ \A h \in m..k : l[path[h].at].bb = l[path[k].at].bb
         /\ Entered(q[k - 1], path[k]).entry = q[m - 1].val
  <2>1. \E m \in 1..k : EntryStep(path, l, q, k, m)
    BY <1>1, EntryOf
  <2> QED
    BY <2>1 DEF EntryStep
<1> DEFINE o == Taken(c[r], path[k].pred)
           a == Operands(c[r], q[m - 1].val, leaf)
           p == IF c[r].attr = "fwd" THEN path[k].pred ELSE 3 - path[k].pred
           was == IF v \in Leaf THEN leaf[v] ELSE q[m - 1].val[v]
<1>3. c[r] \in Instruction /\ c[r].args \in Seq(Value) /\ Len(c[r].args) >= 2
      /\ Len(c[r].args) \in Nat
  BY <1>1 DEF WellFormed, Instruction, Shaped
<1>4. p \in 1..Len(c[r].args) /\ o = c[r].args[p] /\ o \in Range(c[r].args)
  <2>1. p \in {1, 2}
    BY <1>1
  <2>2. p \in 1..Len(c[r].args)
    BY <1>3, <2>1
  <2>3. o = c[r].args[p]
    BY DEF Taken
  <2> QED
    BY <1>3, <2>2, <2>3 DEF Range
<1>5. a[p] = IF o \in Leaf THEN leaf[o] ELSE q[m - 1].val[o]
  <2>1. \A n \in 1..Len(c[r].args) :
           a[n] = IF c[r].args[n] \in Leaf THEN leaf[c[r].args[n]]
                  ELSE q[m - 1].val[c[r].args[n]]
    BY <1>3 DEF Operands
  <2> HIDE DEF a, o, p
  <2> QED
    BY <1>4, <2>1
<1>6. m - 1 \in 0..(k - 1) /\ m - 1 \in 0..Len(path) /\ m - 1 <= k /\ k \in m..k
      /\ m \in 1..Len(path) /\ m \in m..k
  OBVIOUS
<1>7. a[p] = was
  <2>1. CASE o = v
    BY <1>5, <2>1
  <2>2. CASE o = r
    <3>1. l[path[m].at].bb = c[r].bb
      BY <1>1, <1>2, <1>6
    <3>2. Taken(c[r], path[m].pred) = r
      BY <1>2, <2>2
    <3>3. Recent(path, m - 1, r, v)
      BY <1>1, <1>2, <1>6, <3>1, <3>2, RecentAtPhi
    <3>4. Agrees(q[m - 1].val, leaf, r, v)
      BY <1>6, <3>3
    <3> QED
      BY <1>1, <1>5, <2>2, <3>4 DEF Agrees
  <2> QED
    BY <1>4, <2>1, <2>2
<1>8. /\ q[k].val[r] = a[p]
      /\ \A n \in Inst : n # r => q[k].val[n] = q[k - 1].val[n]
  <2>1. YieldsValue(c[r]) /\ DOMAIN q[k - 1].val = Inst /\ r \in DOMAIN c \cap Inst
    BY <1>1 DEF YieldsValue
  <2>2. Readable(Entered(q[k - 1], path[k]), c[r]) = q[m - 1].val
    BY <1>2 DEF Readable
  <2>3. a = Operands(c[r], Readable(Entered(q[k - 1], path[k]), c[r]), leaf)
    BY <2>2
  <2>4. /\ q[k].val[r] = Result(c[r], a, q[k - 1].mem, path[k].pred)
        /\ \A n \in Inst : n # r => q[k].val[n] = q[k - 1].val[n]
    BY <2>1, <2>3, ValueAt
  <2> HIDE DEF a, p
  <2>5. Result(c[r], a, q[k - 1].mem, path[k].pred) = a[p]
    BY DEF Result, p
  <2> QED
    BY <2>4, <2>5
<1>9. v \notin Leaf => q[k].val[v] = q[m - 1].val[v]
  <2> SUFFICES ASSUME v \in Inst PROVE q[k].val[v] = q[m - 1].val[v]
    BY <1>1 DEF Value
  <2>1. v \in DOMAIN c /\ l[v].bb = c[v].bb /\ c[v].bb # c[r].bb
    BY DEF Forwardable, LaidOutIn, StrictOrder
  <2>2. PICK g \in 0..Len(path) : g = m - 1
    BY <1>6
  <2>3. \A h \in (g + 1)..k : path[h].at # v
    <3>1. \A h \in m..k : l[path[h].at].bb = c[r].bb
      BY <1>1, <1>2
    <3> QED
      BY <2>1, <2>2, <3>1
  <2>4. k \in 0..Len(path) /\ g <= k
    BY <1>1, <2>2
  <2>5. Kept(path, q, v)
    BY <1>1, KeptValue
  <2> QED
    BY <2>2, <2>3, <2>4, <2>5 DEF Kept
<1> HIDE DEF a, p
<1> QED
  BY <1>7, <1>8, <1>9 DEF Agrees

-----------------------------------------------------------------------------
\* The value v has in a state.
Worth(val, leaf, v) == IF v \in Leaf THEN leaf[v] ELSE val[v]

\* Store i, and an instruction r behind it in its block, laid out in l.
Behind(c, l, sdom, i, r) ==
    /\ WellFormed(c) /\ Shaped(c) /\ DefsBeforeUses(c, sdom) /\ StrictOrder(sdom)
    /\ DOMAIN l \subseteq Nat /\ LaidOutIn(c, l)
    /\ i \in DOMAIN c /\ r \in DOMAIN c /\ i < r /\ c[i].bb = c[r].bb
    /\ c[i].op = "store"

\* Control has come to i and not yet to r.
Since(l, i, r, e) == l[e.at].bb = l[i].bb /\ i <= e.at /\ e.at < r

\* Where it was before, and where it goes.
LEMMA SinceStep ==
    ASSUME NEW c, NEW l, NEW sdom, NEW i, NEW r, Behind(c, l, sdom, i, r),
           NEW path, Control(path, l), NEW k \in 1..Len(path)
    PROVE  /\ l[path[k].at].bb = l[i].bb /\ i < path[k].at /\ path[k].at <= r
              => k > 1 /\ ~path[k].entered /\ Since(l, i, r, path[k - 1])
           /\ k > 1 /\ Since(l, i, r, path[k - 1])
              => /\ l[path[k].at].bb = l[i].bb /\ i < path[k].at /\ path[k].at <= r
                 /\ ~path[k].entered
<1>1. /\ i \in DOMAIN l /\ r \in DOMAIN l /\ i \in Nat /\ r \in Nat /\ i < r
      /\ l[i].bb = l[r].bb /\ Len(path) \in Nat /\ DOMAIN l \subseteq Nat
  BY ControlStep DEF Behind, LaidOutIn
<1>2. path[k].at \in DOMAIN l /\ path[k].at \in Nat
      /\ (k > 1 => path[k - 1].at \in DOMAIN l /\ path[k - 1].at \in Nat)
  <2>1. k > 1 => k - 1 \in 1..Len(path)
    OBVIOUS
  <2> QED
    BY <1>1, <2>1, ControlStep
<1>3. path[k].entered =>
         /\ \A n \in DOMAIN l : l[n].bb = l[path[k].at].bb => path[k].at <= n
         /\ k > 1 => \A n \in DOMAIN l : l[n].bb = l[path[k - 1].at].bb => n <= path[k - 1].at
  BY <1>1, ControlStep
<1>4. ~path[k].entered =>
         /\ k > 1 /\ l[path[k].at].bb = l[path[k - 1].at].bb
         /\ path[k - 1].at < path[k].at
         /\ \A n \in DOMAIN l : l[n].bb = l[path[k].at].bb =>
               n <= path[k - 1].at \/ path[k].at <= n
  BY <1>1, ControlStep
<1>5. ASSUME l[path[k].at].bb = l[i].bb, i < path[k].at, path[k].at <= r
      PROVE  k > 1 /\ ~path[k].entered /\ Since(l, i, r, path[k - 1])
  <2>1. ~path[k].entered
    BY <1>1, <1>2, <1>3, <1>5
  <2> QED
    BY <1>1, <1>2, <1>4, <1>5, <2>1 DEF Since
<1>6. ASSUME k > 1, Since(l, i, r, path[k - 1])
      PROVE  /\ l[path[k].at].bb = l[i].bb /\ i < path[k].at /\ path[k].at <= r
             /\ ~path[k].entered
  <2>1. ~path[k].entered
    BY <1>1, <1>2, <1>3, <1>6 DEF Since
  <2> QED
    BY <1>1, <1>2, <1>4, <1>6, <2>1 DEF Since
<1> QED
  BY <1>5, <1>6

\* The store and what comes after it are none of its operands.
LEMMA OperandsAhead ==
    ASSUME NEW c, NEW l, NEW sdom, NEW i, NEW r, Behind(c, l, sdom, i, r),
           NEW n \in Nat, l[n].bb = l[i].bb, i <= n, NEW x \in Range(c[i].args)
    PROVE  x # n \/ x \in Leaf
<1> SUFFICES ASSUME x = n, x \notin Leaf PROVE FALSE
  OBVIOUS
<1>1. c[i] \in Instruction /\ c[i].args \in Seq(Value) /\ i \in Nat /\ i \in DOMAIN c
      /\ DOMAIN c \subseteq DOMAIN l /\ c[i].op # "phi"
  BY DEF Behind, WellFormed, Instruction, LaidOutIn
<1>2. x \in Inst
  BY <1>1 DEF Value, Range
<1>3. x \in DOMAIN c /\ Precedes(c, x, i, sdom)
  BY <1>1, <1>2 DEF Behind, WellFormed, DefsBeforeUses, OperandInsts
<1>4. c[x].bb = l[x].bb /\ c[i].bb = l[i].bb
  BY <1>1, <1>3 DEF Behind, LaidOutIn
<1> QED
  BY <1>1, <1>3, <1>4 DEF Behind, Precedes, StrictOrder

\* An instruction that does not write memory: what it leaves of it and of the values.
LEMMA SilentStep ==
    ASSUME NEW c, NEW s, NEW e, NEW leaf, DOMAIN s.val = Inst,
           e.at \in DOMAIN c => c[e.at].op \notin {"store", "call"},
           NEW t, t = Step(c, s, e, leaf)
    PROVE  /\ t.mem = s.mem
           /\ \A x \in Value : x # e.at \/ x \in Leaf => Worth(t.val, leaf, x) = Worth(s.val, leaf, x)
<1>1. t.mem = s.mem
  BY DEF Step, Execute, Entered, MemoryAfter
<1>2. \A x \in Inst : x # e.at => t.val[x] = s.val[x]
  BY DEF Step, Execute, Entered
<1> QED
  BY <1>1, <1>2 DEF Worth, Value

\* The store I takes a run from state s to t.
Writes(I, s, t, leaf) ==
    LET v == Worth(s.val, leaf, I.args[1])
        x == Worth(s.val, leaf, I.args[2])
    IN  /\ t.val = s.val /\ x \in Bit /\ v \in Bit
        /\ t.mem = [s.mem EXCEPT ![x] = v]
        /\ ~I.vol => t.events = s.events

LEMMA StoringStep ==
    ASSUME NEW c, WellFormed(c), Shaped(c), NEW leaf \in [Leaf -> Bit],
           NEW s, BitState(s), NEW e, e.at \in DOMAIN c, c[e.at].op = "store",
           NEW t, t = Step(c, s, e, leaf)
    PROVE  Writes(c[e.at], s, t, leaf) /\ t.entry = Entered(s, e).entry
<1> DEFINE I == c[e.at]
           v == Worth(s.val, leaf, I.args[1])
           x == Worth(s.val, leaf, I.args[2])
           a == Operands(I, Readable(Entered(s, e), I), leaf)
<1>1. /\ I \in Instruction /\ I.args \in Seq(Value) /\ Len(I.args) >= 2
      /\ Len(I.args) \in Nat
  BY DEF WellFormed, Instruction, Shaped
<1>2. Readable(Entered(s, e), I) = s.val /\ s.val \in [Inst -> Bit]
  BY DEF Readable, Entered, BitState
<1>3. a[1] = v /\ a[2] = x
  BY <1>1, <1>2 DEF Operands, Worth
<1>4. v \in Bit /\ x \in Bit
  <2>1. I.args[1] \in Value /\ I.args[2] \in Value
    BY <1>1
  <2> QED
    BY <1>2, <2>1 DEF Worth, Value
<1>5. t = Execute(Entered(s, e), I, e.at, leaf, e.pred)
  BY DEF Step
<1> HIDE DEF a, v, x, I
<1>6. t.val = s.val /\ t.entry = Entered(s, e).entry
  BY <1>5 DEF Execute, YieldsValue, Entered, I
<1>7. t.mem = [s.mem EXCEPT ![a[2]] = a[1]]
  BY <1>5 DEF Execute, MemoryAfter, Entered, I, a
<1>8. ~I.vol => t.events = s.events
  BY <1>5 DEF Execute, EventsAfter, Entered, I, a
<1> QED
  BY <1>3, <1>4, <1>6, <1>7, <1>8 DEF v, x, I, Writes

-----------------------------------------------------------------------------
\* Since the store memory holds, at its address, what it stored.
LEMMA StoredSince ==
    ASSUME NEW c, NEW l, NEW sdom, NEW i, NEW r, Behind(c, l, sdom, i, r),
           \A n \in DOMAIN c : c[n].bb = c[i].bb /\ i < n /\ n < r => c[n].op \notin {"store", "call"},
           NEW path, Control(path, l), NEW leaf \in [Leaf -> Bit],
           NEW mem, NEW q, IsRun(q, path, c, leaf, mem),
           \A k \in 0..Len(path) : BitState(q[k])
    PROVE  \A k \in 1..Len(path) : Since(l, i, r, path[k]) =>
              q[k].mem[Worth(q[k].val, leaf, c[i].args[2])] = Worth(q[k].val, leaf, c[i].args[1])
<1> DEFINE y == c[i].args[2]
           v == c[i].args[1]
           P(k) == k > 0 /\ Since(l, i, r, path[k]) =>
                     q[k].mem[Worth(q[k].val, leaf, y)] = Worth(q[k].val, leaf, v)
           S == {k \in 0..Len(path) : P(k)}
<1>1. /\ Len(path) \in Nat /\ i \in DOMAIN c /\ i \in Nat /\ r \in Nat /\ WellFormed(c) /\ Shaped(c)
      /\ DOMAIN l \subseteq Nat /\ c[i].op = "store" /\ LaidOutIn(c, l) /\ l[i].bb = c[i].bb
  BY ControlStep DEF Behind, LaidOutIn
<1>2. y \in Value /\ v \in Value /\ y \in Range(c[i].args) /\ v \in Range(c[i].args)
  <2>1. c[i].args \in Seq(Value) /\ Len(c[i].args) >= 2 /\ Len(c[i].args) \in Nat
    BY <1>1 DEF WellFormed, Instruction, Shaped
  <2> QED
    BY <2>1 DEF Range
<1> HIDE DEF y, v
<1>3. \A k \in 1..Len(path) :
         l[path[k].at].bb = l[i].bb /\ i < path[k].at /\ path[k].at <= r
         => k > 1 /\ Since(l, i, r, path[k - 1])
  BY SinceStep
<1>4. ASSUME NEW k \in 0..Len(path), \A h \in 0..(k - 1) : P(h), k > 0,
             Since(l, i, r, path[k])
      PROVE  q[k].mem[Worth(q[k].val, leaf, y)] = Worth(q[k].val, leaf, v)
  <2>1. /\ k \in 1..Len(path) /\ k - 1 \in 0..(k - 1) /\ k - 1 \in 0..Len(path)
        /\ q[k] = Step(c, q[k - 1], path[k], leaf) /\ BitState(q[k - 1])
    BY <1>1, <1>4 DEF IsRun
  <2>2. path[k].at \in DOMAIN l /\ path[k].at \in Nat
        /\ l[path[k].at].bb = l[i].bb /\ i <= path[k].at /\ path[k].at < r
    BY <1>1, <1>4, <2>1, ControlStep DEF Since
  <2>3. CASE path[k].at = i
    <3>1. Writes(c[i], q[k - 1], q[k], leaf)
      BY <1>1, <2>1, <2>3, StoringStep
    <3>2. q[k - 1].mem \in [Bit -> Bit]
      BY <2>1 DEF BitState
    <3> QED
      BY <3>1, <3>2 DEF Writes, y, v
  <2>4. CASE path[k].at # i
    <3>1. k > 1 /\ Since(l, i, r, path[k - 1])
      <4>1. i < path[k].at /\ path[k].at <= r
        BY <1>1, <2>2, <2>4
      <4> QED
        BY <1>3, <2>1, <2>2, <4>1
    <3>2. q[k - 1].mem[Worth(q[k - 1].val, leaf, y)] = Worth(q[k - 1].val, leaf, v)
      BY <1>4, <2>1, <3>1
    <3>3. path[k].at \in DOMAIN c => c[path[k].at].op \notin {"store", "call"}
      BY <1>1, <2>2, <2>4 DEF LaidOutIn
    <3>4. (y # path[k].at \/ y \in Leaf) /\ (v # path[k].at \/ v \in Leaf)
      BY <1>2, <2>2, OperandsAhead
    <3>5. /\ q[k].mem = q[k - 1].mem
          /\ Worth(q[k].val, leaf, y) = Worth(q[k - 1].val, leaf, y)
          /\ Worth(q[k].val, leaf, v) = Worth(q[k - 1].val, leaf, v)
      BY <1>2, <2>1, <3>3, <3>4, SilentStep DEF BitState
    <3> QED
      BY <3>2, <3>5
  <2> QED
    BY <2>3, <2>4
<1>5. \A k \in 0..Len(path) : k \in S
  <2>1. \A k \in 0..Len(path) : (\A h \in 0..(k - 1) : h \in S) => k \in S
    BY <1>4
  <2> HIDE DEF S
  <2> QED
    BY <1>1, <2>1, AlongPath
<1> QED
  BY <1>5 DEF y, v

\* What a load yields that a store reaches.
LEMMA LoadYields ==
    ASSUME NEW c, NEW l, NEW sdom, NEW i, NEW r, Behind(c, l, sdom, i, r),
           \A n \in DOMAIN c : c[n].bb = c[i].bb /\ i < n /\ n < r => c[n].op \notin {"store", "call"},
           c[r].op = "load", c[r].args[1] = c[i].args[2],
           NEW path, Control(path, l), NEW leaf \in [Leaf -> Bit],
           NEW mem, NEW q, IsRun(q, path, c, leaf, mem),
           \A k \in 0..Len(path) : BitState(q[k])
    PROVE  Yields(path, q, leaf, r, c[i].args[1])
<1> SUFFICES ASSUME NEW k \in 1..Len(path), path[k].at = r
             PROVE  Agrees(q[k].val, leaf, r, c[i].args[1])
  BY DEF Yields
<1> DEFINE y == c[i].args[2]
           v == c[i].args[1]
           old == q[k - 1].val
           a == Operands(c[r], Readable(Entered(q[k - 1], path[k]), c[r]), leaf)
<1>1. /\ Len(path) \in Nat /\ i \in DOMAIN c /\ i \in Nat /\ r \in Nat /\ WellFormed(c) /\ Shaped(c)
      /\ r \in DOMAIN c /\ r \in Inst /\ l[r].bb = l[i].bb /\ i < r /\ c[i].op = "store"
  BY ControlStep DEF Behind, LaidOutIn, WellFormed
<1>2. k > 1 /\ Since(l, i, r, path[k - 1]) /\ k - 1 \in 1..Len(path)
  BY <1>1, SinceStep
<1>3. q[k - 1].mem[Worth(old, leaf, y)] = Worth(old, leaf, v)
  BY <1>2, StoredSince
<1>4. old \in [Inst -> Bit]
  BY <1>2 DEF BitState
<1>5. c[r] \in Instruction /\ c[r].args \in Seq(Value) /\ Len(c[r].args) >= 1
      /\ Len(c[r].args) \in Nat
  BY <1>1 DEF WellFormed, Instruction, Shaped
<1>6. a[1] = Worth(old, leaf, y)
  <2>1. Readable(Entered(q[k - 1], path[k]), c[r]) = old
    BY DEF Readable, Entered
  <2> QED
    BY <1>5, <2>1 DEF Operands, Worth
<1>7. /\ q[k].val[r] = Result(c[r], a, q[k - 1].mem, path[k].pred)
      /\ \A n \in Inst : n # r => q[k].val[n] = old[n]
  <2>1. YieldsValue(c[r]) /\ DOMAIN q[k - 1].val = Inst /\ r \in DOMAIN c \cap Inst
    BY <1>1, <1>4 DEF YieldsValue
  <2> QED
    BY <2>1, ValueAt
<1> HIDE DEF a
<1>8. Result(c[r], a, q[k - 1].mem, path[k].pred) = q[k - 1].mem[a[1]]
  BY DEF Result
<1>9. v \in Value /\ v \in Range(c[i].args)
  <2>1. c[i].args \in Seq(Value) /\ Len(c[i].args) >= 2 /\ Len(c[i].args) \in Nat
    BY <1>1 DEF WellFormed, Instruction, Shaped
  <2> QED
    BY <2>1 DEF Range
<1>10. v # r
  BY <1>1, <1>9, OperandsAhead, InstAssumption
<1>11. v \notin Leaf => q[k].val[v] = old[v]
  BY <1>7, <1>9, <1>10 DEF Value
<1> QED
  BY <1>3, <1>6, <1>7, <1>8, <1>11 DEF Agrees, Worth

-----------------------------------------------------------------------------
\* A store w that o overwrites, with nothing between that could tell.
Overwritten(c, l, sdom, w, o) ==
    /\ Behind(c, l, sdom, w, o)
    /\ c[o].op = "store" /\ c[o].args[2] = c[w].args[2]
    /\ ~c[w].vol /\ ~c[o].vol
    /\ \A n \in DOMAIN c : c[n].bb = c[w].bb /\ w < n /\ n < o =>
          ~Observable(c[n]) /\ c[n].op # "load"

\* Two states with the same values and events and, in a window apart, the same
\* memory; there the contents of address x may differ.
Differing(s, t, in, x) ==
    /\ s.val = t.val /\ s.entry = t.entry /\ s.events = t.events
    /\ \A b \in Bit : s.mem[b] = t.mem[b] \/ (in /\ b = x)

LEMMA EqualSteps ==
    ASSUME NEW c, NEW d, NEW s, NEW t, s.val = t.val, s.entry = t.entry,
           s.mem = t.mem, s.events = t.events, NEW e, NEW leaf,
           e.at \in DOMAIN c => e.at \in DOMAIN d /\ d[e.at] = c[e.at],
           e.at \notin DOMAIN c => e.at \notin DOMAIN d
    PROVE  Step(d, s, e, leaf) = Step(c, t, e, leaf)
<1>1. Entered(s, e) = Entered(t, e)
  BY DEF Entered
<1> QED
  BY <1>1 DEF Step

\* In the window.
LEMMA UntoldStep ==
    ASSUME NEW c, NEW d, NEW s, NEW t, DOMAIN t.val = Inst, NEW x, Differing(s, t, TRUE, x),
           NEW e, ~e.entered, NEW leaf,
           e.at \in DOMAIN c => e.at \in DOMAIN d /\ d[e.at] = c[e.at]
                                /\ ~Observable(c[e.at]) /\ c[e.at].op # "load",
           e.at \notin DOMAIN c => e.at \notin DOMAIN d
    PROVE  Differing(Step(d, s, e, leaf), Step(c, t, e, leaf), TRUE, x)
<1>1. /\ Entered(s, e).val = s.val /\ Entered(s, e).entry = s.entry
      /\ Entered(s, e).mem = s.mem /\ Entered(s, e).events = s.events
      /\ Entered(t, e).val = t.val /\ Entered(t, e).entry = t.entry
      /\ Entered(t, e).mem = t.mem /\ Entered(t, e).events = t.events
  BY DEF Entered
<1>2. CASE e.at \notin DOMAIN c
  BY <1>1, <1>2 DEF Step, Differing
<1>3. CASE e.at \in DOMAIN c
  <2> DEFINE I == c[e.at]
             a == Operands(I, Readable(Entered(t, e), I), leaf)
             b == Operands(I, Readable(Entered(s, e), I), leaf)
  <2>1. a = b
    BY <1>1 DEF Readable, Differing
  <2>2. /\ Step(d, s, e, leaf) = Execute(Entered(s, e), I, e.at, leaf, e.pred)
        /\ Step(c, t, e, leaf) = Execute(Entered(t, e), I, e.at, leaf, e.pred)
        /\ ~Observable(I) /\ I.op # "load"
    BY <1>3 DEF Step
  <2> HIDE DEF I, a, b
  <2>3. ASSUME NEW m, NEW h
        PROVE  MemoryAfter(I, a, m) = m /\ EventsAfter(I, a, m, h) = h
    BY <2>2 DEF MemoryAfter, EventsAfter, Observable
  <2>4. Result(I, a, s.mem, e.pred) = Result(I, a, t.mem, e.pred)
    BY <2>2, ResultOf DEF IsLoad
  <2> QED
    BY <1>1, <2>1, <2>2, <2>3, <2>4 DEF Execute, Differing, a, b
<1> QED
  BY <1>2, <1>3

(* Erasing a store that another overwrites before anything can tell does    *)
(* not change what is seen by the end of the block.                         *)
LEMMA ErasedStoreRuns ==
    ASSUME NEW c, NEW l, NEW sdom, NEW w, NEW o, Overwritten(c, l, sdom, w, o),
           NEW path, Possible(path, c, l, sdom), NEW leaf \in [Leaf -> Bit],
           NEW mem \in [Bit -> Bit]
    PROVE  ObserveOn(path, Erase(c, w), leaf, mem) = ObserveOn(path, c, leaf, mem)
<1> DEFINE d == Erase(c, w)
           r == Run(path, d, leaf, mem)
           q == Run(path, c, leaf, mem)
           y == c[w].args[2]
           In(k) == k > 0 /\ Since(l, w, o, path[k])
           P(k) == Differing(r[k], q[k], In(k), Worth(q[k].val, leaf, y))
           S == {k \in 0..Len(path) : P(k)}
<1>1. /\ Behind(c, l, sdom, w, o) /\ Control(path, l) /\ DOMAIN l \subseteq Nat
      /\ WellFormed(c) /\ Shaped(c) /\ w \in DOMAIN c /\ o \in DOMAIN c /\ w < o
      /\ DOMAIN c \subseteq DOMAIN l /\ Len(path) \in Nat
      /\ w \in Nat /\ o \in Nat /\ l[w].bb = c[w].bb /\ l[o].bb = l[w].bb
      /\ c[w].op = "store" /\ ~c[w].vol /\ c[o].op = "store" /\ ~c[o].vol
      /\ c[o].args[2] = c[w].args[2]
  BY ControlStep DEF Overwritten, Behind, LaidOutIn, Possible
<1>2. DOMAIN d = DOMAIN c \ {w} /\ \A n \in DOMAIN d : d[n] = c[n]
  BY EraseEffect
<1>3. WellFormed(d) /\ Shaped(d)
  <2>1. Unused(c, w)
    BY <1>1 DEF WellFormed, Unused, Users, YieldsValue
  <2>2. PICK z : z = {}
    OBVIOUS
  <2>3. IsFiniteSet(DOMAIN d)
    BY <1>1, <1>2, FS_Subset DEF WellFormed
  <2>4. d = [n \in DOMAIN d |-> d[n]]
    BY DEF Erase, Restrict
  <2> HIDE DEF d
  <2>5. d \in [DOMAIN d -> Instruction]
    BY <1>1, <1>2, <2>4 DEF WellFormed
  <2>6. WellFormed(d)
    BY <1>1, <1>2, <2>1, <2>3, <2>5 DEF WellFormed, Unused, Users
  <2> QED
    BY <1>1, <2>6, ShapedKept DEF d
<1>4. /\ y \in Value /\ y \in Range(c[w].args)
  <2>1. c[w].args \in Seq(Value)
    <3> HIDE DEF d, r, q, y
    <3>1. c \in [DOMAIN c -> Instruction]
      BY <1>1 DEF WellFormed
    <3>2. c[w] \in Instruction
      BY <1>1, <3>1
    <3> QED
      BY <3>2 DEF Instruction
  <2>2. Len(c[w].args) >= 2
    BY <1>1 DEF Shaped
  <2>3. y = c[w].args[2] /\ 2 \in DOMAIN c[w].args
    BY <2>1, <2>2
  <2> QED
    BY <2>1, <2>3 DEF Range
<1>5. IsRun(r, path, d, leaf, mem) /\ IsRun(q, path, c, leaf, mem)
  BY <1>1, RunIs DEF IsRun
<1> HIDE DEF d, r, q, y
<1>6. \A k \in 0..Len(path) : BitState(r[k]) /\ BitState(q[k])
  BY <1>1, <1>3, <1>5, RunBits
<1>7. ASSUME NEW k \in 1..Len(path), P(k - 1) PROVE P(k)
  <2> DEFINE e == path[k]
             n == e.at
             s == r[k - 1]
             t == q[k - 1]
             x == Worth(t.val, leaf, y)
             was == In(k - 1)
  <2>1. /\ r[k] = Step(d, s, e, leaf) /\ q[k] = Step(c, t, e, leaf)
        /\ BitState(s) /\ BitState(t) /\ BitState(r[k]) /\ BitState(q[k])
        /\ Differing(s, t, was, x)
    BY <1>1, <1>5, <1>6, <1>7 DEF IsRun
  <2>2. n \in DOMAIN l /\ n \in Nat
    BY <1>1, ControlStep
  <2>3. /\ was => l[n].bb = l[w].bb /\ w < n /\ n <= o /\ ~e.entered
        /\ l[n].bb = l[w].bb /\ w < n /\ n <= o => was
    <3>1. was <=> k > 1 /\ Since(l, w, o, path[k - 1])
      <4>1. k - 1 > 0 <=> k > 1
        OBVIOUS
      <4> QED
        BY <4>1
    <3> HIDE DEF was
    <3> QED
      BY <1>1, <3>1, SinceStep
  <2>4. In(k) <=> l[n].bb = l[w].bb /\ w <= n /\ n < o
    BY DEF Since
  <2> HIDE DEF e, s, t, was
  <2>5. CASE was /\ n # o
    <3>1. In(k) /\ w < n /\ n < o /\ n # w /\ l[n].bb = l[w].bb /\ ~e.entered
      BY <1>1, <2>2, <2>3, <2>4, <2>5
    <3>2. n \in DOMAIN c => /\ n \in DOMAIN d /\ d[n] = c[n]
                            /\ ~Observable(c[n]) /\ c[n].op # "load"
      BY <1>1, <1>2, <3>1 DEF Overwritten, Behind, LaidOutIn
    <3>3. n \notin DOMAIN c => n \notin DOMAIN d
      BY <1>2
    <3>4. Differing(s, t, TRUE, x) /\ DOMAIN t.val = Inst
      BY <2>1, <2>5 DEF BitState
    <3>5. Differing(r[k], q[k], TRUE, x)
      <4> HIDE DEF x
      <4>1. /\ e.at \in DOMAIN c => e.at \in DOMAIN d /\ d[e.at] = c[e.at]
                                    /\ ~Observable(c[e.at]) /\ c[e.at].op # "load"
            /\ e.at \notin DOMAIN c => e.at \notin DOMAIN d
        BY <3>2, <3>3
      <4>2. ~e.entered
        BY <3>1
      <4>3. Differing(Step(d, s, e, leaf), Step(c, t, e, leaf), TRUE, x)
        BY <3>4, <4>1, <4>2, UntoldStep
      <4> QED
        BY <2>1, <4>3
    <3>6. Worth(q[k].val, leaf, y) = x
      <4>1. n \in DOMAIN c => c[n].op \notin {"store", "call"}
        BY <3>2 DEF Observable
      <4>2. y # n \/ y \in Leaf
        BY <1>1, <1>4, <2>2, <3>1, OperandsAhead DEF y
      <4> QED
        BY <1>4, <2>1, <3>4, <4>1, <4>2, SilentStep
    <3> QED
      BY <3>1, <3>5, <3>6
  <2>6. CASE was /\ n = o
    <3>1. ~In(k) /\ n \in DOMAIN c /\ n \in DOMAIN d /\ d[n] = c[n] /\ ~e.entered
      BY <1>1, <1>2, <2>3, <2>4, <2>6
    <3>2. Writes(c[o], s, r[k], leaf) /\ r[k].entry = Entered(s, e).entry
      BY <1>1, <1>3, <2>1, <2>6, <3>1, StoringStep
    <3>3. Writes(c[o], t, q[k], leaf) /\ q[k].entry = Entered(t, e).entry
      BY <1>1, <2>1, <2>6, <3>1, StoringStep
    <3>4. /\ s.val = t.val /\ s.entry = t.entry /\ s.events = t.events
          /\ \A b \in Bit : s.mem[b] = t.mem[b] \/ b = x
      BY <2>1 DEF Differing
    <3>5. r[k].val = q[k].val /\ r[k].entry = q[k].entry /\ r[k].events = q[k].events
      BY <1>1, <3>1, <3>2, <3>3, <3>4 DEF Writes, Entered
    <3>6. ASSUME NEW b \in Bit PROVE r[k].mem[b] = q[k].mem[b]
      <4>1. Worth(t.val, leaf, c[o].args[2]) = x /\ Worth(s.val, leaf, c[o].args[2]) = x
            /\ Worth(s.val, leaf, c[o].args[1]) = Worth(t.val, leaf, c[o].args[1])
        BY <1>1, <3>4 DEF y
      <4>2. s.mem \in [Bit -> Bit] /\ t.mem \in [Bit -> Bit]
        BY <2>1 DEF BitState
      <4> HIDE DEF x
      <4> QED
        BY <3>2, <3>3, <3>4, <4>1, <4>2 DEF Writes
    <3> QED
      BY <3>1, <3>5, <3>6 DEF Differing
  <2>7. CASE ~was /\ n = w
    <3>1. In(k) /\ n \in DOMAIN c /\ n \notin DOMAIN d
      BY <1>1, <1>2, <2>4, <2>7
    <3>2. r[k] = Entered(s, e)
      BY <2>1, <3>1 DEF Step
    <3>3. Writes(c[w], t, q[k], leaf) /\ q[k].entry = Entered(t, e).entry
      BY <1>1, <2>1, <2>7, <3>1, StoringStep
    <3>4. /\ s.val = t.val /\ s.entry = t.entry /\ s.events = t.events
          /\ \A b \in Bit : s.mem[b] = t.mem[b]
      BY <2>1, <2>7 DEF Differing
    <3>5. t.mem \in [Bit -> Bit] /\ r[k].mem = s.mem /\ r[k].events = s.events
          /\ r[k].val = s.val
      BY <2>1, <3>2 DEF BitState, Entered
    <3>6. Worth(q[k].val, leaf, y) = x
      BY <3>3 DEF Writes
    <3>7. \A b \in Bit : b # x => q[k].mem[b] = t.mem[b]
      BY <3>3, <3>5 DEF Writes, y
    <3>8. /\ r[k].val = q[k].val /\ r[k].entry = q[k].entry /\ r[k].events = q[k].events
      BY <1>1, <3>2, <3>3, <3>4, <3>5 DEF Writes, Entered
    <3> HIDE DEF x
    <3> QED
      BY <3>1, <3>4, <3>5, <3>6, <3>7, <3>8 DEF Differing
  <2>8. CASE ~was /\ n # w
    <3>1. ~In(k)
      BY <1>1, <2>2, <2>3, <2>4, <2>8
    <3>2. Differing(s, t, FALSE, x)
      BY <2>1, <2>8 DEF Differing
    <3>3. r[k] = q[k]
      <4> HIDE DEF x
      <4>1. /\ e.at \in DOMAIN c => e.at \in DOMAIN d /\ d[e.at] = c[e.at]
            /\ e.at \notin DOMAIN c => e.at \notin DOMAIN d
        BY <1>2, <2>8
      <4>2. s.val = t.val /\ s.entry = t.entry /\ s.events = t.events /\ s.mem = t.mem
        BY <2>1, <3>2 DEF Differing, BitState
      <4>3. Step(d, s, e, leaf) = Step(c, t, e, leaf)
        BY <4>1, <4>2, EqualSteps
      <4> QED
        BY <2>1, <4>3
    <3> QED
      BY <3>1, <3>3 DEF Differing
  <2>9. was => n # w
    BY <1>1, <2>2, <2>3
  <2> QED
    BY <2>5, <2>6, <2>7, <2>8
<1>8. P(0)
  <2>1. r[0] = q[0]
    BY <1>5 DEF IsRun
  <2> QED
    BY <2>1 DEF Differing
<1>9. Len(path) \in S
  <2>1. ASSUME NEW k \in 0..Len(path), \A h \in 0..(k - 1) : h \in S PROVE k \in S
    <3>1. CASE k = 0
      BY <1>8, <3>1
    <3>2. CASE k # 0
      <4>1. k \in 1..Len(path) /\ k - 1 \in 0..(k - 1)
        BY <3>2
      <4>2. P(k - 1)
        BY <2>1, <4>1
      <4> HIDE DEF P
      <4> QED
        BY <1>7, <4>1, <4>2
    <3> QED
      BY <3>1, <3>2
  <2>2. Len(path) \in 0..Len(path)
    BY <1>1
  <2> HIDE DEF S
  <2> QED
    BY <1>1, <2>1, <2>2, AlongPath
<1>10. ~In(Len(path))
  <2> SUFFICES ASSUME Len(path) > 0, Since(l, w, o, path[Len(path)]) PROVE FALSE
    OBVIOUS
  <2>1. Exits(l, path[Len(path)].at)
    BY DEF Possible
  <2>2. path[Len(path)].at \in Nat
    <3>1. Len(path) \in 1..Len(path)
      BY <1>1
    <3> QED
      BY <1>1, <3>1, ControlStep
  <2> QED
    BY <1>1, <2>1, <2>2 DEF Exits, IsLast, InstsOfBlock, Since
<1>11. r[Len(path)].events = q[Len(path)].events /\ r[Len(path)].mem = q[Len(path)].mem
  <2>1. P(Len(path)) /\ Len(path) \in 0..Len(path)
    BY <1>1, <1>9
  <2>2. r[Len(path)].mem \in [Bit -> Bit] /\ q[Len(path)].mem \in [Bit -> Bit]
    BY <1>6, <2>1 DEF BitState
  <2> QED
    BY <1>10, <2>1, <2>2 DEF Differing
<1> QED
  BY <1>11 DEF ObserveOn, r, q, d

-----------------------------------------------------------------------------
\* x is c without some instructions that what is left does not use.
Remnant(c, x) ==
    /\ DOMAIN x \subseteq DOMAIN c
    /\ x = [n \in DOMAIN x |-> c[n]]
    /\ \A n \in DOMAIN x : OperandInsts(c, n) \subseteq DOMAIN x

LEMMA RemnantKeeps ==
    ASSUME NEW c, WellFormed(c), Shaped(c), NEW x, Remnant(c, x)
    PROVE  /\ WellFormed(x) /\ Shaped(x)
           /\ \A sdom : DefsBeforeUses(c, sdom) => DefsBeforeUses(x, sdom)
           /\ \A sdom, l, path : Possible(path, c, l, sdom) => Possible(path, x, l, sdom)
<1>1. /\ DOMAIN x \subseteq DOMAIN c /\ \A n \in DOMAIN x : x[n] = c[n]
      /\ \A n \in DOMAIN x : OperandInsts(x, n) \subseteq DOMAIN x
  BY DEF Remnant, OperandInsts
<1>2. WellFormed(x)
  <2>1. IsFiniteSet(DOMAIN x)
    BY <1>1, FS_Subset DEF WellFormed
  <2>2. x \in [DOMAIN x -> Instruction]
    BY <1>1 DEF WellFormed, Remnant
  <2> QED
    BY <1>1, <2>1, <2>2 DEF WellFormed, OperandInsts
<1>3. Shaped(x)
  BY <1>1 DEF Shaped
<1>4. ASSUME NEW sdom, DefsBeforeUses(c, sdom) PROVE DefsBeforeUses(x, sdom)
  BY <1>1, <1>4 DEF DefsBeforeUses, OperandInsts, Precedes
<1>5. ASSUME NEW sdom, NEW l, NEW path, Possible(path, c, l, sdom)
      PROVE  Possible(path, x, l, sdom)
  <2>1. Control(path, l) /\ PhisComputed(path, c, l, sdom)
    BY <1>5 DEF Possible
  <2>2. ASSUME NEW k \in 1..Len(path), NEW n \in DOMAIN x,
               path[k].entered, x[n].op = "phi", x[n].bb = l[path[k].at].bb
        PROVE  /\ k > 1
               /\ LET o == Taken(x[n], path[k].pred)
                      from == l[path[k - 1].at].bb
                  IN  o \in Inst => x[o].bb = from \/ <<x[o].bb, from>> \in sdom
    <3> DEFINE from == l[path[k - 1].at].bb
               o == Taken(x[n], path[k].pred)
    <3>1. n \in DOMAIN c /\ x[n] = c[n]
      BY <1>1
    <3>2. k > 1 /\ (o \in Inst => c[o].bb = from \/ <<c[o].bb, from>> \in sdom)
      BY <2>1, <2>2, <3>1 DEF PhisComputed
    <3>3. path[k].pred \in {1, 2}
      <4>1. path \in Seq(PathStep(l))
        BY <2>1 DEF Control
      <4>2. path[k] \in PathStep(l)
        BY <4>1
      <4> QED
        BY <4>2 DEF PathStep
    <3>4. o \in Range(x[n].args)
      BY <1>2, <1>3, <2>2, <3>3, TakenOperand
    <3>5. o \in Inst => o \in DOMAIN x /\ x[o] = c[o]
      BY <1>1, <3>4 DEF OperandInsts
    <3> HIDE DEF o, from
    <3> QED
      BY <3>2, <3>5 DEF o, from
  <2>3. PhisComputed(path, x, l, sdom)
    BY <2>2 DEF PhisComputed
  <2> QED
    BY <1>5, <2>3 DEF Possible
<1> QED
  BY <1>2, <1>3, <1>4, <1>5

\* Erasing what is not used leaves a remnant.
LEMMA ErasedRemnant ==
    ASSUME NEW c, WellFormed(c), NEW w, Unused(c, w)
    PROVE  Remnant(c, Erase(c, w))
<1>1. Erase(c, w) = [n \in DOMAIN c \ {w} |-> c[n]]
      /\ DOMAIN Erase(c, w) = DOMAIN c \ {w}
  BY DEF Erase, Restrict
<1> QED
  BY <1>1 DEF Remnant, OperandInsts, WellFormed, Unused, Users

(* Erasing a store that the next instruction with a side effect overwrites, *)
(* loads apart that nothing uses.                                           *)
LEMMA OverwrittenMeaning ==
    ASSUME NEW c, WellFormed(c), Shaped(c), NEW sdom, StrictOrder(sdom),
           DefsBeforeUses(c, sdom),
           NEW w \in DOMAIN c, NEW o \in DOMAIN c, w < o, c[w].bb = c[o].bb,
           c[w].op = "store", c[o].op = "store", ~c[w].vol, ~c[o].vol,
           c[o].args[2] = c[w].args[2],
           NEW U, \A n \in DOMAIN c \cap U : ~Observable(c[n]) /\ Unused(c, n),
           \A n \in DOMAIN c \ U :
              c[n].bb = c[w].bb /\ w < n /\ n < o => ~has_sideeffect(c[n]),
           NEW leaves, leaves \subseteq [Leaf -> Bit]
    PROVE  SameOnPossiblePaths(sdom, leaves, Erase(c, w), c)
<1> DEFINE d == [n \in DOMAIN c \ U |-> c[n]]
           e == Erase(d, w)
           f == Erase(c, w)
<1>1. Remnant(c, d) /\ DOMAIN d = DOMAIN c \ U /\ \A n \in DOMAIN d : d[n] = c[n]
  BY DEF Remnant, OperandInsts, WellFormed, Unused, Users
<1>2. w \in DOMAIN d /\ o \in DOMAIN d /\ d[w] = c[w] /\ d[o] = c[o]
  BY <1>1 DEF Observable
<1> HIDE DEF d
<1>3. WellFormed(d) /\ Shaped(d) /\ DefsBeforeUses(d, sdom)
  BY <1>1, RemnantKeeps
<1>4. Unused(c, w)
  BY DEF WellFormed, Unused, Users, YieldsValue
<1>5. Remnant(c, f)
  BY <1>4, ErasedRemnant
<1>6. f = Erase(c, w) /\ e = Erase(d, w)
  OBVIOUS
<1> HIDE DEF e, f
<1>12. DOMAIN f = DOMAIN c \ {w} /\ \A n \in DOMAIN f : f[n] = c[n]
  BY <1>6 DEF Erase, Restrict
<1>13. DOMAIN e = DOMAIN d \ {w} /\ \A n \in DOMAIN e : e[n] = d[n]
  BY <1>6 DEF Erase, Restrict
<1>7. WellFormed(f)
  BY <1>5, RemnantKeeps
<1>8. /\ DOMAIN e \subseteq DOMAIN f
      /\ \A n \in DOMAIN e : e[n] = f[n] /\ OperandInsts(e, n) \subseteq DOMAIN e
      /\ \A n \in DOMAIN f \ DOMAIN e : ~Observable(f[n])
  BY <1>1, <1>4, <1>5, <1>12, <1>13 DEF Remnant, OperandInsts, Unused, Users
<1> SUFFICES ASSUME NEW l, NEW path, DOMAIN l \subseteq Nat, LaidOutIn(c, l),
                    Possible(path, c, l, sdom)
             PROVE  /\ Possible(path, f, l, sdom)
                    /\ \A leaf \in leaves, mem \in [Bit -> Bit] :
                          ObserveOn(path, f, leaf, mem) = ObserveOn(path, c, leaf, mem)
  BY DEF SameOnPossiblePaths, f
<1>9. Possible(path, f, l, sdom) /\ Possible(path, d, l, sdom) /\ Len(path) \in Nat
  BY <1>1, <1>5, RemnantKeeps DEF Possible, Control
<1>10. Overwritten(d, l, sdom, w, o)
  <2>1. LaidOutIn(d, l)
    BY <1>1 DEF LaidOutIn
  <2>2. \A n \in DOMAIN d : ~has_sideeffect(d[n]) => ~Observable(d[n]) /\ d[n].op # "load"
    BY <1>3 DEF has_sideeffect, Observable, WellFormed
  <2>3. \A n \in DOMAIN d : d[n].bb = d[w].bb /\ w < n /\ n < o => ~has_sideeffect(d[n])
    BY <1>1, <1>2
  <2> QED
    BY <1>2, <1>3, <2>1, <2>2, <2>3 DEF Overwritten, Behind
<1>11. ASSUME NEW leaf \in leaves, NEW mem \in [Bit -> Bit]
       PROVE  ObserveOn(path, f, leaf, mem) = ObserveOn(path, c, leaf, mem)
  <2>1. ObserveOn(path, e, leaf, mem) = ObserveOn(path, d, leaf, mem)
    BY <1>9, <1>10, ErasedStoreRuns DEF e
  <2>2. ObserveOn(path, e, leaf, mem) = ObserveOn(path, f, leaf, mem)
    BY <1>7, <1>8, <1>9, ErasedRuns
  <2>3. ObserveOn(path, d, leaf, mem) = ObserveOn(path, c, leaf, mem)
    <3>1. /\ DOMAIN d \subseteq DOMAIN c
          /\ \A n \in DOMAIN d : d[n] = c[n] /\ OperandInsts(d, n) \subseteq DOMAIN d
          /\ \A n \in DOMAIN c \ DOMAIN d : ~Observable(c[n])
      BY <1>1 DEF Remnant, OperandInsts
    <3> QED
      BY <1>9, <3>1, ErasedRuns
  <2> QED
    BY <2>1, <2>2, <2>3
<1> QED
  BY <1>9, <1>11

\* A load takes the value of the store before it.
LEMMA StoredMeaning ==
    ASSUME NEW c, WellFormed(c), Shaped(c), NEW sdom, StrictOrder(sdom),
           DefsBeforeUses(c, sdom),
           NEW i \in DOMAIN c, NEW r \in DOMAIN c, i < r, c[i].bb = c[r].bb,
           c[i].op = "store", c[r].op = "load", c[r].args[1] = c[i].args[2],
           \A n \in DOMAIN c : c[n].bb = c[i].bb /\ i < n /\ n < r => c[n].op \notin {"store", "call"},
           NEW leaves, leaves \subseteq [Leaf -> Bit]
    PROVE  SameOnPossiblePaths(sdom, leaves, ReplaceAllUsesWith(c, r, c[i].args[1]), c)
<1> DEFINE v == c[i].args[1]
<1>1. DOMAIN c \subseteq Inst /\ DOMAIN c \subseteq Nat /\ LaidOutIn(c, c)
  BY InstAssumption DEF WellFormed, LaidOutIn
<1>2. c[i].args \in Seq(Value) /\ Len(c[i].args) >= 2
  BY DEF WellFormed, Instruction, Shaped
<1>3. v \in Value /\ v \in Range(c[i].args)
  BY <1>2 DEF Range
<1>4. v \in Inst => v \in DOMAIN c /\ Precedes(c, v, i, sdom)
  BY <1>3 DEF WellFormed, DefsBeforeUses, OperandInsts
<1> HIDE DEF v
<1>5. v \in Inst => Precedes(c, v, r, sdom)
  BY <1>1, <1>4 DEF Precedes
<1>6. v # r
  BY <1>1, <1>4 DEF Precedes, StrictOrder
<1>7. Forwardable(c, c, sdom, r, v)
  BY <1>1, <1>3, <1>4, <1>5, <1>6 DEF Forwardable
<1>8. ASSUME NEW l, NEW path, DOMAIN l \subseteq Nat, LaidOutIn(c, l), Possible(path, c, l, sdom),
             NEW leaf \in leaves, NEW mem \in [Bit -> Bit]
      PROVE  Yields(path, Run(path, c, leaf, mem), leaf, r, v)
  <2> DEFINE q == Run(path, c, leaf, mem)
  <2>1. Control(path, l) /\ leaf \in [Leaf -> Bit]
    BY <1>8 DEF Possible
  <2>2. Len(path) \in Nat
    BY <2>1 DEF Control
  <2>3. q = Run(path, c, leaf, mem)
    OBVIOUS
  <2> HIDE DEF q
  <2>4. IsRun(q, path, c, leaf, mem)
    BY <2>2, <2>3, RunIs DEF IsRun
  <2>5. \A k \in 0..Len(path) : BitState(q[k])
    BY <1>8, <2>1, <2>4, RunBits
  <2>6. Behind(c, l, sdom, i, r)
    BY <1>8 DEF Behind
  <2>7. Yields(path, q, leaf, r, c[i].args[1])
    BY <2>1, <2>4, <2>5, <2>6, LoadYields
  <2> QED
    BY <2>3, <2>7 DEF v
<1> QED
  BY <1>7, <1>8, ForwardedMeaning DEF v

=============================================================================
