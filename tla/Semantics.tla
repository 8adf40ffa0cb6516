----------------------------- MODULE Semantics ------------------------------
(****************************************************************************)
(* A reference interpreter for modules over one-bit values that also serve  *)
(* as addresses.  It runs the instructions along a path, as control takes   *)
(* it through the blocks.  Two modules mean the same on a path if for every *)
(* value of the leaves and every initial memory they perform the same       *)
(* sequence of visible events and leave the same memory.                    *)
(****************************************************************************)
EXTENDS IR

Bit == {0, 1}

\* A machine state: the value of every executed instruction, the values as the
\* block was entered, memory, events.
Start(mem) ==
    [val |-> [n \in Inst |-> 0], entry |-> [n \in Inst |-> 0], mem |-> mem, events |-> <<>>]

\* The phis of a block all read what their operands were on entry.
Readable(s, I) == IF I.op = "phi" THEN s.entry ELSE s.val

\* The values of the operands of I, where the leaves have those in leaf.
Operands(I, val, leaf) ==
    [k \in DOMAIN I.args |-> IF I.args[k] \in Leaf THEN leaf[I.args[k]] ELSE val[I.args[k]]]

\* What I yields for operands a.  A comparison's predicate other than "lt" is
\* "gt"; a phi is reached from predecessor pred and lists its two predecessors
\* forwards or backwards; what is not told apart yields 0.
Result(I, a, mem, pred) ==
    CASE I.op = "add"     -> (a[1] + a[2]) % 2
      [] I.op = "icmp"    -> IF IF I.attr = "lt" THEN a[1] < a[2] ELSE a[1] > a[2] THEN 1 ELSE 0
      [] I.op = "phi"     -> a[IF I.attr = "fwd" THEN pred ELSE 3 - pred]
      [] I.op = "load"    -> mem[a[1]]
      [] I.op = "extract" -> a[1]
      [] OTHER            -> 0

\* A call may read and change all memory.
MemoryAfter(I, a, mem) ==
    CASE I.op = "store" -> [mem EXCEPT ![a[2]] = a[1]]
      [] I.op = "call"  -> [x \in Bit |-> 1 - mem[x]]
      [] OTHER          -> mem

\* The events so far and what is seen of I.
EventsAfter(I, a, mem, events) ==
    CASE I.op = "call"          -> Append(events, <<"call", a, mem>>)
      [] I.op = "br" \/ I.vol -> Append(events, <<I.op, a>>)
      [] OTHER                  -> events

Execute(s, I, n, leaf, pred) ==
    LET a == Operands(I, Readable(s, I), leaf)
    IN  [val    |-> IF YieldsValue(I) THEN [s.val EXCEPT ![n] = Result(I, a, s.mem, pred)]
                    ELSE s.val,
         entry  |-> s.entry,
         mem    |-> MemoryAfter(I, a, s.mem),
         events |-> EventsAfter(I, a, s.mem, s.events)]

\* A step of a path: the position `at', whether its block is `entered' by it, and
\* the predecessor `pred' the block was entered from.  Nothing may be left there.
Entered(s, e) ==
    [val |-> s.val, entry |-> IF e.entered THEN s.val ELSE s.entry,
     mem |-> s.mem, events |-> s.events]

Step(c, s, e, leaf) ==
    IF e.at \in DOMAIN c THEN Execute(Entered(s, e), c[e.at], e.at, leaf, e.pred)
    ELSE Entered(s, e)

\* The states of a run along a path.
Run(path, c, leaf, mem) ==
    LET run[k \in 0..Len(path)] ==
            IF k = 0 THEN Start(mem) ELSE Step(c, run[k - 1], path[k], leaf)
    IN  run

ObserveOn(path, c, leaf, mem) ==
    LET end == Run(path, c, leaf, mem)[Len(path)]
    IN  <<end.events, end.mem>>

SameMeaningOn(paths, leaves, c, d) ==
    \A path \in paths, leaf \in leaves, mem \in [Bit -> Bit] :
        ObserveOn(path, c, leaf, mem) = ObserveOn(path, d, leaf, mem)

\* A path control can take: into a block at its first instruction, through it,
\* and from its last one into any block.
PathStep(c) == [at : DOMAIN c, entered : BOOLEAN, pred : {1, 2}]

Enters(c, n) == \A m \in InstsOfBlock(c, c[n].bb) : n <= m

Exits(c, n) == IsLast(n, InstsOfBlock(c, c[n].bb))

GoesOn(c, e, f) ==
    /\ c[f.at].bb = c[e.at].bb /\ f.pred = e.pred
    /\ IsNext(f.at, e.at, InstsOfBlock(c, c[e.at].bb))

Control(path, c) ==
    /\ path \in Seq(PathStep(c))
    /\ \A k \in 1..Len(path) :
          IF path[k].entered
          THEN Enters(c, path[k].at) /\ (k > 1 => Exits(c, path[k - 1].at))
          ELSE k > 1 /\ GoesOn(c, path[k - 1], path[k])

\* Every instruction of c is in l too, in the same block.
LaidOutIn(c, l) ==
    /\ DOMAIN c \subseteq DOMAIN l
    /\ \A n \in DOMAIN c : l[n].bb = c[n].bb

\* The same is seen on every path, also one through what d was made from, for any
\* leaves and memory.
SameOnAllPaths(c, d) ==
    \A l, path, leaf, mem :
        DOMAIN l \subseteq Nat /\ LaidOutIn(d, l) /\ Control(path, l) =>
            ObserveOn(path, c, leaf, mem) = ObserveOn(path, d, leaf, mem)

\* Control is in a block only after the blocks that dominate it, each of them
\* passed again after those that dominate it in turn.
ThroughDominators(path, l, sdom) ==
    \A k \in 1..Len(path) : \A e \in sdom : e[2] = l[path[k].at].bb =>
        \E h \in 1..(k - 1) :
            /\ l[path[h].at].bb = e[1]
            /\ \A m \in h..(k - 1) : <<l[path[m].at].bb, e[1]>> \notin sdom

\* The operand a phi takes if its block is entered from pred.
Taken(I, pred) == I.args[IF I.attr = "fwd" THEN pred ELSE 3 - pred]

\* What a phi takes is of the block that control comes from or of one that
\* dominates it; there are no phis where a path begins.
PhisComputed(path, c, l, sdom) ==
    \A k \in 1..Len(path), n \in DOMAIN c :
        path[k].entered /\ c[n].op = "phi" /\ c[n].bb = l[path[k].at].bb =>
            /\ k > 1
            /\ LET o == Taken(c[n], path[k].pred)
                   from == l[path[k - 1].at].bb
               IN  o \in Inst => c[o].bb = from \/ <<c[o].bb, from>> \in sdom

\* A path of a program that the verifier accepts, up to the end of a block.
Possible(path, c, l, sdom) ==
    /\ Control(path, l)
    /\ ThroughDominators(path, l, sdom)
    /\ PhisComputed(path, c, l, sdom)
    /\ Len(path) > 0 => Exits(l, path[Len(path)].at)

\* Instructions have the operands that Result and MemoryAfter look at.
Shaped(c) ==
    \A n \in DOMAIN c : Len(c[n].args) >= CASE c[n].op \in {"add", "icmp", "phi", "store"} -> 2
                                            [] c[n].op \in {"load", "extract"} -> 1
                                            [] OTHER -> 0

\* Every path that is possible in d is possible in c, and the same is seen on it
\* if the leaves have bits for their values, among those of leaves, and memory too.
SameOnPossiblePaths(sdom, leaves, c, d) ==
    \A l, path :
        DOMAIN l \subseteq Nat /\ LaidOutIn(d, l) /\ Possible(path, d, l, sdom) =>
            /\ Possible(path, c, l, sdom)
            /\ \A leaf \in leaves, mem \in [Bit -> Bit] :
                  ObserveOn(path, c, leaf, mem) = ObserveOn(path, d, leaf, mem)

\* From the first instruction to the last, entering every block from pred.
Through(c, pred) ==
    [n \in DOMAIN c |-> [at |-> n, entered |-> Enters(c, n), pred |-> pred]]

Straight(c) == {Through(c, pred) : pred \in {1, 2}}

\* The same is seen on those of them that control can take in d.
SameMeaning(sdom, leaves, c, d) ==
    Shaped(d) => SameMeaningOn({path \in Straight(d) : Possible(path, d, d, sdom)}, leaves, c, d)

=============================================================================
