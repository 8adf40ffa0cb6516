------------------------------ MODULE Analyses ------------------------------
(****************************************************************************)
(* The queries of simple/p3/C++/dominance.cpp, cfg.cpp and loop.cpp: one    *)
(* dominator tree and one of post-dominators are kept, for the function     *)
(* asked about last, and one loop table, to which every analysis adds; the  *)
(* walks over children, successors, predecessors and loops keep no position,*)
(* each step looks for the one it gave before and returns the one behind it.*)
(* The callers are any that ask, walk, and change a function in between.    *)
(****************************************************************************)
EXTENDS Integers, FiniteSets, SequencesExt

CONSTANTS
    Functions, NULL,
    FAULT,             \* the end of a step through a null node
    Blocks, Entry,     \* the blocks of every function, numbered from 1
    Graphs,            \* what its CFG may be: a sequence of successors for each block
    Asked, Walked,     \* bounds of this instance: the blocks the single questions are about,
    MaxEdits,          \* those whose neighbours are walked, the changes,
    MaxDeeper          \* and the loops that further analyses may put around a block

ASSUME GraphsAssumption ==
    /\ IsFiniteSet(Blocks) /\ Blocks = 1..Cardinality(Blocks) /\ Entry \in Blocks
    /\ Graphs \subseteq [Blocks -> Seq(Blocks)]
    /\ NULL \notin Functions \cup Blocks /\ FAULT \notin Blocks \cup {NULL}
    /\ Asked \cup Walked \subseteq Blocks /\ MaxEdits \in Nat /\ MaxDeeper \in Nat

VARIABLES
    cfg,
    Current,       \* the function the trees are of
    DT, PDT,       \* immediate (post-)dominators, of the blocks the tree has
    LI,            \* the loop depths in each function, as its first analysis leaves them
    analysed,      \* how often each was analysed: 2 is twice or more
    answer,        \* the last answer to a single question
    walk,          \* the walk in progress or just ended
    edits, edited  \* changes so far, and the functions changed since they were last analysed

trees == <<Current, DT, PDT, LI, analysed>>
queryvars == <<cfg, trees, answer, walk, edits, edited>>

-----------------------------------------------------------------------------
(* LLVM's analyses, of a graph g                                            *)

Succ(g, b) == ToSet(g[b])
Pred(g, b) == {p \in Blocks : b \in Succ(g, p)}

\* The two ways through g, from its entry and from its ends.
Forward(g) == [roots |-> {Entry}, next |-> [b \in Blocks |-> Succ(g, b)]]
Backward(g) ==
    [roots |-> {b \in Blocks : g[b] = <<>>}, next |-> [b \in Blocks |-> Pred(g, b)]]

\* What is reachable on way w without passing through the blocks in W.
Reach(w, W) ==
    LET Grow[n \in 0..Cardinality(Blocks)] ==
            IF n = 0 THEN w.roots \ W
            ELSE LET R == Grow[n - 1] IN R \cup ((UNION {w.next[b] : b \in R}) \ W)
    IN  Grow[Cardinality(Blocks)]
Reachable(w) == Reach(w, {})

Dom(w, a, b) == a = b \/ (a \in Reachable(w) /\ b \notin Reach(w, {a})) \/ b \notin Reachable(w)
StrictDoms(w, b) == {a \in Reachable(w) \ {b} : Dom(w, a, b)}

\* The root of the tree, or the one common root of several ends, is NULL.
Tree(w) ==
    [b \in Reachable(w) |->
        IF StrictDoms(w, b) = {} THEN NULL
        ELSE CHOOSE a \in StrictDoms(w, b) : \A c \in StrictDoms(w, b) : Dom(w, c, a)]

IDom == [g \in Graphs |-> Tree(Forward(g))]
IPDom == [g \in Graphs |-> Tree(Backward(g))]

\* The natural loop of header h, {} if h heads none.
Body(g) == Reachable(Forward(g))
Latches(g, h) == {t \in Body(g) : h \in Succ(g, t) /\ Dom(Forward(g), h, t)}
Loop(g, h) ==
    LET Grow[n \in 0..Cardinality(Blocks)] ==
            IF n = 0 THEN Latches(g, h)
            ELSE LET L == Grow[n - 1]
                 IN  L \cup ((UNION {Pred(g, b) : b \in L \ {h}}) \cap Body(g))
    IN  Grow[Cardinality(Blocks)]
Depths ==
    [g \in Graphs |->
        [b \in Blocks |-> Cardinality({h \in Body(g) : b \in Loop(g, h)})]]

\* The headers of the outermost loops.
TopLoops(g) == {h \in Body(g) : Loop(g, h) # {} /\ Depths[g][h] = 1}

-----------------------------------------------------------------------------
(* Queries                                                                  *)

QueryInit ==
    /\ cfg \in [Functions -> Graphs]
    /\ Current = NULL /\ DT = NULL /\ PDT = NULL
    /\ LI = [f \in Functions |-> [b \in Blocks |-> 0]] /\ analysed = [f \in Functions |-> 0]
    /\ answer = NULL /\ walk = NULL /\ edits = 0 /\ edited = {}

UpdateDominators_TreeOnly(f) ==   \* slip: the loops stay those of the first function
    /\ Current' = f
    /\ IF Current = f THEN UNCHANGED <<DT, PDT, LI, analysed, edited>>
       ELSE /\ DT' = IDom[cfg[f]] /\ PDT' = IPDom[cfg[f]] /\ edited' = edited \ {f}
            /\ LI' = IF Current = NULL THEN [LI EXCEPT ![f] = Depths[cfg[f]]] ELSE LI
            /\ analysed' = [analysed EXCEPT ![f] = IF @ = 0 THEN 1 ELSE 2]

\* The trees are made anew.  LI, created with them, is never emptied: the loops of another
\* function stay, and those of f, if it had any, are put below the new ones.
UpdateDominators(f) ==
    /\ Current' = f
    /\ IF Current = f THEN UNCHANGED <<DT, PDT, LI, analysed, edited>>
       ELSE /\ DT' = IDom[cfg[f]] /\ PDT' = IPDom[cfg[f]] /\ edited' = edited \ {f}
            /\ LI' = IF analysed[f] = 0 THEN [LI EXCEPT ![f] = Depths[cfg[f]]] ELSE LI
            /\ analysed' = [analysed EXCEPT ![f] = IF @ = 0 THEN 1 ELSE 2]

\* Whether a is on the path from b up to the root of tree t.
Above(t, a, b) ==
    LET Up[c \in DOMAIN t] == a = c \/ (t[c] # NULL /\ Up[t[c]]) IN Up[b]

Walking == walk # NULL /\ walk.at \notin {NULL, FAULT}
Forget == walk' = (IF Walking THEN walk ELSE NULL) /\ UNCHANGED <<cfg, edits>>
Answer(op, f, a, b, value) == answer' = [op |-> op, f |-> f, a |-> a, b |-> b, value |-> value]

\* LLVMDominates; the tree has it that everything dominates an unreachable block.
Dominates(f, a, b) ==
    /\ UpdateDominators(f)
    /\ Answer("dominates", f, a, b,
              a = b \/ b \notin DOMAIN DT' \/ (a \in DOMAIN DT' /\ Above(DT', a, b)))
    /\ Forget

\* LLVMPostDominates
PostDominates(f, a, b) ==
    /\ UpdateDominators(f)
    /\ Answer("postdominates", f, a, b,
              a = b \/ b \notin DOMAIN PDT' \/ (a \in DOMAIN PDT' /\ Above(PDT', a, b)))
    /\ Forget

\* LLVMIsReachableFromEntry
IsReachable(f, b) ==
    /\ UpdateDominators(f)
    /\ Answer("reachable", f, b, b, b \in DOMAIN DT')
    /\ Forget

\* LLVMImmDom
ImmDom(f, b) ==
    /\ UpdateDominators(f)
    /\ Answer("idom", f, b, b, IF b \in DOMAIN DT' THEN DT'[b] ELSE NULL)
    /\ Forget

\* LLVMImmPostDom does not ask whether b has a node.
ImmPostDom(f, b) ==
    /\ UpdateDominators(f)
    /\ Answer("ipdom", f, b, b, IF b \in DOMAIN PDT' THEN PDT'[b] ELSE FAULT)
    /\ Forget

\* LLVMNearestCommonDominator: the deepest block above both.
NearestCommonDominator(f, a, b) ==
    /\ UpdateDominators(f)
    /\ LET above == {c \in DOMAIN DT' : Above(DT', c, a) /\ Above(DT', c, b)}
       IN  Answer("nearest", f, a, b,
                  IF Entry \in {a, b} THEN Entry
                  ELSE IF ~({a, b} \subseteq DOMAIN DT') THEN NULL
                  ELSE CHOOSE c \in above : \A d \in above : Above(DT', d, c))
    /\ Forget

\* Loops are never taken away; how many a further analysis puts around b is left open.
Nested(li, times, f, b) ==
    IF times[f] < 2 THEN {li[f][b]} ELSE {li[f][b] + n : n \in 0..MaxDeeper}

\* LLVMGetLoopNestingDepth asks for an analysis only if there has been none of any function.
GetLoopNestingDepth(f, b) ==
    /\ IF Current = NULL THEN UpdateDominators(f) ELSE UNCHANGED <<trees, edited>>
    /\ \E depth \in Nested(LI', analysed', f, b) : Answer("depth", f, b, b, depth)
    /\ Forget

-----------------------------------------------------------------------------
(* Walks                                                                    *)

Children(t, b) == SetToSeq({c \in DOMAIN t : t[c] = b})

\* pred_begin to pred_end: once for each edge.
Predecessors(g, b) ==
    FlattenSeq([p \in Blocks |-> [k \in 1..Cardinality({e \in DOMAIN g[p] : g[p][e] = b}) |-> p]])

\* What a walk over the neighbours of b goes through, as they are now; over the loops, as
\* they were when LLVMCreateLoopInfoRef was called.
Line(kind, f, b, loops) ==
    CASE kind = "children" -> Children(DT', b)
      [] kind = "successors" -> cfg[f][b]
      [] kind = "predecessors" -> Predecessors(cfg[f], b)
      [] kind = "loops" -> loops

Consult(kind, f) ==
    IF kind = "children" THEN UpdateDominators(f) ELSE UNCHANGED <<trees, edited>>

\* LLVMFirstDomChild, LLVMGetFirstSuccessor, LLVMGetFirstPredecessor, LLVMGetFirstLoop (and
\* LLVMCreateLoopInfoRef before it, whose trees are its own).
First(kind, f, b) ==
    /\ ~Walking
    /\ Consult(kind, f)
    /\ LET loops == SetToSeq(TopLoops(cfg[f]))
           line == Line(kind, f, b, loops)
           at == IF line = <<>> THEN NULL ELSE line[1]
       IN  walk' = [kind |-> kind, f |-> f, b |-> b, at |-> at,
                    steady |-> kind # "children" \/ f \notin edited',
                    loops |-> IF kind = "loops" THEN loops ELSE <<>>,
                    seen |-> IF at = NULL THEN <<>> ELSE <<at>>]
    /\ answer' = NULL
    /\ UNCHANGED <<cfg, edits>>

Behind_LastMissed(line, x) ==   \* slip: the end is met one early
    LET places == {k \in 1..Len(line) - 2 : line[k] = x}
    IN  IF places = {} THEN NULL ELSE line[Min(places) + 1]

Behind_Same(line, x) ==         \* slip: the iterator is not moved on
    IF x \in ToSet(line) THEN x ELSE NULL

\* The block behind the first occurrence of x.
Behind(line, x) ==
    LET places == {k \in 1..Len(line) - 1 : line[k] = x}
    IN  IF places = {} THEN NULL ELSE line[Min(places) + 1]

\* LLVMNextDomChild, LLVMGetNextSuccessor, LLVMGetNextPredecessor, LLVMGetNextLoop.  The first does not ask
\* whether b has a node.  A walk that comes by again leaves its tracks as they are.
Moved(w) ==
    LET line == Line(w.kind, w.f, w.b, w.loops)
        at == IF w.kind = "children" /\ w.b \notin DOMAIN DT' THEN FAULT
              ELSE Behind(line, w.at)
    IN  [w EXCEPT !.at = at,
                  !.seen = IF at \in {NULL, FAULT} \cup ToSet(@) THEN @ ELSE Append(@, at)]

NextStep ==
    /\ Walking
    /\ Consult(walk.kind, walk.f)
    /\ walk' = Moved(walk)
    /\ answer' = NULL
    /\ UNCHANGED <<cfg, edits>>

\* A caller changes function f.
Edit(f) ==
    /\ edits < MaxEdits /\ edits' = edits + 1
    /\ \E g \in Graphs \ {cfg[f]} : cfg' = [cfg EXCEPT ![f] = g]
    /\ edited' = edited \cup {f}
    /\ answer' = NULL
    /\ walk' = IF walk # NULL /\ walk.f = f THEN [walk EXCEPT !.steady = FALSE] ELSE walk
    /\ UNCHANGED trees

Query ==
    \E f \in Functions, b \in Asked :
        \/ \E a \in Asked :
              Dominates(f, a, b) \/ PostDominates(f, a, b) \/ NearestCommonDominator(f, a, b)
        \/ ImmDom(f, b) \/ ImmPostDom(f, b) \/ IsReachable(f, b)
        \/ GetLoopNestingDepth(f, b)

Start ==
    \E kind \in {"children", "successors", "predecessors", "loops"}, f \in Functions, b \in Walked :
        First(kind, f, IF kind = "loops" THEN Entry ELSE b)

QueryNext == Query \/ Start \/ NextStep \/ \E f \in Functions : Edit(f)

\* A caller that walks asks for the next block again and again.
QuerySpec == QueryInit /\ [][QueryNext]_queryvars /\ WF_queryvars(NextStep)

-----------------------------------------------------------------------------
(* Properties                                                               *)

(* An answer is that of the CFG as it is, however the questions about the    *)
(* functions alternate, unless the function has been changed while its tree  *)
(* was the one kept; a loop depth if the function, current or not, has been  *)
(* analysed just once, and not been changed since.                           *)
AnswersRight ==
    answer # NULL /\ answer.f \notin edited =>
        LET g == cfg[answer.f]
            up == {c \in Body(g) : Dom(Forward(g), c, answer.a) /\ Dom(Forward(g), c, answer.b)}
        IN  CASE answer.op = "dominates" -> answer.value = Dom(Forward(g), answer.a, answer.b)
              [] answer.op = "postdominates" -> answer.value = Dom(Backward(g), answer.a, answer.b)
              [] answer.op = "reachable" -> answer.value = (answer.b \in Body(g))
              [] answer.op = "nearest" ->
                    {answer.a, answer.b} \subseteq Body(g) =>
                        answer.value \in up /\ \A c \in up : Dom(Forward(g), c, answer.value)
              [] answer.op = "ipdom" -> answer.b \in DOMAIN IPDom[g] => answer.value = IPDom[g][answer.b]
              [] answer.op = "idom" -> answer.b \in DOMAIN IDom[g] => answer.value = IDom[g][answer.b]
              [] answer.op = "depth" -> analysed[answer.f] = 1 => answer.value = Depths[g][answer.b]

Neighbours(g, w) ==
    CASE w.kind = "children" -> {c \in DOMAIN IDom[g] : IDom[g][c] = w.b}
      [] w.kind = "successors" -> Succ(g, w.b)
      [] w.kind = "predecessors" -> Pred(g, w.b)
      [] w.kind = "loops" -> TopLoops(g)

(* A walk over a function nobody changes has been to every neighbour         *)
(* when it ends, though the tree may have been another function's between    *)
(* any two steps.                                                            *)
WalkComplete ==
    walk # NULL /\ ~Walking /\ walk.steady =>
        walk.at = NULL /\ ToSet(walk.seen) = Neighbours(cfg[walk.f], walk)

\* No two edges from one block to another.
Simple(f) == \A b \in Blocks : IsInjective(cfg[f][b])

(* And it ends, if there are no two edges between the same blocks.           *)
WalkEnds == (Walking /\ Simple(walk.f)) ~> (~Walking \/ ~walk.steady)

=============================================================================
