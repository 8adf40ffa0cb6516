------------------------------ MODULE StoreCSE ------------------------------
(****************************************************************************)
(* store_cse of simple/p3/C++/CSE.cpp: for each store of a block, the loads *)
(* of its address that follow take the stored value, and the store itself   *)
(* is queued if another store to the same address follows; anything else    *)
(* with a side effect ends the search.  The queue is erased at the end of   *)
(* the block.                                                               *)
(****************************************************************************)
EXTENDS Semantics

CONSTANTS
    Programs,  \* the modules the pass may be given
    NumBlocks, \* blocks are numbered 1..NumBlocks in layout order
    SDom       \* strict dominance between their blocks

ASSUME ProgramsAssumption ==
    /\ NumBlocks \in Nat
    /\ StrictOrder(SDom)
    /\ \A c \in Programs :
          /\ WellFormed(c) /\ DefsBeforeUses(c, SDom) /\ MemoryShaped(c)
          /\ \A n \in DOMAIN c : c[n].bb \in 1..NumBlocks

VARIABLES
    source,    \* the module as it was given (never assigned by the code)
    code,
    bb,        \* the block of the two outer loops
    pc,        \* "outer" | "inner" | "drain" | "done"
    i,         \* the store S, or the instruction last visited; 0 before the first
    j,         \* subsequent_inst: the instruction last compared with S
    worklist,
    CSELdStElim,
    CSERStElim

vars == <<source, code, bb, pc, i, j, worklist, CSELdStElim, CSERStElim>>

Block == InstsOfBlock(code, bb)

Init ==
    /\ source \in Programs
    /\ code = source
    /\ bb = 1
    /\ pc = IF NumBlocks = 0 THEN "done" ELSE "outer"
    /\ i = 0
    /\ j = 0
    /\ worklist = {}
    /\ CSELdStElim = 0
    /\ CSERStElim = 0

\* The outer loop moves to the next instruction; a store starts the inner loop.
Visit ==
    /\ pc = "outer"
    /\ \E n \in Block :
        /\ IsNext(n, i, Block)
        /\ i' = n
        /\ j' = n
        /\ pc' = IF IsStore(code[n]) THEN "inner" ELSE "outer"
    /\ UNCHANGED <<source, code, bb, worklist, CSELdStElim, CSERStElim>>

BlockEnd ==
    /\ pc = "outer"
    /\ IsLast(i, Block)
    /\ pc' = "drain"
    /\ UNCHANGED <<source, code, bb, i, j, worklist, CSELdStElim, CSERStElim>>

\* `ty' of a store is the type of its value operand.
StoredValue(I) == I.args[1]

\* R loads what S stored.
LoadsBack(c, R, S) ==
    /\ IsLoad(c[R])
    /\ ~c[R].vol
    /\ Address(c[S]) = Address(c[R])
    /\ c[S].ty = c[R].ty

\* R overwrites S.  The volatile test of the code is on R, and its type test
\* compares the types of two stores, which are both void: always equal.
Overwrites(c, R, S) ==
    /\ IsStore(c[R])
    /\ Address(c[S]) = Address(c[R])
    /\ ~c[R].vol

\* Slips: the arguments of RAUW swapped, `continue' missed, the load queued
\* with its uses.
ForwardToLoad_Swapped(R) ==
    /\ LoadsBack(code, R, i)
    /\ code' = ReplaceAllUsesWith(code, StoredValue(code[i]), R)
    /\ worklist' = worklist \cup {R}
    /\ CSELdStElim' = CSELdStElim + 1
    /\ j' = R
    /\ UNCHANGED <<source, bb, pc, i, CSERStElim>>

ForwardToLoad_ThenBreak(R) ==
    /\ LoadsBack(code, R, i)
    /\ code' = ReplaceAllUsesWith(code, R, StoredValue(code[i]))
    /\ worklist' = worklist \cup {R}
    /\ CSELdStElim' = CSELdStElim + 1
    /\ pc' = "outer"
    /\ UNCHANGED <<source, bb, i, j, CSERStElim>>

ForwardToLoad_UsesKept(R) ==
    /\ LoadsBack(code, R, i)
    /\ worklist' = worklist \cup {R}
    /\ CSELdStElim' = CSELdStElim + 1
    /\ j' = R
    /\ UNCHANGED <<source, code, bb, pc, i, CSERStElim>>

ForwardToLoad(R) ==
    /\ LoadsBack(code, R, i)
    /\ code' = ReplaceAllUsesWith(code, R, StoredValue(code[i]))
    /\ worklist' = worklist \cup {R}
    /\ CSELdStElim' = CSELdStElim + 1
    /\ j' = R
    /\ UNCHANGED <<source, bb, pc, i, CSERStElim>>

\* Slips: break missed, the later store queued.
QueueStore_GoesOn(R) ==
    /\ Overwrites(code, R, i)
    /\ worklist' = worklist \cup {i}
    /\ CSERStElim' = CSERStElim + 1
    /\ j' = R
    /\ UNCHANGED <<source, code, bb, pc, i, CSELdStElim>>

QueueStore_Later(R) ==
    /\ Overwrites(code, R, i)
    /\ worklist' = worklist \cup {R}
    /\ CSERStElim' = CSERStElim + 1
    /\ pc' = "outer"
    /\ UNCHANGED <<source, code, bb, i, j, CSELdStElim>>

QueueStore(R) ==
    /\ Overwrites(code, R, i)
    /\ worklist' = worklist \cup {i}
    /\ CSERStElim' = CSERStElim + 1
    /\ pc' = "outer"
    /\ UNCHANGED <<source, code, bb, i, j, CSELdStElim>>

\* break: a load or a store of something else, a call, ...
StopAtSideEffect(R) ==
    /\ ~LoadsBack(code, R, i)
    /\ ~Overwrites(code, R, i)
    /\ has_sideeffect(code[R])
    /\ pc' = "outer"
    /\ UNCHANGED <<source, code, bb, i, j, worklist, CSELdStElim, CSERStElim>>

PassOver(R) ==
    /\ ~has_sideeffect(code[R])
    /\ j' = R
    /\ UNCHANGED <<source, code, bb, pc, i, worklist, CSELdStElim, CSERStElim>>

Compare ==
    /\ pc = "inner"
    /\ \E R \in Block :
        /\ IsNext(R, j, Block)
        /\ ForwardToLoad(R) \/ QueueStore(R) \/ StopAtSideEffect(R) \/ PassOver(R)

InnerEnd ==
    /\ pc = "inner"
    /\ IsLast(j, Block)
    /\ pc' = "outer"
    /\ UNCHANGED <<source, code, bb, i, j, worklist, CSELdStElim, CSERStElim>>

\* begin() of a set of pointers: any member.
EraseQueued ==
    /\ pc = "drain"
    /\ \E w \in worklist :
        /\ worklist' = worklist \ {w}
        /\ code' = Erase(code, w)
    /\ UNCHANGED <<source, bb, pc, i, j, CSELdStElim, CSERStElim>>

NextBlock ==
    /\ pc = "drain"
    /\ worklist = {}
    /\ bb' = bb + 1
    /\ pc' = IF bb = NumBlocks THEN "done" ELSE "outer"
    /\ i' = 0
    /\ j' = 0
    /\ UNCHANGED <<source, code, worklist, CSELdStElim, CSERStElim>>

Next == Visit \/ BlockEnd \/ Compare \/ InnerEnd \/ EraseQueued \/ NextBlock

Spec == Init /\ [][Next]_vars

-----------------------------------------------------------------------------
(* Properties                                                               *)

(* Types; an erased instruction is never an operand of one that is left, and *)
(* what is queued belongs to the block at hand.                              *)
TypeOK ==
    /\ WellFormed(code)
    /\ DOMAIN code \subseteq DOMAIN source
    /\ pc \in {"outer", "inner", "drain", "done"}
    /\ bb \in 1..NumBlocks + 1
    /\ i \in Nat /\ j \in Nat
    /\ worklist \subseteq Block
    /\ CSELdStElim \in Nat /\ CSERStElim \in Nat

(* The drain erases without a test: a queued load has lost its uses for     *)
(* good, also when the value that a later store forwards is a queued load's *)
(* replacement.                                                             *)
QueuedUnused == \A w \in worklist : Unused(code, w)

(* Putting the stored value in place of a load keeps the SSA rule.          *)
DominanceKept == DefsBeforeUses(code, SDom)

(* The two counters together are the number of instructions erased: no load *)
(* is forwarded by two stores and no store is queued twice.                 *)
CountsErased ==
    pc = "done" =>
        CSELdStElim + CSERStElim = Cardinality(DOMAIN source) - Cardinality(DOMAIN code)

\* Nothing with a side effect stands between S and R.
Reaches(c, S, R) ==
    /\ S < R
    /\ c[S].bb = c[R].bb
    /\ \A k \in DOMAIN c : S < k /\ k < R => ~has_sideeffect(c[k])

\* A volatile store stood between S and R when the pass began.
VolatileStoreBetween(S, R) ==
    \E k \in DOMAIN source : /\ S < k /\ k < R /\ source[k].bb = source[S].bb
                             /\ IsStore(source[k]) /\ source[k].vol

(* One pass is enough: what it returns has no load that an earlier store of *)
(* its block reaches, and no store that a later one of its block overwrites *)
(* before anything with a side effect (dominators laid out first, as for    *)
(* the other passes).  Only a volatile store hides one: it ends the search  *)
(* of the stores before it and may then be erased itself.                   *)
NothingLeftToForward ==
    LayoutFollows(SDom) /\ pc = "done" =>
        \A S, R \in DOMAIN code :
            IsStore(code[S]) /\ Reaches(code, S, R) /\ ~VolatileStoreBetween(S, R)
            => ~LoadsBack(code, R, S) /\ ~Overwrites(code, R, S)

\* What the search of a store does not test.
NoVolatileStores(c) == \A n \in DOMAIN c : IsStore(c[n]) => ~c[n].vol

(* The comparison of each program's output with its reference output, the   *)
(* `compare' target of the benchmarks: what is seen does not change,        *)
(* volatile stores apart, one of which may be erased like any other.        *)
MeaningKept ==
    pc = "done" /\ NoVolatileStores(source)
        => SameMeaning(SDom, [Leaf -> Bit], code, source)

(* CSE.cpp:444: a store is erased if a later one overwrites it "&& S is not *)
(* volatile".                                                               *)
VolatileStoresKept ==
    \A S \in DOMAIN source : source[S].vol => S \in DOMAIN code

=============================================================================
