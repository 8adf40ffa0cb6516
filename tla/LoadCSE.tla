------------------------------ MODULE LoadCSE -------------------------------
(****************************************************************************)
(* load_cse of simple/p3/C++/CSE.cpp: for each load of a block, the later   *)
(* loads of the same address up to the next store are replaced by it and    *)
(* queued; the queue is erased at the end of the block.                     *)
(****************************************************************************)
EXTENDS Semantics

CONSTANTS
    Programs,  \* the modules the pass may be given
    NumBlocks, \* blocks are numbered 1..NumBlocks in layout order
    SDom       \* strict dominance between their blocks

ASSUME ProgramsAssumption ==
    /\ NumBlocks \in Nat
    /\ StrictOrder(SDom)
    /\ \A c \in Programs :
          /\ WellFormed(c) /\ DefsBeforeUses(c, SDom) /\ MemoryShaped(c)
          /\ \A i \in DOMAIN c : c[i].bb \in 1..NumBlocks

VARIABLES
    source,    \* the module as it was given (never assigned by the code)
    code,
    bb,        \* the block of the two outer loops
    pc,        \* "outer" | "inner" | "drain" | "done"
    i,         \* the load L, or the instruction last visited; 0 before the first
    j,         \* subsequent_inst: the instruction last compared with L
    worklist,
    CSELdElim

vars == <<source, code, bb, pc, i, j, worklist, CSELdElim>>

Block == InstsOfBlock(code, bb)

Init ==
    /\ source \in Programs
    /\ code = source
    /\ bb = 1
    /\ pc = IF NumBlocks = 0 THEN "done" ELSE "outer"
    /\ i = 0
    /\ j = 0
    /\ worklist = {}
    /\ CSELdElim = 0

\* The outer loop moves to the next instruction; a load starts the inner loop.
Visit ==
    /\ pc = "outer"
    /\ \E n \in Block :
        /\ IsNext(n, i, Block)
        /\ i' = n
        /\ j' = n
        /\ pc' = IF IsLoad(code[n]) THEN "inner" ELSE "outer"
    /\ UNCHANGED <<source, code, bb, worklist, CSELdElim>>

BlockEnd ==
    /\ pc = "outer"
    /\ IsLast(i, Block)
    /\ pc' = "drain"
    /\ UNCHANGED <<source, code, bb, i, j, worklist, CSELdElim>>

\* R repeats L: a non-volatile load of the same address and type.
Repeats_VolatileToo(c, R, L) ==   \* slip: the isVolatile test is forgotten
    IsLoad(c[R]) /\ Address(c[L]) = Address(c[R]) /\ c[L].ty = c[R].ty

Repeats(c, R, L) ==
    /\ IsLoad(c[R])
    /\ ~c[R].vol
    /\ Address(c[L]) = Address(c[R])
    /\ c[L].ty = c[R].ty

\* Slips: break after the first replacement, the arguments of RAUW swapped.
ReplaceLoad_ThenBreak(R) ==
    /\ Repeats(code, R, i)
    /\ code' = ReplaceAllUsesWith(code, R, i)
    /\ worklist' = worklist \cup {R}
    /\ CSELdElim' = CSELdElim + 1
    /\ pc' = "outer"
    /\ UNCHANGED <<source, bb, i, j>>

ReplaceLoad_Swapped(R) ==
    /\ Repeats(code, R, i)
    /\ code' = ReplaceAllUsesWith(code, i, R)
    /\ worklist' = worklist \cup {i}
    /\ CSELdElim' = CSELdElim + 1
    /\ j' = R
    /\ UNCHANGED <<source, bb, pc, i>>

ReplaceLoad(R) ==
    /\ Repeats(code, R, i)
    /\ code' = ReplaceAllUsesWith(code, R, i)
    /\ worklist' = worklist \cup {R}
    /\ CSELdElim' = CSELdElim + 1
    /\ j' = R
    /\ UNCHANGED <<source, bb, pc, i>>

\* break: what follows a store is not compared with L.
StopAtStore(R) ==
    /\ IsStore(code[R])
    /\ pc' = "outer"
    /\ UNCHANGED <<source, code, bb, i, j, worklist, CSELdElim>>

\* Slip: a volatile load taken for a store.
PassOver_StopsAtVolatile(R) ==
    /\ ~Repeats(code, R, i)
    /\ ~IsStore(code[R])
    /\ j' = R
    /\ pc' = IF code[R].vol THEN "outer" ELSE pc
    /\ UNCHANGED <<source, code, bb, i, worklist, CSELdElim>>

\* Any other instruction is passed over, calls included.
PassOver(R) ==
    /\ ~Repeats(code, R, i)
    /\ ~IsStore(code[R])
    /\ j' = R
    /\ UNCHANGED <<source, code, bb, pc, i, worklist, CSELdElim>>

Compare ==
    /\ pc = "inner"
    /\ \E R \in Block : IsNext(R, j, Block)
                        /\ (ReplaceLoad(R) \/ StopAtStore(R) \/ PassOver(R))

InnerEnd ==
    /\ pc = "inner"
    /\ IsLast(j, Block)
    /\ pc' = "outer"
    /\ UNCHANGED <<source, code, bb, i, j, worklist, CSELdElim>>

\* begin() of a set of pointers: any member.
EraseQueued ==
    /\ pc = "drain"
    /\ \E w \in worklist :
        /\ worklist' = worklist \ {w}
        /\ code' = Erase(code, w)
    /\ UNCHANGED <<source, bb, pc, i, j, CSELdElim>>

NextBlock ==
    /\ pc = "drain"
    /\ worklist = {}
    /\ bb' = bb + 1
    /\ pc' = IF bb = NumBlocks THEN "done" ELSE "outer"
    /\ i' = 0
    /\ j' = 0
    /\ UNCHANGED <<source, code, worklist, CSELdElim>>

Next == Visit \/ BlockEnd \/ Compare \/ InnerEnd \/ EraseQueued \/ NextBlock

Spec == Init /\ [][Next]_vars

-----------------------------------------------------------------------------
(* Properties                                                               *)

(* Types; nothing attached has an erased operand, and what is queued belongs *)
(* to the block at hand.                                                     *)
TypeOK ==
    /\ WellFormed(code)
    /\ DOMAIN code \subseteq DOMAIN source
    /\ pc \in {"outer", "inner", "drain", "done"}
    /\ bb \in 1..NumBlocks + 1
    /\ i \in Nat /\ j \in Nat
    /\ worklist \subseteq Block
    /\ CSELdElim \in Nat

(* The drain erases without a test: everything queued must have lost its    *)
(* uses for good, although a queued load may itself be an L later on and    *)
(* have the uses of another load moved to it.                               *)
QueuedUnused == \A w \in worklist : Unused(code, w)

(* Moving uses from a load to an earlier one keeps the SSA rule.            *)
DominanceKept == DefsBeforeUses(code, SDom)

NoStoreBetween(c, L, R) ==
    \A k \in DOMAIN c : L < k /\ k < R /\ c[k].bb = c[L].bb => ~IsStore(c[k])

(* When the pass returns no block has a load that repeats an earlier load   *)
(* with no store between, those that only became equal along the way too    *)
(* (in a finished block that can still happen if its dominator comes later). *)
NoRedundantLoad ==
    LayoutFollows(SDom) /\ pc = "done" =>
        \A L, R \in DOMAIN code :
            /\ L < R
            /\ code[L].bb = code[R].bb
            /\ IsLoad(code[L])
            /\ Repeats(code, R, L)
            => ~NoStoreBetween(code, L, R)

(* No erased load escapes the counter.                                      *)
CountCoversErased ==
    pc = "done" =>
        CSELdElim >= Cardinality(DOMAIN source) - Cardinality(DOMAIN code)

\* The search for repeated loads goes on past calls, which may write.
NoCalls(c) == \A n \in DOMAIN c : c[n].op # "call"

(* The comparison of each program's output with its reference output, the   *)
(* `compare' target of the benchmarks: what is seen does not change.  This  *)
(* can be said of modules without calls only: the search for repeated loads *)
(* goes on past a call, which may have written the address.                 *)
MeaningKept ==
    pc = "done" /\ NoCalls(source) => SameMeaning(SDom, [Leaf -> Bit], code, source)

=============================================================================
