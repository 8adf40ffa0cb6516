------------------------------ MODULE Pipeline ------------------------------
(****************************************************************************)
(* LLVMCommonSubexpressionElimination_Cpp of simple/p3/C++/CSE.cpp: the     *)
(* five passes, one after another, on one module.  Each pass starts afresh  *)
(* with its own cursors and worklist; the module and the counters, which    *)
(* are globals, are what one pass leaves to the next.                       *)
(****************************************************************************)
EXTENDS Semantics

CONSTANTS
    Programs,  \* the modules the compiler may be given
    NumFns,    \* functions are numbered 1..NumFns in layout order
    NumBlocks, \* blocks are numbered 1..NumBlocks in layout order
    SDom,      \* strict dominance between their blocks
    Zero       \* the constant 0, a leaf

(* What every pass requires of a module, and has to leave to the next one.  *)
Accepted(c) ==
    /\ WellFormed(c) /\ MemoryShaped(c) /\ DefsBeforeUses(c, SDom)
    /\ \A n \in DOMAIN c : c[n].fn \in 1..NumFns /\ c[n].bb \in 1..NumBlocks

ASSUME ProgramsAssumption ==
    /\ NumFns \in Nat /\ NumBlocks \in Nat
    /\ StrictOrder(SDom)
    /\ Zero \in Leaf
    /\ \A c \in Programs : Accepted(c)

VARIABLES
    source,    \* the module as the front end gave it (never assigned by the code)
    given,     \* the module as the pass at hand got it (never assigned by the code)
    code,
    pass,      \* the pass that runs, "returned" after the last
    pc, bb, i, j, worklist,       \* the locals of the pass (dce: fn is bb, pos is i)
    CSEDead, CSESimplify, CSEElim, CSELdElim, CSELdStElim, CSERStElim

locals == <<pc, bb, i, j, worklist>>
counters == <<CSEDead, CSESimplify, CSEElim, CSELdElim, CSELdStElim, CSERStElim>>
vars == <<source, given, code, pass, locals, counters>>

Dce == INSTANCE DCE WITH source <- given, fn <- bb, pos <- i
Simp == INSTANCE Simplify WITH source <- given
Basic == INSTANCE BasicCSE WITH source <- given
Loads == INSTANCE LoadCSE WITH source <- given
Stores == INSTANCE StoreCSE WITH source <- given

\* Where each pass begins.
Entry == [dce |-> IF NumFns = 0 THEN "done" ELSE "scan",
          simplify |-> IF NumBlocks = 0 THEN "done" ELSE "visit",
          cse |-> IF NumBlocks = 0 THEN "done" ELSE "outer",
          load_cse |-> IF NumBlocks = 0 THEN "done" ELSE "outer",
          store_cse |-> IF NumBlocks = 0 THEN "done" ELSE "outer"]

Init ==
    /\ source \in Programs
    /\ given = source
    /\ code = source
    /\ pass = "dce"
    /\ pc = Entry["dce"]
    /\ bb = 1 /\ i = 0 /\ j = 0 /\ worklist = {}
    /\ CSEDead = 0 /\ CSESimplify = 0 /\ CSEElim = 0
    /\ CSELdElim = 0 /\ CSELdStElim = 0 /\ CSERStElim = 0

\* A step of one pass; the locals and counters it does not have stay.
RunDce ==
    /\ pass = "dce" /\ Dce!Next
    /\ UNCHANGED <<source, pass, j, CSESimplify, CSEElim, CSELdElim, CSELdStElim, CSERStElim>>

RunSimplify ==
    /\ pass = "simplify" /\ Simp!Next
    /\ UNCHANGED <<source, pass, j, worklist,
                   CSEDead, CSEElim, CSELdElim, CSELdStElim, CSERStElim>>

RunCse ==
    /\ pass = "cse" /\ Basic!Next
    /\ UNCHANGED <<source, pass, worklist,
                   CSEDead, CSESimplify, CSELdElim, CSELdStElim, CSERStElim>>

RunLoadCse ==
    /\ pass = "load_cse" /\ Loads!Next
    /\ UNCHANGED <<source, pass, CSEDead, CSESimplify, CSEElim, CSELdStElim, CSERStElim>>

RunStoreCse ==
    /\ pass = "store_cse" /\ Stores!Next
    /\ UNCHANGED <<source, pass, CSEDead, CSESimplify, CSEElim, CSELdElim>>

\* Slip: load_cse called before cse.
Following_LoadsFirst ==
    [dce |-> "simplify", simplify |-> "load_cse", load_cse |-> "cse", cse |-> "store_cse"]

Following == [dce |-> "simplify", simplify |-> "cse", cse |-> "load_cse",
              load_cse |-> "store_cse"]

\* The pass has returned: call the next one.
Call ==
    /\ pc = "done" /\ pass \in DOMAIN Following
    /\ pass' = Following[pass]
    /\ pc' = Entry[pass']
    /\ given' = code
    /\ bb' = 1 /\ i' = 0 /\ j' = 0 /\ worklist' = {}
    /\ UNCHANGED <<source, code, counters>>

\* store_cse has returned: print the counters and return.
Report ==
    /\ pc = "done" /\ pass = "store_cse"
    /\ pass' = "returned"
    /\ UNCHANGED <<source, given, code, locals, counters>>

Next == RunDce \/ RunSimplify \/ RunCse \/ RunLoadCse \/ RunStoreCse \/ Call \/ Report

Spec == Init /\ [][Next]_vars

\* Sequential code: it keeps taking steps.
FairSpec == Spec /\ WF_vars(Next)

-----------------------------------------------------------------------------
(* Properties                                                               *)

(* What one pass leaves is what the next one requires, and what the verifier *)
(* would accept: between any two steps of any pass nothing attached has an   *)
(* erased operand, and the SSA rule holds.                                  *)
DominanceKept == WellFormed(code) /\ MemoryShaped(code) /\ DefsBeforeUses(code, SDom)

(* No pass and no combination of passes erases a call, a branch or a        *)
(* volatile load, and each store that goes is counted in CSE_RSt: of what   *)
(* dce spares nothing becomes removable by the rewriting of later passes.   *)
ObservableKept ==
    LET gone == {r \in DOMAIN source : Observable(source[r])} \ DOMAIN code
    IN  /\ \A r \in gone : IsStore(source[r])
        /\ pass = "returned" => Cardinality(gone) = CSERStElim

SameAddress(c, L, R) ==
    LET x == Address(c[L])
        y == Address(c[R])
    IN  x = y \/ /\ {x, y} \subseteq DOMAIN c
                 /\ c[x].bb = c[y].bb
                 /\ cse_candidate(c[x]) /\ c[x].op # "phi"
                 /\ Basic!Matches(c, x, y)

(* The order of the calls: an address that a block computes twice with equal *)
(* operands is loaded once, up to the next store, because the computations   *)
(* have become one value before load_cse compares addresses as values.       *)
EqualAddressesLoadedOnce ==
    LayoutFollows(SDom) /\ pass = "returned" =>
        \A L, R \in DOMAIN code :
            /\ L < R /\ source[L].bb = source[R].bb
            /\ IsLoad(source[L]) /\ IsLoad(source[R])
            /\ source[L].ty = source[R].ty
            /\ SameAddress(source, L, R)
            /\ Loads!NoStoreBetween(source, L, R)
            => source[R].vol

\* The modules of which that can be said: what the passes do not compare or test
\* does not occur.
Faithful(c) ==
    Basic!MatchesTell(c) /\ Loads!NoCalls(c) /\ Stores!NoVolatileStores(c)

(* The comparison of each program's output with its reference output, the   *)
(* `compare' target of the benchmarks: what is seen does not change over    *)
(* the five passes.                                                         *)
MeaningKept ==
    pass = "returned" /\ Faithful(source)
        => SameMeaning(SDom, {f \in [Leaf -> Bit] : f[Zero] = 0}, code, source)

(* The pipeline returns.                                                    *)
Terminates == <>(pass = "returned")

=============================================================================
