--------------------------------- MODULE IR ---------------------------------
(****************************************************************************)
(* The view of an LLVM module that the passes of simple/p3/C++ share.       *)
(*                                                                          *)
(* A module is a function `code' whose domain is the set of instructions    *)
(* that are still attached to a basic block; an instruction is identified   *)
(* by its position in layout order (function by function, block by block),  *)
(* so that std::next(i) is the next larger member of the same block.        *)
(* Leaf values are what isa<Instruction> rejects: arguments, constants,     *)
(* globals.  What LLVM itself does (use lists, replaceAllUsesWith,          *)
(* eraseFromParent) is modelled by its effect on `code'.                    *)
(****************************************************************************)
EXTENDS Naturals, Sequences, FiniteSets, Functions

CONSTANTS
    Inst,      \* positions an instruction may have
    Leaf       \* operands that are not instructions

ASSUME InstAssumption == Inst \subseteq Nat \ {0} /\ Inst \cap Leaf = {}

Value == Inst \cup Leaf

(* One representative of every class of opcode that the switches of CSE.cpp *)
(* tell apart: "add" stands for every arithmetic, cast, GEP, select and     *)
(* vector opcode, "extract" for ExtractValue and InsertValue, "br" for the  *)
(* terminators.                                                             *)
Opcode == {"add", "icmp", "phi", "fcmp", "extract", "alloca",
           "load", "store", "call", "br"}

(* `attr' is what an instruction carries besides its opcode, type and       *)
(* operands: an ICmp predicate, the incoming blocks of a PHI, nsw flags.    *)
(* A load's operand is <<address>>, a store's are <<value, address>>.       *)
Instruction ==
    [op : Opcode, vol : BOOLEAN, ty : STRING, attr : STRING,
     fn : Nat, bb : Nat, args : Seq(Value)]

\* Stores and terminators have no result.
YieldsValue(I) == I.op \notin {"store", "br"}

(* A module the verifier accepts, as far as the passes depend on it: an     *)
(* instruction used as an operand has a result and is attached, to the same *)
(* function.                                                                *)
WellFormed(c) ==
    /\ DOMAIN c \subseteq Inst
    /\ IsFiniteSet(DOMAIN c)
    /\ c \in [DOMAIN c -> Instruction]
    /\ \A m, n \in DOMAIN c : c[m].bb = c[n].bb => c[m].fn = c[n].fn
    /\ \A i \in DOMAIN c :
        /\ c[i].vol => c[i].op \in {"load", "store"}
        /\ \A o \in Range(c[i].args) \cap Inst :
              o \in DOMAIN c /\ c[o].fn = c[i].fn /\ YieldsValue(c[o])

-----------------------------------------------------------------------------
(* Use lists and the three mutations, as the LLVM library performs them.    *)

OperandInsts(c, i) == Range(c[i].args) \cap Inst

Users(c, v) == {u \in DOMAIN c : v \in Range(c[u].args)}

Unused(c, i) == Users(c, i) = {}

\* i->eraseFromParent()
Erase(c, i) == Restrict(c, DOMAIN c \ {i})

\* Operands s with v in every place of r.
Substituted(s, r, v) == [n \in DOMAIN s |-> IF s[n] = r THEN v ELSE s[n]]

\* r->replaceAllUsesWith(v)
ReplaceAllUsesWith(c, r, v) ==
    [k \in DOMAIN c |-> [c[k] EXCEPT !.args = Substituted(@, r, v)]]

\* n is what std::next(p) yields among the positions S; none if p is the last
IsNext(n, p, S) == n \in S /\ n > p /\ \A k \in S : k > p => n <= k

IsLast(p, S) == \A k \in S : k <= p

-----------------------------------------------------------------------------
(* The blocks, and the SSA rule: an operand is defined before its user, in   *)
(* the same block or in one that strictly dominates the user's (sdom), the   *)
(* operands of phis excepted.                                                *)
InstsOfBlock(c, b) == {i \in DOMAIN c : c[i].bb = b}

Precedes(c, o, i, sdom) ==
    (c[o].bb = c[i].bb /\ o < i) \/ <<c[o].bb, c[i].bb>> \in sdom

DefsBeforeUses(c, sdom) ==
    \A i \in DOMAIN c : c[i].op # "phi" =>
        \A o \in OperandInsts(c, i) : Precedes(c, o, i, sdom)

\* Strict dominance of reachable blocks is a strict partial order.
StrictOrder(sdom) ==
    /\ \A e \in sdom : e[1] # e[2]
    /\ \A e, f \in sdom : e[2] = f[1] => <<e[1], f[2]>> \in sdom

\* A block is laid out after the blocks that dominate it.  A verified module
\* need not be, what clang and the compilers of p2 emit is.
LayoutFollows(sdom) == \A e \in sdom : e[1] < e[2]

IsLoad(I) == I.op = "load"
IsStore(I) == I.op = "store"

\* The operand order of LLVM: load <<address>>, store <<value, address>>.
Address(I) == IF IsStore(I) THEN I.args[2] ELSE I.args[1]

\* Loads and stores have their operands.
MemoryShaped(c) ==
    \A i \in DOMAIN c : /\ IsLoad(c[i]) => Len(c[i].args) = 1
                        /\ IsStore(c[i]) => Len(c[i].args) = 2

-----------------------------------------------------------------------------
(* The three classification tables of CSE.cpp.                              *)

RemovableOp == {"add", "icmp", "phi", "fcmp", "extract", "alloca"}

\* The opcode half of isDead: what may go once nothing uses it.
Removable(I) == I.op \in RemovableOp \/ (I.op = "load" /\ ~I.vol)

\* Slip of isDead: the load case loses its volatile test.
isDead_VolatileIgnored(c, i) ==
    c[i].op \in RemovableOp \cup {"load"} /\ Unused(c, i)

isDead(c, i) == Removable(c[i]) /\ Unused(c, i)

(* What a use list alone can justify keeping: a set of instructions each of  *)
(* which may not be removed or has a user inside the set.  The union of all  *)
(* of them is what every order of erasing unused instructions must leave.    *)
Supported(c, S) == \A i \in S : Removable(c[i]) => Users(c, i) \cap S # {}

Survivors(c) == UNION {S \in SUBSET DOMAIN c : Supported(c, S)}

(* What the program can be seen to do, and the instructions it depends on:   *)
(* the least set holding the roots and closed under operands.                *)
Observable(I) == I.op \in {"store", "call", "br"} \/ I.vol

ClosedUnderOperands(c, S) == \A i \in S : OperandInsts(c, i) \subseteq S

Needed(c) ==
    {i \in DOMAIN c :
        \A S \in SUBSET DOMAIN c :
            /\ {r \in DOMAIN c : Observable(c[r])} \subseteq S
            /\ ClosedUnderOperands(c, S)
            => i \in S}

cse_candidate(I) == I.op \in {"add", "icmp", "phi"}

has_sideeffect(I) == I.op \notin {"add", "icmp", "phi", "extract"}

=============================================================================
