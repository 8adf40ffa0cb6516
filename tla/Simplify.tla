------------------------------ MODULE Simplify ------------------------------
(****************************************************************************)
(* simplify of simple/p3/C++/CSE.cpp: every instruction, once, in layout    *)
(* order, is offered to LLVM's SimplifyInstruction; if the library returns  *)
(* a value the uses of the instruction move to it.  Nothing is erased.      *)
(****************************************************************************)
EXTENDS IR

CONSTANTS
    Programs,  \* the modules the pass may be given
    NumBlocks, \* blocks are numbered 1..NumBlocks in layout order
    SDom,      \* strict dominance between their blocks
    Zero       \* the constant 0, a leaf

ProgramsAssumption ==
    /\ NumBlocks \in Nat
    /\ StrictOrder(SDom)
    /\ Zero \in Leaf
    /\ \A c \in Programs :
          /\ WellFormed(c) /\ DefsBeforeUses(c, SDom) /\ MemoryShaped(c)
          /\ \A n \in DOMAIN c : c[n].bb \in 1..NumBlocks

VARIABLES
    source,    \* the module as it was given (never assigned by the code)
    code,
    bb,        \* the block of the two outer loops
    pc,        \* "visit" | "done"
    i,         \* the instruction last visited, 0 before the first
    CSESimplify

vars == <<source, code, bb, pc, i, CSESimplify>>

Block == InstsOfBlock(code, bb)

Begin ==
    /\ code = source
    /\ bb = 1
    /\ pc = IF NumBlocks = 0 THEN "done" ELSE "visit"
    /\ i = 0
    /\ CSESimplify = 0

Init == source \in Programs /\ Begin

\* What SimplifyInstruction may return, {} for NULL: x + 0 and 0 + x are x, a
\* strict comparison of a value with itself is false, and a phi of one value,
\* itself apart, is that value.  It never returns the instruction itself, and
\* only what dominates it: operands do, but a phi's need not.  The call has no
\* dominator tree to give, so that the library takes an instruction for a phi
\* only from the entry block; here from any that strictly dominates the phi's.
SimplifyInstruction(c, n) ==
    LET I == c[n]
        binary(op) == I.op = op /\ Len(I.args) = 2
    IN  CASE binary("add") /\ I.args[2] = Zero -> {I.args[1]} \ {n}
          [] binary("add") /\ I.args[1] = Zero -> {I.args[2]} \ {n}
          [] binary("icmp") /\ I.args[1] = I.args[2] -> {Zero}
          [] I.op = "phi" -> {v \in Value : /\ Range(I.args) \ {n} = {v}
                                            /\ v \in Inst => <<c[v].bb, c[n].bb>> \in SDom}
          [] OTHER -> {}

\* Slips: its first operand taken for the result, one instruction skipped.
MoveUses_FirstOperand(n) ==
    /\ SimplifyInstruction(code, n) # {}
    /\ code' = ReplaceAllUsesWith(code, n, code[n].args[1])
    /\ CSESimplify' = CSESimplify + 1
    /\ i' = n
    /\ UNCHANGED <<source, bb, pc>>

MoveUses_SkipsNext(n) ==
    /\ \E v \in SimplifyInstruction(code, n) : code' = ReplaceAllUsesWith(code, n, v)
    /\ CSESimplify' = CSESimplify + 1
    /\ i' = n + 1
    /\ UNCHANGED <<source, bb, pc>>

MoveUses(n) ==
    /\ \E v \in SimplifyInstruction(code, n) : code' = ReplaceAllUsesWith(code, n, v)
    /\ CSESimplify' = CSESimplify + 1
    /\ i' = n
    /\ UNCHANGED <<source, bb, pc>>

Keep(n) ==
    /\ SimplifyInstruction(code, n) = {}
    /\ i' = n
    /\ UNCHANGED <<source, code, bb, pc, CSESimplify>>

Visit ==
    /\ pc = "visit"
    /\ \E n \in Block : IsNext(n, i, Block) /\ (MoveUses(n) \/ Keep(n))

NextBlock ==
    /\ pc = "visit"
    /\ IsLast(i, Block)
    /\ bb' = bb + 1
    /\ pc' = IF bb = NumBlocks THEN "done" ELSE "visit"
    /\ i' = 0
    /\ UNCHANGED <<source, code, CSESimplify>>

Next == Visit \/ NextBlock

Spec == Init /\ [][Next]_vars

-----------------------------------------------------------------------------
(* Properties                                                               *)

(* One pass is enough, phis apart: when it returns nothing uses what the    *)
(* library would still simplify, also where a simplification has only been  *)
(* made possible by an earlier one.  (A phi is visited before the operands  *)
(* it takes from later in a loop; and, as for the other passes, a dominator *)
(* laid out after its block would be visited too late.)                     *)
NoSimplifiableUse ==
    LayoutFollows(SDom) /\ pc = "done" =>
        \A n \in DOMAIN code :
            code[n].op # "phi" /\ SimplifyInstruction(code, n) # {} => Unused(code, n)

=============================================================================
