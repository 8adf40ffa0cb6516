----------------------------- MODULE SymbolTable -----------------------------
(****************************************************************************)
(* The symbol table of the C-- compiler (simple/p2/C++/symbol.cpp) and the  *)
(* productions of cmm.y that drive it: functions, compound statements and   *)
(* declarations, in any order the grammar admits.                           *)
(*                                                                          *)
(* The table is a linked list of scopes under `head', each with a hash of   *)
(* names.  HASH_ADD puts a second entry of a name before the first, so a    *)
(* scope is a function from its names to the value added last.  (uthash may *)
(* reverse that order when it expands a bucket of ten entries: scopes here  *)
(* are smaller.)  A value is the alloca that a declaration has made, named  *)
(* by its function and its number in it.                                    *)
(****************************************************************************)
EXTENDS Naturals, Sequences, FiniteSets

CONSTANTS
    Name,          \* identifiers
    NoValue,       \* NULL
    MaxFunctions,  \* bounds of this instance: functions of a file,
    MaxAllocas,    \*   declarations of a function, parameters included,
    MaxDepth       \*   compound statements open at once

ASSUME BoundsAssumption ==
    /\ MaxFunctions \in Nat /\ MaxAllocas \in Nat /\ MaxDepth \in Nat
    /\ NoValue \notin (1..MaxFunctions) \X (1..MaxAllocas)

Value == (1..MaxFunctions) \X (1..MaxAllocas)

VARIABLES
    pc,        \* where the parser stands: "top" between external declarations,
               \* "header" and "footer" around the body of a function, "block"
               \* inside one, "accepted", "rejected" (syntax error) or "fault"
    open,      \* for each open compound statement whether declarations may follow
    scopes,    \* the list under head, head last
    fun,       \* functions built so far; Fun is the last of them
    allocas,   \* number of allocas of Fun
    made,      \* the allocas of the module M
    builder    \* whether Builder has been set

vars == <<pc, open, scopes, fun, allocas, made, builder>>

Scope == UNION {[S -> Value] : S \in SUBSET Name}

Init ==
    /\ pc = "top"
    /\ open = <<>>
    /\ scopes = <<>>
    /\ fun = 0
    /\ allocas = 0
    /\ made = {}
    /\ builder = FALSE

-----------------------------------------------------------------------------
(* symbol.cpp *)

EmptyScope == [n \in {} |-> NoValue]

push_scope(s) == Append(scopes, s)

pop_scope == SubSeq(scopes, 1, Len(scopes) - 1)

Bound(s, n, v) == [m \in DOMAIN s \cup {n} |-> IF m = n THEN v ELSE s[m]]

\* symbol_insert: outside all scopes it does nothing.
insert(n, v) ==
    IF scopes = <<>> THEN scopes
    ELSE [scopes EXCEPT ![Len(scopes)] = Bound(@, n, v)]

\* Slip: lower scopes are not searched.
find_HeadOnly(s, n, k) ==
    IF k > 0 /\ n \in DOMAIN s[k] THEN s[k][n] ELSE NoValue

\* symbol_find(n) when k is the head of the list s: the innermost scope that
\* has the name; without one, M->getNamedGlobal, and cmm.y makes no global
\* variables.
find(s, n, k) ==
    IF \E l \in 1..k : n \in DOMAIN s[l]
    THEN s[CHOOSE l \in 1..k : /\ n \in DOMAIN s[l]
                               /\ \A m \in l + 1..k : n \notin DOMAIN s[m]][n]
    ELSE NoValue

-----------------------------------------------------------------------------
(* cmm.y *)

\* The parameters bound by BuildFunction, in order: of two with one name the
\* second is found.
ParameterScope(f, params) ==
    [n \in {params[k] : k \in DOMAIN params} |->
        <<f, CHOOSE k \in DOMAIN params :
                 params[k] = n /\ \A l \in DOMAIN params : params[l] = n => l <= k>>]

\* The mid-rule action of function_definition: a scope for the parameters, and
\* BuildFunction: Fun, Builder, an alloca and a symbol for each parameter.
FunctionHeader(params) ==
    /\ pc = "top"
    /\ fun < MaxFunctions /\ Len(params) <= MaxAllocas
    /\ pc' = "header"
    /\ fun' = fun + 1
    /\ allocas' = Len(params)
    /\ made' = made \cup {<<fun + 1, k>> : k \in DOMAIN params}
    /\ builder' = TRUE
    /\ scopes' = push_scope(ParameterScope(fun + 1, params))
    /\ UNCHANGED open

\* LBRACE of a function's body, or of a statement in another block.
LBrace ==
    /\ pc \in {"header", "block"}
    /\ Len(open) < MaxDepth
    /\ pc' = "block"
    /\ open' = Append([k \in DOMAIN open |-> FALSE], TRUE)
    /\ scopes' = push_scope(EmptyScope)
    /\ UNCHANGED <<fun, allocas, made, builder>>

\* Declarations come before the statements of a block.
LocalDeclaration(n) ==
    /\ pc = "block"
    /\ open[Len(open)]
    /\ allocas < MaxAllocas
    /\ allocas' = allocas + 1
    /\ made' = made \cup {<<fun, allocas + 1>>}
    /\ scopes' = insert(n, <<fun, allocas + 1>>)
    /\ UNCHANGED <<pc, open, fun, builder>>

RBrace_PopsBoth ==   \* slip: the body's brace ends the parameters' scope too
    /\ pc = "block"
    /\ pc' = IF Len(open) = 1 THEN "footer" ELSE "block"
    /\ open' = SubSeq(open, 1, Len(open) - 1)
    /\ scopes' = IF Len(open) = 1 THEN <<>> ELSE pop_scope
    /\ UNCHANGED <<fun, allocas, made, builder>>

RBrace ==
    /\ pc = "block"
    /\ pc' = IF Len(open) = 1 THEN "footer" ELSE "block"
    /\ open' = SubSeq(open, 1, Len(open) - 1)
    /\ scopes' = pop_scope
    /\ UNCHANGED <<fun, allocas, made, builder>>

FunctionEnd_ScopeStays ==   \* slip: the parameters outlive their function
    /\ pc = "footer"
    /\ pc' = "top"
    /\ UNCHANGED <<open, scopes, fun, allocas, made, builder>>

\* The action at the end of function_definition.
FunctionEnd ==
    /\ pc = "footer"
    /\ pc' = "top"
    /\ scopes' = pop_scope
    /\ UNCHANGED <<open, fun, allocas, made, builder>>

\* A global declaration records nothing (one without an initialiser changes no
\* state and is no action here), but its constants are made by Builder, a null
\* pointer until the first function.
InitializedGlobal ==
    /\ pc = "top"
    /\ pc' = IF builder THEN "top" ELSE "fault"
    /\ UNCHANGED <<open, scopes, fun, allocas, made, builder>>

\* MYEOF or the end of the input after an external declaration.
Accept ==
    /\ pc = "top"
    /\ pc' = "accepted"
    /\ UNCHANGED <<open, scopes, fun, allocas, made, builder>>

\* yyerror, no error production: yyparse returns 1 from wherever it is.
SyntaxError ==
    /\ pc \in {"top", "header", "block", "footer"}
    /\ pc' = "rejected"
    /\ UNCHANGED <<open, scopes, fun, allocas, made, builder>>

Next ==
    \/ \E params \in UNION {[1..k -> Name] : k \in 0..MaxAllocas} : FunctionHeader(params)
    \/ LBrace
    \/ \E n \in Name : LocalDeclaration(n)
    \/ RBrace
    \/ FunctionEnd
    \/ InitializedGlobal
    \/ Accept
    \/ SyntaxError

Spec == Init /\ [][Next]_vars

-----------------------------------------------------------------------------
(* Properties                                                               *)

(* Types; where a production pops there is a scope to pop.                   *)
TypeOK ==
    /\ pc \in {"top", "header", "block", "footer", "accepted", "rejected", "fault"}
    /\ open \in Seq(BOOLEAN)
    /\ scopes \in Seq(Scope)
    /\ fun \in 0..MaxFunctions /\ allocas \in 0..MaxAllocas
    /\ made \subseteq Value
    /\ builder \in BOOLEAN
    /\ pc = "block" => open # <<>>
    /\ pc \in {"header", "block", "footer"} => scopes # <<>>

(* Whatever a name finds is an alloca of the function being built, never of *)
(* one before it (an instruction that uses it would be malformed), and at    *)
(* the top level no name finds an alloca.                                    *)
FindsOwnAlloca ==
    \A n \in Name :
        LET v == find(scopes, n, Len(scopes))
        IN  v # NoValue => /\ v[1] = fun /\ v[2] \in 1..allocas
                           /\ pc \notin {"top", "accepted", "fault"}

(* The chain of scopes implements lexical scoping: a declaration changes    *)
(* what its name finds and nothing else, an inner one hides an outer one,   *)
(* and after a block every name finds what it found before it.              *)
Lexical == INSTANCE Scoping WITH
    meaning <- [k \in 1..Len(scopes) + 1 |-> [n \in Name |-> find(scopes, n, k - 1)]],
    taken <- made

ImplementsScoping == Lexical!Spec

=============================================================================
