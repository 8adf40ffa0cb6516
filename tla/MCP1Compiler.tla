---------------------------- MODULE MCP1Compiler ----------------------------
(****************************************************************************)
(* Programs of a declaration, an assignment and an expression, any of which *)
(* may assign to what others read; some that are no programs, and some that *)
(* go on behind their end.  Words of three bits.                            *)
(****************************************************************************)
EXTENDS P1Compiler

Tok(t) == [tok |-> t]
Num(n) == <<[tok |-> "NUM", num |-> n]>>
Id(x) == <<[tok |-> "IDENT", id |-> x]>>
Form(op, parts) == <<Tok("LPAREN"), Tok(op)>> \o FlattenSeq(parts) \o <<Tok("RPAREN")>>

At(x, e) == Form("AREF", <<Id(x), e>>)

Declarations ==
    {<<>>, Form("MAKEARRAY", <<Id("a"), Num(2), Num(3)>>), Form("SETQ", <<Id("a"), Num(5)>>),
     Form("MAKEARRAY", <<Id("a"), Num(0), Id("arg_size")>>)}

Assigned ==
    {Id("a"), At("a", Num(1)), At("arg_array", Form("MINUS", <<Num(1)>>)),
     Form("SETQ", <<Id("a"), Num(2)>>)}
Assignments ==
    {<<>>, Form("SETQ", <<Id("a"), Form("PLUS", <<Id("a"), Id("arg_size"), Id("a")>>)>>),
     Form("SETQ", <<Id("arg_array"), Id("arg_size")>>)}
    \cup {Form("SETF", <<Form(op, <<At(x, Num(1))>>), e>>) :
             op \in {"DIVIDE", "MIN", "PLUS"}, x \in {"a", "arg_array"}, e \in Assigned}
    \cup {Form("SETF", <<Form("SETF", <<At("arg_array", Num(0)), At("arg_array", e)>>), Num(6)>>) :
             e \in {Num(1), Id("arg_size")}}

Operands == {Num(3), Id("a"), At("arg_array", Num(1)), Form("SETQ", <<Id("a"), Num(7)>>)}
Expressions ==
    {Form(op, <<x, y, Id("a")>>) : op \in Lists, x \in Operands, y \in Operands \cup {Num(0)}}
    \cup {Form(op, <<e>>) : op \in Lists \cup {"MINUS"}, e \in Operands}

Broken ==
    {Num(1), Form("PLUS", <<>>), Form("MINUS", <<Num(1), Num(2)>>), Form("SETQ", <<Num(1)>>),
     Form("SETF", <<Num(1)>>), <<Tok("LPAREN"), Tok("MINUS")>> \o Num(1),
     <<Tok("RPAREN")>>, <<Tok("ERROR")>>, <<Tok("LPAREN")>>, <<>>}

MCPrograms ==
    {d \o s \o e : d \in Declarations, s \in Assignments, e \in Expressions}
    \cup {d \o b : d \in Declarations, b \in Broken}

MCInputs == {[size |-> 1, array |-> <<4, 6>>], [size |-> 2, array |-> <<0, 7>>]}

-----------------------------------------------------------------------------
(* A call of the code, brought up to date whenever instructions are built.  *)

VARIABLES
    input,             \* what the function is called with
    run                \* what has been computed

Calls == run' = FoldLeft(Execute, run, SubSeq(code', Len(code) + 1, Len(code')))

MCInit ==
    /\ Init /\ input \in MCInputs
    /\ run = FoldLeft(Execute, Called(input.size, input.array), code)

MCNext == Next /\ Calls /\ UNCHANGED input

MCSpec == MCInit /\ [][MCNext]_<<vars, input, run>>

Names == {"a", "arg_array", "arg_size"}

\* Once the code so far does something undefined, nothing is said of the rest.
L == INSTANCE Lisp WITH
    at <- IF run.undef THEN 0 ELSE at,
    forms <- IF run.undef THEN <<>> ELSE
        [k \in DOMAIN forms |-> [forms[k] EXCEPT !.args = [j \in DOMAIN @ |->
            [val |-> ValueOf(run, @[j].exp), place |-> ValueOf(run, @[j].ptr)]]]],
    mem <- IF run.undef THEN <<>> ELSE run.mem,
    env <- [n \in Names |->
        IF ~run.undef /\ n \in DOMAIN idLookup THEN ValueOf(run, idLookup[n])[1] ELSE 0],
    outcome <- CASE run.undef -> "undefined"
                 [] pc = "parsing" -> "running"
                 [] pc = "written" -> "returned"
                 [] OTHER -> pc,
    answer <- IF ~run.undef /\ pc = "written" THEN Last(run.vals) ELSE 0

(* However forms are nested and arguments assign to what other arguments    *)
(* read: the function that is written does what the program says.  A program *)
(* ends behind a form that is inside no other, at the end of the file or at  *)
(* the first token that is no "("; what is behind it is accepted unread.  It *)
(* is rejected exactly where, before it ends, it uses a name that has no     *)
(* value yet, assigns to what is no place, or is none of the grammar.        *)
ImplementsLisp == L!Init(MCPrograms, input.size, input.array) /\ [][L!Next]_(L!vars)

=============================================================================
