----------------------------- MODULE P1Compiler -----------------------------
(****************************************************************************)
(* The compiler of simple/p1/C++: the actions of p1.y call LLVM's builder   *)
(* while the parser reads.  What an expression has been translated to is an *)
(* expr_wrapper: its value, and if it may be assigned to the address that   *)
(* was loaded from.                                                         *)
(****************************************************************************)
EXTENDS P1Forms

CONSTANTS
    Programs,          \* files, as the tokens the scanner makes of them
    W                  \* the integers' size, 2^32 in the code

ASSUME WidthAssumption == W \in Nat \ {0}

VARIABLES
    source,            \* the file
    at,                \* the next token
    forms,             \* the parser's stack, a form for the tokens since its "("
    code,              \* the instructions built so far, of Func's only block
    idLookup,
    pc                 \* "parsing", "written" or "rejected"

vars == <<source, at, forms, code, idLookup, pc>>

-----------------------------------------------------------------------------
(* LLVM: a value is a constant, the result of an instruction or an argument *)
(* of the function; an instruction is its opcode and operands.              *)

Const(n) == [kind |-> "int", n |-> n]
Result(k) == [kind |-> "inst", n |-> k]
Argument(k) == [kind |-> "arg", n |-> k]
NULL == [kind |-> "null", n |-> 0]

\* The value of the instruction that has just been appended.
Newest(c) == Result(Len(c))

Signed(n) == IF 2 * n >= W THEN n - W ELSE n

\* What has been computed of operand o: an integer or an address <<array, index>>.
ValueOf(run, o) ==
    CASE o.kind = "int" -> o.n % W
      [] o.kind = "inst" -> run.vals[o.n]
      [] o.kind = "arg" -> IF o.n = 0 THEN run.size ELSE <<1, 0>>
      [] OTHER -> <<0, 0>>

Execute(run, ins) ==
    LET x == ValueOf(run, ins[2])
        y == ValueOf(run, ins[3])
        is(v) == [run EXCEPT !.vals = Append(@, v)]
        inside(p) == p[1] \in DOMAIN run.mem /\ p[2] + 1 \in DOMAIN run.mem[p[1]]
        op == ins[1]
    IN  CASE run.undef -> run
          [] op = "add" -> is((x + y) % W)
          [] op = "mul" -> is((x * y) % W)
          [] op = "neg" -> is((W - x) % W)
          [] op = "udiv" -> IF y = 0 THEN [run EXCEPT !.undef = TRUE] ELSE is(x \div y)
          [] op = "icmp ult" -> is(IF x < y THEN 1 ELSE 0)
          [] op = "icmp ugt" -> is(IF x > y THEN 1 ELSE 0)
          [] op = "select" -> is(IF x = 1 THEN y ELSE ValueOf(run, ins[4]))
          [] op = "alloca" ->
                [is(<<Len(run.mem) + 1, 0>>) EXCEPT !.mem = Append(@, [k \in 1..x |-> 0])]
          [] op = "gep" -> is(<<x[1], x[2] + Signed(y)>>)
          [] op = "load" ->
                IF inside(x) THEN is(run.mem[x[1]][x[2] + 1]) ELSE [run EXCEPT !.undef = TRUE]
          [] op = "store" ->
                IF inside(y) THEN [is(0) EXCEPT !.mem[y[1]][y[2] + 1] = x]
                ELSE [run EXCEPT !.undef = TRUE]
          [] op = "ret" -> is(x)

\* A call of the code before anything of it has run.
Called(size, array) == [vals |-> <<>>, mem |-> <<array>>, size |-> size, undef |-> FALSE]

-----------------------------------------------------------------------------
(* setup, initialize and the rules of p1.y                                  *)

\* The code and the value while a list of arguments is gone through.
Acc(c, e) == [code |-> c, exp |-> e]
Built(c) == Acc(c, Newest(c))
Build(acc, op, x, y) == Built(Append(acc.code, <<op, x, y>>))

\* initialize: arg_size is a variable, arg_array the second argument itself.
Init ==
    /\ source \in Programs /\ at = 1 /\ forms = <<ProgramForm>>
    /\ code = <<<<"alloca", Const(1), NULL>>, <<"store", Argument(0), Result(1)>>>>
    /\ idLookup = [n \in {"arg_array", "arg_size"} |->
                      IF n = "arg_array" THEN Argument(1) ELSE Result(1)]
    /\ pc = "parsing"

top == Last(forms)
Parsing == pc = "parsing" /\ at <= Len(source)
Closing(op) == Parsing /\ source[at].tok = "RPAREN" /\ top.op = op /\ Complete(top)

\* A rule's end: $$, and the form is an argument of the one around it.
Give(acc, ptr) ==
    /\ forms' = With(Front(forms), [exp |-> acc.exp, ptr |-> ptr]) /\ code' = acc.code
    /\ at' = at + 1 /\ UNCHANGED <<source, pc>>

\* return 1: main writes nothing.
Fail == pc' = "rejected" /\ UNCHANGED <<source, at, forms, code, idLookup>>

Bind(id, v) == idLookup' = [n \in DOMAIN idLookup \cup {id} |-> IF n = id THEN v ELSE idLookup[n]]

Open ==
    /\ Parsing /\ Opens(source, at) /\ TakesForm(top)
    /\ forms' = Append(forms, NewForm(source, at))
    /\ at' = at + HeadLength(source[at + 1].tok)
    /\ UNCHANGED <<source, code, idLookup, pc>>

Number ==
    /\ Parsing /\ source[at].tok = "NUM" /\ TakesToken(top)
    /\ forms' = With(forms, [exp |-> Const(source[at].num), ptr |-> NULL]) /\ at' = at + 1
    /\ UNCHANGED <<source, code, idLookup, pc>>

Identifier ==
    LET id == source[at].id
        acc == Build(Acc(code, NULL), "load", idLookup[id], NULL)
    IN  /\ Parsing /\ source[at].tok = "IDENT" /\ TakesToken(top)
        /\ IF id \notin DOMAIN idLookup THEN Fail
           ELSE /\ forms' = With(forms, [exp |-> acc.exp, ptr |-> NULL])
                /\ code' = acc.code /\ at' = at + 1
                /\ UNCHANGED <<source, idLookup, pc>>

Minus ==
    /\ Closing("MINUS") /\ UNCHANGED idLookup
    /\ Give(Build(Acc(code, NULL), "neg", top.args[1].exp, NULL), NULL)

Plus ==
    /\ Closing("PLUS") /\ UNCHANGED idLookup
    /\ Give(FoldLeft(LAMBDA acc, v : Build(acc, "add", v.exp, acc.exp),
                     Acc(code, Const(0)), top.args), NULL)

Multiply ==
    /\ Closing("MULTIPLY") /\ UNCHANGED idLookup
    /\ Give(FoldLeft(LAMBDA acc, v : Build(acc, "mul", v.exp, acc.exp),
                     Acc(code, Const(1)), top.args), NULL)

Divide_Swapped(acc, v) == Build(acc, "udiv", v.exp, acc.exp)   \* slip: as Plus and Multiply do

DivideBy(acc, v) == Build(acc, "udiv", acc.exp, v.exp)

\* Of one argument it is the argument, with its address.
Divide ==
    /\ Closing("DIVIDE") /\ UNCHANGED idLookup
    /\ IF Len(top.args) > 1
       THEN Give(FoldLeft(DivideBy, Acc(code, top.args[1].exp), Tail(top.args)), NULL)
       ELSE Give(Acc(code, top.args[1].exp), top.args[1].ptr)

\* MIN and MAX: a comparison and a select for each argument behind the first.
Select(cmp) ==
    LET pick(acc, v) ==
            LET c == Append(acc.code, <<cmp, v.exp, acc.exp>>)
            IN  Built(Append(c, <<"select", Newest(c), v.exp, acc.exp>>))
    IN  IF Len(top.args) = 1 THEN Give(Acc(code, top.args[1].exp), top.args[1].ptr)
        ELSE Give(FoldLeft(pick, Acc(code, top.args[1].exp), Tail(top.args)), NULL)

MinOf == Closing("MIN") /\ Select("icmp ult") /\ UNCHANGED idLookup
MaxOf == Closing("MAX") /\ Select("icmp ugt") /\ UNCHANGED idLookup

\* A variable gets its alloca at the first assignment.
Setq ==
    LET new == top.id \notin DOMAIN idLookup
        c == IF new THEN Append(code, <<"alloca", Const(1), NULL>>) ELSE code
        var == IF new THEN Newest(c) ELSE idLookup[top.id]
    IN  /\ Closing("SETQ")
        /\ IF new THEN Bind(top.id, var) ELSE UNCHANGED idLookup
        /\ Give(Acc(Append(c, <<"store", top.args[1].exp, var>>), top.args[1].exp), NULL)

\* $$ = $4, with the address of what has been assigned.
Setf ==
    /\ Closing("SETF")
    /\ LET place == top.args[1]
           v == top.args[2]
       IN  IF place.ptr = NULL THEN Fail
           ELSE Give(Acc(Append(code, <<"store", v.exp, place.ptr>>), v.exp), v.ptr) /\ UNCHANGED idLookup

Aref ==
    LET c == Append(code, <<"gep", idLookup[top.id], top.args[1].exp>>)
    IN  /\ Closing("AREF")
        /\ IF top.id \notin DOMAIN idLookup THEN Fail
           ELSE Give(Built(Append(c, <<"load", Newest(c), NULL>>)), Newest(c)) /\ UNCHANGED idLookup

\* An alloca, and a store for each element.
MakeArray ==
    LET c == Append(code, <<"alloca", Const(top.num), NULL>>)
        fill(d, k) ==
            LET g == Append(d, <<"gep", Newest(c), Const(k)>>)
            IN  Append(g, <<"store", top.args[1].exp, Newest(g)>>)
    IN  /\ Closing("MAKEARRAY")
        /\ Bind(top.id, Newest(c))
        /\ Give(Acc(FoldLeft(fill, c, [k \in 1..top.num |-> k - 1]), top.args[1].exp),
                top.args[1].ptr)

\* program: exprlist.  What is behind it is not read; main writes the module to the file.
Return ==
    /\ pc = "parsing" /\ ProgramEnds(forms, source, at)
    /\ code' = Append(code, <<"ret", top.args[1].exp, NULL>>)
    /\ pc' = "written"
    /\ UNCHANGED <<source, at, forms, idLookup>>

\* yyerror, and main writes nothing.
SyntaxError == pc = "parsing" /\ NoRule(forms, source, at) /\ Fail

Next ==
    \/ Open \/ Number \/ Identifier
    \/ Minus \/ Plus \/ Multiply \/ Divide \/ MinOf \/ MaxOf
    \/ Setq \/ Setf \/ Aref \/ MakeArray
    \/ Return \/ SyntaxError

Spec == Init /\ [][Next]_vars

=============================================================================
