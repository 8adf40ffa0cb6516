-------------------------------- MODULE Lisp --------------------------------
(****************************************************************************)
(* What a program of p1 does, without a compiler: it is read once from left *)
(* to right, and each form is evaluated where it closes.  A variable names  *)
(* an array; a scalar is an array of one.  Arithmetic is unsigned, modulo   *)
(* W; indices are signed.                                                   *)
(****************************************************************************)
EXTENDS P1Forms, FiniteSetsExt

CONSTANTS Names, W

VARIABLES
    source, at,        \* the tokens, and where the reader is
    forms,             \* the forms that are open, the innermost last
    env,               \* the array of each name, 0 for none
    mem,               \* the arrays
    outcome,           \* "running", "returned", "rejected" or "undefined"
    answer             \* what the program returns

vars == <<source, at, forms, env, mem, outcome, answer>>

Signed(n) == IF 2 * n >= W THEN n - W ELSE n
Nowhere == <<0, 0>>
Valid(p) == p[1] \in DOMAIN mem /\ p[2] + 1 \in DOMAIN mem[p[1]]
Read(p) == mem[p[1]][p[2] + 1]
Written(p, n) == [mem EXCEPT ![p[1]][p[2] + 1] = n]

Pure(n) == [val |-> n, place |-> Nowhere]

top == Last(forms)
Arg(k) == top.args[k].val
Vals == {top.args[k].val : k \in DOMAIN top.args}
Running == outcome = "running" /\ at <= Len(source)
Closing(ops) == Running /\ source[at].tok = "RPAREN" /\ top.op \in ops /\ Complete(top)

\* The form closes with value v.
Give(v) == forms' = With(Front(forms), v) /\ at' = at + 1 /\ UNCHANGED <<source, outcome, answer>>

Undefined ==
    /\ outcome' = "undefined" /\ at' = 0 /\ forms' = <<>> /\ mem' = <<>>
    /\ env' = [n \in Names |-> 0] /\ answer' = 0 /\ UNCHANGED source

Reject == outcome' = "rejected" /\ UNCHANGED <<source, at, forms, env, mem, answer>>

Init(sources, size, array) ==
    /\ source \in sources /\ at = 1 /\ forms = <<ProgramForm>>
    /\ mem = <<array, <<size>>>>
    /\ env = [n \in Names |-> CASE n = "arg_array" -> 1 [] n = "arg_size" -> 2 [] OTHER -> 0]
    /\ outcome = "running" /\ answer = 0

Open ==
    /\ Running /\ Opens(source, at) /\ TakesForm(top)
    /\ forms' = Append(forms, NewForm(source, at))
    /\ at' = at + HeadLength(source[at + 1].tok)
    /\ UNCHANGED <<source, env, mem, outcome, answer>>

Number ==
    /\ Running /\ source[at].tok = "NUM" /\ TakesToken(top)
    /\ forms' = With(forms, Pure(source[at].num % W)) /\ at' = at + 1
    /\ UNCHANGED <<source, env, mem, outcome, answer>>

Variable ==
    /\ Running /\ source[at].tok = "IDENT" /\ TakesToken(top)
    /\ LET p == <<env[source[at].id], 0>>
       IN  IF p = Nowhere THEN Reject
           ELSE IF ~Valid(p) THEN Undefined
           ELSE /\ forms' = With(forms, Pure(Read(p))) /\ at' = at + 1
                /\ UNCHANGED <<source, env, mem, outcome, answer>>

Arithmetic ==
    /\ Closing({"MINUS", "PLUS", "MULTIPLY"})
    /\ Give(Pure(CASE top.op = "MINUS" -> (W - Arg(1)) % W
                   [] top.op = "PLUS" -> FoldLeft(LAMBDA n, v : n + v.val, 0, top.args) % W
                   [] top.op = "MULTIPLY" -> FoldLeft(LAMBDA n, v : n * v.val, 1, top.args) % W))
    /\ UNCHANGED <<env, mem>>

\* The first by all others, one after another.
Divide ==
    LET others == Tail(top.args)
    IN  /\ Closing({"DIVIDE"})
        /\ IF \E k \in DOMAIN others : others[k].val = 0 THEN Undefined
           ELSE /\ IF others = <<>> THEN Give(top.args[1])
                   ELSE Give(Pure(FoldLeft(LAMBDA n, v : n \div v.val, Arg(1), others)))
                /\ UNCHANGED <<env, mem>>

\* Of one argument these are the argument, which may be a place.
Extreme ==
    /\ Closing({"MIN", "MAX"})
    /\ IF Len(top.args) = 1 THEN Give(top.args[1])
       ELSE Give(Pure(IF top.op = "MIN" THEN Min(Vals) ELSE Max(Vals)))
    /\ UNCHANGED <<env, mem>>

\* A name that has no array yet gets one of its own.
Setq ==
    /\ Closing({"SETQ"})
    /\ IF env[top.id] = 0
       THEN /\ env' = [env EXCEPT ![top.id] = Len(mem) + 1]
            /\ mem' = Append(mem, <<Arg(1)>>)
            /\ Give(Pure(Arg(1)))
       ELSE IF ~Valid(<<env[top.id], 0>>) THEN Undefined
       ELSE mem' = Written(<<env[top.id], 0>>, Arg(1)) /\ Give(Pure(Arg(1))) /\ UNCHANGED env

Setf ==
    /\ Closing({"SETF"})
    /\ IF top.args[1].place = Nowhere THEN Reject
       ELSE mem' = Written(top.args[1].place, Arg(2)) /\ Give(top.args[2]) /\ UNCHANGED env

Aref ==
    LET p == <<env[top.id], Signed(Arg(1))>>
    IN  /\ Closing({"AREF"})
        /\ IF env[top.id] = 0 THEN Reject
           ELSE IF ~Valid(p) THEN Undefined
           ELSE Give([val |-> Read(p), place |-> p]) /\ UNCHANGED <<env, mem>>

\* Always a new array, also for a name that has one.
MakeArray ==
    /\ Closing({"MAKEARRAY"})
    /\ env' = [env EXCEPT ![top.id] = Len(mem) + 1]
    /\ mem' = Append(mem, [k \in 1..top.num |-> Arg(1)])
    /\ Give(top.args[1])

\* The value of the last form, when the program ends.
Return ==
    /\ outcome = "running" /\ ProgramEnds(forms, source, at)
    /\ outcome' = "returned" /\ answer' = Arg(1)
    /\ UNCHANGED <<source, at, forms, env, mem>>

Steps ==
    \/ Open \/ Number \/ Variable
    \/ Arithmetic \/ Divide \/ Extreme \/ Setq \/ Setf \/ Aref \/ MakeArray
    \/ Return

\* What the grammar has no rule for.
SyntaxError == outcome = "running" /\ NoRule(forms, source, at) /\ Reject

Next == Steps \/ SyntaxError

=============================================================================
