------------------------------ MODULE P1Forms -------------------------------
(****************************************************************************)
(* The tokens and the grammar of simple/p1/C++/p1.y: programs are lists of  *)
(* forms (op ...), whose arguments are numbers, names and forms.            *)
(****************************************************************************)
EXTENDS Integers, SequencesExt

\* Operators with any number of arguments, and those that name a variable.
Lists == {"PLUS", "MULTIPLY", "DIVIDE", "MIN", "MAX"}
Named == {"SETQ", "AREF", "MAKEARRAY"}
Operators == Lists \cup Named \cup {"MINUS", "SETF"}

Arity(op) == IF op = "SETF" THEN 2 ELSE 1

\* The tokens before a form's first argument: ( op, ( op IDENT or ( op IDENT NUM.
HeadLength(op) == 2 + (IF op \in Named THEN 1 ELSE 0) + (IF op = "MAKEARRAY" THEN 1 ELSE 0)

Opens(toks, at) ==
    /\ at + 1 <= Len(toks) /\ toks[at].tok = "LPAREN" /\ toks[at + 1].tok \in Operators
    /\ at + HeadLength(toks[at + 1].tok) <= Len(toks)
    /\ toks[at + 1].tok \in Named => toks[at + 2].tok = "IDENT"
    /\ toks[at + 1].tok = "MAKEARRAY" => toks[at + 3].tok = "NUM"

\* A form whose arguments are still to come.
NewForm(toks, at) ==
    LET op == toks[at + 1].tok
    IN  [op |-> op, args |-> <<>>,
         id |-> IF op \in Named THEN toks[at + 2].id ELSE "",
         num |-> IF op = "MAKEARRAY" THEN toks[at + 3].num ELSE 0]

\* The list of forms that is the program; only its last value is kept.
ProgramForm == [op |-> "program", args |-> <<>>, id |-> "", num |-> 0]

TakesForm(form) == form.op \in Lists \cup {"program"} \/ Len(form.args) < Arity(form.op)
TakesToken(form) == TakesForm(form) /\ form.op # "program"

Complete(form) ==
    IF form.op \in Lists THEN form.args # <<>>
    ELSE form.op # "program" /\ Len(form.args) = Arity(form.op)

\* Behind a form that is not inside another one, whatever is not "(" ends the program: its
\* rule is what the parser does by default there, before it looks for the end of the file.
ProgramEnds(forms, toks, at) ==
    /\ Len(forms) = 1 /\ forms[1].args # <<>>
    /\ ~(at <= Len(toks) /\ toks[at].tok = "LPAREN")

\* No rule goes on at token at.
NoRule(forms, toks, at) ==
    /\ ~ProgramEnds(forms, toks, at)
    /\ ~ \/ Opens(toks, at) /\ TakesForm(Last(forms))
         \/ at <= Len(toks) /\ toks[at].tok \in {"NUM", "IDENT"} /\ TakesToken(Last(forms))
         \/ at <= Len(toks) /\ toks[at].tok = "RPAREN" /\ Complete(Last(forms))

\* The innermost form gets an argument.
With(forms, v) ==
    LET f == Last(forms)
    IN  Append(Front(forms), [f EXCEPT !.args = IF f.op = "program" THEN <<v>> ELSE Append(@, v)])

=============================================================================
