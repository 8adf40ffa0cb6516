----------------------------- MODULE ExprParser -----------------------------
(****************************************************************************)
(* yyparse of tutorial/3/C++/expr.y.cpp: Bison's engine with the tables it  *)
(* generated for the expression language.  The calls of yylex return        *)
(* any token, so every input is covered.  YYINITDEPTH and YYMAXDEPTH are    *)
(* 200 and 10000 in the code.                                               *)
(****************************************************************************)
EXTENDS Integers, SequencesExt

CONSTANTS
    Tokens,        \* names of the tokens yylex may return, "$end" among them
    YYINITDEPTH,
    YYMAXDEPTH

ASSUME DepthAssumption ==
    YYINITDEPTH \in Nat /\ YYINITDEPTH > 1 /\ YYMAXDEPTH \in Nat /\ YYINITDEPTH <= YYMAXDEPTH

VARIABLES
    yyss,          \* the stack of states, the last one on top
    yyvs,          \* the stack of values: the operator at the top of an expression, "" otherwise
    yystacksize,   \* the room in both stacks
    yychar,        \* the lookahead, "YYEMPTY" if there is none
    yyerrstatus,
    yyresult       \* what yyparse returns; -1 while it runs

vars == <<yyss, yyvs, yystacksize, yychar, yyerrstatus, yyresult>>

-----------------------------------------------------------------------------
(* The tables, indexed from 0 in the code.                                  *)

yytname ==
    <<"$end", "error", "$undefined", "IF", "WHILE", "RETURN", "IDENTIFIER", "IMMEDIATE",
      "ASSIGN", "SEMI", "LPAREN", "RPAREN", "LBRACE", "RBRACE", "MINUS", "PLUS", "MULTIPLY",
      "DIVIDE", "NOT", "$accept", "program", "stmtlist", "stmt", "expr">>

yypact ==
    <<-8, 78, 6, 7, 15, 8, -13, 53, -13, -13, 16, 16, 16, 16, -13, -13, -13, 16, 16, 16, 49, 56,
      -4, 38, 63, -2, -13, 19, 16, 16, 16, 16, 27, -13, 14, -13, 78, -2, -2, -13, -13, 78, -13,
      29, 37, -13, -13>>

yydefact ==
    <<0, 0, 0, 0, 0, 0, 8, 0, 3, 1, 0, 0, 0, 0, 4, 9, 10, 0, 0, 0, 0, 0, 0, 0, 0, 15, 16, 0, 0, 0,
      0, 0, 0, 5, 0, 17, 0, 12, 11, 13, 14, 0, 2, 0, 0, 6, 7>>

yypgoto == <<-13, -13, -12, -7, -10>>
yydefgoto == <<-1, 2, 7, 8, 20>>

yytable ==
    <<14, 21, 22, 23, 1, 33, 9, 24, 25, 26, 28, 29, 30, 31, 30, 31, 12, 10, 37, 38, 39, 40, 15, 16,
      43, 11, 17, 42, 0, 44, 18, 36, 3, 4, 19, 5, 14, 14, 6, 41, 3, 4, 45, 5, 0, 0, 6, 34, 0, 0,
      46, 0, 28, 29, 30, 31, 3, 4, 13, 5, 27, 0, 6, 28, 29, 30, 31, 32, 0, 0, 28, 29, 30, 31, 35,
      0, 0, 28, 29, 30, 31, 3, 4, 0, 5, 0, 0, 6>>

yycheck ==
    <<7, 11, 12, 13, 12, 9, 0, 17, 18, 19, 14, 15, 16, 17, 16, 17, 8, 10, 28, 29, 30, 31, 6, 7, 36,
      10, 10, 13, -1, 41, 14, 12, 3, 4, 18, 6, 43, 44, 9, 12, 3, 4, 13, 6, -1, -1, 9, 9, -1, -1,
      13, -1, 14, 15, 16, 17, 3, 4, 5, 6, 11, -1, 9, 14, 15, 16, 17, 11, -1, -1, 14, 15, 16, 17,
      11, -1, -1, 14, 15, 16, 17, 3, 4, -1, 6, -1, -1, 9>>

yystos ==
    <<0, 12, 20, 3, 4, 6, 9, 21, 22, 0, 10, 10, 8, 5, 22, 6, 7, 10, 14, 18, 23, 23, 23, 23, 23, 23,
      23, 11, 14, 15, 16, 17, 11, 9, 9, 11, 12, 23, 23, 23, 23, 12, 13, 21, 21, 13, 13>>

yyr1 == <<0, 19, 20, 21, 21, 22, 22, 22, 22, 23, 23, 23, 23, 23, 23, 23, 23, 23>>
yyr2 == <<0, 2, 6, 1, 2, 4, 7, 7, 1, 1, 1, 3, 3, 3, 3, 2, 2, 3>>

YYFINAL == 9
YYLAST == 87
YYNTOKENS == 19
YYTERROR == 1
YYPACT_NINF == -13

YYTRANSLATE(c) == (CHOOSE k \in 1..YYNTOKENS : yytname[k] = c) - 1

-----------------------------------------------------------------------------
(* The engine                                                               *)

yystate == Last(yyss)

Init ==
    /\ yyss = <<0>>
    /\ yyvs = <<"">>
    /\ yystacksize = YYINITDEPTH
    /\ yychar = "YYEMPTY"
    /\ yyerrstatus = 0
    /\ yyresult = -1

\* The state can decide without a lookahead.
PactIsDefault(s) == yypact[s + 1] = YYPACT_NINF

\* The entry of the packed table for state s and symbol t, {} if there is none.
Packed_Unchecked(s, t) ==   \* slip: yycheck not consulted
    LET n == yypact[s + 1] + t IN {yytable[k + 1] : k \in {n} \cap (0..YYLAST)}

Packed(s, t) ==
    LET n == yypact[s + 1] + t
    IN  {yytable[k + 1] : k \in {m \in {n} \cap (0..YYLAST) : yycheck[m + 1] = t}}

\* What to do: a state to shift to, a rule to reduce by, {} for neither.
ShiftTo_DefaultFirst ==   \* slip: the default reduction taken before the table is read
    IF yydefact[yystate + 1] # 0 \/ PactIsDefault(yystate) \/ yychar = "YYEMPTY" THEN {}
    ELSE Packed(yystate, YYTRANSLATE(yychar)) \ {0}

ShiftTo ==
    IF PactIsDefault(yystate) \/ yychar = "YYEMPTY" THEN {}
    ELSE Packed(yystate, YYTRANSLATE(yychar)) \ {0}

ReduceBy ==
    IF ShiftTo # {} \/ ~(PactIsDefault(yystate) \/ yychar # "YYEMPTY") THEN {}
    ELSE {yydefact[yystate + 1]} \ {0}

Leave(result) == yyresult' = result /\ yyss' = <<0>> /\ yyvs' = <<"">>

\* Slip: room for one state more than there is.
Enter_FullTooLate(ss, vs, s) ==
    LET size == IF yystacksize < Len(ss) + 1 THEN 2 * yystacksize ELSE yystacksize
    IN  /\ yystacksize' = size
        /\ yyss' = Append(ss, s) /\ yyvs' = vs
        /\ UNCHANGED yyresult

\* yynewstate: write the state, make room for the next one, look for YYFINAL.
Enter(ss, vs, s) ==
    LET full == yystacksize <= Len(ss) + 1
        exhausted == full /\ YYMAXDEPTH <= yystacksize
        doubled == IF YYMAXDEPTH < 2 * yystacksize THEN YYMAXDEPTH ELSE 2 * yystacksize
        size == IF full /\ ~exhausted THEN doubled ELSE yystacksize
    IN  /\ yystacksize' = size
        /\ CASE exhausted -> Leave(2)
             [] full /\ ~exhausted /\ size <= Len(ss) + 1 -> Leave(1)
             [] s = YYFINAL -> Leave(0)
             [] OTHER -> yyss' = Append(ss, s) /\ yyvs' = vs /\ UNCHANGED yyresult

Running == yyresult = -1

\* yybackup calls yylex only in a state that cannot decide without.
ReadToken ==
    /\ Running
    /\ ~PactIsDefault(yystate) /\ yychar = "YYEMPTY"
    /\ yychar' \in Tokens
    /\ UNCHANGED <<yyss, yyvs, yystacksize, yyerrstatus, yyresult>>

Shift ==
    /\ Running
    /\ \E n \in ShiftTo : Enter(yyss, Append(yyvs, ""), n)
    /\ yychar' = "YYEMPTY"
    /\ yyerrstatus' = IF yyerrstatus > 0 THEN yyerrstatus - 1 ELSE 0

\* Where to go with the symbol of rule n from the state uncovered by its right-hand side.
Goto(n, s) ==
    LET k == yyr1[n + 1] - YYNTOKENS
        m == yypgoto[k + 1] + s
    IN  IF m \in 0..YYLAST /\ yycheck[m + 1] = s THEN yytable[m + 1] ELSE yydefgoto[k + 1]

Popped(stack, n) == SubSeq(stack, 1, Len(stack) - yyr2[n + 1])

\* What the action of rule n has the Builder make.
Operator(n) ==
    CASE n \in {11, 12} -> "sum" [] n \in {13, 14} -> "product"
      [] n = 15 -> "negation" [] n = 16 -> "not" [] OTHER -> ""

\* Rule 2 makes the return instruction and accepts; the others push their symbol.
Reduce ==
    /\ Running
    /\ \E n \in ReduceBy :
        IF n = 2
        THEN Leave(0) /\ UNCHANGED yystacksize
        ELSE LET ss == Popped(yyss, n)
             IN  Enter(ss, Append(Popped(yyvs, n), Operator(n)), Goto(n, Last(ss)))
    /\ UNCHANGED <<yychar, yyerrstatus>>

\* yyerrlab, yyerrlab1: pop to a state that takes the error token, else abort.
SyntaxError ==
    /\ Running
    /\ PactIsDefault(yystate) \/ yychar # "YYEMPTY"
    /\ ShiftTo = {} /\ ReduceBy = {}
    /\ LET catchers == {k \in DOMAIN yyss :
                           ~PactIsDefault(yyss[k]) /\ Packed(yyss[k], YYTERROR) \ {0} # {}}
           k == CHOOSE m \in catchers : \A l \in catchers : l <= m
       IN  IF catchers = {} \/ (yyerrstatus = 3 /\ yychar = "$end")
           THEN Leave(1) /\ UNCHANGED yystacksize
           ELSE \E n \in Packed(yyss[k], YYTERROR) :
                   Enter(SubSeq(yyss, 1, k), Append(SubSeq(yyvs, 1, k), ""), n)
    /\ yychar' = IF yyerrstatus = 3 /\ yychar # "$end" THEN "YYEMPTY" ELSE yychar
    /\ yyerrstatus' = 3

Next == ReadToken \/ Shift \/ Reduce \/ SyntaxError

Spec == Init /\ [][Next]_vars

\* yyparse takes steps as long as yylex answers, which it does at the end of the file too.
FairSpec == Spec /\ WF_vars(Next)

-----------------------------------------------------------------------------
(* Properties                                                               *)

(* Types; what the next push writes lies inside the stacks, which move and   *)
(* double up to YYMAXDEPTH while they are in use, and both keep in step.     *)
TypeOK ==
    /\ \A k \in DOMAIN yyss : yyss[k] \in 0..Len(yystos) - 1
    /\ Len(yyvs) = Len(yyss)
    /\ Len(yyss) < yystacksize /\ yystacksize <= YYMAXDEPTH
    /\ yychar \in Tokens \cup {"YYEMPTY"}
    /\ yyerrstatus \in 0..3
    /\ yyresult \in -1..2

Sym(k) == yytname[yystos[yyss[k] + 1] + 1]

\* The right-hand sides of the grammar (expr.y:69-157).
Rhs ==
    <<<<>>, <<"LBRACE", "stmtlist", "RETURN", "expr", "SEMI", "RBRACE">>,
      <<"stmt">>, <<"stmtlist", "stmt">>,
      <<"IDENTIFIER", "ASSIGN", "expr", "SEMI">>,
      <<"IF", "LPAREN", "expr", "RPAREN", "LBRACE", "stmtlist", "RBRACE">>,
      <<"WHILE", "LPAREN", "expr", "RPAREN", "LBRACE", "stmtlist", "RBRACE">>,
      <<"SEMI">>, <<"IDENTIFIER">>, <<"IMMEDIATE">>,
      <<"expr", "PLUS", "expr">>, <<"expr", "MINUS", "expr">>,
      <<"expr", "MULTIPLY", "expr">>, <<"expr", "DIVIDE", "expr">>,
      <<"MINUS", "expr">>, <<"NOT", "expr">>, <<"LPAREN", "expr", "RPAREN">>>>

\* %left PLUS MINUS, %left MULTIPLY DIVIDE, %right NOT: how tight an operator binds.
Binds == [sum |-> 1, negation |-> 1, product |-> 2, not |-> 3] @@ ("" :> 4)
LeftFits(v, n) == Binds[v] >= Binds[Operator(n)]
RightFits(v, n) == v \in {"negation", "not"} \/ Binds[v] > Binds[Operator(n)]

(* Each reduction finds the right-hand side of its rule on the stack, and    *)
(* the operands of an operator bind tighter than it does, to the left equal  *)
(* ones too: a - b - c is (a - b) - c, and - a * b is -(a * b).               *)
ReducesHandle ==
    Running => \A n \in ReduceBy :
        LET top == Len(yyss)
            from == top - yyr2[n + 1]
        IN  /\ from >= 1
            /\ \A k \in 1..yyr2[n + 1] : Sym(from + k) = Rhs[n][k]
            /\ n \in 11..14 => LeftFits(yyvs[top - 2], n)
            /\ n \in 11..16 => RightFits(yyvs[top], n)

\* What is open, and what is expected, as the stack says it.  A right-hand side
\* that is complete is on top.
Closes == [LPAREN |-> "RPAREN", LBRACE |-> "RBRACE", ASSIGN |-> "SEMI", RETURN |-> "SEMI"]
IsOpen(k) ==
    /\ k > 2 /\ Sym(k) \in DOMAIN Closes
    /\ k + 2 <= Len(yyss) => Sym(k + 2) # Closes[Sym(k)]
Kind(k) ==
    CASE Sym(k) = "LBRACE" -> "block"
      [] Sym(k) = "ASSIGN" -> "assign"
      [] Sym(k) = "RETURN" -> "return"
      [] Sym(k) = "LPAREN" -> IF Sym(k - 1) \in {"IF", "WHILE"} THEN "cond" ELSE "paren"
Nest ==
    LET opens == SelectSeq([k \in 1..Len(yyss) |-> k], IsOpen)
    IN  [k \in DOMAIN opens |-> Kind(opens[k])]

At ==
    LET top == Len(yyss)
        statement == Sym(top - 1) \in {"LBRACE", "stmtlist"}
    IN  CASE top = 1 -> "start"
          [] Sym(top) = "LBRACE" -> "first"
          [] Sym(top) \in {"stmtlist", "stmt", "RBRACE"} -> "next"
          [] Sym(top) = "SEMI" -> IF ~statement /\ Sym(top - 2) = "RETURN" THEN "close" ELSE "next"
          [] Sym(top) \in {"IF", "WHILE"} -> "cond"
          [] Sym(top) = "IDENTIFIER" /\ statement -> "assign"
          [] Sym(top) \in {"IDENTIFIER", "IMMEDIATE", "expr"} -> "operator"
          [] Sym(top) = "RPAREN" -> IF Sym(top - 3) \in {"IF", "WHILE"} THEN "body" ELSE "operator"
          [] OTHER -> "operand"

\* The state after the last brace decides without reading on.
Accepting == yyresult = 0 \/ (Running /\ yystate = 42)
Verdict ==
    CASE Accepting -> "accepted" [] yyresult = 1 -> "rejected"
      [] yyresult = 2 -> "gave_up" [] OTHER -> "reading"
Reading == Verdict = "reading"

Waiting == ~Running \/ (~PactIsDefault(yystate) /\ yychar = "YYEMPTY")

Language == INSTANCE ExprLanguage WITH
    nest <- IF Reading THEN Nest ELSE <<>>,
    at <- IF Reading THEN At ELSE "end",
    ahead <- IF Reading THEN yychar ELSE "YYEMPTY",
    verdict <- Verdict,
    NoToken <- "YYEMPTY"

\* A state entered with a token is one of that token's, not of another that goes on as it does.
EntersAs ==
    Running /\ yychar # "YYEMPTY" /\ yychar' = "YYEMPTY" /\ Running' => Sym(Len(yyss))' = yychar

(* The tables recognise the grammar: the token that has been read is shifted *)
(* exactly if a program goes on with it, whatever has been reduced by        *)
(* default in between; one with which none goes on, and no other, makes      *)
(* yyparse fail, unless the stacks are exhausted before.  And it never       *)
(* reduces for ever: it comes back for another token, or returns.  What is   *)
(* on the stack stands for the very tokens that were read.                   *)
ImplementsLanguage == Language!Spec /\ [][EntersAs]_vars /\ []<>Waiting

=============================================================================
