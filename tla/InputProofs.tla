---------------------------- MODULE InputProofs -----------------------------
(****************************************************************************)
(* Proofs about the two parts that read an input piece by piece: Scanner,   *)
(* for every file, every buffer size and every automaton that meets         *)
(* TablesAssumption, and P2Driver, for every command line, every number of  *)
(* files and every content of them.  What is proved of both is that nothing *)
(* of the input is lost.                                                    *)
(****************************************************************************)
EXTENDS Scanner, P2Driver, WellFoundedInduction, FiniteSetTheorems, TLAPS

(* Existence of the least element of a set of naturals.                     *)
LEMMA LeastElement ==
    ASSUME NEW T \in SUBSET Nat, T # {}
    PROVE  \E x \in T : \A y \in T : x <= y
<1> DEFINE R == {ss \in Nat \X Nat : ss[1] < ss[2]}
<1>1. IsWellFoundedOn(R, Nat)
  BY NatLessThanWellFounded DEF OpToRel
<1>2. PICK x \in T : \A y \in T : ~ (<<y, x>> \in R)
  BY <1>1, WFMin
<1>3. ASSUME NEW y \in T PROVE x <= y
  <2>1. ~(<<y, x>>[1] < <<y, x>>[2])
    BY <1>2
  <2> QED
    BY <2>1
<1> QED
  BY <1>3

\* f takes each value from the one before it.
IsRecursion(f, from, to, S, s0, T) ==
    /\ f \in [from..to -> S]
    /\ \A p \in from..to : f[p] = IF p = from THEN s0 ELSE T[p][f[p - 1]]

(* Such a function exists.                                                  *)
LEMMA PrefixRecursion ==
    ASSUME NEW from \in Nat, NEW to \in Nat, NEW S, NEW s0 \in S,
           NEW T \in [Nat -> [S -> S]]
    PROVE  \E f : IsRecursion(f, from, to, S, s0, T)
<1> DEFINE Ok(n, f) == \A p \in from..n : f[p] = IF p = from THEN s0 ELSE T[p][f[p - 1]]
           Good(n) == \E f \in [from..n -> S] : Ok(n, f)
           Bad == {n \in Nat : ~Good(n)}
<1>1. SUFFICES ASSUME Bad # {} PROVE FALSE
  <2>1. to \notin Bad => \E f : IsRecursion(f, from, to, S, s0, T)
    BY DEF IsRecursion
  <2> HIDE DEF Bad
  <2> QED
    BY <2>1
<1>2. PICK n \in Bad : \A m \in Bad : n <= m
  <2> HIDE DEF Good
  <2> QED
    BY <1>1, LeastElement
<1>3. CASE n <= from
  <2> DEFINE f == [p \in from..n |-> s0]
  <2>1. f \in [from..n -> S]
    OBVIOUS
  <2>2. Ok(n, f)
    BY <1>3
  <2> HIDE DEF Ok, f
  <2> QED
    BY <1>2, <2>1, <2>2
<1>4. CASE n > from
  <2>1. n - 1 \in Nat /\ n - 1 \notin Bad /\ n \in Nat
    <3> HIDE DEF Good
    <3> QED
      BY <1>2, <1>4
  <2>2. PICK g \in [from..n - 1 -> S] : Ok(n - 1, g)
    <3> HIDE DEF Ok
    <3> QED
      BY <2>1
  <2> DEFINE f == [p \in from..n |-> IF p = n THEN T[n][g[n - 1]] ELSE g[p]]
  <2>3. n - 1 \in from..n - 1 /\ g[n - 1] \in S /\ T[n][g[n - 1]] \in S
    BY <1>4, <2>1
  <2>4. f \in [from..n -> S]
    BY <2>1, <2>3
  <2>5. ASSUME NEW p \in from..n
        PROVE  f[p] = IF p = from THEN s0 ELSE T[p][f[p - 1]]
    <3>1. CASE p = n
      <4>1. p - 1 \in from..n /\ p - 1 # n /\ p # from
        BY <1>4, <2>1, <3>1
      <4> QED
        BY <3>1, <4>1
    <3>2. CASE p # n /\ p # from
      <4>1. p - 1 \in from..n - 1 /\ p - 1 \in from..n /\ p \in from..n - 1 /\ p - 1 # n
        BY <2>1, <3>2
      <4>2. g[p] = T[p][g[p - 1]]
        BY <2>2, <3>2, <4>1
      <4> QED
        BY <3>2, <4>1, <4>2
    <3>3. CASE p # n /\ p = from
      <4>1. p \in from..n - 1
        BY <2>1, <3>3
      <4>2. g[p] = s0
        BY <2>2, <3>3, <4>1
      <4> QED
        BY <3>3, <4>2
    <3> QED
      BY <3>1, <3>2, <3>3
  <2>6. Ok(n, f)
    BY <2>5
  <2> HIDE DEF Ok, f
  <2> QED
    BY <1>2, <2>4, <2>6
<1> QED
  BY <1>2, <1>3, <1>4

-----------------------------------------------------------------------------
(* Scanner                                                                  *)

\* The class in yy_get_previous_state, where a NUL is a character like another.
Class(c) == IF c = NUL THEN 1 ELSE yy_ec[c]

LEMMA TableFacts ==
    /\ yy_start \in States /\ JAM \in States
    /\ \A c \in Chars : yy_ec[c] \in Classes /\ Class(c) \in Classes \ {0}
    /\ \A s \in States, k \in Classes : Step[s][k] \in States
    /\ \A s \in States : yy_accept[s] \in 0..YY_END_OF_BUFFER
<1>1. 0 \in Classes /\ 1 \in Classes \ {0}
  BY DEF Classes
<1>2. \A s \in States, k \in Classes : Step[s][k] \in States
  <2>1. Step \in [States -> [Classes -> States]]
    BY TablesAssumption, Zenon
  <2> QED
    BY <2>1
<1>3. \A s \in States : yy_accept[s] \in 0..YY_END_OF_BUFFER
  <2>1. yy_accept \in [States -> 0..YY_END_OF_BUFFER]
    BY TablesAssumption, Zenon
  <2> QED
    BY <2>1
<1>4. \A c \in Chars : yy_ec[c] \in Classes /\ Class(c) \in Classes \ {0}
  BY TablesAssumption, <1>1, Zenon DEF Class
<1> QED
  BY TablesAssumption, <1>2, <1>3, <1>4

(* What yy_get_previous_state computes: the automaton's states over a text, *)
(* none of whose characters it takes for the end mark.                      *)
LEMMA Previous ==
    ASSUME NEW from \in Nat, NEW to \in Nat, NEW buf,
           \A k \in from..to - 1 : buf[k] \in Chars,
           NEW B, B = PreviousState(buf, from, to)
    PROVE  /\ B \in [from..to -> States]
           /\ from <= to => B[from] = yy_start
           /\ \A p \in from..to :
                 p # from => p - 1 \in from..to - 1 /\ B[p] = Step[B[p - 1]][Class(buf[p - 1])]
<1> DEFINE K(p) == IF p - 1 \in from..to - 1 THEN Class(buf[p - 1]) ELSE 1
           T == [p \in Nat |-> [s \in States |-> Step[s][K(p)]]]
<1>1. \A p \in Nat : K(p) \in Classes
  BY TableFacts DEF Classes
<1>2. T \in [Nat -> [States -> States]]
  <2> HIDE DEF K
  <2> QED
    BY <1>1, TableFacts
<1>3. \E f : IsRecursion(f, from, to, States, yy_start, T)
  <2> HIDE DEF T
  <2> QED
    BY <1>2, TableFacts, PrefixRecursion
<1>4. PICK f \in [from..to -> States] :
         \A p \in from..to : f[p] = IF p = from THEN yy_start ELSE T[p][f[p - 1]]
  <2> HIDE DEF T
  <2> QED
    BY <1>3 DEF IsRecursion
<1>5. ASSUME NEW p \in from..to
      PROVE  /\ p # from => p - 1 \in from..to - 1
             /\ f[p] = IF p = from THEN yy_start
                       ELSE Step[f[p - 1]][IF buf[p - 1] = NUL THEN 1 ELSE yy_ec[buf[p - 1]]]
  <2>1. CASE p = from
    BY <1>4, <2>1
  <2>2. CASE p # from
    <3>1. p - 1 \in from..to - 1 /\ p - 1 \in from..to /\ p \in Nat
      BY <2>2
    <3>2. K(p) = Class(buf[p - 1])
      BY <3>1
    <3>3. T[p][f[p - 1]] = Step[f[p - 1]][K(p)]
      <4> HIDE DEF K
      <4> QED
        BY <3>1
    <3>4. f[p] = Step[f[p - 1]][Class(buf[p - 1])]
      BY <1>4, <2>2, <3>2, <3>3
    <3> QED
      BY <2>2, <3>1, <3>4 DEF Class
  <2> QED
    BY <2>1, <2>2
<1>6. f = [p \in from..to |->
             IF p = from THEN yy_start
             ELSE Step[f[p - 1]][IF buf[p - 1] = NUL THEN 1 ELSE yy_ec[buf[p - 1]]]]
  BY <1>5
<1>7. B = [p \in from..to |->
             IF p = from THEN yy_start
             ELSE Step[B[p - 1]][IF buf[p - 1] = NUL THEN 1 ELSE yy_ec[buf[p - 1]]]]
  BY <1>6 DEF PreviousState
<1>8. \A p \in from..to : B[p] = f[p]
  <2> DEFINE Bad == {p \in from..to : B[p] # f[p]}
  <2>1. SUFFICES ASSUME Bad # {} PROVE FALSE
    OBVIOUS
  <2>2. PICK p \in Bad : \A q \in Bad : p <= q
    <3>1. Bad \in SUBSET Nat
      OBVIOUS
    <3> HIDE DEF Bad
    <3> QED
      BY <2>1, <3>1, LeastElement
  <2>3. p # from
    BY <1>6, <1>7, <2>2
  <2>4. p - 1 \in from..to /\ p - 1 \notin Bad
    BY <2>2, <2>3
  <2>5. B[p - 1] = f[p - 1]
    BY <2>4
  <2>6. B[p] = Step[B[p - 1]][IF buf[p - 1] = NUL THEN 1 ELSE yy_ec[buf[p - 1]]]
    BY <1>7, <2>2, <2>3, Zenon
  <2>7. f[p] = Step[f[p - 1]][IF buf[p - 1] = NUL THEN 1 ELSE yy_ec[buf[p - 1]]]
    BY <1>5, <2>2, <2>3, Zenon
  <2> QED
    BY <2>2, <2>5, <2>6, <2>7, Zenon
<1>9. B = [p \in from..to |-> B[p]] /\ f = [p \in from..to |-> f[p]]
  BY <1>7
<1>10. B = f
  BY <1>8, <1>9
<1> QED
  BY <1>4, <1>5, <1>10 DEF Class

(* The states before the positions of a text: only the first is the start,  *)
(* none is the end mark's, and a jam comes after a state that accepts.      *)
LEMMA Accepted ==
    ASSUME NEW from \in Nat, NEW to \in Nat, from <= to, NEW buf,
           \A k \in from..to - 1 : buf[k] \in Chars,
           NEW B, B = PreviousState(buf, from, to)
    PROVE  /\ B \in [from..to -> States]
           /\ B[from] = yy_start
           /\ \A p \in from + 1..to : B[p] # yy_start /\ yy_accept[B[p]] # YY_END_OF_BUFFER
           /\ B[to] = JAM => \E p \in from + 1..to - 1 : yy_accept[B[p]] # 0
<1>1. /\ B \in [from..to -> States]
      /\ B[from] = yy_start
      /\ \A p \in from..to :
            p # from => p - 1 \in from..to - 1 /\ B[p] = Step[B[p - 1]][Class(buf[p - 1])]
  BY Previous
<1>2. ASSUME NEW p \in from + 1..to
      PROVE  /\ p - 1 \in from..to - 1 /\ B[p - 1] \in States /\ B[p] \in States
             /\ Class(buf[p - 1]) \in Classes \ {0}
             /\ B[p] = Step[B[p - 1]][Class(buf[p - 1])]
  <2>1. p - 1 \in from..to - 1 /\ p - 1 \in from..to /\ p \in from..to /\ p # from
    OBVIOUS
  <2> QED
    BY <1>1, <2>1, TableFacts
<1>3. ASSUME NEW p \in from + 1..to
      PROVE  /\ B[p] # yy_start /\ yy_accept[B[p]] # YY_END_OF_BUFFER
             /\ B[p] = JAM => B[p - 1] # yy_start
  <2> DEFINE s == B[p - 1]
             k == Class(buf[p - 1])
  <2>1. s \in States /\ k \in Classes \ {0} /\ B[p] = Step[s][k]
    BY <1>2
  <2> HIDE DEF s, k
  <2>2. Step[s][k] # yy_start /\ yy_accept[Step[s][k]] # YY_END_OF_BUFFER
    BY <2>1, TablesAssumption, Zenon
  <2>3. s = yy_start => Step[s][k] # JAM
    BY <2>1, TablesAssumption, Zenon
  <2> QED
    BY <2>1, <2>2, <2>3 DEF s
<1>4. ASSUME B[to] = JAM PROVE \E p \in from + 1..to - 1 : yy_accept[B[p]] # 0
  <2> DEFINE Jams == {p \in from..to : B[p] = JAM}
  <2>1. yy_start # JAM
    BY TablesAssumption, Zenon
  <2>2. PICK q \in Jams : \A r \in Jams : q <= r
    <3>1. Jams \in SUBSET Nat /\ to \in Jams
      BY <1>4
    <3> HIDE DEF Jams
    <3> QED
      BY <3>1, LeastElement
  <2>3. q \in from + 1..to
    BY <1>1, <2>1, <2>2
  <2>4. B[q - 1] # yy_start /\ q - 1 # from
    BY <1>1, <1>3, <2>2, <2>3
  <2>5. q - 1 \in from + 1..to - 1 /\ q - 1 \notin Jams
    BY <2>2, <2>3, <2>4
  <2>6. B[q - 1] \in States /\ B[q - 1] # JAM
    BY <1>1, <2>5
  <2>7. yy_accept[B[q - 1]] # 0
    BY <2>4, <2>6, TablesAssumption, Zenon
  <2> QED
    BY <2>5, <2>7
<1> QED
  BY <1>1, <1>3, <1>4

\* What yy_find_action needs of a match that ends at position p.
ValidAt(s, p) ==
    /\ s \in States /\ yy_accept[s] # 0
    /\ p \in yytext_ptr + 1..yy_n_chars + 1
    /\ p = yy_n_chars + 1 => yy_accept[s] = YY_END_OF_BUFFER

LastValid == ValidAt(yy_last_accepting_state, yy_last_accepting_cpos)

Marks == Text(yy_n_chars) = NUL /\ Text(yy_n_chars + 1) = NUL

Pending == yy_buf_size > 1 /\ (yy_buffer_status = "EOF_PENDING" => pos = Len(file))

InBegin == pc = "begin" => yytext_ptr <= yy_c_buf_p /\ yy_c_buf_p <= yy_n_chars

InMatch ==
    pc = "match" =>
        /\ yytext_ptr <= yy_cp /\ yy_cp <= yy_n_chars + 1
        /\ yy_cp = yy_n_chars + 1 => yy_accept[yy_current_state] = YY_END_OF_BUFFER
        /\ yy_current_state = yy_start <=> yy_cp = yytext_ptr
        /\ yy_current_state = JAM => LastValid

InFind ==
    pc = "find" =>
        IF yy_accept[yy_current_state] = 0 THEN LastValid ELSE ValidAt(yy_current_state, yy_cp)

InAct ==
    pc = "act" =>
        /\ yy_cp = yy_c_buf_p /\ ValidAt(yy_current_state, yy_cp)
        /\ yy_act = yy_accept[yy_current_state]

\* The inductive invariant.
IInv ==
    /\ TypeOK /\ NothingLost
    /\ Marks /\ Pending /\ InBegin /\ InMatch /\ InFind /\ InAct

LEMMA FileFacts ==
    ASSUME file \in Files
    PROVE  /\ Len(file) \in Nat
           /\ \A k \in 1..Len(file) : file[k] \in Chars
<1>1. file \in Seq(Chars)
  BY BufferAssumption
<1> QED
  BY <1>1

LEMMA InitInv == Init => IInv
<1> SUFFICES ASSUME Init PROVE IInv
  OBVIOUS
<1>1. Empty \in [0..1 -> Chars] /\ Empty[0] = NUL /\ Empty[1] = NUL
  BY BufferAssumption DEF Empty
<1>2. TypeOK
  BY <1>1, FileFacts, TableFacts, BufferAssumption DEF Init, TypeOK, YY_END_OF_BUFFER
<1>3. NothingLost /\ Marks
  BY <1>1 DEF Init, NothingLost, Marks, Text
<1>4. Pending /\ InBegin /\ InMatch /\ InFind /\ InAct
  BY BufferAssumption DEF Init, Pending, InBegin, InMatch, InFind, InAct
<1> QED
  BY <1>2, <1>3, <1>4 DEF IInv

\* Whether the character at k is still to be handed out.
Left(k) == pc \in {"begin", "over"} => k >= yy_c_buf_p

\* A step that leaves the text as it is keeps what NothingLost and Marks say of it.
LEMMA SameText ==
    ASSUME IInv, yy_n_chars' = yy_n_chars, pos' = pos, file' = file,
           \A k \in 0..yy_n_chars + 1 : Text(k)' = Text(k),
           yytext_ptr' \in Nat,
           \A k \in yytext_ptr'..yy_n_chars - 1 : Left(k)' => k >= yytext_ptr /\ Left(k),
           pc' = "over" => yy_act' = 19
    PROVE  NothingLost' /\ Marks'
<1>1. yy_n_chars \in Nat /\ yytext_ptr \in Nat
  <2>1. pos \in Int
    BY FileFacts DEF IInv, TypeOK
  <2> QED
    BY <2>1 DEF IInv, TypeOK
<1>2. Marks'
  BY <1>1 DEF IInv, Marks
<1>3. ASSUME NEW k \in yytext_ptr'..yy_n_chars - 1, Left(k)'
      PROVE  Text(k)' = file[pos - yy_n_chars + k + 1]
  <2>1. k \in yytext_ptr..yy_n_chars - 1 /\ Left(k) /\ k \in 0..yy_n_chars + 1
    BY <1>1, <1>3
  <2>2. Text(k) = file[pos - yy_n_chars + k + 1]
    BY <2>1 DEF IInv, NothingLost, Left
  <2> QED
    BY <2>1, <2>2
<1>4. NothingLost'
  BY <1>3 DEF NothingLost, Left
<1> QED
  BY <1>2, <1>4

LEMMA BeginStep == IInv /\ Begin => IInv'
<1> SUFFICES ASSUME IInv, Begin PROVE IInv'
  OBVIOUS
<1>1. yy_n_chars \in Nat /\ yytext_ptr \in Nat /\ yy_c_buf_p \in yytext_ptr..yy_n_chars
  <2>1. pos \in Int
    BY FileFacts DEF IInv, TypeOK
  <2> QED
    BY <2>1 DEF IInv, TypeOK, InBegin, Begin
<1>2. TypeOK'
  BY <1>1, TableFacts DEF IInv, TypeOK, Begin, last
<1>3. \A k \in 0..yy_n_chars + 1 : Text(k)' = Text(k)
  BY <1>1 DEF IInv, TypeOK, Begin, Text
<1>4. NothingLost' /\ Marks'
  <2>1. yytext_ptr \in Nat /\ yytext_ptr' \in Nat /\ yytext_ptr' >= yytext_ptr
    BY <1>1 DEF Begin
  <2>2. \A k \in yytext_ptr'..yy_n_chars - 1 : Left(k)' => k >= yytext_ptr /\ Left(k)
    BY <1>1, <2>1 DEF Begin, Left
  <2> QED
    BY <1>3, <2>1, <2>2, SameText DEF Begin
<1>5. Pending'
  BY DEF IInv, Pending, Begin
<1>6. InMatch'
  BY <1>1, TablesAssumption DEF InMatch, Begin
<1>7. InBegin' /\ InFind' /\ InAct'
  BY DEF InBegin, InFind, InAct, Begin
<1> QED
  BY <1>2, <1>4, <1>5, <1>6, <1>7 DEF IInv

LEMMA RuleStep == IInv /\ Rule => IInv'
<1> SUFFICES ASSUME IInv, Rule PROVE IInv'
  OBVIOUS
<1> DEFINE n == yy_n_chars
<1>1. n \in Nat /\ yytext_ptr \in 0..n /\ yy_cp = yy_c_buf_p /\ yy_c_buf_p \in yytext_ptr + 1..n
  <2>1. pos \in Int
    BY FileFacts DEF IInv, TypeOK
  <2> QED
    BY <2>1 DEF IInv, TypeOK, InAct, ValidAt, Rule
<1>2. TypeOK'
  BY DEF IInv, TypeOK, Rule, last, buffer
<1>3. \A k \in 0..n + 1 : Text(k)' = Text(k)
  BY <1>1 DEF Rule, Text, buffer
<1>4. NothingLost' /\ Marks'
  <2>1. \A k \in yytext_ptr'..n - 1 : Left(k)' => k >= yytext_ptr /\ Left(k)
    BY <1>1 DEF Rule, Left
  <2> QED
    BY <1>1, <1>3, <2>1, SameText DEF Rule, buffer
<1>5. Pending'
  BY DEF IInv, Pending, Rule, buffer
<1>6. InBegin' /\ InMatch' /\ InFind' /\ InAct'
  BY <1>1 DEF InBegin, InMatch, InFind, InAct, Rule, buffer
<1> QED
  BY <1>2, <1>4, <1>5, <1>6 DEF IInv

LEMMA MatchStep == IInv /\ Match => IInv'
<1> SUFFICES ASSUME IInv, Match PROVE IInv'
  OBVIOUS
<1> DEFINE n == yy_n_chars
           cur == yy_current_state
           k == yy_ec[yy_ch_buf[yy_cp]]
           next == Step[cur][k]
<1>1. /\ n \in Nat /\ yytext_ptr \in 0..n /\ yy_cp \in yytext_ptr..n + 1
      /\ cur \in States
  <2>1. pos \in Int
    BY FileFacts DEF IInv, TypeOK
  <2> QED
    BY <2>1 DEF IInv, TypeOK, InMatch, Match
<1>2. /\ yy_cp = n + 1 => yy_accept[cur] = YY_END_OF_BUFFER
      /\ cur = yy_start <=> yy_cp = yytext_ptr
      /\ cur = JAM => LastValid
  BY DEF IInv, InMatch, Match
<1>3. yy_ch_buf[yy_cp] \in Chars /\ k \in Classes /\ next \in States
  <2>1. yy_ch_buf[yy_cp] \in Chars
    BY <1>1 DEF IInv, TypeOK
  <2> QED
    BY <1>1, <2>1, TableFacts
<1>4. yy_cp = n => k = 0
  <2>1. yy_cp = n => yy_ch_buf[yy_cp] = NUL
    BY DEF Match, IInv, Marks, Text
  <2> QED
    BY <1>3, <2>1, TablesAssumption
<1> HIDE DEF k
<1>5. /\ next # yy_start
      /\ yy_accept[cur] = YY_END_OF_BUFFER => next = JAM
      /\ k = 0 => next = JAM \/ yy_accept[next] = YY_END_OF_BUFFER
      /\ k # 0 => yy_accept[next] # YY_END_OF_BUFFER
      /\ cur = yy_start => next # JAM
      /\ yy_accept[cur] = 0 <=> cur \in {yy_start, JAM}
      /\ yy_accept[next] = 0 <=> next = JAM
      /\ JAM \in Stops
  <2>1. next # yy_start
    BY <1>1, <1>3, TablesAssumption, Zenon
  <2>2. k # 0 => yy_accept[next] # YY_END_OF_BUFFER
    BY <1>1, <1>3, TablesAssumption, Zenon
  <2>3. cur = yy_start => next # JAM
    BY <1>1, <1>3, TablesAssumption, Zenon
  <2>4. yy_accept[cur] = YY_END_OF_BUFFER => next = JAM
    BY <1>1, <1>3, TablesAssumption, Zenon
  <2>5. k = 0 => next = JAM \/ yy_accept[next] = YY_END_OF_BUFFER
    BY <1>1, <1>3, <2>4, TablesAssumption, Zenon
  <2>6. /\ yy_accept[cur] = 0 <=> cur \in {yy_start, JAM}
        /\ yy_accept[next] = 0 <=> next \in {yy_start, JAM}
    BY <1>1, <1>3, TablesAssumption, Zenon
  <2> QED
    BY <2>1, <2>2, <2>3, <2>4, <2>5, <2>6, TablesAssumption
<1>6. /\ pc' = IF next \in Stops THEN "find" ELSE "match"
      /\ yy_current_state' = next /\ yy_cp' = yy_cp + 1
      /\ yy_last_accepting_state' = IF yy_accept[cur] # 0 THEN cur ELSE yy_last_accepting_state
      /\ yy_last_accepting_cpos' = IF yy_accept[cur] # 0 THEN yy_cp ELSE yy_last_accepting_cpos
      /\ UNCHANGED <<file, pos, yy_is_interactive, yy_ch_buf, yy_buf_size, n, yy_buffer_status,
                     yy_c_buf_p, yytext_ptr, yy_hold_char, yy_act>>
  BY DEF Match, buffer, k
<1> HIDE DEF next
<1>7. /\ yy_cp' \in yytext_ptr + 1..n + 1 \/ next = JAM
      /\ yy_cp' = n + 1 => next = JAM \/ yy_accept[next] = YY_END_OF_BUFFER
  BY <1>1, <1>2, <1>4, <1>5, <1>6
<1>8. TypeOK'
  BY <1>1, <1>3, <1>5, <1>6, <1>7 DEF IInv, TypeOK
<1>9. NothingLost' /\ Marks'
  <2>1. \A j \in 0..n + 1 : Text(j)' = Text(j)
    BY <1>6 DEF Text, Match
  <2>2. \A j \in yytext_ptr'..n - 1 : Left(j)' => j >= yytext_ptr /\ Left(j)
    BY <1>1, <1>6 DEF Match, Left
  <2> QED
    BY <1>1, <1>6, <2>1, <2>2, SameText
<1>10. next = JAM => LastValid'
  <2>1. CASE yy_accept[cur] # 0
    BY <1>1, <1>2, <1>5, <1>6, <2>1 DEF LastValid, ValidAt
  <2>2. CASE yy_accept[cur] = 0
    BY <1>2, <1>5, <1>6, <2>2 DEF LastValid, ValidAt
  <2> QED
    BY <2>1, <2>2
<1>11. next # JAM => ValidAt(next, yy_cp + 1)
  BY <1>1, <1>3, <1>5, <1>6, <1>7 DEF ValidAt
<1>12. Pending'
  BY <1>6 DEF IInv, Pending
<1>13. InMatch'
  BY <1>1, <1>5, <1>6, <1>7, <1>10 DEF InMatch
<1>14. InFind'
  <2>1. ValidAt(next, yy_cp + 1) => ValidAt(yy_current_state, yy_cp)'
    BY <1>6 DEF ValidAt
  <2> QED
    BY <1>5, <1>6, <1>10, <1>11, <2>1 DEF InFind
<1>15. InBegin' /\ InAct'
  BY <1>6 DEF InBegin, InAct
<1> QED
  BY <1>8, <1>9, <1>12, <1>13, <1>14, <1>15 DEF IInv

LEMMA FindStep == IInv /\ FindAction => IInv'
<1> SUFFICES ASSUME IInv, FindAction PROVE IInv'
  OBVIOUS
<1> DEFINE n == yy_n_chars
           back == yy_accept[yy_current_state] = 0
           state == IF back THEN yy_last_accepting_state ELSE yy_current_state
           cp == IF back THEN yy_last_accepting_cpos ELSE yy_cp
<1>1. n \in Nat /\ yytext_ptr \in 0..n
  <2>1. pos \in Int
    BY FileFacts DEF IInv, TypeOK
  <2> QED
    BY <2>1 DEF IInv, TypeOK
<1>2. ValidAt(state, cp)
  BY DEF IInv, InFind, LastValid, FindAction
<1> HIDE DEF state, cp
<1>3. cp \in yytext_ptr + 1..n + 1 /\ state \in States
  BY <1>2 DEF ValidAt
<1>4. /\ pc = "find" /\ pc' = "act"
      /\ yy_cp' = cp /\ yy_c_buf_p' = cp /\ yy_current_state' = state
      /\ yy_act' = yy_accept[state]
      /\ yy_hold_char' = yy_ch_buf[cp]
      /\ yy_ch_buf' = [yy_ch_buf EXCEPT ![cp] = NUL]
      /\ UNCHANGED <<file, pos, yy_is_interactive, yy_buf_size, n, yy_buffer_status, yytext_ptr,
                     yy_last_accepting_state, yy_last_accepting_cpos>>
  BY DEF FindAction, last, state, cp
<1>5. TypeOK'
  <2>1. cp \in 0..n + 1 /\ cp \in Nat /\ yy_ch_buf[cp] \in Chars /\ yy_accept[state] \in 0..YY_END_OF_BUFFER
    BY <1>1, <1>3, TableFacts DEF IInv, TypeOK
  <2> QED
    BY <1>1, <1>3, <1>4, <2>1, BufferAssumption DEF IInv, TypeOK
<1>6. NothingLost' /\ Marks'
  <2>1. \A j \in 0..n + 1 : Text(j)' = Text(j)
    BY <1>1, <1>3, <1>4 DEF Text, IInv, TypeOK
  <2>2. \A j \in yytext_ptr'..n - 1 : Left(j)' => j >= yytext_ptr /\ Left(j)
    BY <1>1, <1>4 DEF Left
  <2> QED
    BY <1>1, <1>4, <2>1, <2>2, SameText
<1>7. Pending'
  BY <1>4 DEF IInv, Pending
<1>8. InBegin' /\ InMatch' /\ InFind'
  BY <1>4 DEF InBegin, InMatch, InFind
<1>9. InAct'
  BY <1>2, <1>4 DEF InAct, ValidAt
<1> QED
  BY <1>5, <1>6, <1>7, <1>8, <1>9 DEF IInv

LEMMA RememberAccepted ==
    ASSUME NEW from \in Nat, NEW to \in Nat, from <= to, NEW buf,
           \A k \in from..to - 1 : buf[k] \in Chars,
           NEW B, B = PreviousState(buf, from, to),
           Remember(B, from, to),
           yy_last_accepting_state \in States, yy_last_accepting_cpos \in Nat
    PROVE  /\ yy_last_accepting_state' \in States /\ yy_last_accepting_cpos' \in Nat
           /\ B[to] = JAM =>
                 /\ yy_last_accepting_cpos' \in from + 1..to - 1
                 /\ yy_accept[yy_last_accepting_state'] \notin {0, YY_END_OF_BUFFER}
<1> DEFINE accepting == {p \in from..to - 1 : yy_accept[B[p]] # 0}
<1>1. /\ B \in [from..to -> States]
      /\ \A p \in from + 1..to : yy_accept[B[p]] # YY_END_OF_BUFFER
      /\ B[to] = JAM => \E p \in from + 1..to - 1 : yy_accept[B[p]] # 0
  BY Accepted
<1>2. CASE accepting = {}
  <2>1. UNCHANGED last
    BY <1>2 DEF Remember
  <2>2. B[to] # JAM
    BY <1>1, <1>2
  <2> QED
    BY <2>1, <2>2 DEF last
<1>3. CASE accepting # {}
  <2>1. PICK p \in accepting :
           /\ \A q \in accepting : q <= p
           /\ yy_last_accepting_cpos' = p /\ yy_last_accepting_state' = B[p]
    BY <1>3 DEF Remember
  <2>2. p \in from..to - 1 /\ p \in from..to /\ p \in Nat /\ B[p] \in States /\ yy_accept[B[p]] # 0
    BY <1>1, <2>1
  <2>3. B[to] = JAM => p \in from + 1..to - 1
    <3> SUFFICES ASSUME B[to] = JAM PROVE p \in from + 1..to - 1
      OBVIOUS
    <3>1. PICK q \in from + 1..to - 1 : yy_accept[B[q]] # 0
      BY <1>1
    <3>2. q \in accepting
      BY <3>1
    <3> QED
      BY <2>1, <2>2, <3>2
  <2>4. p \in from + 1..to - 1 => yy_accept[B[p]] # YY_END_OF_BUFFER
    BY <1>1
  <2> QED
    BY <2>1, <2>2, <2>3, <2>4
<1> QED
  BY <1>2, <1>3

LEMMA AtEnd ==
    ASSUME IInv, AtEndOfBuffer
    PROVE  /\ yy_n_chars \in Nat /\ yytext_ptr \in 0..yy_n_chars /\ yy_n_chars <= pos
           /\ yy_cp = yy_c_buf_p /\ yy_cp \in yytext_ptr + 1..yy_n_chars + 1
           /\ Matched \in Nat /\ Matched = yy_cp - yytext_ptr - 1 /\ Matched <= yy_n_chars
           /\ Restored \in [0..yy_n_chars + 1 -> Chars]
           /\ \A k \in 0..yy_n_chars + 1 : Text(k) = Restored[k]
<1>1. yy_n_chars \in Nat /\ yytext_ptr \in 0..yy_n_chars /\ yy_n_chars <= pos
  <2>1. pos \in Int
    BY FileFacts DEF IInv, TypeOK
  <2> QED
    BY <2>1 DEF IInv, TypeOK
<1>2. yy_cp = yy_c_buf_p /\ yy_cp \in yytext_ptr + 1..yy_n_chars + 1
  BY DEF IInv, InAct, ValidAt, AtEndOfBuffer
<1>3. Restored \in [0..yy_n_chars + 1 -> Chars]
  BY DEF Restored, IInv, TypeOK
<1>4. \A k \in 0..yy_n_chars + 1 : Text(k) = Restored[k]
  BY <1>2 DEF Text, Restored, IInv, TypeOK, AtEndOfBuffer
<1> QED
  BY <1>1, <1>2, <1>3, <1>4 DEF Matched

LEMMA RealNULStep == IInv /\ RealNUL => IInv'
<1> SUFFICES ASSUME IInv, RealNUL PROVE IInv'
  OBVIOUS
<1> DEFINE n == yy_n_chars
           at == yytext_ptr + Matched
           before == PreviousState(Restored, yytext_ptr, at)
           state == before[at]
           next == Step[state][1]
<1>1. /\ n \in Nat /\ yytext_ptr \in 0..n /\ at \in yytext_ptr..n - 1 /\ yy_cp = yy_c_buf_p
      /\ Restored \in [0..n + 1 -> Chars]
      /\ \A k \in 0..n + 1 : Text(k) = Restored[k]
  BY AtEnd DEF RealNUL, Matched, AtEndOfBuffer
<1>2. \A k \in yytext_ptr..at - 1 : Restored[k] \in Chars
  BY <1>1
<1>3. /\ yy_last_accepting_state \in States /\ yy_last_accepting_cpos \in Nat
      /\ yy_hold_char \in Chars
  BY DEF IInv, TypeOK
<1>4. /\ before \in [yytext_ptr..at -> States] /\ before[yytext_ptr] = yy_start
      /\ \A p \in yytext_ptr + 1..at : before[p] # yy_start /\ yy_accept[before[p]] # YY_END_OF_BUFFER
  BY <1>1, <1>2, Accepted
<1>5. /\ pc = "act" /\ yy_ch_buf' = Restored /\ yy_buffer_status' = Status
      /\ IF yy_accept[state] # 0
         THEN yy_last_accepting_state' = state /\ yy_last_accepting_cpos' = at
         ELSE Remember(before, yytext_ptr, at)
      /\ IF next # JAM
         THEN /\ yy_c_buf_p' = at + 1 /\ yy_cp' = at + 1
              /\ yy_current_state' = next /\ pc' = "match"
         ELSE /\ yy_c_buf_p' = at /\ yy_cp' = at
              /\ yy_current_state' = state /\ pc' = "find"
      /\ UNCHANGED <<file, pos, yy_is_interactive, yy_buf_size, n, yytext_ptr, yy_hold_char, yy_act>>
  BY DEF RealNUL, AtEndOfBuffer
<1>6. /\ state \in States /\ next \in States /\ next # yy_start
      /\ state = yy_start => next # JAM
      /\ yy_accept[state] = 0 <=> state \in {yy_start, JAM}
      /\ state = yy_start <=> at = yytext_ptr
      /\ state # yy_start => yy_accept[state] # YY_END_OF_BUFFER
  <2>1. at \in yytext_ptr..at /\ state \in States
    BY <1>1, <1>4
  <2>2. state = yy_start <=> at = yytext_ptr
    BY <1>1, <1>4
  <2>3. state # yy_start => yy_accept[state] # YY_END_OF_BUFFER
    BY <1>1, <1>4
  <2>4. 1 \in Classes
    BY DEF Classes
  <2> HIDE DEF state
  <2>5. next \in States
    BY <2>1, <2>4, TableFacts
  <2>6. /\ next # yy_start
        /\ state = yy_start => next # JAM
        /\ yy_accept[state] = 0 <=> state \in {yy_start, JAM}
    BY <2>1, <2>4, TablesAssumption, Zenon
  <2> QED
    BY <2>1, <2>2, <2>3, <2>5, <2>6
<1>7. /\ yy_last_accepting_state' \in States /\ yy_last_accepting_cpos' \in Nat
      /\ state = JAM => LastValid'
  <2>1. CASE yy_accept[state] # 0
    BY <1>1, <1>5, <1>6, <2>1
  <2>2. CASE yy_accept[state] = 0
    <3>1. Remember(before, yytext_ptr, at)
      BY <1>5, <2>2
    <3>2. /\ yy_last_accepting_state' \in States /\ yy_last_accepting_cpos' \in Nat
          /\ state = JAM =>
                /\ yy_last_accepting_cpos' \in yytext_ptr + 1..at - 1
                /\ yy_accept[yy_last_accepting_state'] \notin {0, YY_END_OF_BUFFER}
      <4> HIDE DEF at
      <4>1. yytext_ptr \in Nat /\ at \in Nat /\ yytext_ptr <= at
        BY <1>1
      <4> QED
        BY <4>1, <1>2, <1>3, <3>1, RememberAccepted
    <3> QED
      BY <1>1, <1>5, <3>2 DEF LastValid, ValidAt
  <2> QED
    BY <2>1, <2>2
<1> HIDE DEF at, before, state, next
<1>8. TypeOK'
  BY <1>1, <1>5, <1>6, <1>7 DEF IInv, TypeOK, Status
<1>9. NothingLost' /\ Marks'
  <2>1. \A j \in 0..n + 1 : Text(j)' = Text(j)
    BY <1>1, <1>5 DEF Text
  <2>2. \A j \in yytext_ptr'..n - 1 : Left(j)' => j >= yytext_ptr /\ Left(j)
    BY <1>1, <1>5 DEF Left
  <2> QED
    BY <1>1, <1>5, <2>1, <2>2, SameText
<1>10. Pending'
  BY <1>5 DEF IInv, Pending, Status
<1>11. InBegin' /\ InAct'
  BY <1>5 DEF InBegin, InAct
<1>12. InMatch'
  BY <1>1, <1>5, <1>6 DEF InMatch
<1>13. InFind'
  <2>1. CASE next # JAM
    BY <1>5, <2>1 DEF InFind
  <2>2. CASE next = JAM
    <3>1. state # yy_start /\ at # yytext_ptr
      BY <1>6, <2>2
    <3>2. yy_accept[state] # 0 => ValidAt(yy_current_state, yy_cp)'
      BY <1>1, <1>5, <1>6, <2>2, <3>1 DEF ValidAt
    <3> QED
      BY <1>5, <1>6, <1>7, <2>2, <3>1, <3>2 DEF InFind
  <2> QED
    BY <2>1, <2>2
<1> QED
  BY <1>8, <1>9, <1>10, <1>11, <1>12, <1>13 DEF IInv

LEMMA InputFacts ==
    ASSUME NEW max \in Nat, file \in Files, pos \in 0..Len(file)
    PROVE  Input(max) \in Nat /\ Input(max) <= max /\ Input(max) <= Len(file) - pos
<1> DEFINE most == Least(max, Len(file) - pos)
           lines == {n \in 1..most : file[pos + n] = "newline"}
           first == CHOOSE n \in lines : \A m \in lines : n <= m
<1>1. most \in Nat /\ most <= max /\ most <= Len(file) - pos
  BY FileFacts DEF Least
<1>2. ASSUME lines # {}
      PROVE  first \in 1..most
  <2> DEFINE Is(n) == \A m \in lines : n <= m
  <2>1. lines \in SUBSET Nat
    BY <1>1
  <2>2. \E n \in lines : Is(n)
    <3> HIDE DEF lines
    <3> QED
      BY <1>2, <2>1, LeastElement
  <2>3. (CHOOSE n \in lines : Is(n)) \in lines
    <3> HIDE DEF lines, Is
    <3> QED
      BY <2>2
  <2>4. lines \subseteq 1..most
    OBVIOUS
  <2> QED
    BY <2>3, <2>4, Zenon
<1>3. Input(max) = most \/ (lines # {} /\ Input(max) = first)
  BY Zenon DEF Input
<1> HIDE DEF most, lines, first
<1> QED
  BY <1>1, <1>2, <1>3

(* The text moved to the front, characters of the file behind it.           *)
LEMMA Refill ==
    ASSUME IInv, AtEndOfBuffer, yy_c_buf_p > yy_n_chars,
           NEW got \in Nat, got <= Len(file) - pos
    PROVE  /\ Matched = yy_n_chars - yytext_ptr
           /\ Refilled(got) \in [0..Matched + got + 1 -> Chars]
           /\ Refilled(got)[Matched + got] = NUL /\ Refilled(got)[Matched + got + 1] = NUL
           /\ \A k \in 0..Matched + got - 1 :
                 Refilled(got)[k] = file[(pos + got) - (Matched + got) + k + 1]
<1>1. /\ yy_n_chars \in Nat /\ yytext_ptr \in 0..yy_n_chars /\ yy_cp = yy_n_chars + 1
      /\ Matched \in Nat /\ Matched = yy_n_chars - yytext_ptr
  BY AtEnd
<1>2. /\ Len(file) \in Nat /\ pos \in 0..Len(file) /\ yy_ch_buf \in [0..yy_n_chars + 1 -> Chars]
      /\ \A k \in 1..Len(file) : file[k] \in Chars
  BY FileFacts DEF IInv, TypeOK
<1>3. ASSUME NEW k \in 0..Matched - 1
      PROVE  yy_ch_buf[yytext_ptr + k] = file[pos - Matched + k + 1]
  <2>1. yytext_ptr + k \in yytext_ptr..yy_n_chars - 1 /\ yytext_ptr + k # yy_cp
    BY <1>1
  <2>2. Text(yytext_ptr + k) = file[pos - yy_n_chars + (yytext_ptr + k) + 1]
    BY <2>1 DEF IInv, NothingLost, AtEndOfBuffer
  <2>3. Text(yytext_ptr + k) = yy_ch_buf[yytext_ptr + k]
    BY <2>1 DEF Text, AtEndOfBuffer
  <2>4. pos - yy_n_chars + (yytext_ptr + k) + 1 = pos - Matched + k + 1
    BY <1>1, <1>2
  <2> QED
    BY <2>2, <2>3, <2>4
<1> DEFINE M == Matched
<1>4. ASSUME NEW k \in 0..M + got + 1
      PROVE  /\ k < M => yy_ch_buf[yytext_ptr + k] \in Chars
             /\ ~(k < M) /\ k < M + got => file[pos + k - M + 1] \in Chars
  <2>1. k < M => yytext_ptr + k \in 0..yy_n_chars + 1
    BY <1>1
  <2>2. ~(k < M) /\ k < M + got => pos + k - M + 1 \in 1..Len(file)
    BY <1>1, <1>2
  <2> QED
    BY <1>2, <2>1, <2>2
<1>5. Refilled(got) = [k \in 0..M + got + 1 |->
         IF k < M THEN yy_ch_buf[yytext_ptr + k]
         ELSE IF k < M + got THEN file[pos + k - M + 1]
         ELSE NUL]
  BY DEF Refilled
<1>6. M \in Nat
  BY <1>1
<1> HIDE DEF M
<1>7. Refilled(got) \in [0..M + got + 1 -> Chars]
  <2>1. ASSUME NEW k \in 0..M + got + 1
        PROVE  (IF k < M THEN yy_ch_buf[yytext_ptr + k]
                ELSE IF k < M + got THEN file[pos + k - M + 1]
                ELSE NUL) \in Chars
    BY <1>4, BufferAssumption
  <2> QED
    BY <1>5, <2>1
<1>8. Refilled(got)[M + got] = NUL /\ Refilled(got)[M + got + 1] = NUL
  BY <1>5, <1>6
<1>9. ASSUME NEW k \in 0..M + got - 1
      PROVE  Refilled(got)[k] = file[(pos + got) - (M + got) + k + 1]
  <2>1. (pos + got) - (M + got) + k + 1 = pos - M + k + 1 /\ pos - M + k + 1 = pos + k - M + 1
    BY <1>2, <1>6
  <2>2. k \in 0..M + got + 1
    BY <1>6
  <2>3. CASE k < M
    <3>1. k \in 0..Matched - 1
      BY <1>6, <2>3 DEF M
    <3>2. yy_ch_buf[yytext_ptr + k] = file[pos - M + k + 1]
      BY <1>3, <3>1 DEF M
    <3> QED
      BY <1>5, <2>1, <2>2, <2>3, <3>2
  <2>4. CASE ~(k < M)
    <3>1. k < M + got
      BY <1>6
    <3> QED
      BY <1>5, <2>1, <2>2, <2>4, <3>1
  <2> QED
    BY <2>3, <2>4
<1> QED
  BY <1>1, <1>7, <1>8, <1>9 DEF M

(* What ContinueScan and LastMatch have in common: the buffer filled again, *)
(* and the automaton run again over the text that is still to be matched.   *)
LEMMA Rescan ==
    ASSUME IInv, AtEndOfBuffer, yy_c_buf_p > yy_n_chars,
           NEW got \in Nat, got <= Len(file) - pos,
           NEW before, before = PreviousState(Refilled(got), 0, Matched),
           Remember(before, 0, Matched),
           pos' = pos + got, file' = file, yy_hold_char' = yy_hold_char,
           yy_ch_buf' = Refilled(got), yy_n_chars' = Matched + got,
           yytext_ptr' = 0, yy_c_buf_p' = Matched, yy_cp' = Matched,
           yy_current_state' = before[Matched], yy_act' = yy_act,
           yy_is_interactive' = yy_is_interactive,
           yy_buf_size' \in Nat, yy_buf_size' > 1, Matched + got <= yy_buf_size',
           yy_buffer_status' \in {"NEW", "NORMAL", "EOF_PENDING"},
           pc' \in {"match", "find"}
    PROVE  /\ TypeOK' /\ NothingLost' /\ Marks'
           /\ yy_current_state' = yy_start <=> Matched = 0
           /\ yy_accept[yy_current_state'] # YY_END_OF_BUFFER
           /\ yy_accept[yy_current_state'] = 0 <=> yy_current_state' \in {yy_start, JAM}
           /\ yy_current_state' = JAM => LastValid'
           /\ yy_current_state' \in States
<1> DEFINE M == Matched
           buf == Refilled(got)
<1>1. /\ M \in Nat /\ buf \in [0..M + got + 1 -> Chars]
      /\ buf[M + got] = NUL /\ buf[M + got + 1] = NUL
      /\ \A k \in 0..M + got - 1 : buf[k] = file[(pos + got) - (M + got) + k + 1]
      /\ M + got <= pos + got /\ pos + got <= Len(file) /\ pos \in Nat
  <2>1. pos \in 0..Len(file) /\ Len(file) \in Nat
    BY FileFacts DEF IInv, TypeOK
  <2>2. M \in Nat /\ M <= yy_n_chars /\ yy_n_chars <= pos /\ yy_n_chars \in Nat
    BY AtEnd
  <2>3. /\ buf \in [0..M + got + 1 -> Chars]
        /\ buf[M + got] = NUL /\ buf[M + got + 1] = NUL
        /\ \A k \in 0..M + got - 1 : buf[k] = file[(pos + got) - (M + got) + k + 1]
    BY Refill
  <2> HIDE DEF M, buf
  <2> QED
    BY <2>1, <2>2, <2>3
<1> HIDE DEF M, buf
<1>2. \A k \in 0..M - 1 : buf[k] \in Chars
  BY <1>1
<1>3. /\ before \in [0..M -> States] /\ before[0] = yy_start
      /\ \A p \in 0 + 1..M : before[p] # yy_start /\ yy_accept[before[p]] # YY_END_OF_BUFFER
  <2>1. before = PreviousState(buf, 0, M)
    BY DEF M, buf
  <2> QED
    BY <1>1, <1>2, <2>1, Accepted
<1>4. /\ yy_last_accepting_state' \in States /\ yy_last_accepting_cpos' \in Nat
      /\ before[M] = JAM =>
            /\ yy_last_accepting_cpos' \in 0 + 1..M - 1
            /\ yy_accept[yy_last_accepting_state'] \notin {0, YY_END_OF_BUFFER}
  <2>1. before = PreviousState(buf, 0, M) /\ Remember(before, 0, M)
    BY DEF M, buf
  <2>2. yy_last_accepting_state \in States /\ yy_last_accepting_cpos \in Nat
    BY DEF IInv, TypeOK
  <2> QED
    BY <1>1, <1>2, <2>1, <2>2, RememberAccepted
<1>5. /\ yy_ch_buf' = buf /\ yy_n_chars' = M + got /\ yy_c_buf_p' = M /\ yy_cp' = M
      /\ yy_current_state' = before[M] /\ M + got <= yy_buf_size'
  BY DEF M, buf
<1>6. /\ before[M] \in States
      /\ before[M] = yy_start <=> M = 0
      /\ yy_accept[before[M]] # YY_END_OF_BUFFER
      /\ yy_accept[before[M]] = 0 <=> before[M] \in {yy_start, JAM}
  <2>1. before[M] \in States
    BY <1>1, <1>3
  <2>2. yy_accept[before[M]] = 0 <=> before[M] \in {yy_start, JAM}
    BY <2>1, TablesAssumption, Zenon
  <2>3. before[M] = yy_start <=> M = 0
    BY <1>1, <1>3
  <2>4. yy_accept[before[M]] # YY_END_OF_BUFFER
    <3>1. CASE M = 0
      BY <2>2, <2>3, <3>1 DEF YY_END_OF_BUFFER
    <3>2. CASE M # 0
      BY <1>1, <1>3, <3>2
    <3> QED
      BY <3>1, <3>2
  <2> QED
    BY <2>1, <2>2, <2>3, <2>4
<1>7. TypeOK'
  <2>1. /\ file \in Files /\ yy_is_interactive \in BOOLEAN /\ yy_hold_char \in Chars
        /\ yy_act \in 0..YY_END_OF_BUFFER
    BY DEF IInv, TypeOK
  <2>2. /\ pos' \in 0..Len(file) /\ yy_n_chars' \in 0..pos' /\ yy_n_chars' <= yy_buf_size'
        /\ yy_ch_buf' \in [0..yy_n_chars' + 1 -> Chars]
        /\ yy_c_buf_p' \in 0..yy_n_chars' + 1 /\ yytext_ptr' \in 0..yy_n_chars'
        /\ yy_cp' \in Nat /\ yy_cp' <= yy_n_chars' + 1
    BY <1>1, <1>5
  <2> QED
    BY <1>4, <1>5, <1>6, <2>1, <2>2 DEF TypeOK
<1>8. NothingLost' /\ Marks'
  <2>1. \A k \in 0..M + got + 1 : Text(k)' = buf[k]
    BY <1>5 DEF Text
  <2>2. \A k \in yytext_ptr'..yy_n_chars' - 1 : Text(k)' = file'[pos' - yy_n_chars' + k + 1]
    BY <1>1, <1>5, <2>1
  <2>3. NothingLost'
    BY <2>2 DEF NothingLost
  <2> QED
    BY <1>1, <1>5, <2>1, <2>3 DEF Marks
<1>9. before[M] = JAM => LastValid'
  BY <1>1, <1>4, <1>5 DEF LastValid, ValidAt
<1> QED
  BY <1>5, <1>6, <1>7, <1>8, <1>9 DEF M

LEMMA ContinueStep == IInv /\ ContinueScan => IInv'
<1> SUFFICES ASSUME IInv, ContinueScan PROVE IInv'
  OBVIOUS
<1> DEFINE size == IF Room <= 0 THEN 2 * yy_buf_size ELSE yy_buf_size
           max == Least(size - Matched - 1, YY_READ_BUF_SIZE)
           got == Input(max)
           before == PreviousState(Refilled(got), 0, Matched)
<1>1. AtEndOfBuffer /\ yy_c_buf_p > yy_n_chars
  BY DEF ContinueScan
<1>2. /\ Matched \in Nat /\ Matched <= yy_n_chars /\ yy_n_chars \in Nat /\ yy_n_chars <= yy_buf_size
      /\ yy_buf_size \in Nat /\ yy_buf_size > 1
      /\ file \in Files /\ pos \in 0..Len(file)
      /\ yy_buffer_status \in {"NEW", "NORMAL", "EOF_PENDING"}
  <2>1. Matched \in Nat /\ Matched <= yy_n_chars /\ yy_n_chars \in Nat
    BY <1>1, AtEnd
  <2> QED
    BY <2>1 DEF IInv, TypeOK, Pending
<1>3. size \in Nat /\ size > 1 /\ size - Matched - 1 \in Nat
  BY <1>2 DEF Room
<1>4. max \in Nat /\ max <= size - Matched - 1
  BY <1>3, BufferAssumption DEF Least
<1> HIDE DEF size, max
<1>5. got \in Nat /\ got <= max /\ got <= Len(file) - pos
  BY <1>2, <1>4, InputFacts
<1>6. /\ got > 0 /\ pos' = pos + got
      /\ yy_ch_buf' = Refilled(got) /\ yy_buf_size' = size /\ yy_n_chars' = Matched + got
      /\ yy_buffer_status' = Status /\ yy_buffer_status # "EOF_PENDING"
      /\ yytext_ptr' = 0 /\ yy_c_buf_p' = Matched /\ yy_cp' = Matched
      /\ yy_current_state' = before[Matched]
      /\ Remember(before, 0, Matched)
      /\ pc' = "match"
      /\ UNCHANGED <<file, yy_is_interactive, yy_hold_char, yy_act>>
  BY DEF ContinueScan, size, max
<1> HIDE DEF got
<1>7. Matched + got <= size
  BY <1>2, <1>3, <1>4, <1>5
<1>8. Status \in {"NEW", "NORMAL", "EOF_PENDING"} /\ Status # "EOF_PENDING"
  BY <1>2, <1>6 DEF Status
<1>9. before = PreviousState(Refilled(got), 0, Matched)
  OBVIOUS
<1> HIDE DEF before
<1>10. /\ TypeOK' /\ NothingLost' /\ Marks'
       /\ yy_current_state' = yy_start <=> Matched = 0
       /\ yy_current_state' = JAM => LastValid'
  BY <1>1, <1>3, <1>5, <1>6, <1>7, <1>8, <1>9, Rescan
<1>11. Pending'
  BY <1>3, <1>6, <1>8 DEF Pending
<1>12. InMatch'
  BY <1>2, <1>5, <1>6, <1>10 DEF InMatch
<1>13. InBegin' /\ InFind' /\ InAct'
  BY <1>6 DEF InBegin, InFind, InAct
<1> QED
  BY <1>10, <1>11, <1>12, <1>13 DEF IInv

LEMMA LastStep == IInv /\ LastMatch => IInv'
<1> SUFFICES ASSUME IInv, LastMatch PROVE IInv'
  OBVIOUS
<1> DEFINE size == IF Room <= 0 /\ yy_buffer_status # "EOF_PENDING"
                   THEN 2 * yy_buf_size ELSE yy_buf_size
           before == PreviousState(Refilled(0), 0, Matched)
<1>1. AtEndOfBuffer /\ yy_c_buf_p > yy_n_chars /\ NoMore /\ Matched > 0
  BY DEF LastMatch
<1>2. /\ Matched \in Nat /\ Matched <= yy_n_chars /\ yy_n_chars \in Nat /\ yy_n_chars <= yy_buf_size
      /\ yy_buf_size \in Nat /\ yy_buf_size > 1
      /\ file \in Files /\ pos \in 0..Len(file) /\ Len(file) \in Nat
  <2>1. Matched \in Nat /\ Matched <= yy_n_chars /\ yy_n_chars \in Nat
    BY <1>1, AtEnd
  <2> QED
    BY <2>1, FileFacts DEF IInv, TypeOK, Pending
<1>3. size \in Nat /\ size > 1 /\ Matched + 0 <= size
  BY <1>2
<1>4. /\ yy_ch_buf' = Refilled(0) /\ yy_buf_size' = size /\ yy_n_chars' = Matched
      /\ yy_buffer_status' = "EOF_PENDING"
      /\ yytext_ptr' = 0 /\ yy_c_buf_p' = Matched /\ yy_cp' = Matched
      /\ yy_current_state' = before[Matched]
      /\ Remember(before, 0, Matched)
      /\ pc' = "find"
      /\ UNCHANGED <<file, pos, yy_is_interactive, yy_hold_char, yy_act>>
  BY DEF LastMatch
<1>5. before = PreviousState(Refilled(0), 0, Matched)
  OBVIOUS
<1> HIDE DEF size, before
<1>6. 0 \in Nat /\ 0 <= Len(file) - pos /\ pos' = pos + 0 /\ yy_n_chars' = Matched + 0
  BY <1>2, <1>4
<1>7. /\ TypeOK' /\ NothingLost' /\ Marks'
      /\ yy_current_state' = yy_start <=> Matched = 0
      /\ yy_accept[yy_current_state'] # YY_END_OF_BUFFER
      /\ yy_accept[yy_current_state'] = 0 <=> yy_current_state' \in {yy_start, JAM}
      /\ yy_current_state' = JAM => LastValid'
      /\ yy_current_state' \in States
  BY <1>1, <1>3, <1>4, <1>5, <1>6, Rescan
<1>8. Pending'
  BY <1>1, <1>3, <1>4 DEF IInv, Pending, NoMore
<1>9. InFind'
  <2>1. yy_accept[yy_current_state'] # 0 => ValidAt(yy_current_state, yy_cp)'
    BY <1>1, <1>2, <1>4, <1>7 DEF ValidAt
  <2> QED
    BY <1>1, <1>2, <1>4, <1>7, <2>1 DEF InFind
<1>10. InBegin' /\ InMatch' /\ InAct'
  BY <1>4 DEF InBegin, InMatch, InAct
<1> QED
  BY <1>7, <1>8, <1>9, <1>10 DEF IInv

LEMMA EndStep == IInv /\ EndOfFile => IInv'
<1> SUFFICES ASSUME IInv, EndOfFile PROVE IInv'
  OBVIOUS
<1>1. Empty \in [0..1 -> Chars] /\ Empty[0] = NUL /\ Empty[1] = NUL
  BY BufferAssumption DEF Empty
<1>2. TypeOK'
  BY <1>1, BufferAssumption, FileFacts DEF IInv, TypeOK, EndOfFile, last
<1>3. Marks' /\ NothingLost'
  BY <1>1 DEF IInv, Pending, EndOfFile, NoMore, Marks, NothingLost, Text
<1>4. Pending' /\ InBegin' /\ InMatch' /\ InFind' /\ InAct'
  BY DEF IInv, Pending, EndOfFile, InBegin, InMatch, InFind, InAct
<1> QED
  BY <1>2, <1>3, <1>4 DEF IInv

LEMMA Inductive == IInv /\ [Next]_vars => IInv'
<1> SUFFICES ASSUME IInv, [Next]_vars PROVE IInv'
  OBVIOUS
<1>1. CASE UNCHANGED vars
  BY <1>1 DEF vars, buffer, last, IInv, TypeOK, NothingLost, Marks, Text, Pending, InBegin, InMatch,
              InFind, InAct, LastValid, ValidAt
<1>2. CASE Next
  BY <1>2, BeginStep, MatchStep, FindStep, RuleStep, RealNULStep, ContinueStep, LastStep, EndStep
  DEF Next
<1> QED
  BY <1>1, <1>2

(* The invariant of the scanner, for every file, size and automaton.        *)
LEMMA Invariance == Spec => []IInv
BY InitInv, Inductive, PTL DEF Spec

(* Whatever the file, the sizes and the tables, every pointer stays in the  *)
(* buffer and the match loop never reads past the second end mark.          *)
THEOREM TypeCorrect == Spec => []TypeOK
<1>1. IInv => TypeOK
  BY DEF IInv
<1> QED
  BY <1>1, Invariance, PTL

(* Whatever the file and however it is read, no character of it is lost, in *)
(* however many refills and moves of the buffer.                            *)
THEOREM NothingIsLost == Spec => []NothingLost
<1>1. IInv => NothingLost
  BY DEF IInv
<1> QED
  BY <1>1, Invariance, PTL

-----------------------------------------------------------------------------
(* P2Driver: sequences                                                      *)

\* What Append does, for the provers that do not compute with sequences.
LEMMA Appended ==
    ASSUME NEW X, NEW s \in Seq(X), NEW x \in X
    PROVE  /\ Append(s, x) \in Seq(X) /\ Len(Append(s, x)) = Len(s) + 1
           /\ Append(s, x)[Len(s) + 1] = x
           /\ \A k \in 1..Len(s) : Append(s, x)[k] = s[k]
  OBVIOUS

\* An -o before the k-th argument whose file name is still to come.
OutputPending(args, k) ==
    \E j \in 1..k - 1 : args[j] = "-o" /\ \A l \in j + 1..k - 1 : args[l] \in Options

Asks(args, k) == args[k] \notin Options /\ ~OutputPending(args, k)

\* u[k] is what the first k arguments ask for.
IsUpto(args, u) ==
    /\ u \in [0..Len(args) -> Seq(DOMAIN length)]
    /\ u[0] = <<>>
    /\ \A k \in 1..Len(args) : u[k] = IF Asks(args, k) THEN Append(u[k - 1], args[k]) ELSE u[k - 1]

(* Asked is the last value of such a function: the sequence that it builds  *)
(* one argument at a time, as the command line's scanner does.              *)
LEMMA AskedUpto ==
    ASSUME NEW args \in Seq(DOMAIN length)
    PROVE  \E u : IsUpto(args, u) /\ Asked(args) = u[Len(args)]
<1> DEFINE S == Seq(DOMAIN length)
           T == [k \in Nat |-> [s \in S |->
                    IF k \in 1..Len(args) /\ Asks(args, k) THEN Append(s, args[k]) ELSE s]]
           Rec(f) == f = [k \in 0..Len(args) |->
                            IF k = 0 THEN <<>>
                            ELSE IF Asks(args, k) THEN Append(f[k - 1], args[k]) ELSE f[k - 1]]
<1>1. Len(args) \in Nat
  OBVIOUS
<1>2. T \in [Nat -> [S -> S]]
  <2>1. ASSUME NEW k \in Nat, NEW s \in S
        PROVE  (IF k \in 1..Len(args) /\ Asks(args, k) THEN Append(s, args[k]) ELSE s) \in S
    <3>1. k \in 1..Len(args) => args[k] \in DOMAIN length
      OBVIOUS
    <3>2. k \in 1..Len(args) => Append(s, args[k]) \in S
      BY <3>1, Appended
    <3> QED
      BY <3>2
  <2> HIDE DEF S
  <2> QED
    BY <2>1
<1>3. \E f : IsRecursion(f, 0, Len(args), S, <<>>, T)
  <2>1. <<>> \in S
    OBVIOUS
  <2> HIDE DEF S, T
  <2> QED
    BY <1>1, <1>2, <2>1, PrefixRecursion
<1>4. PICK f \in [0..Len(args) -> S] :
         \A p \in 0..Len(args) : f[p] = IF p = 0 THEN <<>> ELSE T[p][f[p - 1]]
  <2> HIDE DEF S, T
  <2> QED
    BY <1>3 DEF IsRecursion
<1>5. ASSUME NEW p \in 0..Len(args)
      PROVE  f[p] = IF p = 0 THEN <<>>
                    ELSE IF Asks(args, p) THEN Append(f[p - 1], args[p]) ELSE f[p - 1]
  <2>1. CASE p = 0
    BY <1>4, <2>1
  <2>2. CASE p # 0
    <3>1. p \in 1..Len(args) /\ p \in Nat /\ p - 1 \in 0..Len(args)
      BY <1>1, <2>2
    <3>2. f[p - 1] \in S /\ f[p] = T[p][f[p - 1]]
      BY <1>4, <2>2, <3>1
    <3> QED
      BY <2>2, <3>1, <3>2
  <2> QED
    BY <2>1, <2>2
<1>6. Rec(f)
  <2> HIDE DEF S
  <2>1. f = [p \in 0..Len(args) |-> f[p]]
    OBVIOUS
  <2> QED
    BY <1>5, <2>1
<1> DEFINE u == CHOOSE h : Rec(h)
<1>7. Rec(u)
  BY <1>6
<1>8. Asked(args) = u[Len(args)]
  BY DEF Asked, Asks, OutputPending
<1> HIDE DEF u
<1>9. ASSUME NEW p \in 0..Len(args)
      PROVE  u[p] = IF p = 0 THEN <<>>
                    ELSE IF Asks(args, p) THEN Append(u[p - 1], args[p]) ELSE u[p - 1]
  BY <1>7
<1>10. \A p \in 0..Len(args) : u[p] \in S
  <2> DEFINE Bad == {p \in 0..Len(args) : u[p] \notin S}
  <2> SUFFICES ASSUME Bad # {} PROVE FALSE
    OBVIOUS
  <2>1. PICK p \in Bad : \A q \in Bad : p <= q
    <3> HIDE DEF S
    <3>1. Bad \in SUBSET Nat
      BY <1>1
    <3> HIDE DEF Bad
    <3> QED
      BY <3>1, LeastElement
  <2>2. p # 0
    <3>1. u[0] = <<>> /\ <<>> \in S
      BY <1>1, <1>9
    <3> QED
      BY <2>1, <3>1
  <2>3. p \in 1..Len(args) /\ p - 1 \in 0..Len(args) /\ u[p - 1] \in S /\ args[p] \in DOMAIN length
    <3>1. p \in 1..Len(args) /\ p - 1 \in 0..Len(args) /\ p - 1 < p
      BY <1>1, <2>1, <2>2
    <3> HIDE DEF S
    <3>2. u[p - 1] \in S
      BY <2>1, <3>1
    <3> QED
      BY <3>1, <3>2
  <2>4. u[p] \in S
    <3>1. u[p] = u[p - 1] \/ u[p] = Append(u[p - 1], args[p])
      BY <1>9, <2>2, <2>3
    <3>2. Append(u[p - 1], args[p]) \in S
      BY <2>3, Appended
    <3> QED
      BY <2>3, <3>1, <3>2
  <2> QED
    BY <2>1, <2>4
<1>11. IsUpto(args, u)
  <2> HIDE DEF S
  <2>1. u = [p \in 0..Len(args) |-> u[p]]
    BY <1>7
  <2>2. u \in [0..Len(args) -> S]
    BY <1>10, <2>1
  <2>3. u[0] = <<>>
    BY <1>1, <1>9
  <2>4. \A k \in 1..Len(args) :
           u[k] = IF Asks(args, k) THEN Append(u[k - 1], args[k]) ELSE u[k - 1]
    BY <1>1, <1>9
  <2> QED
    BY <2>2, <2>3, <2>4 DEF IsUpto, S
<1> QED
  BY <1>8, <1>11

-----------------------------------------------------------------------------
(* P2Driver: what the files hold                                            *)

\* Items with the file, of the files Q, they are from.
Pairs(Q) == Q \X Items

Tagged(q, r) == [i \in DOMAIN r |-> <<q, r[i]>>]

\* G is what is in the files Q.
HasText(Q, G) == G \in [Q -> Seq(Items)]

\* g[p] are the items of the first p files of f, of the files Q with the texts G.
IsAll(f, g, Q, G) ==
    /\ g \in [1..Len(f) -> Seq(Pairs(Q))]
    /\ \A p \in 1..Len(f) : g[p] = IF p = 1 THEN Tagged(f[1], G[f[1]])
                                    ELSE g[p - 1] \o Tagged(f[p], G[f[p]])

LEMMA TaggedType ==
    ASSUME NEW Q, NEW q \in Q, NEW r \in Seq(Items)
    PROVE  /\ Tagged(q, r) \in Seq(Pairs(Q)) /\ Len(Tagged(q, r)) = Len(r)
           /\ \A i \in 1..Len(r) : Tagged(q, r)[i] = <<q, r[i]>>
<1>1. DOMAIN r = 1..Len(r) /\ Len(r) \in Nat /\ \A i \in 1..Len(r) : r[i] \in Items
  OBVIOUS
<1>2. \A i \in 1..Len(r) : <<q, r[i]>> \in Pairs(Q)
  BY <1>1 DEF Pairs
<1>3. Tagged(q, r) = [i \in 1..Len(r) |-> <<q, r[i]>>]
  BY <1>1 DEF Tagged
<1> HIDE DEF Pairs
<1> QED
  BY <1>1, <1>2, <1>3

LEMMA Concatenated ==
    ASSUME NEW X, NEW a \in Seq(X), NEW b \in Seq(X)
    PROVE  a \o b \in Seq(X)
  OBVIOUS

\* c is a, of n elements, with b, of k, behind it.
IsJoin(c, a, b, n, k) ==
    /\ Len(c) = n + k
    /\ \A l \in 1..n : c[l] = a[l]
    /\ \A l \in 1..k : c[n + l] = b[l]

LEMMA Joined ==
    ASSUME NEW X, NEW a \in Seq(X), NEW b \in Seq(X), NEW c, c = a \o b
    PROVE  c \in Seq(X) /\ Len(a) \in Nat /\ Len(b) \in Nat /\ IsJoin(c, a, b, Len(a), Len(b))
  BY DEF IsJoin

LEMMA IntervalSize ==
    ASSUME NEW n \in Nat
    PROVE  Cardinality(1..n) = n
  BY FS_Interval

(* The items of all files, as FlattenSeq has them, are the last value of such*)
(* a function.                                                              *)
LEMMA AllOf ==
    ASSUME NEW Q, NEW G, HasText(Q, G), NEW f \in Seq(Q), f # <<>>
    PROVE  \E g : /\ IsAll(f, g, Q, G)
                  /\ FlattenSeq([k \in DOMAIN f |->
                         [i \in DOMAIN G[f[k]] |-> <<f[k], G[f[k]][i]>>]]) = g[Len(f)]
<1> DEFINE n == Len(f)
           S == Seq(Pairs(Q))
           s == [k \in 1..n |-> Tagged(f[k], G[f[k]])]
           T == [k \in Nat |-> [h \in S |-> IF k \in 1..n THEN h \o s[k] ELSE h]]
           Rec(h) == h = [k \in 1..n |-> IF k = 1 THEN s[k] ELSE h[k - 1] \o s[k]]
<1>1. n \in Nat \ {0} /\ DOMAIN f = 1..n /\ 1 \in 1..n /\ \A k \in 1..n : f[k] \in Q
  OBVIOUS
<1>2. \A k \in 1..n : s[k] = Tagged(f[k], G[f[k]]) /\ s[k] \in S
  <2> TAKE k \in 1..n
  <2>1. f[k] \in Q /\ G[f[k]] \in Seq(Items)
    BY <1>1 DEF HasText
  <2> QED
    BY <2>1, TaggedType
<1>3. Len(s) = n
  BY <1>1
<1>4. s = [k \in DOMAIN f |-> [i \in DOMAIN G[f[k]] |-> <<f[k], G[f[k]][i]>>]]
  BY <1>1 DEF Tagged
<1>5. T \in [Nat -> [S -> S]]
  <2>1. ASSUME NEW k \in Nat, NEW h \in S
        PROVE  (IF k \in 1..n THEN h \o s[k] ELSE h) \in S
    <3> HIDE DEF n, s
    <3> QED
      BY <1>2, Concatenated
  <2> HIDE DEF S, n, s
  <2> QED
    BY <2>1
<1>6. \E h : IsRecursion(h, 1, n, S, s[1], T)
  <2>1. s[1] \in S /\ 1 \in Nat /\ n \in Nat
    BY <1>1, <1>2
  <2> HIDE DEF S, T, s, n
  <2> QED
    BY <1>5, <2>1, PrefixRecursion
<1>7. \E h : Rec(h)
  <2> HIDE DEF S, n, s
  <2>1. PICK h \in [1..n -> S] : \A p \in 1..n : h[p] = IF p = 1 THEN s[1] ELSE T[p][h[p - 1]]
    <3> HIDE DEF T
    <3> QED
      BY <1>6 DEF IsRecursion
  <2>2. ASSUME NEW p \in 1..n
        PROVE  h[p] = IF p = 1 THEN s[p] ELSE h[p - 1] \o s[p]
    <3>1. CASE p = 1
      BY <2>1, <3>1
    <3>2. CASE p # 1
      <4>1. p \in Nat /\ p - 1 \in 1..n /\ h[p - 1] \in S
        BY <1>1, <2>1, <3>2
      <4> QED
        BY <2>1, <3>2, <4>1
    <3> QED
      BY <3>1, <3>2
  <2>3. h = [k \in 1..n |-> h[k]]
    BY <2>1
  <2>4. Rec(h)
    BY <2>2, <2>3
  <2> QED
    BY <2>4
<1> DEFINE g == CHOOSE h : Rec(h)
<1>8. Rec(g)
  BY <1>7
<1>9. FlattenSeq(s) = g[n]
  BY <1>1, <1>3 DEF FlattenSeq
<1> HIDE DEF g
<1>10. \A k \in 1..n : g[k] = IF k = 1 THEN s[k] ELSE g[k - 1] \o s[k]
  <2> HIDE DEF s, n
  <2> QED
    BY <1>8
<1>11. \A k \in 1..n : g[k] \in S
  <2> HIDE DEF s, n, S
  <2> DEFINE Bad == {k \in 1..n : g[k] \notin S}
  <2> SUFFICES ASSUME Bad # {} PROVE FALSE
    OBVIOUS
  <2>1. PICK k \in Bad : \A q \in Bad : k <= q
    <3>1. Bad \in SUBSET Nat
      BY <1>1
    <3> HIDE DEF Bad
    <3> QED
      BY <3>1, LeastElement
  <2>2. k # 1
    BY <1>1, <1>2, <1>10, <2>1
  <2>3. k - 1 \in 1..n /\ g[k - 1] \in S
    BY <1>1, <2>1, <2>2
  <2>4. g[k] = g[k - 1] \o s[k] /\ s[k] \in S
    BY <1>2, <1>10, <2>1, <2>2
  <2>5. g[k] \in S
    BY <2>3, <2>4, Concatenated DEF S
  <2> QED
    BY <2>1, <2>5
<1>12. IsAll(f, g, Q, G)
  <2>1. g = [k \in 1..n |-> g[k]]
    <3> HIDE DEF s, n
    <3> QED
      BY <1>8
  <2>2. g \in [1..n -> S]
    <3> HIDE DEF S, n
    <3> QED
      BY <1>11, <2>1
  <2>3. \A p \in 1..n : g[p] = IF p = 1 THEN Tagged(f[1], G[f[1]])
                               ELSE g[p - 1] \o Tagged(f[p], G[f[p]])
    BY <1>2, <1>10
  <2> QED
    BY <2>2, <2>3 DEF IsAll
<1> QED
  BY <1>4, <1>9, <1>12

(* The items of the first N files are the first items of all.               *)
LEMMA EarlierFiles ==
    ASSUME NEW Q, NEW G, HasText(Q, G), NEW f \in Seq(Q), NEW g, IsAll(f, g, Q, G), NEW N \in 1..Len(f)
    PROVE  \A n \in N..Len(f) : /\ Len(g[N]) <= Len(g[n])
                                /\ \A i \in 1..Len(g[N]) : g[n][i] = g[N][i]
<1> DEFINE Ok(n) == Len(g[N]) <= Len(g[n]) /\ \A i \in 1..Len(g[N]) : g[n][i] = g[N][i]
           Bad == {n \in N..Len(f) : ~Ok(n)}
<1>1. Len(f) \in Nat /\ \A k \in 1..Len(f) : g[k] \in Seq(Pairs(Q)) /\ Len(g[k]) \in Nat
  <2>1. \A k \in 1..Len(f) : g[k] \in Seq(Pairs(Q))
    BY DEF IsAll
  <2> QED
    BY <2>1
<1> SUFFICES ASSUME Bad # {} PROVE FALSE
  OBVIOUS
<1>2. PICK n \in Bad : \A q \in Bad : n <= q
  <2>1. Bad \in SUBSET Nat
    BY <1>1
  <2> HIDE DEF Bad
  <2> QED
    BY <2>1, LeastElement
<1>3. n # N
  <2>1. Ok(N)
    BY <1>1
  <2> QED
    BY <1>2, <2>1
<1>4. /\ n \in 1..Len(f) /\ n - 1 \in N..Len(f) /\ n - 1 \in 1..Len(f) /\ n # 1
      /\ f[n] \in Q /\ G[f[n]] \in Seq(Items)
  <2>1. /\ n \in 1..Len(f) /\ n - 1 \in N..Len(f) /\ n - 1 \in 1..Len(f) /\ n # 1
        /\ f[n] \in Q
    BY <1>1, <1>2, <1>3
  <2>2. G[f[n]] \in Seq(Items)
    BY <2>1 DEF HasText
  <2> QED
    BY <2>1, <2>2
<1>5. Ok(n - 1)
  <2>1. n - 1 \notin Bad
    BY <1>1, <1>2, <1>4
  <2> QED
    BY <1>4, <2>1
<1>6. g[n] = g[n - 1] \o Tagged(f[n], G[f[n]])
  BY <1>4 DEF IsAll
<1>7. Tagged(f[n], G[f[n]]) \in Seq(Pairs(Q)) /\ g[n - 1] \in Seq(Pairs(Q))
  BY <1>1, <1>4, TaggedType
<1>8. /\ Len(g[n - 1]) <= Len(g[n])
      /\ \A i \in 1..Len(g[n - 1]) : g[n][i] = g[n - 1][i]
  <2> DEFINE t == Tagged(f[n], G[f[n]])
             la == Len(g[n - 1])
             lt == Len(t)
  <2>1. IsJoin(g[n], g[n - 1], t, la, lt) /\ la \in Nat /\ lt \in Nat
    BY <1>6, <1>7, Joined
  <2> HIDE DEF t, la, lt, Ok, Bad
  <2>2. la <= Len(g[n]) /\ \A i \in 1..la : g[n][i] = g[n - 1][i]
    BY <2>1 DEF IsJoin
  <2> QED
    BY <2>2 DEF la
<1>9. Ok(n)
  BY <1>1, <1>4, <1>5, <1>8
<1> QED
  BY <1>2, <1>9

\* The declarations of m, as items.
Did(m) == [n \in DOMAIN m |-> <<m[n], "decl">>]

LEMMA DidType ==
    ASSUME NEW Q, NEW m \in Seq(Q)
    PROVE  /\ Did(m) \in Seq(Pairs(Q)) /\ Len(Did(m)) = Len(m)
           /\ \A i \in 1..Len(m) : Did(m)[i] = <<m[i], "decl">>
<1>1. DOMAIN m = 1..Len(m) /\ Len(m) \in Nat /\ \A i \in 1..Len(m) : m[i] \in Q
  OBVIOUS
<1>2. \A i \in 1..Len(m) : <<m[i], "decl">> \in Pairs(Q)
  BY <1>1 DEF Pairs, Items
<1>3. Did(m) = [i \in 1..Len(m) |-> <<m[i], "decl">>]
  BY <1>1 DEF Did
<1> HIDE DEF Pairs
<1> QED
  BY <1>1, <1>2, <1>3

LEMMA Prefix ==
    ASSUME NEW X, NEW a \in Seq(X), NEW n \in Nat, n <= Len(a)
    PROVE  /\ SubSeq(a, 1, n) \in Seq(X) /\ Len(SubSeq(a, 1, n)) = n
           /\ \A k \in 1..n : SubSeq(a, 1, n)[k] = a[k]
  OBVIOUS

LEMMA SameSequence ==
    ASSUME NEW X, NEW a \in Seq(X), NEW b \in Seq(X), Len(a) = Len(b),
           \A k \in 1..Len(a) : a[k] = b[k]
    PROVE  a = b
  OBVIOUS

(* A declaration that is made moves from what is left to what was done.     *)
LEMMA MakeOne ==
    ASSUME NEW Q, NEW m \in Seq(Q), NEW q \in Q, NEW r \in Seq(Items),
           r # <<>>, Head(r) = "decl"
    PROVE  /\ Append(m, q) \in Seq(Q) /\ Tail(r) \in Seq(Items)
           /\ Did(Append(m, q)) \o Tagged(q, Tail(r)) = Did(m) \o Tagged(q, r)
<1> DEFINE m1 == Append(m, q)
           r1 == Tail(r)
           x == Did(m1) \o Tagged(q, r1)
           y == Did(m) \o Tagged(q, r)
           n == Len(m)
           k1 == Len(r1)
<1>1. /\ n \in Nat /\ m1 \in Seq(Q) /\ Len(m1) = n + 1 /\ m1[n + 1] = q
      /\ \A k \in 1..n : m1[k] = m[k]
  OBVIOUS
<1>2. /\ r1 \in Seq(Items) /\ k1 \in Nat /\ Len(r) = k1 + 1 /\ r[1] = "decl"
      /\ \A k \in 1..k1 : r1[k] = r[k + 1]
  OBVIOUS
<1> HIDE DEF m1, r1
<1>3. /\ Did(m) \in Seq(Pairs(Q)) /\ Len(Did(m)) = n
      /\ \A i \in 1..n : Did(m)[i] = <<m[i], "decl">>
      /\ Did(m1) \in Seq(Pairs(Q)) /\ Len(Did(m1)) = n + 1
      /\ \A i \in 1..n + 1 : Did(m1)[i] = <<m1[i], "decl">>
  BY <1>1, DidType
<1>4. /\ Tagged(q, r) \in Seq(Pairs(Q)) /\ Len(Tagged(q, r)) = k1 + 1
      /\ \A i \in 1..k1 + 1 : Tagged(q, r)[i] = <<q, r[i]>>
      /\ Tagged(q, r1) \in Seq(Pairs(Q)) /\ Len(Tagged(q, r1)) = k1
      /\ \A i \in 1..k1 : Tagged(q, r1)[i] = <<q, r1[i]>>
  BY <1>2, TaggedType
<1>5. x \in Seq(Pairs(Q)) /\ IsJoin(x, Did(m1), Tagged(q, r1), n + 1, k1)
  BY <1>3, <1>4, Joined
<1>6. y \in Seq(Pairs(Q)) /\ IsJoin(y, Did(m), Tagged(q, r), n, k1 + 1)
  BY <1>3, <1>4, Joined
<1> HIDE DEF x, y, n, k1
<1>7. Len(x) = n + k1 + 1 /\ Len(y) = n + k1 + 1
  BY <1>1, <1>2, <1>5, <1>6 DEF IsJoin
<1>8. ASSUME NEW k \in 1..n + k1 + 1 PROVE x[k] = y[k]
  <2>1. CASE k <= n
    <3>1. k \in 1..n /\ k \in 1..n + 1
      BY <1>1, <1>2, <2>1
    <3>2. x[k] = <<m1[k], "decl">>
      BY <1>3, <1>5, <3>1 DEF IsJoin
    <3>3. y[k] = <<m[k], "decl">>
      BY <1>3, <1>6, <3>1 DEF IsJoin
    <3> QED
      BY <1>1, <3>1, <3>2, <3>3
  <2>2. CASE k = n + 1
    <3>1. n + 1 \in 1..n + 1 /\ 1 \in 1..k1 + 1
      BY <1>1, <1>2
    <3>2. x[k] = <<q, "decl">>
      BY <1>1, <1>3, <1>5, <2>2, <3>1 DEF IsJoin
    <3>3. y[k] = <<q, r[1]>>
      BY <1>4, <1>6, <2>2, <3>1 DEF IsJoin
    <3> QED
      BY <1>2, <3>2, <3>3
  <2>3. CASE k > n + 1
    <3>1. PICK l : l = k - (n + 1)
      OBVIOUS
    <3>2. l \in 1..k1 /\ k = (n + 1) + l /\ l + 1 \in 1..k1 + 1 /\ k = n + (l + 1)
      BY <1>1, <1>2, <2>3, <3>1
    <3>3. x[k] = <<q, r1[l]>>
      BY <1>4, <1>5, <3>2 DEF IsJoin
    <3>4. y[k] = <<q, r[l + 1]>>
      BY <1>4, <1>6, <3>2 DEF IsJoin
    <3> QED
      BY <1>2, <3>2, <3>3, <3>4
  <2> QED
    BY <1>1, <1>2, <2>1, <2>2, <2>3
<1> HIDE DEF Pairs
<1>9. x = y
  BY <1>5, <1>6, <1>7, <1>8, SameSequence
<1> QED
  BY <1>1, <1>2, <1>9 DEF x, y, m1, r1

\* The items before the first END.
UpToEnd(all) == SubSeq(all, 1, Cardinality({n \in DOMAIN all : \A k \in 1..n : all[k][2] # "END"}))

\* The parser has made m and stops in the N-th file, q, before the first END or at the end
\* of the last file, with r left of it.
ParsedTo(f, g, Q, G, N, m, q, r) ==
    /\ HasText(Q, G) /\ f \in Seq(Q) /\ IsAll(f, g, Q, G) /\ N \in 1..Len(f)
    /\ m \in Seq(Q) /\ q \in Q /\ r \in Seq(Items)
    /\ g[N] = Did(m) \o Tagged(q, r)
    /\ \/ r # <<>> /\ Head(r) = "END"
       \/ r = <<>> /\ N = Len(f)

(* Then what it has made is the program.                                    *)
LEMMA ProgramIs ==
    ASSUME NEW f, NEW g, NEW Q, NEW G, NEW N, NEW m, NEW q, NEW r, ParsedTo(f, g, Q, G, N, m, q, r)
    PROVE  UpToEnd(g[Len(f)]) = Did(m)
<1> USE DEF ParsedTo
<1> DEFINE all == g[Len(f)]
           Before == {n \in DOMAIN all : \A k \in 1..n : all[k][2] # "END"}
           lm == Len(m)
           lr == Len(r)
           la == Len(all)
<1>1. /\ N \in Nat /\ N <= Len(f) /\ lm \in Nat /\ lr \in Nat
      /\ all \in Seq(Pairs(Q)) /\ DOMAIN all = 1..la /\ la \in Nat
  <2>1. N \in Nat /\ N <= Len(f) /\ Len(f) \in 1..Len(f)
    OBVIOUS
  <2>2. all \in Seq(Pairs(Q))
    <3> HIDE DEF Pairs
    <3> QED
      BY <2>1 DEF IsAll
  <2>3. DOMAIN all = 1..la /\ la \in Nat
    BY <2>2
  <2> QED
    BY <2>1, <2>2, <2>3
<1>2. /\ Did(m) \in Seq(Pairs(Q)) /\ Len(Did(m)) = lm
      /\ \A i \in 1..lm : Did(m)[i] = <<m[i], "decl">>
  BY DidType
<1>3. /\ Tagged(q, r) \in Seq(Pairs(Q)) /\ Len(Tagged(q, r)) = lr
      /\ \A i \in 1..lr : Tagged(q, r)[i] = <<q, r[i]>>
  BY TaggedType
<1>4. \/ lr > 0 /\ r[1] = "END"
      \/ lr = 0 /\ N = Len(f)
  OBVIOUS
<1>5. Len(g[N]) <= la /\ \A i \in 1..Len(g[N]) : all[i] = g[N][i]
  <2>1. Len(f) \in N..Len(f)
    OBVIOUS
  <2>2. \A n \in N..Len(f) : /\ Len(g[N]) <= Len(g[n])
                             /\ \A i \in 1..Len(g[N]) : g[n][i] = g[N][i]
    <3>1. HasText(Q, G) /\ f \in Seq(Q) /\ IsAll(f, g, Q, G) /\ N \in 1..Len(f)
      OBVIOUS
    <3> HIDE DEF ParsedTo
    <3> QED
      BY <3>1, EarlierFiles
  <2> QED
    BY <2>1, <2>2 DEF all
<1>6. IsJoin(g[N], Did(m), Tagged(q, r), lm, lr)
  BY <1>2, <1>3, Joined
<1> HIDE DEF lm, lr, la, all, ParsedTo
<1>7. lm <= la /\ \A k \in 1..lm : all[k] = <<m[k], "decl">>
  BY <1>1, <1>2, <1>5, <1>6 DEF IsJoin
<1>8. Before = 1..lm
  <2>1. \A k \in 1..lm : all[k][2] # "END"
    BY <1>7
  <2>2. ASSUME NEW n \in 1..la, n > lm
        PROVE  \E k \in 1..n : all[k][2] = "END"
    <3>1. CASE lr > 0 /\ r[1] = "END"
      <4>1. 1 \in 1..lr /\ lm + 1 \in 1..lm + lr /\ lm + 1 \in 1..n
        BY <1>1, <2>2, <3>1
      <4>2. all[lm + 1] = <<q, r[1]>>
        BY <1>3, <1>5, <1>6, <4>1 DEF IsJoin
      <4> QED
        BY <3>1, <4>1, <4>2
    <3>2. CASE lr = 0 /\ N = Len(f)
      <4>1. la = lm + lr
        BY <1>6, <3>2 DEF IsJoin, la, all
      <4> QED
        BY <1>1, <2>2, <3>2, <4>1
    <3> QED
      BY <1>4, <3>1, <3>2
  <2>3. ASSUME NEW n \in 1..la
        PROVE  (\A k \in 1..n : all[k][2] # "END") <=> n \in 1..lm
    <3>1. CASE n > lm
      <4>1. \E k \in 1..n : all[k][2] = "END"
        BY <2>2, <3>1
      <4>2. n \notin 1..lm
        BY <1>1, <3>1
      <4> QED
        BY <4>1, <4>2
    <3>2. CASE n <= lm
      BY <1>1, <2>1, <3>2
    <3> QED
      BY <1>1, <3>1, <3>2
  <2>4. 1..lm \subseteq 1..la
    BY <1>1, <1>7
  <2>5. Before = {n \in 1..la : \A k \in 1..n : all[k][2] # "END"}
    BY <1>1
  <2> HIDE DEF Before
  <2> QED
    BY <2>3, <2>4, <2>5
<1>9. Cardinality(Before) = lm
  BY <1>1, <1>8, IntervalSize
<1> HIDE DEF Before
<1>10. SubSeq(all, 1, lm) = Did(m)
  <2>1. /\ SubSeq(all, 1, lm) \in Seq(Pairs(Q)) /\ Len(SubSeq(all, 1, lm)) = lm
        /\ \A k \in 1..lm : SubSeq(all, 1, lm)[k] = all[k]
    <3> HIDE DEF Pairs
    <3>1. all \in Seq(Pairs(Q)) /\ lm \in Nat /\ lm <= Len(all)
      BY <1>1, <1>7 DEF la
    <3> QED
      BY <3>1, Prefix
  <2>2. Len(SubSeq(all, 1, lm)) = Len(Did(m))
    BY <1>2, <2>1
  <2>3. \A k \in 1..Len(SubSeq(all, 1, lm)) : SubSeq(all, 1, lm)[k] = Did(m)[k]
    BY <1>2, <1>7, <2>1
  <2> HIDE DEF Pairs
  <2> QED
    BY <1>2, <2>1, <2>2, <2>3, SameSequence
<1> QED
  BY <1>9, <1>10 DEF Before, UpToEnd, all

-----------------------------------------------------------------------------
(* P2Driver: the invariant                                                  *)

\* The items of the files f with the files they are from, as in Program.
AllItems(f, G) ==
    FlattenSeq([k \in DOMAIN f |-> [i \in DOMAIN G[f[k]] |-> <<f[k], G[f[k]][i]>>]])

(* The same of the files themselves, when G is what there is to read in them.*)
LEMMA ProgramOf ==
    ASSUME NEW f, NEW g, NEW Q, NEW G, NEW N, NEW m, NEW q, NEW r, ParsedTo(f, g, Q, G, N, m, q, r),
           \A p \in Q : G[p] = Given(p), AllItems(f, G) = g[Len(f)]
    PROVE  Program(f) = Did(m)
<1>1. UpToEnd(AllItems(f, G)) = Did(m)
  BY ProgramIs
<1>2. Program(f) = UpToEnd(AllItems(f, G))
  <2>1. \A k \in DOMAIN f : Given(f[k]) = G[f[k]]
    BY DEF ParsedTo
  <2>2. AllItems(f, G) =
           FlattenSeq([k \in DOMAIN f |-> [i \in DOMAIN Given(f[k]) |-> <<f[k], Given(f[k])[i]>>]])
    BY <2>1, Zenon DEF AllItems
  <2> QED
    BY <2>2 DEF Program, UpToEnd
<1> QED
  BY <1>1, <1>2

DriverStages == {"args", "main", "parse", "finish", "done", "fault"}

\* The files that can be opened when the output has been.
Available == Readable \cup {outfile}

\* The parts of the inductive invariant.
DriverTypes ==
    /\ argv \in Seq(DOMAIN length) /\ stage \in DriverStages /\ kept \in BOOLEAN
    /\ yyin \in Available \cup {"stdin", NULL} /\ rest \in Seq(Items)
    /\ stage \in {"args", "main"} =>
          made = <<>> /\ infile_cnt = 0 /\ yyin = NULL /\ files = [f \in Readable |-> content[f]]
    /\ kept => stage = "done"

\* While the parser reads: the output is open and empty, whatever was in it.
OutputIsEmpty ==
    stage = "parse" => HasText(Available, files) /\ \A f \in Available : files[f] = Given(f)

\* While the command line is read: the files so far are those it has asked for so far.
ArgumentsRead ==
    stage = "args" /\ Short =>
        /\ partial = 0 /\ targv \in 1..Len(argv) + 1
        /\ start = "FNAME" <=> OutputPending(argv, targv)
        /\ \E u : IsUpto(argv, u) /\ Asked(argv) = u[Len(argv)] /\ infile = u[targv - 1]

\* Behind the command line: they are those it asks for.
FilesAreAsked == stage \notin {"args", "fault"} /\ Short => infile = Asked(argv)

\* What KeptIsWhole supposes of an invocation.
AllReadable == ~use_stdin /\ Short /\ ToSet(Asked(argv)) \subseteq Available

\* While one file after the other is parsed: what was done and what is left of this file is
\* what this file and the ones before it hold.
DoneAndLeft ==
    stage = "parse" /\ AllReadable =>
        /\ infile \in Seq(Available) /\ infile_cnt \in 1..Len(infile)
        /\ yyin = infile[infile_cnt]
        /\ rest \in Seq(Items) /\ made \in Seq(Available)
        /\ \E g : /\ IsAll(infile, g, Available, files) /\ AllItems(infile, files) = g[Len(infile)]
                  /\ g[infile_cnt] = Did(made) \o Tagged(yyin, rest)

\* When the parse has ended well: all was done.
WholeIsDone ==
    ((stage = "finish" /\ res = 0) \/ kept) /\ AllReadable => Program(infile) = Did(made)

DriverInv ==
    /\ DriverTypes /\ OutputIsEmpty
    /\ ArgumentsRead /\ FilesAreAsked /\ DoneAndLeft /\ WholeIsDone

LEMMA DriverInvInit == DriverInit => DriverInv
<1> SUFFICES ASSUME DriverInit PROVE DriverInv
  OBVIOUS
<1>1. argv \in Seq(DOMAIN length)
  BY DriverAssumption DEF DriverInit
<1>2. DriverTypes /\ OutputIsEmpty /\ FilesAreAsked /\ DoneAndLeft /\ WholeIsDone
  <2>1. <<>> \in Seq(Items)
    OBVIOUS
  <2> QED
    BY <1>1, <2>1 DEF DriverInit, DriverTypes, DriverStages, OutputIsEmpty, FilesAreAsked, DoneAndLeft, WholeIsDone
<1>3. ArgumentsRead
  <2>1. PICK u : IsUpto(argv, u) /\ Asked(argv) = u[Len(argv)]
    BY <1>1, AskedUpto
  <2>2. u[0] = <<>>
    BY <2>1 DEF IsUpto
  <2>3. 1 \in 1..Len(argv) + 1 /\ targv - 1 = 0
    BY <1>1 DEF DriverInit
  <2>4. ~OutputPending(argv, targv)
    BY DEF DriverInit, OutputPending
  <2> QED
    BY <2>1, <2>2, <2>3, <2>4 DEF DriverInit, ArgumentsRead
<1> QED
  BY <1>2, <1>3 DEF DriverInv

\* One more argument: an -o makes a name pending, another option leaves it so.
LEMMA OutputPendingNext ==
    ASSUME NEW args \in Seq(DOMAIN length), NEW k \in 1..Len(args)
    PROVE  OutputPending(args, k + 1) <=> args[k] = "-o" \/ (OutputPending(args, k) /\ args[k] \in Options)
<1> DEFINE Since(j, n) == args[j] = "-o" /\ \A l \in j + 1..n - 1 : args[l] \in Options
<1>1. k \in Nat /\ (k + 1) - 1 = k
  OBVIOUS
<1>2. Since(k, k + 1)  <=> args[k] = "-o"
  BY <1>1
<1>3. ASSUME NEW j \in 1..k - 1
      PROVE  Since(j, k + 1) <=> Since(j, k) /\ args[k] \in Options
  <2>1. j + 1..k = (j + 1..k - 1) \cup {k}
    BY <1>1
  <2> QED
    BY <1>1, <2>1
<1>4. 1..k = (1..k - 1) \cup {k}
  BY <1>1
<1> HIDE DEF Since
<1>5. (\E j \in 1..k : Since(j, k + 1)) <=>
          args[k] = "-o" \/ ((\E j \in 1..k - 1 : Since(j, k)) /\ args[k] \in Options)
  BY <1>2, <1>3, <1>4
<1> QED
  BY <1>1, <1>5 DEF OutputPending, Since

\* A short argument always fits behind an empty buffer.
LEMMA ShortFits ==
    ASSUME argv \in Seq(DOMAIN length), targv \in 1..Len(argv) + 1, Short, partial = 0
    PROVE  ~Overlong
<1>1. Offered = READ_BUF_SIZE
  BY DriverAssumption DEF Offered, Smaller
<1>2. ASSUME targv <= Len(argv), Overlong PROVE FALSE
  <2>1. targv \in DOMAIN argv /\ argv[targv] \in DOMAIN length
    BY <1>2
  <2>2. length[argv[targv]] < READ_BUF_SIZE /\ length[argv[targv]] \in Nat
    BY <2>1, DriverAssumption DEF Short
  <2> QED
    BY <1>1, <1>2, <2>2, DriverAssumption DEF Overlong
<1> QED
  BY <1>2 DEF Overlong

(* What a word does to the files and to the start condition.                *)
LEMMA WordKeeps ==
    ASSUME NEW w, Word(w), stage = "args"
    PROVE  /\ stage' \in {"args", "fault"}
           /\ w \in Options =>
                 infile' = infile /\ start' = IF w = "-o" THEN "FNAME" ELSE start
           /\ w \notin Options /\ start = "FNAME" => infile' = infile /\ start' # "FNAME"
           /\ w \notin Options /\ start # "FNAME" /\ stage' = "args" =>
                 infile' = Append(infile, w) /\ start' # "FNAME"
<1>1. CASE w \in {"-h", "-?"}
  BY <1>1 DEF Word, Options
<1>2. CASE w \in {"-v", "-verbose"}
  BY <1>2 DEF Word, Options
<1>3. CASE w = "-use-stdin"
  BY <1>3 DEF Word, Options
<1>4. CASE w = "-o"
  BY <1>4 DEF Word, Options
<1>5. CASE w \notin Options
  BY <1>5 DEF Word, Options, AddInfile
<1> QED
  BY <1>1, <1>2, <1>3, <1>4, <1>5 DEF Options

(* Each action keeps the invariant.                                         *)
LEMMA ArgumentKeeps == DriverInv /\ Argument => DriverInv'
<1> SUFFICES ASSUME DriverInv, Argument PROVE DriverInv'
  OBVIOUS
<1>1. /\ stage = "args" /\ targv <= Len(argv) /\ Word(argv[targv]) /\ targv' = targv + 1
      /\ partial' = 0
      /\ argv' = argv /\ infile_cnt' = infile_cnt /\ made' = made /\ kept' = kept
      /\ yyin' = yyin /\ rest' = rest /\ files' = files
  BY DEF Argument, input
<1>2. stage' \in {"args", "fault"}
  BY <1>1, WordKeeps
<1>3. DriverTypes' /\ OutputIsEmpty' /\ FilesAreAsked' /\ DoneAndLeft' /\ WholeIsDone'
  BY <1>1, <1>2
     DEF DriverInv, DriverTypes, DriverStages, Available, OutputIsEmpty, FilesAreAsked, DoneAndLeft, WholeIsDone
<1>4. ArgumentsRead'
  <2> SUFFICES ASSUME stage' = "args", Short' PROVE ArgumentsRead'
    BY DEF ArgumentsRead
  <2>1. Short /\ argv \in Seq(DOMAIN length)
    BY <1>1 DEF Short, DriverInv, DriverTypes
  <2>2. /\ targv \in 1..Len(argv) + 1
        /\ start = "FNAME" <=> OutputPending(argv, targv)
    BY <1>1, <2>1 DEF DriverInv, ArgumentsRead
  <2>3. PICK u : IsUpto(argv, u) /\ Asked(argv) = u[Len(argv)] /\ infile = u[targv - 1]
    BY <1>1, <2>1 DEF DriverInv, ArgumentsRead
  <2>4. targv \in 1..Len(argv) /\ targv' \in 1..Len(argv) + 1 /\ targv' - 1 = targv
    BY <1>1, <2>2
  <2>5. u[targv] = IF Asks(argv, targv) THEN Append(infile, argv[targv]) ELSE infile
    BY <2>3, <2>4 DEF IsUpto
  <2>6. OutputPending(argv, targv + 1) <=>
           argv[targv] = "-o" \/ (OutputPending(argv, targv) /\ argv[targv] \in Options)
    BY <2>1, <2>4, OutputPendingNext
  <2> DEFINE w == argv[targv]
  <2>7. /\ w \in Options => infile' = infile /\ start' = IF w = "-o" THEN "FNAME" ELSE start
        /\ w \notin Options /\ start = "FNAME" => infile' = infile /\ start' # "FNAME"
        /\ w \notin Options /\ start # "FNAME" =>
                 infile' = Append(infile, w) /\ start' # "FNAME"
    <3> HIDE DEF w
    <3>1. Word(w)
      BY <1>1 DEF w
    <3> QED
      BY <1>1, <3>1, WordKeeps
  <2>8. (start' = "FNAME") <=> OutputPending(argv, targv')
    <3>1. "-o" \in Options
      BY DEF Options
    <3> QED
      BY <1>1, <2>2, <2>6, <2>7, <3>1
  <2>9. infile' = u[targv' - 1]
    BY <2>2, <2>4, <2>5, <2>7 DEF Asks
  <2>10. Asked(argv)' = Asked(argv)
    BY <1>1 DEF Asked
  <2> QED
    BY <1>1, <2>3, <2>4, <2>8, <2>9 DEF ArgumentsRead
<1> QED
  BY <1>3, <1>4 DEF DriverInv

LEMMA PieceKeeps == DriverInv /\ Piece => DriverInv'
<1> SUFFICES ASSUME DriverInv, Piece PROVE DriverInv'
  OBVIOUS
<1>1. /\ stage = "args" /\ stage' = "args" /\ Overlong
      /\ argv' = argv /\ infile_cnt' = infile_cnt /\ made' = made /\ kept' = kept
      /\ yyin' = yyin /\ rest' = rest /\ files' = files
  BY DEF Piece, input
<1>2. DriverTypes' /\ OutputIsEmpty' /\ FilesAreAsked' /\ DoneAndLeft' /\ WholeIsDone'
  BY <1>1
     DEF DriverInv, DriverTypes, DriverStages, Available, OutputIsEmpty, FilesAreAsked, DoneAndLeft, WholeIsDone
<1>3. ~Short'
  <2>1. Short' => Short
    BY <1>1 DEF Short
  <2> QED
    BY <1>1, <2>1, ShortFits DEF DriverInv, DriverTypes, ArgumentsRead
<1> QED
  BY <1>2, <1>3 DEF DriverInv, ArgumentsRead

LEMMA CmdEndKeeps == DriverInv /\ CmdEnd => DriverInv'
<1> SUFFICES ASSUME DriverInv, CmdEnd PROVE DriverInv'
  OBVIOUS
<1>1. /\ stage = "args" /\ (targv > Len(argv) \/ Overlong)
      /\ argv' = argv /\ infile_cnt' = infile_cnt /\ made' = made /\ kept' = kept
      /\ yyin' = yyin /\ rest' = rest /\ files' = files
      /\ partial = 0 => stage' = "main" /\ infile' = infile
      /\ partial # 0 => Word(Garbled)
  BY DEF CmdEnd, input
<1>2. stage' \in {"args", "main", "fault"}
  BY <1>1, WordKeeps
<1>3. DriverTypes' /\ OutputIsEmpty' /\ DoneAndLeft' /\ WholeIsDone'
  BY <1>1, <1>2
     DEF DriverInv, DriverTypes, DriverStages, Available, OutputIsEmpty, DoneAndLeft, WholeIsDone
<1>4. ASSUME Short'
      PROVE  stage' = "main" /\ infile' = Asked(argv)
  <2>1. Short /\ argv \in Seq(DOMAIN length)
    BY <1>1, <1>4 DEF Short, DriverInv, DriverTypes
  <2>2. partial = 0 /\ targv \in 1..Len(argv) + 1
    BY <1>1, <2>1 DEF DriverInv, ArgumentsRead
  <2>3. PICK u : Asked(argv) = u[Len(argv)] /\ infile = u[targv - 1]
    BY <1>1, <2>1 DEF DriverInv, ArgumentsRead
  <2>4. ~Overlong
    BY <2>1, <2>2, ShortFits
  <2>5. targv - 1 = Len(argv)
    BY <1>1, <2>1, <2>2, <2>4
  <2> QED
    BY <1>1, <2>2, <2>3, <2>5
<1>5. Asked(argv)' = Asked(argv)
  BY <1>1 DEF Asked
<1> QED
  BY <1>1, <1>3, <1>4, <1>5 DEF DriverInv, ArgumentsRead, FilesAreAsked

\* A sequence all of whose elements are of a set is one of that set.
LEMMA Untyped ==
    ASSUME NEW Q, NEW f \in Seq(DOMAIN length), ToSet(f) \subseteq Q
    PROVE  f \in Seq(Q)
<1>1. \A k \in 1..Len(f) : f[k] \in Q
  BY DEF ToSet
<1> QED
  BY <1>1

LEMMA AskedType ==
    ASSUME NEW args \in Seq(DOMAIN length)
    PROVE  Asked(args) \in Seq(DOMAIN length)
<1>1. PICK u : IsUpto(args, u) /\ Asked(args) = u[Len(args)]
  BY AskedUpto
<1>2. Len(args) \in 0..Len(args)
  OBVIOUS
<1> QED
  BY <1>1, <1>2 DEF IsUpto

LEMMA Nothing ==
    ASSUME NEW X, NEW s \in Seq(X)
    PROVE  <<>> \o s = s /\ s \o <<>> = s
  OBVIOUS

\* What the parser reads is a sequence of items.
LEMMA InType ==
    ASSUME NEW Q, NEW G, HasText(Q, G), NEW f \in Q \cup {"stdin", NULL}
    PROVE  /\ In(f, G) \in Seq(Items)
           /\ f \in DOMAIN length => In(f, G) = G[f]
  BY DriverAssumption DEF In, HasText

LEMMA MainKeeps == DriverInv /\ Main => DriverInv'
<1> SUFFICES ASSUME DriverInv, Main PROVE DriverInv'
  OBVIOUS
<1> DEFINE there == [f \in Available' |-> IF f = outfile' THEN <<>> ELSE content[f]]
<1>1. /\ stage = "main" /\ stage' \in {"done", "parse"} /\ ~kept
      /\ argv' = argv /\ infile' = infile /\ use_stdin' = use_stdin
      /\ made' = made /\ made = <<>> /\ infile_cnt = 0 /\ kept' = kept /\ yyin = NULL
      /\ stage' = "done" => yyin' = yyin /\ rest' = rest
  BY DEF Main, DriverInv, DriverTypes, input
<1>2. ASSUME stage' = "parse"
      PROVE  /\ files' = there /\ yywrap(there) /\ rest' = In(yyin', there)
             /\ use_stdin \/ infile # <<>>
  <2> DEFINE out == IF outfile = NULL THEN "out.bc" ELSE outfile
             made0 == [f \in DOMAIN files \cup {out} |-> IF f = out THEN <<>> ELSE files[f]]
  <2>1. files = [f \in Readable |-> content[f]]
    BY <1>1 DEF DriverInv, DriverTypes
  <2>2. outfile' = out /\ Available' = DOMAIN files \cup {out}
    BY <2>1 DEF Main, Available
  <2>3. made0 = there
    BY <2>1, <2>2
  <2>4. /\ files' = made0 /\ yywrap(made0) /\ rest' = In(yyin', made0)
        /\ use_stdin \/ infile # <<>>
    BY <1>2 DEF Main
  <2> QED
    BY <2>3, <2>4
<1>3. HasText(Available', there) /\ \A f \in Available' : there[f] = Given(f)'
  <2>1. <<>> \in Seq(Items)
    OBVIOUS
  <2>2. \A f \in Available' : f # outfile' => content[f] \in Seq(Items)
    BY DriverAssumption DEF Available
  <2> QED
    BY <2>1, <2>2 DEF Given, HasText
<1> HIDE DEF there
<1>4. DriverTypes' /\ OutputIsEmpty' /\ ArgumentsRead' /\ WholeIsDone'
  <2>1. CASE stage' = "done"
    BY <1>1, <2>1
       DEF DriverInv, DriverTypes, DriverStages, OutputIsEmpty, ArgumentsRead, WholeIsDone
  <2>2. CASE stage' = "parse"
    <3>1. yyin' \in Available' \cup {"stdin", NULL}
      BY <1>1, <1>2, <1>3, <2>2 DEF yywrap, HasText
    <3>2. rest' \in Seq(Items)
      BY <1>2, <1>3, <2>2, <3>1, InType
    <3>3. OutputIsEmpty'
      BY <1>2, <1>3, <2>2 DEF OutputIsEmpty
    <3> QED
      BY <1>1, <2>2, <3>1, <3>2, <3>3
         DEF DriverInv, DriverTypes, DriverStages, ArgumentsRead, WholeIsDone
  <2> QED
    BY <1>1, <2>1, <2>2
<1>5. Asked(argv)' = Asked(argv) /\ (Short' <=> Short)
  BY <1>1 DEF Asked, Short
<1>6. FilesAreAsked'
  BY <1>1, <1>5 DEF DriverInv, FilesAreAsked
<1>7. DoneAndLeft'
  <2> SUFFICES ASSUME stage' = "parse", AllReadable' PROVE DoneAndLeft'
    BY DEF DoneAndLeft
  <2> DEFINE Q == Available'
  <2>1. /\ ~use_stdin /\ Short /\ ToSet(Asked(argv)) \subseteq Q /\ infile = Asked(argv)
    BY <1>1, <1>5 DEF AllReadable, DriverInv, FilesAreAsked
  <2>2. infile \in Seq(DOMAIN length) /\ infile # <<>>
    BY <1>1, <1>2, <2>1, AskedType DEF DriverInv, DriverTypes
  <2>3. HasText(Q, there) /\ DOMAIN there = Q
    BY <1>3 DEF HasText
  <2> HIDE DEF Q
  <2>4. infile \in Seq(Q)
    BY <2>1, <2>2, Untyped
  <2>5. /\ 1 \in 1..Len(infile) /\ infile[1] \in Q /\ infile[1] \in DOMAIN length
        /\ infile[1] # NULL
    <3>1. 1 \in 1..Len(infile) /\ infile[1] \in Q /\ infile[1] \in DOMAIN length
      BY <2>2, <2>4
    <3> QED
      BY <3>1, DriverAssumption
  <2>6. infile_cnt' = 1 /\ yyin' = infile[1]
    BY <1>1, <1>2, <2>1, <2>3, <2>5 DEF yywrap, Named
  <2>7. rest' = there[infile[1]] /\ rest' \in Seq(Items)
    BY <1>2, <2>3, <2>5, <2>6, InType
  <2>8. PICK g : IsAll(infile, g, Q, there) /\ AllItems(infile, there) = g[Len(infile)]
    BY <2>2, <2>3, <2>4, AllOf DEF AllItems
  <2>9. g[1] = Tagged(yyin', rest')
    BY <2>5, <2>6, <2>7, <2>8 DEF IsAll
  <2>10. g[infile_cnt'] = Did(made') \o Tagged(yyin', rest')
    <3>1. Tagged(yyin', rest') \in Seq(Pairs(Q))
      BY <2>5, <2>6, <2>7, TaggedType
    <3>2. Did(made') = <<>>
      BY <1>1 DEF Did
    <3> QED
      BY <2>6, <2>9, <3>1, <3>2, Nothing
  <2>11. made' \in Seq(Q)
    BY <1>1
  <2>12. /\ infile' \in Seq(Q) /\ infile_cnt' \in 1..Len(infile')
         /\ yyin' = infile'[infile_cnt'] /\ rest' \in Seq(Items)
    BY <1>1, <2>4, <2>5, <2>6, <2>7
  <2>13. /\ IsAll(infile', g, Q, files') /\ AllItems(infile', files') = g[Len(infile')]
    BY <1>1, <1>2, <2>8
  <2> QED
    BY <2>10, <2>11, <2>12, <2>13 DEF DoneAndLeft, Q
<1> QED
  BY <1>4, <1>6, <1>7 DEF DriverInv

LEMMA ItemKeeps == DriverInv /\ Item => DriverInv'
<1> SUFFICES ASSUME DriverInv, Item PROVE DriverInv'
  OBVIOUS
<1>1. /\ stage = "parse" /\ rest # <<>> /\ rest' = Tail(rest) /\ ~kept /\ kept' = kept
      /\ argv' = argv /\ infile' = infile /\ use_stdin' = use_stdin
      /\ infile_cnt' = infile_cnt /\ yyin' = yyin /\ outfile' = outfile /\ files' = files
  BY DEF Item, Parsing, cmdline, DriverInv, DriverTypes
<1>2. Asked(argv)' = Asked(argv) /\ (Short' <=> Short) /\ (AllReadable' <=> AllReadable)
  BY <1>1 DEF Asked, Short, AllReadable, Available
<1> DEFINE i == Head(rest)
<1> i \in Items /\ rest' \in Seq(Items)
  <2>1. rest \in Seq(Items)
    BY DEF DriverInv, DriverTypes
  <2> HIDE DEF Items
  <2> QED
    BY <1>1, <2>1
<1>3. \/ /\ i = "decl" /\ stage' = "parse"
         /\ made' = Append(made, IF yyin = NULL THEN "stdin" ELSE yyin)
      \/ i = "END" /\ stage' = "finish" /\ made' = made
      \/ stage' = "finish" /\ res' = 1
      \/ stage' = "done"
  <2> HIDE DEF i
  <2>1. \/ /\ i = "decl" /\ stage' = "parse"
           /\ made' = Append(made, IF yyin = NULL THEN "stdin" ELSE yyin)
        \/ i = "END" /\ stage' = "finish" /\ made' = made
        \/ stage' = "finish" /\ res' = 1
        \/ stage' = "done"
    <3>1. CASE i = "decl"
      BY <1>1, <3>1 DEF Item, i
    <3>2. CASE i = "END"
      BY <1>1, <3>2 DEF Item, Return, i
    <3>3. CASE i = "wrong"
      BY <1>1, <3>3 DEF Item, Return, i
    <3>4. CASE i = "illegal"
      BY <1>1, <3>4 DEF Item, i
    <3> QED
      BY <3>1, <3>2, <3>3, <3>4 DEF Items
  <2> QED
    BY <2>1
<1>4. DriverTypes' /\ OutputIsEmpty' /\ ArgumentsRead' /\ FilesAreAsked'
  BY <1>1, <1>2, <1>3
     DEF DriverInv, DriverTypes, DriverStages, Available, OutputIsEmpty, Given, ArgumentsRead,
         FilesAreAsked
<1>5. (DoneAndLeft /\ WholeIsDone)'
  <2> SUFFICES ASSUME AllReadable PROVE (DoneAndLeft /\ WholeIsDone)'
    BY <1>2 DEF DoneAndLeft, WholeIsDone
  <2> DEFINE Q == Available
  <2>1. /\ infile \in Seq(Q) /\ infile_cnt \in 1..Len(infile) /\ yyin = infile[infile_cnt]
        /\ rest \in Seq(Items) /\ made \in Seq(Q)
    BY <1>1 DEF DriverInv, DoneAndLeft
  <2>2. PICK g : /\ IsAll(infile, g, Q, files) /\ AllItems(infile, files) = g[Len(infile)]
                 /\ g[infile_cnt] = Did(made) \o Tagged(yyin, rest)
    BY <1>1 DEF DriverInv, DoneAndLeft
  <2>text. HasText(Q, files) /\ \A f \in Q : files[f] = Given(f)
    BY <1>1 DEF DriverInv, OutputIsEmpty
  <2>named. infile \in Seq(DOMAIN length)
    BY <1>1, AskedType DEF DriverInv, DriverTypes, FilesAreAsked, AllReadable
  <2>same. Q = Available'
    BY <1>1 DEF Available
  <2> HIDE DEF Q
  <2>3. yyin \in Q /\ yyin # NULL
    <3>1. yyin \in Q /\ yyin \in DOMAIN length
      BY <2>1, <2>named
    <3> QED
      BY <3>1, DriverAssumption
  <2>4. CASE i = "decl" /\ stage' = "parse" /\ made' = Append(made, IF yyin = NULL THEN "stdin" ELSE yyin)
    <3>1. made' = Append(made, yyin)
      BY <2>3, <2>4
    <3>2. /\ made' \in Seq(Q) /\ rest' \in Seq(Items)
          /\ Did(made') \o Tagged(yyin, rest') = Did(made) \o Tagged(yyin, rest)
      <4>1. /\ Append(made, yyin) \in Seq(Q) /\ Tail(rest) \in Seq(Items)
            /\ Did(Append(made, yyin)) \o Tagged(yyin, Tail(rest)) = Did(made) \o Tagged(yyin, rest)
        <5>1. made \in Seq(Q) /\ yyin \in Q /\ rest \in Seq(Items) /\ rest # <<>> /\ Head(rest) = "decl"
          BY <1>1, <2>1, <2>3, <2>4
        <5> HIDE DEF i
        <5> QED
          BY <5>1, MakeOne
      <4> QED
        BY <1>1, <3>1, <4>1
    <3>3. /\ infile' \in Seq(Q) /\ infile_cnt' \in 1..Len(infile')
          /\ yyin' = infile'[infile_cnt']
      BY <1>1, <2>1
    <3>4. /\ IsAll(infile', g, Q, files') /\ AllItems(infile', files') = g[Len(infile')]
          /\ g[infile_cnt'] = Did(made') \o Tagged(yyin', rest')
      BY <1>1, <2>2, <3>2
    <3>5. DoneAndLeft'
      BY <2>same, <3>2, <3>3, <3>4 DEF DoneAndLeft
    <3>6. WholeIsDone'
      BY <1>1, <2>4 DEF WholeIsDone
    <3> QED
      BY <3>5, <3>6
  <2>5. CASE i = "END" /\ stage' = "finish" /\ made' = made
    <3>1. Program(infile) = Did(made)
      <4>1. ParsedTo(infile, g, Q, files, infile_cnt, made, yyin, rest)
        BY <1>1, <2>1, <2>2, <2>text, <2>3, <2>5 DEF ParsedTo
      <4> QED
        BY <2>2, <2>text, <4>1, ProgramOf
    <3>2. Program(infile)' = Program(infile)
      BY <1>1 DEF Program, Given
    <3> QED
      BY <2>5, <3>1, <3>2 DEF DoneAndLeft, WholeIsDone
  <2>6. CASE stage' = "finish" /\ res' = 1
    BY <1>1, <2>6 DEF DoneAndLeft, WholeIsDone
  <2>7. CASE stage' = "done"
    BY <1>1, <2>7 DEF DoneAndLeft, WholeIsDone
  <2> QED
    BY <1>3, <2>4, <2>5, <2>6, <2>7
<1> QED
  BY <1>4, <1>5 DEF DriverInv

LEMMA EndOfInputKeeps == DriverInv /\ EndOfInput => DriverInv'
<1> SUFFICES ASSUME DriverInv, EndOfInput PROVE DriverInv'
  OBVIOUS
<1>1. /\ stage = "parse" /\ rest = <<>> /\ yywrap(files) /\ ~kept /\ kept' = kept /\ made' = made
      /\ argv' = argv /\ infile' = infile /\ use_stdin' = use_stdin
      /\ outfile' = outfile /\ files' = files
      /\ ~Opened => stage' = "finish" /\ rest' = rest
      /\ Opened => stage' = stage /\ rest' = IF use_stdin THEN <<>> ELSE In(yyin', files)
  BY DEF EndOfInput, Parsing, Return, cmdline, DriverInv, DriverTypes
<1>2. Asked(argv)' = Asked(argv) /\ (Short' <=> Short) /\ (AllReadable' <=> AllReadable)
  BY <1>1 DEF Asked, Short, AllReadable, Available
<1>3. DriverTypes' /\ OutputIsEmpty' /\ ArgumentsRead' /\ FilesAreAsked'
  <2>1. HasText(Available, files) /\ DOMAIN files = Available /\ Available' = Available
    BY <1>1 DEF DriverInv, OutputIsEmpty, Available, HasText
  <2>2. yyin' \in Available \cup {"stdin", NULL}
    BY <1>1, <2>1 DEF yywrap, DriverInv, DriverTypes
  <2>3. rest' \in Seq(Items)
    <3>1. CASE Opened /\ ~use_stdin
      BY <1>1, <2>1, <2>2, <3>1, InType
    <3>2. CASE ~Opened \/ use_stdin
      <4>1. rest' = <<>>
        BY <1>1, <3>2 DEF Opened
      <4> QED
        BY <4>1
    <3> QED
      BY <3>1, <3>2
  <2>4. OutputIsEmpty'
    BY <1>1, <2>1 DEF DriverInv, OutputIsEmpty, Given
  <2> QED
    BY <1>1, <1>2, <2>1, <2>2, <2>3, <2>4
       DEF DriverInv, DriverTypes, DriverStages, ArgumentsRead, FilesAreAsked
<1>4. (DoneAndLeft /\ WholeIsDone)'
  <2> SUFFICES ASSUME AllReadable PROVE (DoneAndLeft /\ WholeIsDone)'
    BY <1>2 DEF DoneAndLeft, WholeIsDone
  <2> DEFINE Q == Available
  <2>1. /\ infile \in Seq(Q) /\ infile_cnt \in 1..Len(infile) /\ yyin = infile[infile_cnt]
        /\ rest \in Seq(Items) /\ made \in Seq(Q)
    BY <1>1 DEF DriverInv, DoneAndLeft
  <2>2. PICK g : /\ IsAll(infile, g, Q, files) /\ AllItems(infile, files) = g[Len(infile)]
                 /\ g[infile_cnt] = Did(made) \o Tagged(yyin, rest)
    BY <1>1 DEF DriverInv, DoneAndLeft
  <2>text. HasText(Q, files) /\ \A f \in Q : files[f] = Given(f)
    BY <1>1 DEF DriverInv, OutputIsEmpty
  <2>named. infile \in Seq(DOMAIN length)
    BY <1>1, AskedType DEF DriverInv, DriverTypes, FilesAreAsked, AllReadable
  <2>same. Q = Available'
    BY <1>1 DEF Available
  <2> HIDE DEF Q
  <2>3. yyin \in Q /\ ~use_stdin /\ DOMAIN files = Q
    BY <2>1, <2>text DEF AllReadable, HasText
  <2>4. CASE infile_cnt < Len(infile)
    <3> DEFINE k == infile_cnt + 1
    <3>1. /\ k \in 1..Len(infile) /\ k # 1 /\ k - 1 = infile_cnt /\ k <= Len(infile)
          /\ infile[k] \in Q /\ infile[k] \in DOMAIN length /\ infile[k] # NULL
      <4>1. k \in 1..Len(infile) /\ k # 1 /\ k - 1 = infile_cnt /\ k <= Len(infile)
        BY <2>1, <2>4
      <4>2. infile[k] \in Q /\ infile[k] \in DOMAIN length
        BY <2>1, <2>named, <4>1
      <4> QED
        BY <4>1, <4>2, DriverAssumption
    <3>2. Opened /\ infile_cnt' = k /\ yyin' = infile[k]
      BY <1>1, <2>3, <3>1 DEF Opened, yywrap, Named
    <3>3. rest' = files[yyin'] /\ rest' \in Seq(Items) /\ stage' = "parse"
      BY <1>1, <2>text, <2>3, <3>1, <3>2, InType
    <3>4. g[k] = g[infile_cnt] \o Tagged(infile[k], files[infile[k]])
      BY <2>2, <3>1 DEF IsAll
    <3>5. g[infile_cnt] = Did(made)
      <4>1. Tagged(yyin, rest) = <<>>
        BY <1>1 DEF Tagged
      <4>2. Did(made) \in Seq(Pairs(Q))
        BY <2>1, DidType
      <4> QED
        BY <2>2, <4>1, <4>2, Nothing
    <3>6. g[infile_cnt'] = Did(made') \o Tagged(yyin', rest')
      BY <1>1, <3>2, <3>3, <3>4, <3>5
    <3>7. /\ infile' \in Seq(Q) /\ infile_cnt' \in 1..Len(infile')
          /\ yyin' = infile'[infile_cnt'] /\ made' \in Seq(Q)
      BY <1>1, <2>1, <3>1, <3>2
    <3>8. IsAll(infile', g, Q, files') /\ AllItems(infile', files') = g[Len(infile')]
      BY <1>1, <2>2
    <3>9. DoneAndLeft'
      BY <2>same, <3>3, <3>6, <3>7, <3>8 DEF DoneAndLeft
    <3>10. WholeIsDone'
      BY <1>1, <3>3 DEF WholeIsDone
    <3> QED
      BY <3>9, <3>10
  <2>5. CASE infile_cnt = Len(infile)
    <3>1. ~Opened
      <4>1. Len(infile) \in Nat /\ ~(Len(infile) + 1 <= Len(infile))
        BY <2>1
      <4> QED
        BY <2>3, <2>5, <4>1 DEF Opened, Named
    <3>2. Program(infile) = Did(made)
      <4>1. ParsedTo(infile, g, Q, files, infile_cnt, made, yyin, rest)
        BY <1>1, <2>1, <2>2, <2>text, <2>3, <2>5 DEF ParsedTo
      <4> QED
        BY <2>2, <2>text, <4>1, ProgramOf
    <3>3. Program(infile)' = Program(infile)
      BY <1>1 DEF Program, Given
    <3> QED
      BY <1>1, <3>1, <3>2, <3>3 DEF DoneAndLeft, WholeIsDone
  <2> QED
    BY <2>1, <2>4, <2>5
<1> QED
  BY <1>3, <1>4 DEF DriverInv

LEMMA LookBeyondKeeps == DriverInv /\ LookBeyond => DriverInv'
<1> SUFFICES ASSUME DriverInv, LookBeyond PROVE DriverInv'
  OBVIOUS
<1>1. /\ stage = "parse" /\ stage' = "fault" /\ kept' = kept /\ ~kept /\ argv' = argv
      /\ yyin' = yyin /\ rest' = rest /\ outfile' = outfile
  BY DEF LookBeyond, Parsing, DriverInv, DriverTypes, input, cmdline
<1> QED
  BY <1>1 DEF DriverInv, DriverTypes, DriverStages, Available, OutputIsEmpty, ArgumentsRead,
              FilesAreAsked, DoneAndLeft, WholeIsDone

LEMMA FinishKeeps == DriverInv /\ Finish => DriverInv'
<1> SUFFICES ASSUME DriverInv, Finish PROVE DriverInv'
  OBVIOUS
<1>1. /\ stage = "finish" /\ stage' = "done" /\ kept' = (res = 0)
      /\ argv' = argv /\ infile' = infile /\ use_stdin' = use_stdin /\ made' = made
      /\ yyin' = yyin /\ rest' = rest /\ outfile' = outfile
  BY DEF Finish, cmdline, input
<1>2. Asked(argv)' = Asked(argv) /\ (Short' <=> Short) /\ (AllReadable' <=> AllReadable)
  BY <1>1 DEF Asked, Short, AllReadable, Available
<1>3. Program(infile)' = Program(infile)
  BY <1>1 DEF Program, Given
<1>4. DriverTypes' /\ OutputIsEmpty'
  BY <1>1 DEF DriverInv, DriverTypes, DriverStages, Available, OutputIsEmpty
<1>5. ArgumentsRead' /\ FilesAreAsked' /\ DoneAndLeft'
  BY <1>1, <1>2 DEF DriverInv, ArgumentsRead, FilesAreAsked, DoneAndLeft
<1>6. WholeIsDone'
  BY <1>1, <1>2, <1>3 DEF DriverInv, WholeIsDone
<1> QED
  BY <1>4, <1>5, <1>6 DEF DriverInv

(* In every state of every invocation: the files named are those asked for, *)
(* and what the parser has made and what it has left of the file it is in   *)
(* are the items of the files it has opened so far, in their order.         *)
THEOREM DriverInvariance == DriverSpec => []DriverInv
<1>1. DriverInit => DriverInv
  BY DriverInvInit
<1>2. DriverInv /\ [DriverNext]_drivervars => DriverInv'
  <2> SUFFICES ASSUME DriverInv, [DriverNext]_drivervars PROVE DriverInv'
    OBVIOUS
  <2>1. CASE Argument
    BY <2>1, ArgumentKeeps
  <2>2. CASE Piece
    BY <2>2, PieceKeeps
  <2>3. CASE CmdEnd
    BY <2>3, CmdEndKeeps
  <2>4. CASE Main
    BY <2>4, MainKeeps
  <2>5. CASE Item
    BY <2>5, ItemKeeps
  <2>6. CASE EndOfInput
    BY <2>6, EndOfInputKeeps
  <2>7. CASE LookBeyond
    BY <2>7, LookBeyondKeeps
  <2>8. CASE Finish
    BY <2>8, FinishKeeps
  <2>9. CASE UNCHANGED drivervars
    <3>1. /\ argv' = argv /\ targv' = targv /\ partial' = partial /\ start' = start
          /\ use_stdin' = use_stdin /\ infile' = infile /\ infile_cnt' = infile_cnt
          /\ yyin' = yyin /\ rest' = rest /\ made' = made /\ res' = res /\ kept' = kept
          /\ stage' = stage /\ outfile' = outfile /\ files' = files
      BY <2>9 DEF drivervars, cmdline, input
    <3>2. Asked(argv)' = Asked(argv) /\ (Short' <=> Short) /\ (AllReadable' <=> AllReadable)
      BY <3>1 DEF Asked, Short, AllReadable, Available
    <3>3. Program(infile)' = Program(infile)
      BY <3>1 DEF Program, Given
    <3>4. DriverTypes' /\ OutputIsEmpty' /\ FilesAreAsked' /\ WholeIsDone'
      BY <3>1, <3>2, <3>3
         DEF DriverInv, DriverTypes, Available, OutputIsEmpty, Given, FilesAreAsked, WholeIsDone
    <3>5. ArgumentsRead'
      BY <3>1, <3>2 DEF DriverInv, ArgumentsRead
    <3>6. DoneAndLeft'
      BY <3>1, <3>2 DEF DriverInv, DoneAndLeft, Available
    <3> QED
      BY <3>4, <3>5, <3>6 DEF DriverInv
  <2> QED
    BY <2>1, <2>2, <2>3, <2>4, <2>5, <2>6, <2>7, <2>8, <2>9 DEF DriverNext
<1> QED
  BY <1>1, <1>2, PTL DEF DriverSpec

(* Whatever the command line, the number of files and what is in them: if   *)
(* main writes the output then module M holds the declarations of all the   *)
(* files asked for, in their order, and none of them had an error; given    *)
(* that they can be read and that no argument is longer than YY_INPUT's     *)
(* room (cmdline.lex, yywrap in cmm.y, main.cpp).  Of a file that is the    *)
(* output too there is nothing to declare: it was emptied before.           *)
THEOREM WhatIsKeptIsWhole == DriverSpec => []KeptIsWhole
<1>1. DriverInv => KeptIsWhole
  BY DEF DriverInv, DriverTypes, FilesAreAsked, WholeIsDone, AllReadable, Available, KeptIsWhole, Did
<1> QED
  BY <1>1, DriverInvariance, PTL

=============================================================================
