---------------------------- MODULE LookupProofs ----------------------------
(****************************************************************************)
(* Proofs about the two parts that answer from what they have stored:       *)
(* SymbolTable, for all names and all bounds, and Analyses, for all CFGs    *)
(* and any number of functions, blocks and changes.  What is proved of both *)
(* is that what is looked up is what is there: a name never finds another   *)
(* function's alloca and the chain of scopes implements lexical scoping; a  *)
(* dominator tree that was kept answers as the definition of dominance does.*)
(****************************************************************************)
EXTENDS SymbolTable, Analyses, SequenceTheorems, FiniteSetTheorems, NaturalsInduction,
        WellFoundedInduction, TLAPS

-----------------------------------------------------------------------------
(* SymbolTable                                                              *)

(* The constructs that are open and the scopes of the list correspond.      *)
Balanced ==
    pc # "rejected" =>
        /\ pc = "block" <=> Len(open) > 0
        /\ Len(scopes) = Len(open) + (IF pc \in {"header", "block", "footer"} THEN 1 ELSE 0)

(* All scopes of the list belong to the function being built.               *)
OwnScopes ==
    \A k \in 1..Len(scopes) : \A n \in DOMAIN scopes[k] :
        scopes[k][n] \in made /\ scopes[k][n][1] = fun

(* The allocas of M: those of earlier functions, and Fun's, numbered.       *)
MadeSoFar ==
    \A v \in made : v[1] < fun \/ (v[1] = fun /\ v[2] <= allocas)

IInv ==
    /\ TypeOK
    /\ Balanced
    /\ OwnScopes
    /\ MadeSoFar
    /\ pc \in {"header", "block", "footer"} => fun # 0

-----------------------------------------------------------------------------
(* A set of natural numbers has a least member, one of numbers up to k has  *)
(* a greatest.                                                              *)
LEMMA Least ==
    ASSUME NEW T \in SUBSET Nat, T # {}
    PROVE  \E x \in T : \A y \in T : x <= y
<1> DEFINE R == {ss \in Nat \X Nat : ss[1] < ss[2]}
<1>1. IsWellFoundedOn(R, Nat)
  BY NatLessThanWellFounded DEF OpToRel
<1>2. PICK x \in T : \A y \in T : ~ (<<y, x>> \in R)
  BY <1>1, WFMin
<1>3. ASSUME NEW y \in T PROVE x <= y
  <2>1. ~(<<y, x>>[1] < <<y, x>>[2])
    BY <1>2
  <2> QED
    BY <2>1
<1> QED
  BY <1>3

LEMMA Greatest ==
    ASSUME NEW k \in Nat, NEW D \in SUBSET (1..k), D # {}
    PROVE  \E l \in D : \A m \in D : m <= l
<1> DEFINE T == {t \in Nat : k - t \in D}
<1>1. PICK d : d \in D
  OBVIOUS
<1>2. k - d \in Nat /\ k - (k - d) = d
  BY <1>1
<1>3. T \in SUBSET Nat /\ T # {}
  BY <1>1, <1>2
<1> HIDE DEF T
<1>4. PICK x \in T : \A y \in T : x <= y
  BY <1>3, Least
<1>5. k - x \in D /\ x \in Nat
  BY <1>4 DEF T
<1>6. ASSUME NEW m \in D PROVE m <= k - x
  <2>1. k - m \in Nat /\ k - (k - m) = m
    OBVIOUS
  <2>2. k - m \in T
    BY <2>1 DEF T
  <2>3. x <= k - m
    BY <1>4, <2>2
  <2> QED
    BY <1>5, <2>3
<1> QED
  BY <1>5, <1>6

-----------------------------------------------------------------------------
(* What symbol_find returns: the value in the innermost scope with the      *)
(* name, or nothing if there is none.                                       *)
Innermost(s, n, k, l) ==
    /\ l \in 1..k
    /\ n \in DOMAIN s[l]
    /\ \A m \in l + 1..k : n \notin DOMAIN s[m]

LEMMA InnermostUnique ==
    ASSUME NEW s, NEW n, NEW k \in Nat, NEW l, NEW m,
           Innermost(s, n, k, l), Innermost(s, n, k, m)
    PROVE  l = m
<1>1. l \in 1..k /\ m \in 1..k
  BY DEF Innermost
<1>2. ~(l < m) /\ ~(m < l)
  BY <1>1 DEF Innermost
<1> QED
  BY <1>1, <1>2

LEMMA InnermostExists ==
    ASSUME NEW s, NEW n, NEW k \in Nat, \E l \in 1..k : n \in DOMAIN s[l]
    PROVE  \E l : Innermost(s, n, k, l)
<1> DEFINE D == {l \in 1..k : n \in DOMAIN s[l]}
<1>1. PICK l \in D : \A m \in D : m <= l
  BY Greatest, D \in SUBSET (1..k), D # {}
<1> QED
  BY <1>1 DEF Innermost

LEMMA FindIs ==
    ASSUME NEW s, NEW n, NEW k \in Nat, NEW l, Innermost(s, n, k, l)
    PROVE  find(s, n, k) = s[l][n]
<1> DEFINE c == CHOOSE m \in 1..k : /\ n \in DOMAIN s[m]
                                    /\ \A q \in m + 1..k : n \notin DOMAIN s[q]
<1>1. Innermost(s, n, k, c)
  BY DEF Innermost
<1> HIDE DEF c
<1>2. c = l
  BY <1>1, InnermostUnique
<1>3. \E m \in 1..k : n \in DOMAIN s[m]
  BY DEF Innermost
<1>4. find(s, n, k) = s[c][n]
  BY <1>3 DEF find, c
<1> QED
  BY <1>2, <1>4

LEMMA FindNone ==
    ASSUME NEW s, NEW n, NEW k \in Nat, \A l : ~Innermost(s, n, k, l)
    PROVE  find(s, n, k) = NoValue
  BY InnermostExists DEF find

(* symbol_find depends on the scopes from the head down only.               *)
LEMMA FindSamePrefix ==
    ASSUME NEW s, NEW t, NEW n, NEW k \in Nat,
           \A l \in 1..k : s[l] = t[l]
    PROVE  find(s, n, k) = find(t, n, k)
<1>1. \A l : Innermost(s, n, k, l) <=> Innermost(t, n, k, l)
  BY DEF Innermost
<1>2. CASE \E l : Innermost(s, n, k, l)
  <2>1. PICK l : Innermost(s, n, k, l)
    BY <1>2
  <2>2. s[l] = t[l]
    BY <2>1 DEF Innermost
  <2> QED
    BY <1>1, <2>1, <2>2, FindIs
<1>3. CASE ~\E l : Innermost(s, n, k, l)
  BY <1>1, <1>3, FindNone
<1> QED
  BY <1>2, <1>3

(* After a push: the new scope's names, then what was found before.         *)
LEMMA FindPushed ==
    ASSUME NEW s \in Seq(Scope), NEW d, NEW n
    PROVE  /\ \A k \in 0..Len(s) : find(Append(s, d), n, k) = find(s, n, k)
           /\ n \in DOMAIN d => find(Append(s, d), n, Len(s) + 1) = d[n]
           /\ n \notin DOMAIN d => find(Append(s, d), n, Len(s) + 1) = find(s, n, Len(s))
<1> DEFINE t == Append(s, d)
           z == Len(s) + 1
<1>1. /\ Len(s) \in Nat /\ z \in Nat
      /\ t[z] = d /\ \A l \in 1..Len(s) : t[l] = s[l]
  OBVIOUS
<1> HIDE DEF t
<1>2. \A k \in 0..Len(s) : find(t, n, k) = find(s, n, k)
  BY <1>1, FindSamePrefix
<1>3. ASSUME n \in DOMAIN d PROVE find(t, n, z) = d[n]
  <2>1. Innermost(t, n, z, z)
    BY <1>1, <1>3 DEF Innermost
  <2> QED
    BY <1>1, <2>1, FindIs
<1>4. ASSUME n \notin DOMAIN d PROVE find(t, n, z) = find(s, n, Len(s))
  <2>1. \A l : Innermost(t, n, z, l) <=> Innermost(s, n, Len(s), l)
    BY <1>1, <1>4 DEF Innermost
  <2>2. CASE \E l : Innermost(t, n, z, l)
    <3>1. PICK l : Innermost(t, n, z, l)
      BY <2>2
    <3>2. t[l] = s[l]
      BY <1>1, <2>1, <3>1 DEF Innermost
    <3>3. find(t, n, z) = t[l][n]
      BY <1>1, <3>1, FindIs
    <3>4. find(s, n, Len(s)) = s[l][n]
      BY <1>1, <2>1, <3>1, FindIs
    <3> QED
      BY <3>2, <3>3, <3>4
  <2>3. CASE ~\E l : Innermost(t, n, z, l)
    BY <1>1, <2>1, <2>3, FindNone
  <2> QED
    BY <2>2, <2>3
<1> QED
  BY <1>2, <1>3, <1>4 DEF t

LEMMA BoundScope ==
    ASSUME NEW s \in Scope, NEW n \in Name, NEW v \in Value
    PROVE  Bound(s, n, v) \in Scope
<1>1. PICK S \in SUBSET Name : s \in [S -> Value]
  BY DEF Scope
<1>2. Bound(s, n, v) \in [S \cup {n} -> Value]
  BY <1>1 DEF Bound
<1> QED
  BY <1>2 DEF Scope

(* The scope of the parameters: each name has the alloca of one of them.    *)
LEMMA ParameterScopeNames ==
    ASSUME NEW f, NEW len \in Nat, NEW params \in [1..len -> Name],
           NEW n \in DOMAIN ParameterScope(f, params)
    PROVE  n \in Name /\ \E k \in 1..len : ParameterScope(f, params)[n] = <<f, k>>
<1> DEFINE D == {k \in 1..len : params[k] = n}
<1>1. n \in {params[k] : k \in 1..len}
  BY DEF ParameterScope
<1>2. PICK k \in D : \A l \in D : l <= k
  BY <1>1, Greatest, D \in SUBSET (1..len), D # {}
<1>3. \E q \in DOMAIN params :
         params[q] = n /\ \A l \in DOMAIN params : params[l] = n => l <= q
  BY <1>2
<1> QED
  BY <1>1, <1>3 DEF ParameterScope

LEMMA ParameterScopeType ==
    ASSUME NEW f \in 1..MaxFunctions, NEW len \in 0..MaxAllocas, NEW params \in [1..len -> Name]
    PROVE  ParameterScope(f, params) \in Scope
<1> DEFINE p == ParameterScope(f, params)
<1>1. \A n \in DOMAIN p : n \in Name /\ p[n] \in Value
  BY ParameterScopeNames, BoundsAssumption DEF Value
<1>2. p = [n \in DOMAIN p |-> p[n]]
  BY DEF ParameterScope
<1> HIDE DEF p
<1>3. p \in [DOMAIN p -> Value] /\ DOMAIN p \in SUBSET Name
  BY <1>1, <1>2
<1> QED
  BY <1>3 DEF Scope, p

-----------------------------------------------------------------------------
(* The invariant is inductive.                                              *)
LEMMA InitIInv == Init => IInv
<1> SUFFICES ASSUME Init PROVE IInv
  OBVIOUS
<1>1. /\ pc = "top" /\ open = <<>> /\ scopes = <<>> /\ fun = 0 /\ allocas = 0
      /\ made = {} /\ builder = FALSE
  BY DEF Init
<1>2. TypeOK
  <2>1. <<>> \in Seq(BOOLEAN) /\ <<>> \in Seq(Scope)
    OBVIOUS
  <2>2. 0 \in 0..MaxFunctions /\ 0 \in 0..MaxAllocas
    BY BoundsAssumption
  <2> QED
    BY <1>1, <2>1, <2>2 DEF TypeOK
<1>3. Len(scopes) = 0 /\ Len(open) = 0
  BY <1>1
<1>4. Balanced /\ OwnScopes /\ MadeSoFar
  BY <1>1, <1>3 DEF Balanced, OwnScopes, MadeSoFar
<1> QED
  BY <1>1, <1>2, <1>4 DEF IInv

LEMMA FunctionHeaderIInv ==
    ASSUME IInv, NEW len \in 0..MaxAllocas, NEW params \in [1..len -> Name],
           FunctionHeader(params)
    PROVE  IInv'
<1> DEFINE p == ParameterScope(fun + 1, params)
<1>1. Len(params) = len /\ DOMAIN params = 1..len /\ len \in Nat
  BY BoundsAssumption
<1>2. /\ pc = "top" /\ pc' = "header" /\ fun' = fun + 1 /\ allocas' = len
      /\ builder' = TRUE /\ open' = open /\ scopes' = Append(scopes, p)
      /\ made' = made \cup {<<fun + 1, k>> : k \in 1..len}
      /\ fun + 1 \in 1..MaxFunctions
  BY <1>1, BoundsAssumption DEF FunctionHeader, push_scope, IInv, TypeOK
<1>3. scopes = <<>> /\ open = <<>>
  BY <1>2 DEF IInv, Balanced, TypeOK
<1>4. p \in Scope
  BY <1>1, <1>2, ParameterScopeType
<1>5. \A n \in DOMAIN p : \E k \in 1..len : p[n] = <<fun + 1, k>>
  BY <1>1, ParameterScopeNames
<1> HIDE DEF p
<1>6. scopes' = <<p>> /\ Len(scopes') = 1 /\ scopes'[1] = p
  BY <1>2, <1>3
<1>7. made' \subseteq Value
  BY <1>2, BoundsAssumption DEF Value, IInv, TypeOK
<1>8. TypeOK'
  BY <1>2, <1>3, <1>4, <1>6, <1>7, BoundsAssumption DEF TypeOK, IInv
<1>9. Balanced'
  BY <1>2, <1>3, <1>6 DEF Balanced
<1>10. OwnScopes'
  BY <1>2, <1>5, <1>6 DEF OwnScopes
<1>11. MadeSoFar'
  <2> SUFFICES ASSUME NEW v \in made'
               PROVE  v[1] < fun' \/ (v[1] = fun' /\ v[2] <= allocas')
    BY DEF MadeSoFar
  <2>1. CASE v \in made
    BY <1>2, <2>1, BoundsAssumption DEF MadeSoFar, IInv, TypeOK, Value
  <2>2. CASE v \notin made
    BY <1>2, <2>2
  <2> QED
    BY <2>1, <2>2
<1> QED
  BY <1>2, <1>8, <1>9, <1>10, <1>11 DEF IInv, TypeOK

LEMMA LBraceIInv == IInv /\ LBrace => IInv'
<1> SUFFICES ASSUME IInv, LBrace PROVE IInv'
  OBVIOUS
<1> DEFINE shut == [k \in DOMAIN open |-> FALSE]
<1>0. shut \in Seq(BOOLEAN) /\ Len(shut) = Len(open)
  <2>1. Len(open) \in Nat /\ DOMAIN open = 1..Len(open)
    BY DEF IInv, TypeOK
  <2> QED
    BY <2>1
<1> HIDE DEF shut
<1>1. /\ pc' = "block" /\ Len(open') = Len(open) + 1 /\ open' \in Seq(BOOLEAN) /\ open' # <<>>
      /\ scopes' = Append(scopes, EmptyScope)
      /\ UNCHANGED <<fun, allocas, made, builder>> /\ pc \in {"header", "block"}
  <2>1. open' = Append(shut, TRUE)
    BY DEF LBrace, shut
  <2>2. /\ Append(shut, TRUE) \in Seq(BOOLEAN) /\ Append(shut, TRUE) # <<>>
        /\ Len(Append(shut, TRUE)) = Len(shut) + 1
    BY <1>0, TRUE \in BOOLEAN, AppendProperties, Zenon
  <2>3. Len(open') = Len(open) + 1 /\ open' \in Seq(BOOLEAN) /\ open' # <<>>
    BY <1>0, <2>1, <2>2, Zenon
  <2> QED
    BY <2>3 DEF LBrace, push_scope
<1>2. EmptyScope \in Scope /\ DOMAIN EmptyScope = {}
  BY DEF EmptyScope, Scope
<1>3. /\ scopes' \in Seq(Scope) /\ Len(scopes') = Len(scopes) + 1
      /\ scopes'[Len(scopes) + 1] = EmptyScope
      /\ \A k \in 1..Len(scopes) : scopes'[k] = scopes[k]
  BY <1>1, <1>2 DEF IInv, TypeOK
<1>4. TypeOK'
  BY <1>1, <1>3 DEF IInv, TypeOK
<1>5. Balanced'
  BY <1>1, <1>3 DEF IInv, TypeOK, Balanced
<1>6. OwnScopes'
  <2> SUFFICES ASSUME NEW k \in 1..Len(scopes'), NEW n \in DOMAIN scopes'[k]
               PROVE  scopes'[k][n] \in made' /\ scopes'[k][n][1] = fun'
    BY DEF OwnScopes
  <2>1. k \in 1..Len(scopes)
    BY <1>2, <1>3 DEF IInv, TypeOK
  <2> QED
    BY <1>1, <1>3, <2>1 DEF IInv, OwnScopes
<1> QED
  BY <1>1, <1>4, <1>5, <1>6 DEF IInv, MadeSoFar

(* What a pop and a declaration do to a list.                               *)
LEMMA Popped ==
    ASSUME NEW S, NEW s \in Seq(S), s # <<>>
    PROVE  /\ SubSeq(s, 1, Len(s) - 1) \in Seq(S)
           /\ Len(SubSeq(s, 1, Len(s) - 1)) = Len(s) - 1
           /\ \A k \in 1..Len(s) - 1 : SubSeq(s, 1, Len(s) - 1)[k] = s[k]
<1> DEFINE z == Len(s) - 1
<1>1. Len(s) \in Nat /\ Len(s) # 0 /\ \A i \in 1..Len(s) : s[i] \in S
  BY EmptySeq, LenProperties, ElementOfSeq
<1>2. z \in Nat /\ 1 \in Int /\ z \in Int /\ \A i \in 1..z : s[i] \in S /\ 1 + i - 1 = i
  BY <1>1
<1> HIDE DEF z
<1>3. /\ SubSeq(s, 1, z) \in Seq(S)
      /\ Len(SubSeq(s, 1, z)) = IF 1 <= z THEN z - 1 + 1 ELSE 0
      /\ \A i \in 1..z - 1 + 1 : SubSeq(s, 1, z)[i] = s[1 + i - 1]
  BY <1>2, SubSeqProperties
<1>4. z - 1 + 1 = z /\ (IF 1 <= z THEN z - 1 + 1 ELSE 0) = z
  BY <1>2
<1>5. \A i \in 1..z : SubSeq(s, 1, z)[i] = s[i]
  BY <1>2, <1>3, <1>4
<1> QED
  BY <1>3, <1>4, <1>5 DEF z

LEMMA Replaced ==
    ASSUME NEW S, NEW s \in Seq(S), s # <<>>, NEW e \in S, NEW t,
           t = [s EXCEPT ![Len(s)] = e]
    PROVE  /\ t \in Seq(S) /\ Len(t) = Len(s)
           /\ t[Len(s)] = e /\ \A k \in 1..Len(s) - 1 : t[k] = s[k]
<1>1. Len(s) \in 1..Len(s)
  BY EmptySeq, LenProperties
<1>2. /\ t \in Seq(S) /\ Len(t) = Len(s)
      /\ \A j \in 1..Len(s) : t[j] = IF j = Len(s) THEN e ELSE s[j]
  BY <1>1, ExceptSeq
<1>3. ASSUME NEW k \in 1..Len(s) - 1 PROVE k \in 1..Len(s) /\ k # Len(s)
  BY <1>1
<1> QED
  BY <1>1, <1>2, <1>3

LEMMA LocalDeclarationIInv ==
    ASSUME IInv, NEW n \in Name, LocalDeclaration(n)
    PROVE  IInv'
<1> DEFINE v == <<fun, allocas + 1>>
           z == Len(scopes)
           d == Bound(scopes[z], n, v)
<1>1. /\ pc = "block" /\ pc' = pc /\ open' = open /\ fun' = fun /\ builder' = builder
      /\ allocas' = allocas + 1 /\ allocas + 1 \in 1..MaxAllocas
      /\ made' = made \cup {v}
  BY BoundsAssumption DEF LocalDeclaration, IInv, TypeOK
<1>2. /\ z \in Nat \ {0} /\ scopes # <<>> /\ scopes \in Seq(Scope)
      /\ DOMAIN scopes = 1..z /\ z \in 1..z /\ scopes[z] \in Scope
  BY <1>1 DEF IInv, TypeOK, Balanced
<1>3. v \in Value
  BY <1>1, BoundsAssumption DEF IInv, TypeOK, Value
<1>4. d \in Scope /\ DOMAIN d = DOMAIN scopes[z] \cup {n}
  <2>1. d \in Scope
    BY <1>2, <1>3, BoundScope
  <2> QED
    BY <2>1 DEF Bound
<1>5. \A m \in DOMAIN d : d[m] = v \/ (m \in DOMAIN scopes[z] /\ d[m] = scopes[z][m])
  BY DEF Bound
<1>6. scopes' = [scopes EXCEPT ![z] = d]
  BY <1>2 DEF LocalDeclaration, insert
<1> HIDE DEF d
<1>7. /\ scopes' \in Seq(Scope) /\ Len(scopes') = z
      /\ scopes'[z] = d /\ \A k \in 1..z - 1 : scopes'[k] = scopes[k]
  <2>1. scopes \in Seq(Scope) /\ scopes # <<>> /\ d \in Scope /\ z = Len(scopes)
    BY <1>2, <1>4
  <2> HIDE DEF z
  <2>2. scopes' = [scopes EXCEPT ![Len(scopes)] = d]
    BY <1>6, <2>1
  <2>3. /\ scopes' \in Seq(Scope) /\ Len(scopes') = Len(scopes)
        /\ scopes'[Len(scopes)] = d /\ \A k \in 1..Len(scopes) - 1 : scopes'[k] = scopes[k]
    BY <2>1, <2>2, Replaced
  <2> QED
    BY <2>1, <2>3
<1>8. TypeOK'
  <2>1. scopes' # <<>>
    BY <1>2, <1>7
  <2>2. allocas' \in 0..MaxAllocas /\ made' \subseteq Value
    BY <1>1, <1>3, BoundsAssumption DEF IInv, TypeOK
  <2> QED
    BY <1>1, <1>7, <2>1, <2>2 DEF IInv, TypeOK
<1>9. Balanced'
  BY <1>1, <1>7 DEF IInv, Balanced
<1>10. OwnScopes'
  <2> SUFFICES ASSUME NEW k \in 1..z, NEW m \in DOMAIN scopes'[k]
               PROVE  scopes'[k][m] \in made' /\ scopes'[k][m][1] = fun'
    BY <1>7 DEF OwnScopes
  <2>1. CASE k = z
    BY <1>1, <1>2, <1>5, <1>7, <2>1 DEF IInv, OwnScopes
  <2>2. CASE k # z
    <3>1. z \in Nat
      BY <1>2
    <3> HIDE DEF z
    <3>2. k \in 1..z - 1 /\ k \in 1..z
      BY <2>2, <3>1
    <3> QED
      BY <1>1, <1>7, <3>2 DEF IInv, OwnScopes, z
  <2> QED
    BY <2>1, <2>2
<1>11. MadeSoFar'
  BY <1>1, BoundsAssumption DEF IInv, MadeSoFar, TypeOK, Value
<1> QED
  BY <1>1, <1>8, <1>9, <1>10, <1>11 DEF IInv

(* A list without its last scope is as good as the list.                    *)
LEMMA OwnScopesPopped ==
    ASSUME IInv, scopes # <<>>, scopes' = pop_scope, UNCHANGED <<fun, made>>
    PROVE  scopes' \in Seq(Scope) /\ Len(scopes') = Len(scopes) - 1 /\ OwnScopes'
<1>1. /\ scopes' \in Seq(Scope) /\ Len(scopes') = Len(scopes) - 1
      /\ \A k \in 1..Len(scopes) - 1 : scopes'[k] = scopes[k]
  BY Popped DEF IInv, TypeOK, pop_scope
<1>2. \A k \in 1..Len(scopes) - 1 : k \in 1..Len(scopes)
  OBVIOUS
<1> QED
  BY <1>1, <1>2 DEF IInv, OwnScopes

LEMMA RBraceIInv == IInv /\ RBrace => IInv'
<1> SUFFICES ASSUME IInv, RBrace PROVE IInv'
  OBVIOUS
<1>1. /\ pc = "block" /\ pc' = IF Len(open) = 1 THEN "footer" ELSE "block"
      /\ open' = SubSeq(open, 1, Len(open) - 1) /\ scopes' = pop_scope
      /\ UNCHANGED <<fun, allocas, made, builder>>
  BY DEF RBrace
<1>2. /\ open \in Seq(BOOLEAN) /\ open # <<>> /\ scopes # <<>> /\ Len(open) \in Nat \ {0}
      /\ Len(scopes) = Len(open) + 1
  BY <1>1 DEF IInv, TypeOK, Balanced
<1>3. open' \in Seq(BOOLEAN) /\ Len(open') = Len(open) - 1
  BY <1>1, <1>2, Popped, Zenon
<1>4. scopes' \in Seq(Scope) /\ Len(scopes') = Len(scopes) - 1 /\ OwnScopes'
  BY <1>1, <1>2, OwnScopesPopped
<1>5. (pc' = "block" => open' # <<>>) /\ scopes' # <<>>
  <2>1. pc' = "block" => Len(open') # 0
    BY <1>1, <1>2, <1>3
  <2>2. Len(scopes') # 0
    BY <1>2, <1>4
  <2> QED
    BY <2>1, <2>2
<1>6. TypeOK'
  BY <1>1, <1>3, <1>4, <1>5 DEF IInv, TypeOK
<1>7. Balanced'
  BY <1>1, <1>2, <1>3, <1>4 DEF IInv, Balanced
<1> QED
  BY <1>1, <1>4, <1>6, <1>7 DEF IInv, MadeSoFar

LEMMA FunctionEndIInv == IInv /\ FunctionEnd => IInv'
<1> SUFFICES ASSUME IInv, FunctionEnd PROVE IInv'
  OBVIOUS
<1>1. /\ pc = "footer" /\ pc' = "top" /\ scopes' = pop_scope
      /\ UNCHANGED <<open, fun, allocas, made, builder>>
  BY DEF FunctionEnd
<1>2. scopes # <<>>
  BY <1>1 DEF IInv, TypeOK
<1>3. scopes' \in Seq(Scope) /\ Len(scopes') = Len(scopes) - 1 /\ OwnScopes'
  BY <1>1, <1>2, OwnScopesPopped
<1>4. TypeOK'
  BY <1>1, <1>3 DEF IInv, TypeOK
<1>5. Balanced'
  BY <1>1, <1>3 DEF IInv, TypeOK, Balanced
<1> QED
  BY <1>1, <1>3, <1>4, <1>5 DEF IInv, MadeSoFar

LEMMA TopLevelIInv ==
    IInv /\ (InitializedGlobal \/ Accept \/ SyntaxError) => IInv'
<1> SUFFICES ASSUME IInv, InitializedGlobal \/ Accept \/ SyntaxError PROVE IInv'
  OBVIOUS
<1>1. /\ UNCHANGED <<open, scopes, fun, allocas, made, builder>>
      /\ \/ pc = "top" /\ pc' \in {"top", "accepted", "fault"}
         \/ pc' = "rejected"
  BY DEF InitializedGlobal, Accept, SyntaxError
<1>2. TypeOK'
  BY <1>1 DEF IInv, TypeOK
<1>3. Balanced'
  BY <1>1 DEF IInv, Balanced
<1>4. OwnScopes' /\ MadeSoFar'
  BY <1>1 DEF IInv, OwnScopes, MadeSoFar
<1> QED
  BY <1>1, <1>2, <1>3, <1>4 DEF IInv

LEMMA StepIInv == IInv /\ [Next]_vars => IInv'
<1> SUFFICES ASSUME IInv, [Next]_vars PROVE IInv'
  OBVIOUS
<1>1. ASSUME NEW k \in 0..MaxAllocas, NEW params \in [1..k -> Name], FunctionHeader(params)
      PROVE  IInv'
  BY <1>1, FunctionHeaderIInv
<1>2. ASSUME NEW n \in Name, LocalDeclaration(n) PROVE IInv'
  BY <1>2, LocalDeclarationIInv
<1>3. CASE UNCHANGED vars
  BY <1>3 DEF vars, IInv, TypeOK, Balanced, OwnScopes, MadeSoFar
<1> QED
  BY <1>1, <1>2, <1>3, LBraceIInv, RBraceIInv, FunctionEndIInv, TopLevelIInv DEF Next

THEOREM Invariance == Spec => []IInv
<1>1. Init => IInv
  BY InitIInv
<1>2. IInv /\ [Next]_vars => IInv'
  BY StepIInv
<1> QED
  BY <1>1, <1>2, PTL DEF Spec

(* Types, and the parser pops only scopes that it has pushed.               *)
THEOREM TypeCorrect == Spec => []TypeOK
<1>1. IInv => TypeOK
  BY DEF IInv
<1> QED
  BY <1>1, Invariance, PTL

(* No name ever finds the alloca of another function.                       *)
THEOREM FindsOwn == Spec => []FindsOwnAlloca
<1>1. ASSUME IInv PROVE FindsOwnAlloca
  <2> SUFFICES ASSUME NEW n \in Name, find(scopes, n, Len(scopes)) # NoValue
               PROVE  /\ find(scopes, n, Len(scopes))[1] = fun
                      /\ find(scopes, n, Len(scopes))[2] \in 1..allocas
                      /\ pc \notin {"top", "accepted", "fault"}
    BY DEF FindsOwnAlloca
  <2>1. Len(scopes) \in Nat
    BY <1>1 DEF IInv, TypeOK
  <2>2. PICK l : Innermost(scopes, n, Len(scopes), l)
    BY <2>1, FindNone
  <2>3. l \in 1..Len(scopes) /\ n \in DOMAIN scopes[l]
    BY <2>2 DEF Innermost
  <2>4. find(scopes, n, Len(scopes)) = scopes[l][n]
    BY <2>1, <2>2, FindIs
  <2>5. scopes[l][n] \in made /\ scopes[l][n][1] = fun
    BY <1>1, <2>3 DEF IInv, OwnScopes
  <2>6. scopes[l][n][2] \in 1..allocas
    BY <1>1, <2>5 DEF IInv, TypeOK, MadeSoFar, Value
  <2>7. pc \notin {"top", "accepted", "fault"}
    BY <1>1, <2>1, <2>3 DEF IInv, Balanced, TypeOK
  <2> QED
    BY <2>4, <2>5, <2>6, <2>7
<1> QED
  BY <1>1, Invariance, PTL

-----------------------------------------------------------------------------
(* The table implements lexical scoping.  Meaning is the refinement mapping *)
(* for a list s: one meaning of all names for each scope, and one for none. *)
Meaning(s) == [k \in 1..Len(s) + 1 |-> [n \in Name |-> find(s, n, k - 1)]]

Meant == [Name -> Value \cup {NoValue}]

LEMMA FindType ==
    ASSUME NEW s \in Seq(Scope), NEW n, NEW k \in 0..Len(s)
    PROVE  find(s, n, k) \in Value \cup {NoValue}
<1>1. k \in Nat /\ Len(s) \in Nat
  OBVIOUS
<1>2. CASE \E l : Innermost(s, n, k, l)
  <2>1. PICK l : Innermost(s, n, k, l)
    BY <1>2
  <2>2. l \in 1..Len(s) /\ n \in DOMAIN s[l]
    BY <1>1, <2>1 DEF Innermost
  <2>3. s[l] \in Scope
    BY <2>2
  <2>4. s[l][n] \in Value
    BY <2>2, <2>3 DEF Scope
  <2> QED
    BY <1>1, <2>1, <2>4, FindIs
<1>3. CASE ~\E l : Innermost(s, n, k, l)
  BY <1>1, <1>3, FindNone
<1> QED
  BY <1>2, <1>3

LEMMA MeaningType ==
    ASSUME NEW s \in Seq(Scope)
    PROVE  /\ Meaning(s) \in Seq(Meant) /\ Len(Meaning(s)) = Len(s) + 1
           /\ Meaning(s) # <<>> /\ Len(s) \in Nat
           /\ \A k \in 1..Len(s) + 1 : Meaning(s)[k] = [n \in Name |-> find(s, n, k - 1)]
<1> DEFINE z == Len(s) + 1
           m == Meaning(s)
<1>1. Len(s) \in Nat /\ z \in Nat /\ z # 0
  OBVIOUS
<1>2. DOMAIN m = 1..z /\ \A k \in 1..z : m[k] = [n \in Name |-> find(s, n, k - 1)]
  BY DEF Meaning
<1>3. ASSUME NEW k \in 1..z PROVE m[k] \in Meant
  <2>1. k - 1 \in 0..Len(s)
    BY <1>1
  <2> QED
    BY <1>2, <2>1, FindType DEF Meant
<1>4. m = [k \in 1..z |-> m[k]]
  BY DEF Meaning
<1> HIDE DEF m
<1>5. m \in [1..z -> Meant]
  BY <1>3, <1>4
<1> HIDE DEF z
<1>6. m \in Seq(Meant) /\ Len(m) = z /\ m # <<>>
  BY <1>1, <1>5
<1> QED
  BY <1>1, <1>2, <1>6 DEF m, z

LEMMA MeaningAt ==
    ASSUME NEW s \in Seq(Scope), NEW k \in 0..Len(s)
    PROVE  Meaning(s)[k + 1] = [n \in Name |-> find(s, n, k)]
<1> SUFFICES ASSUME NEW j, j = k + 1 PROVE Meaning(s)[j] = [n \in Name |-> find(s, n, k)]
  OBVIOUS
<1>1. j \in 1..Len(s) + 1 /\ j - 1 = k
  OBVIOUS
<1>2. Meaning(s)[j] = [n \in Name |-> find(s, n, j - 1)]
  BY <1>1, MeaningType
<1> QED
  BY <1>1, <1>2, Zenon

(* A push opens a construct that declares the names of the scope.           *)
LEMMA MeaningPushed ==
    ASSUME NEW s \in Seq(Scope), NEW d \in Scope, NEW f,
           f = [n \in Name |-> IF n \in DOMAIN d THEN d[n] ELSE find(s, n, Len(s))]
    PROVE  Meaning(Append(s, d)) = Append(Meaning(s), f) /\ f \in Meant
<1> DEFINE t == Append(s, d)
           a == Meaning(t)
           b == Append(Meaning(s), f)
<1>1. t \in Seq(Scope) /\ Len(t) = Len(s) + 1 /\ Len(s) \in Nat
  OBVIOUS
<1>2. /\ a \in Seq(Meant) /\ Len(a) = Len(s) + 2
      /\ \A k \in 1..Len(s) + 2 : a[k] = [n \in Name |-> find(t, n, k - 1)]
  <2> HIDE DEF t
  <2>1. Len(t) + 1 = Len(s) + 2
    BY <1>1
  <2> QED
    BY <1>1, <2>1, MeaningType
<1>3. a[Len(s) + 2] = f
  <2>1. Len(s) + 2 \in 1..Len(s) + 2 /\ Len(s) + 2 - 1 = Len(s) + 1
    BY <1>1
  <2>2. \A n \in Name : find(t, n, Len(s) + 1) = f[n]
    BY FindPushed
  <2> QED
    BY <1>2, <2>1, <2>2
<1>4. f \in Meant
  BY <1>1, <1>2, <1>3
<1>5. /\ b \in Seq(Meant) /\ Len(b) = Len(s) + 2 /\ b[Len(s) + 2] = f
      /\ \A k \in 1..Len(s) + 1 : b[k] = Meaning(s)[k]
  BY <1>1, <1>4, MeaningType
<1>6. ASSUME NEW k \in 1..Len(s) + 1 PROVE a[k] = b[k]
  <2>1. k - 1 \in 0..Len(s) /\ k \in 1..Len(s) + 2
    BY <1>1
  <2>2. \A n \in Name : find(t, n, k - 1) = find(s, n, k - 1)
    BY <2>1, FindPushed
  <2>3. b[k] = [n \in Name |-> find(s, n, k - 1)]
    BY <1>5, MeaningType
  <2> QED
    BY <1>2, <2>1, <2>2, <2>3
<1> HIDE DEF a, b
<1>7. \A k \in 1..Len(s) + 2 : a[k] = b[k]
  <2> SUFFICES ASSUME NEW k \in 1..Len(s) + 2 PROVE a[k] = b[k]
    OBVIOUS
  <2>1. k \in 1..Len(s) + 1 \/ k = Len(s) + 2
    BY <1>1
  <2> QED
    BY <1>3, <1>5, <1>6, <2>1
<1>8. a = b
  BY <1>2, <1>5, <1>7, SeqEqual
<1> QED
  BY <1>4, <1>8 DEF a, b

(* A pop closes one.                                                        *)
LEMMA MeaningPopped ==
    ASSUME NEW s \in Seq(Scope), s # <<>>
    PROVE  Meaning(SubSeq(s, 1, Len(s) - 1)) = SubSeq(Meaning(s), 1, Len(Meaning(s)) - 1)
<1> DEFINE t == SubSeq(s, 1, Len(s) - 1)
           a == Meaning(t)
           b == SubSeq(Meaning(s), 1, Len(Meaning(s)) - 1)
<1>1. /\ t \in Seq(Scope) /\ Len(t) = Len(s) - 1
      /\ \A k \in 1..Len(s) - 1 : t[k] = s[k]
  BY Popped
<1>2. Len(s) \in Nat /\ Len(s) # 0 /\ Len(t) + 1 = Len(s)
  BY <1>1, EmptySeq
<1> HIDE DEF t
<1>3. /\ a \in Seq(Meant) /\ Len(a) = Len(s)
      /\ \A k \in 1..Len(s) : a[k] = [n \in Name |-> find(t, n, k - 1)]
  BY <1>1, <1>2, MeaningType
<1>4. Meaning(s) \in Seq(Meant) /\ Meaning(s) # <<>> /\ Len(Meaning(s)) - 1 = Len(s)
  BY <1>2, MeaningType
<1>5. /\ b \in Seq(Meant) /\ Len(b) = Len(s)
      /\ \A k \in 1..Len(s) : b[k] = Meaning(s)[k]
  BY <1>4, Popped
<1>6. ASSUME NEW k \in 1..Len(s) PROVE a[k] = b[k]
  <2>1. k - 1 \in Nat /\ k \in 1..Len(s) + 1 /\ \A l \in 1..k - 1 : t[l] = s[l]
    BY <1>1, <1>2
  <2>2. \A n \in Name : find(t, n, k - 1) = find(s, n, k - 1)
    BY <2>1, FindSamePrefix
  <2>3. b[k] = [n \in Name |-> find(s, n, k - 1)]
    BY <1>5, <2>1, MeaningType
  <2> QED
    BY <1>3, <2>2, <2>3
<1> HIDE DEF a, b
<1>7. a = b
  BY <1>3, <1>5, <1>6, SeqEqual
<1> QED
  BY <1>7 DEF a, b, t

(* An insertion redefines one name in the innermost construct: its name     *)
(* finds the new value, the others what they found, and so do all names     *)
(* from the scopes below.                                                   *)
LEMMA MeaningBound ==
    ASSUME NEW s \in Seq(Scope), s # <<>>, NEW x \in Name, NEW v,
           NEW t \in Seq(Scope), Len(t) = Len(s),
           DOMAIN t[Len(s)] = DOMAIN s[Len(s)] \cup {x},
           t[Len(s)][x] = v,
           \A m \in DOMAIN s[Len(s)] : m # x => t[Len(s)][m] = s[Len(s)][m],
           \A k \in 1..Len(s) - 1 : t[k] = s[k]
    PROVE  Meaning(t) = [Meaning(s) EXCEPT
               ![Len(Meaning(s))] = [Meaning(s)[Len(Meaning(s))] EXCEPT ![x] = v]]
<1> DEFINE z == Len(s)
           a == Meaning(t)
           g == [Meaning(s)[z + 1] EXCEPT ![x] = v]
           b == [Meaning(s) EXCEPT ![z + 1] = g]
<1>1. z \in Nat /\ z # 0
  BY EmptySeq
<1>2. /\ a \in Seq(Meant) /\ Len(a) = z + 1
      /\ \A k \in 1..z + 1 : a[k] = [n \in Name |-> find(t, n, k - 1)]
  BY MeaningType
<1>3. /\ Meaning(s) \in Seq(Meant) /\ Meaning(s) # <<>> /\ Len(Meaning(s)) = z + 1
      /\ \A k \in 1..z + 1 : Meaning(s)[k] = [n \in Name |-> find(s, n, k - 1)]
  BY MeaningType
<1> HIDE DEF z, a
<1>4. ASSUME NEW n
      PROVE  /\ \A k \in 0..z - 1 : find(t, n, k) = find(s, n, k)
             /\ n = x => find(t, n, z) = v
             /\ n # x => find(t, n, z) = find(s, n, z)
  <2>1. z \in Nat \ {0} /\ \A l \in 1..z - 1 : t[l] = s[l]
    BY <1>1 DEF z
  <2>2. \A k \in 0..z - 1 : find(t, n, k) = find(s, n, k)
    <3> SUFFICES ASSUME NEW k \in 0..z - 1 PROVE find(t, n, k) = find(s, n, k)
      OBVIOUS
    <3>1. k \in Nat /\ \A l \in 1..k : t[l] = s[l]
      BY <2>1
    <3> QED
      BY <2>1, <3>1, FindSamePrefix
  <2>3. DOMAIN t[z] = DOMAIN s[z] \cup {x} /\ t[z][x] = v
    BY DEF z
  <2>4. ASSUME n # x, n \in DOMAIN s[z] PROVE t[z][n] = s[z][n]
    BY <2>4 DEF z
  <2>5. ASSUME n = x PROVE find(t, n, z) = v
    <3>1. Innermost(t, n, z, z)
      BY <2>1, <2>3, <2>5 DEF Innermost
    <3> QED
      BY <2>1, <2>3, <2>5, <3>1, FindIs
  <2>6. ASSUME n # x PROVE find(t, n, z) = find(s, n, z)
    <3>1. ASSUME NEW l \in 1..z PROVE n \in DOMAIN t[l] <=> n \in DOMAIN s[l]
      <4>1. CASE l = z
        BY <2>3, <2>6, <4>1
      <4>2. CASE l # z
        <5>1. l \in 1..z - 1
          BY <2>1, <4>2
        <5> QED
          BY <2>1, <5>1
      <4> QED
        BY <4>1, <4>2
    <3>2. \A l : Innermost(t, n, z, l) <=> Innermost(s, n, z, l)
      BY <2>1, <3>1 DEF Innermost
    <3>3. CASE \E l : Innermost(s, n, z, l)
      <4>1. PICK l : Innermost(s, n, z, l)
        BY <3>3
      <4>2. l \in 1..z /\ n \in DOMAIN s[l]
        BY <4>1 DEF Innermost
      <4>3. t[l][n] = s[l][n]
        <5>1. CASE l = z
          BY <2>4, <2>6, <4>2, <5>1
        <5>2. CASE l # z
          <6>1. l \in 1..z - 1
            BY <2>1, <4>2, <5>2
          <6> QED
            BY <2>1, <6>1
        <5> QED
          BY <5>1, <5>2
      <4>4. find(t, n, z) = t[l][n]
        BY <2>1, <3>2, <4>1, FindIs
      <4>5. find(s, n, z) = s[l][n]
        BY <2>1, <4>1, FindIs
      <4> QED
        BY <4>3, <4>4, <4>5
    <3>4. CASE ~\E l : Innermost(s, n, z, l)
      BY <2>1, <3>2, <3>4, FindNone
    <3> QED
      BY <3>3, <3>4
  <2> QED
    BY <2>2, <2>5, <2>6
<1>5. z + 1 \in 1..z + 1 /\ z + 1 - 1 = z
  BY <1>1
<1>6. /\ a[z + 1] = [n \in Name |-> find(t, n, z)]
      /\ Meaning(s)[z + 1] = [n \in Name |-> find(s, n, z)]
  BY <1>1, MeaningAt DEF a, z
<1>7. g = [n \in Name |-> find(t, n, z)]
  BY <1>4, <1>6
<1>8. g \in Meant /\ a[z + 1] = g
  BY <1>2, <1>5, <1>6, <1>7
<1> HIDE DEF g
<1>9. /\ b \in Seq(Meant) /\ Len(b) = z + 1 /\ b[z + 1] = g
      /\ \A k \in 1..z : b[k] = Meaning(s)[k]
  BY <1>1, <1>3, <1>8, Replaced
<1>10. ASSUME NEW k \in 1..z PROVE a[k] = b[k]
  <2>1. k - 1 \in 0..z - 1 /\ k \in 1..z + 1
    BY <1>1
  <2>2. \A n \in Name : find(t, n, k - 1) = find(s, n, k - 1)
    BY <1>4, <2>1
  <2> QED
    BY <1>2, <1>3, <1>9, <2>1, <2>2
<1> HIDE DEF b
<1>11. \A k \in 1..z + 1 : a[k] = b[k]
  <2> SUFFICES ASSUME NEW k \in 1..z + 1 PROVE a[k] = b[k]
    OBVIOUS
  <2>1. k \in 1..z \/ k = z + 1
    BY <1>1
  <2> QED
    BY <1>8, <1>9, <1>10, <2>1
<1>12. a = b
  BY <1>2, <1>9, <1>11, SeqEqual
<1> QED
  BY <1>3, <1>12 DEF a, b, g

(* Every production is a step of lexical scoping, or none.                  *)
LEMMA OpenStep ==
    ASSUME NEW d \in Scope, scopes \in Seq(Scope), scopes' = Append(scopes, d),
           \A n \in DOMAIN d : d[n] \in made' \ made,
           made \subseteq made', made' \subseteq Value, made' = made <=> DOMAIN d = {}
    PROVE  Lexical!Open
<1> DEFINE f == [n \in Name |-> IF n \in DOMAIN d THEN d[n] ELSE find(scopes, n, Len(scopes))]
<1>1. Meaning(scopes') = Append(Meaning(scopes), f) /\ f \in Meant
  BY MeaningPushed
<1>2. DOMAIN d \in SUBSET Name
  BY DEF Scope
<1>3. Meaning(scopes)[Len(Meaning(scopes))] = [n \in Name |-> find(scopes, n, Len(scopes))]
  BY MeaningType, MeaningAt
<1>4. \A n \in Name : IF n \in DOMAIN d THEN f[n] \in made' \ made
                                       ELSE f[n] = Meaning(scopes)[Len(Meaning(scopes))][n]
  BY <1>3
<1> HIDE DEF f
<1> QED
  BY <1>1, <1>2, <1>4 DEF Lexical!Open, Lexical!Here, Meaning, Meant

LEMMA CloseStep ==
    ASSUME scopes \in Seq(Scope), scopes # <<>>, scopes' = pop_scope, UNCHANGED made
    PROVE  Lexical!Close
<1>1. Meaning(scopes') = SubSeq(Meaning(scopes), 1, Len(Meaning(scopes)) - 1)
  BY MeaningPopped DEF pop_scope
<1>2. Len(Meaning(scopes)) > 1
  BY MeaningType, EmptySeq
<1> QED
  BY <1>1, <1>2 DEF Lexical!Close, Meaning

LEMMA DeclareStep ==
    ASSUME IInv, NEW n \in Name, LocalDeclaration(n)
    PROVE  Lexical!Declare
<1> DEFINE v == <<fun, allocas + 1>>
           d == Bound(scopes[Len(scopes)], n, v)
<1>1. pc = "block" /\ made' = made \cup {v} /\ allocas + 1 \in 1..MaxAllocas
  BY BoundsAssumption DEF LocalDeclaration, IInv, TypeOK
<1>2. /\ scopes # <<>> /\ scopes \in Seq(Scope) /\ Len(scopes) \in Nat \ {0}
      /\ scopes[Len(scopes)] \in Scope
  BY <1>1 DEF IInv, TypeOK
<1>3. v \in Value \ made
  BY <1>1, BoundsAssumption DEF IInv, TypeOK, MadeSoFar, Value
<1>4. d \in Scope
  BY <1>2, <1>3, BoundScope
<1>5. scopes' = [scopes EXCEPT ![Len(scopes)] = d]
  BY <1>2 DEF LocalDeclaration, insert
<1> HIDE DEF v
<1>6. /\ scopes' \in Seq(Scope) /\ Len(scopes') = Len(scopes) /\ scopes'[Len(scopes)] = d
      /\ \A k \in 1..Len(scopes) - 1 : scopes'[k] = scopes[k]
  <2> HIDE DEF d
  <2> QED
    BY <1>2, <1>4, <1>5, Replaced
<1>7. Meaning(scopes') = [Meaning(scopes) EXCEPT
          ![Len(Meaning(scopes))] = [Meaning(scopes)[Len(Meaning(scopes))] EXCEPT ![n] = v]]
  <2>1. /\ DOMAIN d = DOMAIN scopes[Len(scopes)] \cup {n} /\ d[n] = v
        /\ \A m \in DOMAIN scopes[Len(scopes)] : m # n => d[m] = scopes[Len(scopes)][m]
    BY DEF Bound
  <2> HIDE DEF d
  <2> QED
    BY <1>2, <1>6, <2>1, MeaningBound
<1>8. Len(Meaning(scopes)) > 1
  BY <1>2, MeaningType
<1> QED
  BY <1>1, <1>3, <1>7, <1>8 DEF Lexical!Declare, Lexical!Here, Meaning

LEMMA RefinesStep == IInv /\ IInv' /\ [Next]_vars => [Lexical!Next]_(Lexical!vars)
<1> SUFFICES ASSUME IInv, IInv', [Next]_vars PROVE [Lexical!Next]_(Lexical!vars)
  OBVIOUS
<1>1. ASSUME NEW k \in 0..MaxAllocas, NEW params \in [1..k -> Name], FunctionHeader(params)
      PROVE  Lexical!Open
  <2> DEFINE p == ParameterScope(fun + 1, params)
  <2>1. k \in Nat /\ Len(params) = k /\ DOMAIN params = 1..k
    BY BoundsAssumption
  <2>2. /\ scopes' = Append(scopes, p) /\ fun + 1 \in 1..MaxFunctions
        /\ made' = made \cup {<<fun + 1, l>> : l \in 1..k}
    BY <1>1, <2>1, BoundsAssumption DEF FunctionHeader, push_scope, IInv, TypeOK
  <2>3. p \in Scope
    BY <2>1, <2>2, ParameterScopeType
  <2>4. \A n \in DOMAIN p : \E l \in 1..k : p[n] = <<fun + 1, l>>
    BY <2>1, ParameterScopeNames
  <2>5. \A l \in 1..k : <<fun + 1, l>> \notin made
    <3> SUFFICES ASSUME NEW l \in 1..k, <<fun + 1, l>> \in made PROVE FALSE
      OBVIOUS
    <3>1. <<fun + 1, l>>[1] = fun + 1 /\ fun \in Nat
      BY BoundsAssumption DEF IInv, TypeOK
    <3> QED
      BY <3>1 DEF IInv, MadeSoFar
  <2>6. \A n \in DOMAIN p : p[n] \in made' \ made
    BY <2>2, <2>4, <2>5
  <2>7. DOMAIN p = {} <=> k = 0
    BY <2>1 DEF ParameterScope
  <2>8. made' = made <=> k = 0
    <3>1. CASE k = 0
      BY <2>2, <3>1
    <3>2. CASE k # 0
      <4>1. 1 \in 1..k
        BY <2>1, <3>2
      <4>2. <<fun + 1, 1>> \in made' /\ <<fun + 1, 1>> \notin made
        BY <2>2, <2>5, <4>1
      <4> QED
        BY <3>2, <4>2
    <3> QED
      BY <3>1, <3>2
  <2> HIDE DEF p
  <2> QED
    BY <2>2, <2>3, <2>6, <2>7, <2>8, OpenStep DEF IInv, TypeOK
<1>2. CASE LBrace
  <2>1. EmptyScope \in Scope /\ DOMAIN EmptyScope = {}
    BY DEF EmptyScope, Scope
  <2>2. scopes' = Append(scopes, EmptyScope) /\ made' = made
    BY <1>2 DEF LBrace, push_scope
  <2>3. Lexical!Open
    BY <2>1, <2>2, OpenStep DEF IInv, TypeOK
  <2> QED
    BY <2>3 DEF Lexical!Next
<1>3. ASSUME NEW n \in Name, LocalDeclaration(n) PROVE Lexical!Declare
  BY <1>3, DeclareStep
<1>4. CASE RBrace \/ FunctionEnd
  <2>1. scopes # <<>> /\ scopes \in Seq(Scope) /\ scopes' = pop_scope /\ UNCHANGED made
    BY <1>4 DEF RBrace, FunctionEnd, IInv, TypeOK
  <2>2. Lexical!Close
    BY <2>1, CloseStep
  <2> QED
    BY <2>2 DEF Lexical!Next
<1>5. CASE InitializedGlobal \/ Accept \/ SyntaxError \/ UNCHANGED vars
  <2>1. UNCHANGED <<scopes, made>>
    BY <1>5 DEF InitializedGlobal, Accept, SyntaxError, vars
  <2> QED
    BY <2>1 DEF Lexical!vars
<1> QED
  BY <1>1, <1>2, <1>3, <1>4, <1>5 DEF Next, Lexical!Next

(* The chain of scopes implements lexical scoping.                          *)
THEOREM Refinement == Spec => ImplementsScoping
<1>1. Init => Lexical!Init
  <2> SUFFICES ASSUME Init PROVE Lexical!Init
    OBVIOUS
  <2>1. scopes = <<>> /\ made = {} /\ scopes \in Seq(Scope) /\ Len(scopes) = 0
    BY DEF Init
  <2>2. \A n \in Name : find(scopes, n, 0) = NoValue
    BY FindNone DEF Innermost
  <2>3. Meaning(scopes)[1] = [n \in Name |-> NoValue]
    <3>1. 0 \in 0..Len(scopes) /\ 0 + 1 = 1
      BY <2>1
    <3>2. Meaning(scopes)[0 + 1] = [n \in Name |-> find(scopes, n, 0)]
      BY <2>1, <3>1, MeaningAt
    <3> QED
      BY <2>2, <3>1, <3>2
  <2>4. Meaning(scopes) = <<[n \in Name |-> NoValue]>>
    <3> DEFINE a == Meaning(scopes)
               b == <<[n \in Name |-> NoValue]>>
    <3>1. a \in Seq(Meant) /\ Len(a) = 1
      <4>1. scopes \in Seq(Scope) /\ Len(scopes) = 0
        BY <2>1
      <4>2. Meaning(scopes) \in Seq(Meant) /\ Len(Meaning(scopes)) = Len(scopes) + 1
        BY <4>1, MeaningType
      <4> QED
        BY <4>1, <4>2
    <3>2. b \in Seq(Meant) /\ Len(b) = 1 /\ b[1] = [n \in Name |-> NoValue]
      BY DEF Meant
    <3> HIDE DEF a, b
    <3>3. \A i \in 1..Len(a) : a[i] = b[i]
      BY <2>3, <3>1, <3>2 DEF a
    <3>4. a = b
      BY <3>1, <3>2, <3>3, SeqEqual
    <3> QED
      BY <3>4 DEF a, b
  <2> QED
    BY <2>1, <2>4 DEF Lexical!Init, Meaning
<1>2. IInv /\ IInv' /\ [Next]_vars => [Lexical!Next]_(Lexical!vars)
  BY RefinesStep
<1> QED
  BY <1>1, <1>2, Invariance, PTL DEF Spec, ImplementsScoping, Lexical!Spec

-----------------------------------------------------------------------------
(* Analyses                                                                 *)

(* Existence of the least element of a set of naturals.                     *)
LEMMA LeastNumber ==
    ASSUME NEW T \in SUBSET Nat, T # {}
    PROVE  \E x \in T : \A y \in T : x <= y
<1> DEFINE R == {ss \in Nat \X Nat : ss[1] < ss[2]}
<1>1. IsWellFoundedOn(R, Nat)
  BY NatLessThanWellFounded DEF OpToRel
<1>2. PICK x \in T : \A y \in T : ~ (<<y, x>> \in R)
  BY <1>1, WFMin
<1>3. ASSUME NEW y \in T PROVE x <= y
  <2>1. ~(<<y, x>>[1] < <<y, x>>[2])
    BY <1>2
  <2> QED
    BY <2>1
<1> QED
  BY <1>3

(* Induction over the naturals, for a set of them.                          *)
LEMMA AllNumbers ==
    ASSUME NEW T \in SUBSET Nat, 0 \in T, \A n \in T : n + 1 \in T
    PROVE  Nat \subseteq T
<1> SUFFICES ASSUME ~(Nat \subseteq T) PROVE FALSE
  OBVIOUS
<1> DEFINE M == Nat \ T
<1>1. PICK x \in M : \A y \in M : x <= y
  <2>1. M \in SUBSET Nat /\ M # {}
    OBVIOUS
  <2> HIDE DEF M
  <2> QED
    BY <2>1, LeastNumber
<1>2. x # 0 /\ x - 1 \in Nat /\ x - 1 \notin M
  BY <1>1
<1> QED
  BY <1>1, <1>2

\* A way through a CFG: where it begins and where it goes from each block.
IsWay(w) ==
    /\ w.roots \subseteq Blocks
    /\ \A b \in Blocks : w.next[b] \subseteq Blocks

\* Nothing leads out of X but into W.
Closed(w, W, X) ==
    /\ w.roots \ W \subseteq X
    /\ \A b \in X : w.next[b] \ W \subseteq X

\* X and what is one step further, but for W: one stage of Reach.
Onward(w, W, X) == X \cup ((UNION {w.next[b] : b \in X}) \ W)

\* A stage grows the set, unless the set is closed, and stays in every closed one.
LEMMA OnwardFacts ==
    ASSUME NEW w, IsWay(w), NEW W, NEW X, X \subseteq Blocks \ W
    PROVE  /\ Onward(w, W, X) \subseteq Blocks \ W
           /\ X \subseteq Onward(w, W, X)
           /\ (\A b \in X : w.next[b] \ W \subseteq X) <=> Onward(w, W, X) = X
           /\ \A Y : X \subseteq Y /\ Closed(w, W, Y) => Onward(w, W, X) \subseteq Y
<1>1. \A y : y \in Onward(w, W, X) <=> y \in X \/ (y \notin W /\ \E b \in X : y \in w.next[b])
  <2> TAKE y
  <2>1. y \in UNION {w.next[b] : b \in X} <=> \E b \in X : y \in w.next[b]
    BY Zenon
  <2>2. y \in Onward(w, W, X) <=> y \in X \/ (y \notin W /\ y \in UNION {w.next[b] : b \in X})
    BY Zenon DEF Onward
  <2> QED
    BY <2>1, <2>2
<1>2. Onward(w, W, X) \subseteq Blocks \ W
  BY <1>1 DEF IsWay
<1>3. X \subseteq Onward(w, W, X)
  BY <1>1
<1>4. (\A b \in X : w.next[b] \ W \subseteq X) <=> Onward(w, W, X) = X
  BY <1>1
<1>5. \A Y : X \subseteq Y /\ Closed(w, W, Y) => Onward(w, W, X) \subseteq Y
  BY <1>1 DEF Closed
<1> QED
  BY <1>2, <1>3, <1>4, <1>5

IsGrowth(w, W, g, n) ==
    g = [k \in 0..n |-> IF k = 0 THEN w.roots \ W ELSE Onward(w, W, g[k - 1])]

\* The stages of Reach exist, as a function on 0..Cardinality(Blocks).
LEMMA GrowthExists ==
    ASSUME NEW w, NEW W, NEW n \in Nat
    PROVE  \E g : IsGrowth(w, W, g, n)
<1> DEFINE T == {m \in Nat : \E g : IsGrowth(w, W, g, m)}
<1>1. 0 \in T
  <2>1. IsGrowth(w, W, [k \in 0..0 |-> w.roots \ W], 0)
    BY DEF IsGrowth
  <2> QED
    BY <2>1
<1>2. ASSUME NEW m \in T PROVE m + 1 \in T
  <2>1. PICK g : IsGrowth(w, W, g, m)
    BY <1>2
  <2> DEFINE h == [k \in 0..m + 1 |-> IF k = m + 1 THEN Onward(w, W, g[m]) ELSE g[k]]
  <2>2. \A k \in 0..m : g[k] = IF k = 0 THEN w.roots \ W ELSE Onward(w, W, g[k - 1])
    BY <2>1 DEF IsGrowth
  <2>3. \A k \in 0..m + 1 : h[k] = IF k = 0 THEN w.roots \ W ELSE Onward(w, W, h[k - 1])
    <3> TAKE k \in 0..m + 1
    <3>1. CASE k = m + 1
      <4>1. h[k] = Onward(w, W, g[m]) /\ h[k - 1] = g[m] /\ k # 0
        BY <3>1, <1>2
      <4> QED
        BY <4>1
    <3>2. CASE k # m + 1
      <4>1. k \in 0..m /\ h[k] = g[k] /\ (k # 0 => h[k - 1] = g[k - 1])
        BY <3>2
      <4> QED
        BY <4>1, <2>2
    <3> QED
      BY <3>1, <3>2
  <2>4. IsGrowth(w, W, h, m + 1)
    <3> HIDE DEF h
    <3>1. h = [k \in 0..m + 1 |-> h[k]]
      BY DEF h
    <3> QED
      BY <2>3, <3>1 DEF IsGrowth
  <2> QED
    BY <2>4
<1> HIDE DEF T
<1>3. n \in T
  <2>1. T \in SUBSET Nat
    BY DEF T
  <2> QED
    BY <1>1, <1>2, <2>1, AllNumbers
<1> QED
  BY <1>3 DEF T

\* And Reach is the last of them.
LEMMA ReachGrows ==
    ASSUME NEW w, NEW W, IsFiniteSet(Blocks)
    PROVE  \E g : /\ Reach(w, W) = g[Cardinality(Blocks)]
                  /\ g[0] = w.roots \ W
                  /\ \A n \in 0..Cardinality(Blocks) - 1 : g[n + 1] = Onward(w, W, g[n])
<1> DEFINE N == Cardinality(Blocks)
           g == CHOOSE h : IsGrowth(w, W, h, N)
<1>1. N \in Nat
  BY FS_CardinalityType
<1>2. IsGrowth(w, W, g, N)
  BY <1>1, GrowthExists
<1>3. Reach(w, W) = g[N]
  BY DEF Reach, IsGrowth, Onward
<1>4. \A k \in 0..N : g[k] = IF k = 0 THEN w.roots \ W ELSE Onward(w, W, g[k - 1])
  <2> HIDE DEF g
  <2> QED
    BY <1>2 DEF IsGrowth
<1>5. g[0] = w.roots \ W
  BY <1>4, <1>1
<1>6. ASSUME NEW n \in 0..N - 1 PROVE g[n + 1] = Onward(w, W, g[n])
  <2> HIDE DEF g
  <2>1. n + 1 \in 0..N /\ n + 1 # 0 /\ (n + 1) - 1 = n
    BY <1>1
  <2> QED
    BY <2>1, <1>4
<1> HIDE DEF g
<1> QED
  BY <1>3, <1>5, <1>6

(* As many stages as there are blocks are enough: what Reach computes is the*)
(* least closed set, by which everything about dominance is proved.         *)
LEMMA ReachLeast ==
    ASSUME NEW w, IsWay(w), NEW W
    PROVE  /\ Reach(w, W) \subseteq Blocks \ W
           /\ Closed(w, W, Reach(w, W))
           /\ \A X : Closed(w, W, X) => Reach(w, W) \subseteq X
<1> DEFINE N == Cardinality(Blocks)
           Stays(X) == \A b \in X : w.next[b] \ W \subseteq X
<1>1. IsFiniteSet(Blocks) /\ N \in Nat
  BY GraphsAssumption, FS_CardinalityType
<1>2. PICK g : /\ Reach(w, W) = g[N]
               /\ g[0] = w.roots \ W
               /\ \A n \in 0..N - 1 : g[n + 1] = Onward(w, W, g[n])
  BY <1>1, ReachGrows
<1> DEFINE Good(n) == /\ w.roots \ W \subseteq g[n]
                      /\ g[n] \subseteq Blocks \ W
                      /\ Stays(g[n]) \/ Cardinality(g[n]) >= n + 1
                      /\ \A X : Closed(w, W, X) => g[n] \subseteq X
           T == {n \in Nat : n <= N => Good(n)}
<1>3. 0 \in T
  <2>1. g[0] \subseteq Blocks \ W /\ IsFiniteSet(g[0])
    BY <1>1, <1>2, FS_Subset DEF IsWay
  <2>2. Cardinality(g[0]) \in Nat /\ (g[0] # {} => Cardinality(g[0]) # 0)
    BY <2>1, FS_CardinalityType, FS_EmptySet
  <2>3. Stays(g[0]) \/ Cardinality(g[0]) >= 0 + 1
    <3>1. CASE g[0] = {}
      BY <3>1
    <3>2. CASE g[0] # {}
      <4>1. Cardinality(g[0]) >= 0 + 1
        BY <3>2, <2>2
      <4> QED
        BY <4>1
    <3> QED
      BY <3>1, <3>2
  <2> QED
    BY <2>1, <2>3, <1>2 DEF Closed
<1>4. ASSUME NEW n \in T PROVE n + 1 \in T
  <2> SUFFICES ASSUME n + 1 <= N PROVE Good(n + 1)
    BY <1>4
  <2>1. n \in Nat /\ Good(n) /\ n \in 0..N - 1
    BY <1>1, <1>4
  <2>2. g[n + 1] = Onward(w, W, g[n])
    BY <2>1, <1>2
  <2>3. /\ g[n + 1] \subseteq Blocks \ W
        /\ g[n] \subseteq g[n + 1]
        /\ Stays(g[n]) <=> g[n + 1] = g[n]
        /\ \A Y : g[n] \subseteq Y /\ Closed(w, W, Y) => g[n + 1] \subseteq Y
    BY <2>1, <2>2, OnwardFacts
  <2>4. Stays(g[n + 1]) \/ Cardinality(g[n + 1]) >= (n + 1) + 1
    <3>1. CASE Stays(g[n])
      <4>1. g[n + 1] = g[n]
        BY <3>1, <2>3
      <4> QED
        BY <4>1, <3>1
    <3>2. CASE ~Stays(g[n])
      <4>1. g[n + 1] # g[n] /\ Cardinality(g[n]) >= n + 1
        BY <3>2, <2>3, <2>1
      <4>2. IsFiniteSet(g[n + 1])
        BY <2>3, <1>1, FS_Subset
      <4>3. /\ IsFiniteSet(g[n]) /\ Cardinality(g[n]) <= Cardinality(g[n + 1])
            /\ Cardinality(g[n]) # Cardinality(g[n + 1])
        BY <4>1, <4>2, <2>3, FS_Subset
      <4>4. Cardinality(g[n]) \in Nat /\ Cardinality(g[n + 1]) \in Nat
        BY <4>2, <4>3, FS_CardinalityType
      <4> QED
        BY <4>1, <4>3, <4>4, <2>1
    <3> QED
      BY <3>1, <3>2
  <2> QED
    BY <2>1, <2>3, <2>4
<1>5. Good(N)
  <2> HIDE DEF Good
  <2>1. N \in T
    BY <1>1, <1>3, <1>4, AllNumbers
  <2> QED
    BY <2>1, <1>1
<1>6. Stays(g[N])
  <2> SUFFICES ASSUME Cardinality(g[N]) >= N + 1 PROVE FALSE
    BY <1>5
  <2>1. g[N] \subseteq Blocks
    BY <1>5
  <2>2. Cardinality(g[N]) <= N /\ IsFiniteSet(g[N])
    BY <2>1, <1>1, FS_Subset
  <2>3. Cardinality(g[N]) \in Nat
    BY <2>2, FS_CardinalityType
  <2> QED
    BY <2>2, <2>3, <1>1
<1> QED
  BY <1>2, <1>5, <1>6 DEF Closed

-----------------------------------------------------------------------------
\* If b is not reached without a then nothing reached without a needs b.
LEMMA ReachApart ==
    ASSUME NEW w, IsWay(w), NEW a, NEW b, b \notin Reach(w, {a})
    PROVE  Reach(w, {a}) \subseteq Reach(w, {b})
<1> DEFINE X == Reach(w, {a}) \cap Reach(w, {b})
<1>1. Closed(w, {a}, Reach(w, {a})) /\ Closed(w, {b}, Reach(w, {b}))
  BY ReachLeast
<1>2. w.roots \ {a} \subseteq X
  BY <1>1 DEF Closed
<1>3. ASSUME NEW x \in X, NEW y \in w.next[x], y # a PROVE y \in X
  BY <1>1, <1>3 DEF Closed
<1>4. Closed(w, {a}, X)
  <2>1. \A x \in X : w.next[x] \ {a} \subseteq X
    BY <1>3
  <2> HIDE DEF X
  <2> QED
    BY <1>2, <2>1 DEF Closed
<1>5. Reach(w, {a}) \subseteq X
  <2> HIDE DEF X
  <2> QED
    BY <1>4, ReachLeast
<1> QED
  BY <1>5

\* Without some blocks no more is reached than with them.
LEMMA ReachLess ==
    ASSUME NEW w, IsWay(w), NEW W
    PROVE  Reach(w, W) \subseteq Reachable(w) /\ Reachable(w) \subseteq Blocks
<1>1. Closed(w, {}, Reachable(w)) /\ Reachable(w) \subseteq Blocks
  BY ReachLeast DEF Reachable
<1>2. Closed(w, W, Reachable(w))
  BY <1>1 DEF Closed
<1> QED
  BY <1>1, <1>2, ReachLeast

\* The strict dominators of a block that is reached.
LEMMA StrictDomsAre ==
    ASSUME NEW w, IsWay(w), NEW b \in Reachable(w)
    PROVE  /\ \A a : a \in StrictDoms(w, b) <=> a \in Reachable(w) /\ a # b /\ b \notin Reach(w, {a})
           /\ IsFiniteSet(StrictDoms(w, b)) /\ Cardinality(StrictDoms(w, b)) \in Nat
           /\ \A a : Dom(w, a, b) <=> a = b \/ a \in StrictDoms(w, b)
<1>1. \A a : a \in StrictDoms(w, b) <=> a \in Reachable(w) /\ a # b /\ b \notin Reach(w, {a})
  BY DEF StrictDoms, Dom
<1>2. StrictDoms(w, b) \subseteq Blocks
  BY <1>1, ReachLess
<1>3. IsFiniteSet(StrictDoms(w, b)) /\ Cardinality(StrictDoms(w, b)) \in Nat
  BY <1>2, GraphsAssumption, FS_Subset, FS_CardinalityType
<1>4. \A a : Dom(w, a, b) <=> a = b \/ a \in StrictDoms(w, b)
  BY <1>1 DEF Dom
<1> QED
  BY <1>1, <1>3, <1>4

(* Strict dominance is transitive, whatever the graph.                      *)
LEMMA DominanceTransitive ==
    ASSUME NEW w, IsWay(w), NEW c \in Reachable(w), NEW b \in StrictDoms(w, c), NEW a \in StrictDoms(w, b)
    PROVE  a \in StrictDoms(w, c)
<1>1. b \in Reachable(w) /\ b # c /\ c \notin Reach(w, {b})
  BY StrictDomsAre
<1>2. a \in Reachable(w) /\ a # b /\ b \notin Reach(w, {a})
  BY <1>1, StrictDomsAre
<1>3. c \notin Reach(w, {a})
  BY <1>1, <1>2, ReachApart
<1>4. a # c
  <2> SUFFICES ASSUME a = c PROVE FALSE
    OBVIOUS
  <2> DEFINE X == Reach(w, {a})
  <2>1. X = Reach(w, {b})
    BY <1>1, <1>2, ReachApart
  <2>2. Closed(w, {a}, X) /\ Closed(w, {b}, X)
    BY <2>1, ReachLeast
  <2>3. Closed(w, {}, X)
    BY <2>2, <1>2 DEF Closed
  <2>4. Reachable(w) \subseteq X
    BY <2>3, ReachLeast DEF Reachable
  <2> QED
    BY <2>4, <1>2, ReachLeast
<1> QED
  BY <1>2, <1>3, <1>4, StrictDomsAre

(* Of two strict dominators of a block one dominates the other.             *)
LEMMA DominatorsInLine ==
    ASSUME NEW w, IsWay(w), NEW b \in Reachable(w), NEW a \in StrictDoms(w, b),
           NEW c \in StrictDoms(w, b), a # c
    PROVE  a \in StrictDoms(w, c) \/ c \in StrictDoms(w, a)
<1>1. /\ a \in Reachable(w) /\ b \notin Reach(w, {a})
      /\ c \in Reachable(w) /\ b \notin Reach(w, {c})
  BY StrictDomsAre
<1> SUFFICES ASSUME c \in Reach(w, {a}), a \in Reach(w, {c}) PROVE FALSE
  BY <1>1, StrictDomsAre
<1> DEFINE X == Reach(w, {a}) \cup Reach(w, {c})
<1>2. Closed(w, {a}, Reach(w, {a})) /\ Closed(w, {c}, Reach(w, {c}))
  BY ReachLeast
<1>3. w.roots \subseteq X
  BY <1>2 DEF Closed
<1>4. ASSUME NEW x \in X, NEW y \in w.next[x] PROVE y \in X
  <2>1. CASE x \in Reach(w, {a})
    BY <2>1, <1>2 DEF Closed
  <2>2. CASE x \in Reach(w, {c})
    BY <2>2, <1>2 DEF Closed
  <2> QED
    BY <2>1, <2>2
<1>5. Reachable(w) \subseteq X
  <2> HIDE DEF X
  <2>1. Closed(w, {}, X)
    BY <1>3, <1>4 DEF Closed
  <2> QED
    BY <2>1, ReachLeast DEF Reachable
<1> QED
  BY <1>5, <1>1

\* A strict dominator has fewer of them.
LEMMA FewerDominators ==
    ASSUME NEW w, IsWay(w), NEW b \in Reachable(w), NEW a \in StrictDoms(w, b)
    PROVE  /\ a \in Reachable(w)
           /\ Cardinality(StrictDoms(w, a)) < Cardinality(StrictDoms(w, b))
<1>1. a \in Reachable(w) /\ a \notin StrictDoms(w, a)
  BY StrictDomsAre DEF StrictDoms
<1>2. StrictDoms(w, a) \subseteq StrictDoms(w, b)
  BY DominanceTransitive
<1>3. /\ IsFiniteSet(StrictDoms(w, b)) /\ Cardinality(StrictDoms(w, b)) \in Nat
      /\ Cardinality(StrictDoms(w, a)) \in Nat
  BY <1>1, StrictDomsAre
<1>4. Cardinality(StrictDoms(w, a)) <= Cardinality(StrictDoms(w, b))
      /\ Cardinality(StrictDoms(w, a)) # Cardinality(StrictDoms(w, b))
  BY <1>1, <1>2, <1>3, FS_Subset
<1> QED
  BY <1>1, <1>3, <1>4

(* Of a set of blocks in line the last is dominated by all of them.         *)
\* So a set in which dominance is a line has a last block in that line.
LEMMA Deepest ==
    ASSUME NEW w, IsWay(w), NEW C, C \subseteq Reachable(w), C # {},
           \A a \in C, c \in C : a = c \/ a \in StrictDoms(w, c) \/ c \in StrictDoms(w, a)
    PROVE  \E a \in C : \A c \in C : c = a \/ c \in StrictDoms(w, a)
<1> DEFINE N == Cardinality(Blocks)
           depth(a) == Cardinality(StrictDoms(w, a))
           T == {N - depth(a) : a \in C}
<1>1. IsFiniteSet(Blocks) /\ N \in Nat
  BY GraphsAssumption, FS_CardinalityType
<1>2. ASSUME NEW a \in C PROVE depth(a) \in Nat /\ depth(a) <= N
  <2>1. StrictDoms(w, a) \subseteq Blocks
    BY ReachLess DEF StrictDoms
  <2> QED
    BY <2>1, <1>1, FS_Subset, FS_CardinalityType
<1>3. T \in SUBSET Nat /\ T # {}
  BY <1>1, <1>2
<1>4. PICK x \in T : \A y \in T : x <= y
  <2> HIDE DEF T
  <2> QED
    BY <1>3, LeastNumber
<1>5. PICK a \in C : x = N - depth(a)
  BY <1>4
<1>6. ASSUME NEW c \in C, c # a PROVE c \in StrictDoms(w, a)
  <2>1. N - depth(a) <= N - depth(c)
    BY <1>4, <1>5
  <2>2. depth(a) \in Nat /\ depth(c) \in Nat /\ depth(c) <= depth(a)
    BY <2>1, <1>1, <1>2
  <2>3. a \notin StrictDoms(w, c)
    <3> SUFFICES ASSUME a \in StrictDoms(w, c) PROVE FALSE
      OBVIOUS
    <3>1. depth(a) < depth(c)
      BY FewerDominators
    <3> QED
      BY <3>1, <2>2
  <2> QED
    BY <2>3, <1>6
<1> QED
  BY <1>6

(* The parent in the tree is a strict dominator, dominated by the others.   *)
LEMMA TreeIs ==
    ASSUME NEW w, IsWay(w), NEW b \in Reachable(w)
    PROVE  /\ StrictDoms(w, b) = {} => Tree(w)[b] = NULL
           /\ StrictDoms(w, b) # {} =>
                 /\ Tree(w)[b] \in StrictDoms(w, b)
                 /\ Tree(w)[b] \in Reachable(w) /\ Tree(w)[b] # NULL
                 /\ \A c : c \in StrictDoms(w, b) <=>
                            c = Tree(w)[b] \/ c \in StrictDoms(w, Tree(w)[b])
<1>1. StrictDoms(w, b) = {} => Tree(w)[b] = NULL
  BY DEF Tree
<1>2. ASSUME StrictDoms(w, b) # {}
      PROVE  /\ Tree(w)[b] \in StrictDoms(w, b)
             /\ \A c \in StrictDoms(w, b) : Dom(w, c, Tree(w)[b])
  <2>1. StrictDoms(w, b) \subseteq Reachable(w)
    BY DEF StrictDoms
  <2>2. \E a \in StrictDoms(w, b) : \A c \in StrictDoms(w, b) : c = a \/ c \in StrictDoms(w, a)
    BY <1>2, <2>1, Deepest, DominatorsInLine
  <2>3. \E a \in StrictDoms(w, b) : \A c \in StrictDoms(w, b) : Dom(w, c, a)
    BY <2>1, <2>2, StrictDomsAre
  <2>4. Tree(w)[b] = CHOOSE a \in StrictDoms(w, b) : \A c \in StrictDoms(w, b) : Dom(w, c, a)
    BY <1>2 DEF Tree
  <2> QED
    BY <2>3, <2>4
<1>3. ASSUME StrictDoms(w, b) # {}
      PROVE  /\ Tree(w)[b] \in Reachable(w) /\ Tree(w)[b] # NULL
             /\ \A c : c \in StrictDoms(w, b) <=>
                        c = Tree(w)[b] \/ c \in StrictDoms(w, Tree(w)[b])
  <2>1. Tree(w)[b] \in Reachable(w)
    BY <1>2, <1>3 DEF StrictDoms
  <2>2. Tree(w)[b] # NULL
    BY <2>1, ReachLess, GraphsAssumption
  <2> QED
    BY <1>2, <1>3, <2>1, <2>2, StrictDomsAre, DominanceTransitive
<1> QED
  BY <1>1, <1>2, <1>3

(* The path up the tree is dominance, though Above is recursive on the tree:*)
(* there is one function with its equation.                                 *)
LEMMA AboveIsDominance ==
    ASSUME NEW w, IsWay(w), NEW a, NEW b \in Reachable(w)
    PROVE  Above(Tree(w), a, b) <=> a = b \/ a \in StrictDoms(w, b)
<1> DEFINE t == Tree(w)
           IsUp(Up) == Up = [c \in DOMAIN t |-> a = c \/ (t[c] # NULL /\ Up[t[c]])]
           V == [c \in DOMAIN t |-> a = c \/ a \in StrictDoms(w, c)]
           U == CHOOSE Up : IsUp(Up)
<1>1. DOMAIN t = Reachable(w)
  BY DEF Tree
<1>2. IsUp(V)
  <2>1. ASSUME NEW c \in DOMAIN t
        PROVE  (a = c \/ a \in StrictDoms(w, c)) = (a = c \/ (t[c] # NULL /\ V[t[c]]))
    <3>1. CASE StrictDoms(w, c) = {}
      BY <3>1, <1>1, <2>1, TreeIs
    <3>2. CASE StrictDoms(w, c) # {}
      <4>1. /\ t[c] \in DOMAIN t /\ t[c] # NULL
            /\ a \in StrictDoms(w, c) <=> a = t[c] \/ a \in StrictDoms(w, t[c])
        BY <3>2, <1>1, <2>1, TreeIs
      <4> QED
        BY <4>1
    <3> QED
      BY <3>1, <3>2
  <2> QED
    BY <2>1
<1>3. IsUp(U)
  BY <1>2
<1>4. \A c \in DOMAIN t : U[c] = (a = c \/ (t[c] # NULL /\ U[t[c]]))
  <2> HIDE DEF U
  <2> QED
    BY <1>3
<1> DEFINE depth(c) == Cardinality(StrictDoms(w, c))
           Wrong == {c \in Reachable(w) : U[c] # (a = c \/ a \in StrictDoms(w, c))}
           T == {depth(c) : c \in Wrong}
<1> HIDE DEF U
<1>5. Wrong = {}
  <2> SUFFICES ASSUME Wrong # {} PROVE FALSE
    OBVIOUS
  <2>1. T \in SUBSET Nat /\ T # {}
    BY StrictDomsAre
  <2>2. PICK x \in T : \A y \in T : x <= y
    <3> HIDE DEF T
    <3> QED
      BY <2>1, LeastNumber
  <2>3. PICK c \in Wrong : x = depth(c)
    BY <2>2
  <2>4. c \in Reachable(w) /\ c \in DOMAIN t
    BY <1>1
  <2>5. CASE StrictDoms(w, c) = {}
    BY <2>5, <2>4, <1>4, TreeIs
  <2>6. CASE StrictDoms(w, c) # {}
    <3>1. /\ t[c] \in StrictDoms(w, c) /\ t[c] \in Reachable(w) /\ t[c] # NULL
          /\ a \in StrictDoms(w, c) <=> a = t[c] \/ a \in StrictDoms(w, t[c])
      BY <2>6, <2>4, TreeIs
    <3>2. depth(t[c]) < depth(c)
      BY <3>1, <2>4, FewerDominators
    <3>3. depth(t[c]) \in Nat /\ depth(c) \in Nat
      BY <3>1, <2>4, StrictDomsAre
    <3>4. t[c] \notin Wrong
      BY <2>2, <2>3, <3>2, <3>3
    <3>5. U[t[c]] = (a = t[c] \/ a \in StrictDoms(w, t[c]))
      BY <3>1, <3>4
    <3>6. U[c] = (a = c \/ (t[c] # NULL /\ U[t[c]]))
      BY <2>4, <1>4
    <3> QED
      BY <3>1, <3>5, <3>6
  <2> QED
    BY <2>5, <2>6
<1>6. Above(t, a, b) = U[b]
  BY DEF Above, U
<1> QED
  BY <1>5, <1>6

-----------------------------------------------------------------------------
\* Of the CFG of a function both ways are.
LEMMA WaysThrough ==
    ASSUME NEW g \in Graphs
    PROVE  IsWay(Forward(g)) /\ IsWay(Backward(g))
<1>1. g \in [Blocks -> Seq(Blocks)] /\ Entry \in Blocks
  BY GraphsAssumption
<1>2. \A b \in Blocks : Succ(g, b) \subseteq Blocks
  BY <1>1 DEF Succ, ToSet
<1> QED
  BY <1>1, <1>2 DEF IsWay, Forward, Backward, Pred

\* The entry dominates all that is reached.
LEMMA EntryFirst ==
    ASSUME NEW g \in Graphs
    PROVE  /\ Entry \in Body(g)
           /\ \A b \in Body(g) : Dom(Forward(g), Entry, b)
<1> DEFINE w == Forward(g)
<1>1. IsWay(w) /\ w.roots = {Entry}
  BY WaysThrough DEF Forward
<1> HIDE DEF w
<1>2. Entry \in Reachable(w)
  BY <1>1, ReachLeast DEF Reachable, Closed
<1>3. Closed(w, {Entry}, {})
  BY <1>1 DEF Closed
<1>4. Reach(w, {Entry}) = {}
  BY <1>1, <1>3, ReachLeast
<1> QED
  BY <1>2, <1>4 DEF Dom, Body, w

\* What the stored trees are, of a graph.
LEMMA TreesAre ==
    ASSUME NEW g \in Graphs
    PROVE  /\ IDom[g] = Tree(Forward(g)) /\ DOMAIN IDom[g] = Body(g)
           /\ IPDom[g] = Tree(Backward(g)) /\ DOMAIN IPDom[g] = Reachable(Backward(g))
           /\ Body(g) = Reachable(Forward(g)) /\ Body(g) \subseteq Blocks
<1>1. Body(g) \subseteq Blocks
  BY WaysThrough, ReachLess DEF Body
<1> QED
  BY <1>1 DEF IDom, IPDom, Tree, Body

\* The answer that Dominates and PostDominates take from a tree.
LEMMA DominatesFromTree ==
    ASSUME NEW w, IsWay(w), NEW a, NEW b
    PROVE  (a = b \/ b \notin Reachable(w) \/ (a \in Reachable(w) /\ Above(Tree(w), a, b)))
           <=> Dom(w, a, b)
<1>1. CASE b \notin Reachable(w)
  BY <1>1 DEF Dom
<1>2. CASE b \in Reachable(w)
  BY <1>2, AboveIsDominance, StrictDomsAre
<1> QED
  BY <1>1, <1>2

\* And that of NearestCommonDominator.
LEMMA NearestFromTree ==
    ASSUME NEW g \in Graphs, NEW a \in Body(g), NEW b \in Body(g)
    PROVE  LET w == Forward(g)
               up == {c \in Body(g) : Dom(w, c, a) /\ Dom(w, c, b)}
               above == {c \in DOMAIN IDom[g] : Above(IDom[g], c, a) /\ Above(IDom[g], c, b)}
               nearest == IF Entry \in {a, b} THEN Entry
                          ELSE CHOOSE c \in above : \A d \in above : Above(IDom[g], d, c)
           IN  nearest \in up /\ \A c \in up : Dom(w, c, nearest)
<1> DEFINE w == Forward(g)
           up == {c \in Body(g) : Dom(w, c, a) /\ Dom(w, c, b)}
           above == {c \in DOMAIN IDom[g] : Above(IDom[g], c, a) /\ Above(IDom[g], c, b)}
           low == CHOOSE c \in above : \A d \in above : Above(IDom[g], d, c)
<1>1. /\ IsWay(w) /\ Body(g) = Reachable(w) /\ DOMAIN IDom[g] = Body(g)
      /\ IDom[g] = Tree(w)
  BY WaysThrough, TreesAre
<1>2. \A c, d : d \in Body(g) => (Above(IDom[g], c, d) <=> Dom(w, c, d))
  BY <1>1, AboveIsDominance, StrictDomsAre
<1>3. above = up
  BY <1>1, <1>2
<1>4. Entry \in up
  BY EntryFirst
<1>5. ASSUME NEW c \in up, NEW d \in up
      PROVE  c = d \/ c \in StrictDoms(w, d) \/ d \in StrictDoms(w, c)
  <2>1. (c = a \/ c \in StrictDoms(w, a)) /\ (d = a \/ d \in StrictDoms(w, a))
    BY <1>1, StrictDomsAre
  <2>2. c \in Reachable(w) /\ d \in Reachable(w) /\ a \in Reachable(w)
    BY <1>1
  <2> QED
    BY <2>1, <2>2, <1>1, DominatorsInLine
<1>6. \E c \in up : \A d \in up : d = c \/ d \in StrictDoms(w, c)
  <2>1. up \subseteq Reachable(w) /\ up # {}
    BY <1>1, <1>4
  <2> HIDE DEF up
  <2> QED
    BY <2>1, <1>1, <1>5, Deepest
<1>7. \E c \in up : \A d \in up : Dom(w, d, c)
  BY <1>1, <1>6, StrictDomsAre
<1>8. \E c \in above : \A d \in above : Above(IDom[g], d, c)
  BY <1>1, <1>2, <1>3, <1>7
<1>9. low \in above /\ \A d \in above : Above(IDom[g], d, low)
  BY <1>8
<1>10. low \in up /\ \A d \in up : Dom(w, d, low)
  BY <1>1, <1>2, <1>3, <1>9
<1>11. ASSUME Entry \in {a, b} PROVE \A c \in up : Dom(w, c, Entry)
  BY <1>11
<1> QED
  BY <1>4, <1>10, <1>11

-----------------------------------------------------------------------------
(* Analyses: lines and walks                                                *)

\* SetToSeq of a finite set is a sequence of its elements.
LEMMA SetInASequence ==
    ASSUME NEW S, IsFiniteSet(S)
    PROVE  SetToSeq(S) \in Seq(S) /\ ToSet(SetToSeq(S)) = S
<1> DEFINE n == Cardinality(S)
<1>1. n \in Nat /\ ExistsBijection(1..n, S)
  BY FS_CardinalityType
<1>2. PICK f \in [1..n -> S] : IsInjective(f)
  BY <1>1 DEF ExistsBijection, Bijection, Injection, IsInjective
<1>3. SetToSeq(S) \in [1..n -> S] /\ IsInjective(SetToSeq(S))
  BY <1>2 DEF SetToSeq
<1> DEFINE h == SetToSeq(S)
<1>4. h \in Injection(1..n, S)
  BY <1>3 DEF IsInjective, Injection
<1>5. Cardinality(1..n) = n /\ IsFiniteSet(1..n)
  BY <1>1, FS_Interval
<1>6. h \in Surjection(1..n, S)
  <2> HIDE DEF h
  <2> QED
    BY <1>4, <1>5, FS_Injection
<1>7. \A x \in S : \E k \in 1..n : h[k] = x
  <2> HIDE DEF h
  <2> QED
    BY <1>6 DEF Surjection
<1>8. h \in Seq(S) /\ DOMAIN h = 1..n
  BY <1>1, <1>3
<1> HIDE DEF h
<1>9. ToSet(h) = S
  BY <1>3, <1>7, <1>8 DEF ToSet, h
<1> QED
  BY <1>8, <1>9 DEF h

\* ToSet by positions.
LEMMA MembersOf ==
    ASSUME NEW S, NEW u \in Seq(S)
    PROVE  /\ Len(u) \in Nat /\ DOMAIN u = 1..Len(u)
           /\ \A x : x \in ToSet(u) <=> \E i \in 1..Len(u) : u[i] = x
           /\ ToSet(u) \subseteq S
  BY DEF ToSet

\* What is in a concatenation is in one of the two.
LEMMA ConcatMembers ==
    ASSUME NEW S, NEW u \in Seq(S), NEW v \in Seq(S)
    PROVE  u \o v \in Seq(S) /\ ToSet(u \o v) = ToSet(u) \cup ToSet(v)
<1> DEFINE z == u \o v
<1>1. /\ z \in Seq(S) /\ Len(z) = Len(u) + Len(v) /\ Len(u) \in Nat /\ Len(v) \in Nat
      /\ \A i \in 1..Len(z) : z[i] = IF i <= Len(u) THEN u[i] ELSE v[i - Len(u)]
  OBVIOUS
<1> HIDE DEF z
<1>2. ASSUME NEW i \in 1..Len(z) PROVE z[i] \in ToSet(u) \cup ToSet(v)
  <2>1. CASE i <= Len(u)
    <3>1. i \in 1..Len(u) /\ z[i] = u[i]
      BY <2>1, <1>1
    <3> QED
      BY <3>1, MembersOf
  <2>2. CASE ~(i <= Len(u))
    <3>1. i - Len(u) \in 1..Len(v) /\ z[i] = v[i - Len(u)]
      BY <2>2, <1>1
    <3> QED
      BY <3>1, MembersOf
  <2> QED
    BY <2>1, <2>2
<1>3. ASSUME NEW i \in 1..Len(u) PROVE u[i] \in ToSet(z)
  <2>1. i \in 1..Len(z) /\ z[i] = u[i]
    BY <1>1
  <2> QED
    BY <2>1, <1>1, MembersOf
<1>4. ASSUME NEW i \in 1..Len(v) PROVE v[i] \in ToSet(z)
  <2>1. Len(u) + i \in 1..Len(z) /\ ~(Len(u) + i <= Len(u)) /\ (Len(u) + i) - Len(u) = i
    BY <1>1
  <2>2. z[Len(u) + i] = v[i]
    BY <2>1, <1>1
  <2> QED
    BY <2>1, <2>2, <1>1, MembersOf
<1>5. ToSet(z) \subseteq ToSet(u) \cup ToSet(v)
  BY <1>1, <1>2, MembersOf
<1>6. ToSet(u) \subseteq ToSet(z) /\ ToSet(v) \subseteq ToSet(z)
  BY <1>3, <1>4, MembersOf
<1> QED
  BY <1>1, <1>5, <1>6 DEF z

IsFlattening(s, f, n) == f = [i \in 1..n |-> IF i = 1 THEN s[i] ELSE f[i - 1] \o s[i]]

\* The function that FlattenSeq chooses exists.
LEMMA FlatteningExists ==
    ASSUME NEW s, NEW n \in Nat
    PROVE  \E f : IsFlattening(s, f, n)
<1> DEFINE T == {k \in Nat : \E f : IsFlattening(s, f, k)}
<1>1. 0 \in T
  <2>1. IsFlattening(s, [i \in 1..0 |-> s[i]], 0)
    BY DEF IsFlattening
  <2> QED
    BY <2>1
<1>2. ASSUME NEW k \in T PROVE k + 1 \in T
  <2>1. PICK f : IsFlattening(s, f, k)
    BY <1>2
  <2> DEFINE h == [i \in 1..k + 1 |->
                      IF i = k + 1 THEN (IF i = 1 THEN s[i] ELSE f[k] \o s[i]) ELSE f[i]]
  <2>2. \A i \in 1..k : f[i] = IF i = 1 THEN s[i] ELSE f[i - 1] \o s[i]
    BY <2>1 DEF IsFlattening
  <2>3. \A i \in 1..k + 1 : h[i] = IF i = 1 THEN s[i] ELSE h[i - 1] \o s[i]
    <3> TAKE i \in 1..k + 1
    <3>1. CASE i = k + 1
      <4>1. h[i] = IF i = 1 THEN s[i] ELSE f[k] \o s[i]
        BY <3>1
      <4>2. i # 1 => h[i - 1] = f[k]
        BY <3>1, <1>2
      <4> QED
        BY <4>1, <4>2
    <3>2. CASE i # k + 1
      <4>1. i \in 1..k /\ h[i] = f[i] /\ (i # 1 => h[i - 1] = f[i - 1])
        BY <3>2, <1>2
      <4> QED
        BY <4>1, <2>2
    <3> QED
      BY <3>1, <3>2
  <2>4. IsFlattening(s, h, k + 1)
    <3> HIDE DEF h
    <3>1. h = [i \in 1..k + 1 |-> h[i]]
      BY DEF h
    <3> QED
      BY <2>3, <3>1 DEF IsFlattening
  <2> QED
    BY <2>4
<1> HIDE DEF T
<1>3. n \in T
  <2>1. T \in SUBSET Nat
    BY DEF T
  <2> QED
    BY <1>1, <1>2, <2>1, AllNumbers
<1> QED
  BY <1>3 DEF T

\* What FlattenSeq puts together.
LEMMA FlattenedSet ==
    ASSUME NEW S, NEW n \in Nat \ {0}, NEW s \in [1..n -> Seq(S)]
    PROVE  /\ FlattenSeq(s) \in Seq(S)
           /\ \A x : x \in ToSet(FlattenSeq(s)) <=> \E i \in 1..n : x \in ToSet(s[i])
<1> DEFINE f == CHOOSE h : IsFlattening(s, h, n)
<1>1. IsFlattening(s, f, n)
  BY FlatteningExists
<1>2. Len(s) = n /\ n # 0
  OBVIOUS
<1>3. FlattenSeq(s) = f[n]
  BY <1>2 DEF FlattenSeq, IsFlattening
<1> HIDE DEF f
<1>4. \A i \in 1..n : f[i] = IF i = 1 THEN s[i] ELSE f[i - 1] \o s[i]
  BY <1>1 DEF IsFlattening
<1> DEFINE Good(k) == /\ f[k] \in Seq(S)
                      /\ \A x : x \in ToSet(f[k]) <=> \E i \in 1..k : x \in ToSet(s[i])
           T == {k \in Nat : k + 1 <= n => Good(k + 1)}
<1>5. 0 \in T
  <2>1. f[1] = s[1] /\ s[1] \in Seq(S)
    BY <1>4
  <2> QED
    BY <2>1
<1>6. ASSUME NEW k \in T PROVE k + 1 \in T
  <2> SUFFICES ASSUME (k + 1) + 1 <= n PROVE Good((k + 1) + 1)
    OBVIOUS
  <2>1. k \in Nat /\ Good(k + 1)
    OBVIOUS
  <2>2. PICK j : j = (k + 1) + 1
    OBVIOUS
  <2>3. j \in 1..n /\ j # 1 /\ j - 1 = k + 1 /\ 1..j = (1..k + 1) \cup {j}
    BY <2>1, <2>2
  <2>4. f[j] = f[k + 1] \o s[j] /\ s[j] \in Seq(S)
    BY <2>3, <1>4
  <2>5. f[j] \in Seq(S) /\ ToSet(f[j]) = ToSet(f[k + 1]) \cup ToSet(s[j])
    BY <2>1, <2>4, ConcatMembers
  <2>6. \A x : x \in ToSet(f[j]) <=> \E i \in 1..j : x \in ToSet(s[i])
    BY <2>1, <2>3, <2>5
  <2>7. Good(j)
    BY <2>5, <2>6
  <2> QED
    BY <2>7, <2>2
<1>7. n - 1 \in T
  <2> HIDE DEF T
  <2>1. T \in SUBSET Nat
    BY DEF T
  <2>2. n - 1 \in Nat
    OBVIOUS
  <2>3. Nat \subseteq T
    BY <1>5, <1>6, <2>1, AllNumbers
  <2> QED
    BY <2>2, <2>3
<1>8. Good(n)
  <2>1. (n - 1) + 1 = n
    OBVIOUS
  <2> HIDE DEF Good
  <2> QED
    BY <2>1, <1>7
<1> QED
  BY <1>3, <1>8

\* The uses that are walked from pred_begin to pred_end are the edges into b.
LEMMA PredecessorsAre ==
    ASSUME NEW g \in Graphs, NEW b \in Blocks
    PROVE  Predecessors(g, b) \in Seq(Blocks) /\ ToSet(Predecessors(g, b)) = Pred(g, b)
<1> DEFINE n == Cardinality(Blocks)
           Edges(p) == {e \in DOMAIN g[p] : g[p][e] = b}
           times(p) == [k \in 1..Cardinality(Edges(p)) |-> p]
           s == [p \in Blocks |-> times(p)]
<1>1. g \in [Blocks -> Seq(Blocks)] /\ Blocks = 1..n /\ Entry \in Blocks /\ IsFiniteSet(Blocks)
  BY GraphsAssumption
<1>2. n \in Nat \ {0}
  BY <1>1, FS_CardinalityType
<1>3. ASSUME NEW p \in Blocks
      PROVE  /\ times(p) \in Seq(Blocks)
             /\ ToSet(times(p)) = IF b \in Succ(g, p) THEN {p} ELSE {}
  <2>1. Edges(p) \subseteq 1..Len(g[p]) /\ Len(g[p]) \in Nat
    BY <1>1
  <2>2. IsFiniteSet(Edges(p)) /\ Cardinality(Edges(p)) \in Nat
    <3>1. IsFiniteSet(1..Len(g[p]))
      BY <2>1, FS_Interval
    <3> HIDE DEF Edges
    <3> QED
      BY <2>1, <3>1, FS_Subset, FS_CardinalityType
  <2>3. Cardinality(Edges(p)) = 0 <=> Edges(p) = {}
    BY <2>2, FS_EmptySet
  <2>4. Edges(p) = {} <=> b \notin Succ(g, p)
    BY DEF Succ, ToSet
  <2> HIDE DEF Edges
  <2>5. CASE b \in Succ(g, p)
    <3>1. 1 \in 1..Cardinality(Edges(p))
      BY <2>5, <2>2, <2>3, <2>4
    <3> QED
      BY <3>1, <2>2, <2>5 DEF ToSet
  <2>6. CASE b \notin Succ(g, p)
    BY <2>2, <2>3, <2>4, <2>6 DEF ToSet
  <2> QED
    BY <2>5, <2>6
<1> HIDE DEF times
<1>4. s \in [1..n -> Seq(Blocks)]
  BY <1>1, <1>3
<1>5. /\ FlattenSeq(s) \in Seq(Blocks)
      /\ \A x : x \in ToSet(FlattenSeq(s)) <=> \E i \in 1..n : x \in ToSet(s[i])
  <2> HIDE DEF s, n
  <2> QED
    BY <1>2, <1>4, FlattenedSet
<1>6. Predecessors(g, b) = FlattenSeq(s)
  BY DEF Predecessors, times
<1>7. \A p \in Blocks : ToSet(s[p]) = IF b \in Succ(g, p) THEN {p} ELSE {}
  BY <1>3
<1> HIDE DEF s, n
<1>8. ToSet(FlattenSeq(s)) = Pred(g, b)
  <2>1. \A x : x \in Pred(g, b) <=> x \in Blocks /\ b \in Succ(g, x)
    BY DEF Pred
  <2>2. \A p \in 1..n : \A x : x \in ToSet(s[p]) <=> x = p /\ b \in Succ(g, p)
    BY <1>1, <1>7
  <2>3. \A x : x \in ToSet(FlattenSeq(s)) <=> x \in 1..n /\ b \in Succ(g, x)
    <3> TAKE x
    <3>1. x \in ToSet(FlattenSeq(s)) <=> \E i \in 1..n : x \in ToSet(s[i])
      BY <1>5
    <3>2. (\E i \in 1..n : x \in ToSet(s[i])) <=> x \in 1..n /\ b \in Succ(g, x)
      BY <2>2
    <3> QED
      BY <3>1, <3>2
  <2>4. \A x : x \in ToSet(FlattenSeq(s)) <=> x \in Pred(g, b)
    BY <1>1, <2>1, <2>3
  <2> QED
    BY <2>4
<1> QED
  BY <1>5, <1>6, <1>8

-----------------------------------------------------------------------------
(* The walk in progress: D has all that stands in the line up to the first x.*)
Passed(line, x, D) ==
    \A k \in 1..Len(line) : (\A j \in 1..k - 1 : line[j] # x) => line[k] \in D

\* One step of the walk: to the end, where D is all, or to the next of the line.
LEMMA BehindInLine ==
    ASSUME NEW line \in Seq(Blocks), NEW x \in ToSet(line), NEW D, D \subseteq ToSet(line),
           Passed(line, x, D)
    PROVE  LET y == Behind(line, x)
           IN  /\ y = NULL => D = ToSet(line)
               /\ y # NULL => y \in ToSet(line) /\ Passed(line, y, D \cup {y})
               /\ y # FAULT
<1> DEFINE y == Behind(line, x)
           places == {k \in 1..Len(line) - 1 : line[k] = x}
<1>1. Len(line) \in Nat /\ \A k \in 1..Len(line) : line[k] \in Blocks /\ line[k] \in ToSet(line)
  BY MembersOf
<1>2. NULL \notin Blocks /\ FAULT \notin Blocks
  BY GraphsAssumption
<1>3. CASE places = {}
  <2>1. y = NULL
    BY <1>3 DEF Behind
  <2>2. ASSUME NEW k \in 1..Len(line) PROVE line[k] \in D
    <3>1. \A j \in 1..k - 1 : j \in 1..Len(line) - 1
      BY <1>1
    <3>2. \A j \in 1..k - 1 : line[j] # x
      BY <3>1, <1>3
    <3> QED
      BY <3>2 DEF Passed
  <2>3. ToSet(line) \subseteq D
    BY <2>2, MembersOf
  <2>4. y # FAULT
    <3>1. NULL # FAULT
      BY GraphsAssumption
    <3> QED
      BY <3>1, <2>1
  <2> QED
    BY <2>1, <2>3, <2>4
<1>4. CASE places # {}
  <2>1. PICK m \in places : \A k \in places : m <= k
    <3>1. places \in SUBSET Nat
      BY <1>1
    <3> HIDE DEF places
    <3> QED
      BY <3>1, <1>4, LeastNumber
  <2>2. Min(places) = m
    <3>1. Min(places) \in places /\ \A k \in places : Min(places) <= k
      <4> HIDE DEF places
      <4> QED
        BY <2>1 DEF Min
    <3>2. Min(places) <= m /\ m <= Min(places)
      BY <3>1, <2>1
    <3> QED
      BY <3>1, <3>2, <1>1
  <2>3. y = line[m + 1] /\ m + 1 \in 1..Len(line) /\ m \in 1..Len(line) - 1
    BY <1>1, <1>4, <2>1, <2>2 DEF Behind
  <2>4. y \in Blocks /\ y \in ToSet(line)
    BY <2>3, <1>1
  <2>5. ASSUME NEW k \in 1..Len(line), \A j \in 1..k - 1 : line[j] # y
        PROVE  line[k] \in D \cup {y}
    <3>1. k <= m + 1
      <4> SUFFICES ASSUME m + 1 < k PROVE FALSE
        BY <2>3, <1>1
      <4>1. m + 1 \in 1..k - 1
        BY <2>3, <1>1
      <4> QED
        BY <4>1, <2>3, <2>5
    <3>2. CASE k = m + 1
      BY <3>2, <2>3
    <3>3. CASE k # m + 1
      <4>1. \A j \in 1..k - 1 : j \in 1..Len(line) - 1 /\ j < m
        BY <3>1, <3>3, <2>3, <1>1
      <4>2. \A j \in 1..k - 1 : line[j] # x
        BY <4>1, <2>1, <2>3
      <4> QED
        BY <4>2 DEF Passed
    <3> QED
      BY <3>2, <3>3
  <2> HIDE DEF y
  <2>6. Passed(line, y, D \cup {y})
    BY <2>5 DEF Passed
  <2> QED
    BY <2>4, <2>6, <1>2 DEF y
<1> QED
  BY <1>3, <1>4

Kinds == {"children", "successors", "predecessors", "loops"}

\* The trees are those of the current function as it is, unless it has been edited since;
\* so are the loops of a function analysed once.
CacheRight ==
    /\ cfg \in [Functions -> Graphs]
    /\ Current \in Functions \cup {NULL}
    /\ edited \subseteq Functions
    /\ analysed \in [Functions -> 0..2] /\ LI = [f \in Functions |-> LI[f]]
    /\ \A f \in Functions \ edited : analysed[f] = 1 => LI[f] = Depths[cfg[f]]
    /\ Current # NULL /\ Current \notin edited =>
          /\ DT = IDom[cfg[Current]]
          /\ PDT = IPDom[cfg[Current]]

\* What a walk goes through in graph g, when the tree is that of g.
LineOf(g, w) ==
    CASE w.kind = "children" -> Children(IDom[g], w.b)
      [] w.kind = "successors" -> g[w.b]
      [] w.kind = "predecessors" -> Predecessors(g, w.b)
      [] w.kind = "loops" -> w.loops

LineNow == LineOf(cfg[walk.f], walk)

\* A steady walk has seen what stands before its place in the line.
WalkRight ==
    walk # NULL =>
        /\ DOMAIN walk = {"kind", "f", "b", "at", "steady", "loops", "seen"}
        /\ walk.kind \in Kinds /\ walk.f \in Functions /\ walk.b \in Blocks
        /\ walk.loops \in Seq(Blocks)
        /\ walk.steady =>
              /\ walk.kind = "children" => walk.f \notin edited
              /\ walk.seen \in Seq(Blocks)
              /\ walk.kind = "loops" => ToSet(walk.loops) = TopLoops(cfg[walk.f])
              /\ IF Walking
                 THEN /\ walk.at \in ToSet(LineNow)
                      /\ ToSet(walk.seen) \subseteq ToSet(LineNow)
                      /\ Passed(LineNow, walk.at, ToSet(walk.seen))
                 ELSE walk.at = NULL /\ ToSet(walk.seen) = ToSet(LineNow)

QueryInv == CacheRight /\ WalkRight /\ AnswersRight

\* And the line is that of the neighbours that WalkComplete names.
LEMMA LineIs ==
    ASSUME NEW g \in Graphs, NEW w, w.kind \in Kinds, w.b \in Blocks,
           w.loops \in Seq(Blocks), w.kind = "loops" => ToSet(w.loops) = TopLoops(g)
    PROVE  /\ LineOf(g, w) \in Seq(Blocks)
           /\ ToSet(LineOf(g, w)) = Neighbours(g, w)
<1>1. g \in Graphs /\ g[w.b] \in Seq(Blocks) /\ IsFiniteSet(Blocks)
  BY GraphsAssumption
<1>2. CASE w.kind = "children"
  <2> DEFINE S == {c \in DOMAIN IDom[g] : IDom[g][c] = w.b}
  <2>1. S \subseteq Blocks
    BY <1>1, TreesAre
  <2>2. IsFiniteSet(S)
    BY <2>1, <1>1, FS_Subset
  <2>3. SetToSeq(S) \in Seq(S) /\ ToSet(SetToSeq(S)) = S
    <3> HIDE DEF S
    <3> QED
      BY <2>2, SetInASequence
  <2>4. LineOf(g, w) = SetToSeq(S) /\ Neighbours(g, w) = S
    BY <1>2 DEF LineOf, Children, Neighbours
  <2>5. SetToSeq(S) \in Seq(Blocks)
    <3> HIDE DEF S
    <3> QED
      BY <2>1, <2>3
  <2> QED
    BY <2>3, <2>4, <2>5
<1>3. CASE w.kind = "successors"
  BY <1>1, <1>3 DEF LineOf, Neighbours, Succ
<1>4. CASE w.kind = "predecessors"
  BY <1>1, <1>4, PredecessorsAre DEF LineOf, Neighbours
<1>5. CASE w.kind = "loops"
  BY <1>5 DEF LineOf, Neighbours
<1> QED
  BY <1>2, <1>3, <1>4, <1>5 DEF Kinds

\* After UpdateDominators the trees are those of f.
LEMMA Updated ==
    ASSUME CacheRight, NEW f \in Functions, UpdateDominators(f), UNCHANGED cfg
    PROVE  /\ CacheRight' /\ Current' = f
           /\ f \notin edited => f \notin edited'
           /\ \A h : h \notin edited => h \notin edited'
           /\ f \notin edited' => /\ DT' = IDom[cfg[f]]
                                  /\ PDT' = IPDom[cfg[f]]
<1>1. f # NULL
  BY GraphsAssumption
<1>2. CASE Current = f
  BY <1>1, <1>2 DEF UpdateDominators, CacheRight
<1>3. CASE Current # f
  BY <1>1, <1>3 DEF UpdateDominators, CacheRight
<1> QED
  BY <1>2, <1>3

LEMMA ForgetKeepsWalk ==
    ASSUME WalkRight, Forget, \A h : h \notin edited => h \notin edited'
    PROVE  WalkRight'
<1>1. CASE walk' = NULL
  BY <1>1 DEF WalkRight
<1>2. CASE walk' # NULL
  <2>1. walk' = walk /\ cfg' = cfg /\ walk # NULL
    BY <1>2 DEF Forget
  <2>2. LineNow' = LineNow /\ Walking' = Walking
    BY <2>1 DEF LineNow, LineOf, Walking
  <2> QED
    BY <2>1, <2>2 DEF WalkRight
<1> QED
  BY <1>1, <1>2

(* Each action keeps the invariant.                                         *)
LEMMA QuerySteps ==
    ASSUME QueryInv, NEW f \in Functions, NEW a \in Blocks, NEW b \in Blocks,
           \/ Dominates(f, a, b) \/ PostDominates(f, a, b) \/ NearestCommonDominator(f, a, b)
           \/ ImmDom(f, b) \/ ImmPostDom(f, b) \/ IsReachable(f, b)
           \/ GetLoopNestingDepth(f, b)
    PROVE  QueryInv'
<1> USE DEF QueryInv
<1> DEFINE g == cfg[f]
           w == Forward(g)
<1>1. g \in Graphs /\ IsWay(w) /\ IsWay(Backward(g))
  BY WaysThrough DEF CacheRight
<1>2. Forget /\ cfg' = cfg
  BY DEF Forget, Dominates, PostDominates, NearestCommonDominator, ImmDom, ImmPostDom, IsReachable,
         GetLoopNestingDepth
<1>3. ASSUME UpdateDominators(f)
      PROVE  /\ CacheRight' /\ WalkRight'
             /\ f \notin edited' => /\ DT' = Tree(w) /\ DOMAIN DT' = Body(g) /\ Body(g) = Reachable(w)
                                    /\ DT' = IDom[g]
                                    /\ PDT' = IPDom[g] /\ PDT' = Tree(Backward(g))
                                    /\ DOMAIN PDT' = Reachable(Backward(g))
  BY <1>1, <1>2, <1>3, Updated, TreesAre, ForgetKeepsWalk
<1>4. CASE Dominates(f, a, b)
  <2>1. UpdateDominators(f)
    BY <1>4 DEF Dominates
  <2>2. answer' = [op |-> "dominates", f |-> f, a |-> a, b |-> b,
                   value |-> a = b \/ b \notin DOMAIN DT' \/ (a \in DOMAIN DT' /\ Above(DT', a, b))]
    BY <1>4 DEF Dominates, Answer
  <2>3. f \notin edited' => answer'.value = Dom(w, a, b)
    <3>1. answer'.value = (a = b \/ b \notin DOMAIN DT' \/ (a \in DOMAIN DT' /\ Above(DT', a, b)))
      BY <2>2
    <3> QED
      BY <3>1, <2>1, <1>1, <1>3, DominatesFromTree DEF Dom
  <2>4. /\ answer'.op = "dominates" /\ answer'.f = f /\ answer'.a = a /\ answer'.b = b
    BY <2>2
  <2>5. AnswersRight'
    BY <2>3, <2>4, <1>2 DEF AnswersRight
  <2> QED
    BY <2>1, <2>5, <1>3
<1>5. CASE PostDominates(f, a, b)
  <2>1. UpdateDominators(f)
    BY <1>5 DEF PostDominates
  <2>2. answer' = [op |-> "postdominates", f |-> f, a |-> a, b |-> b,
                   value |-> a = b \/ b \notin DOMAIN PDT' \/ (a \in DOMAIN PDT' /\ Above(PDT', a, b))]
    BY <1>5 DEF PostDominates, Answer
  <2>3. f \notin edited' => answer'.value = Dom(Backward(g), a, b)
    <3>1. answer'.value = (a = b \/ b \notin DOMAIN PDT' \/ (a \in DOMAIN PDT' /\ Above(PDT', a, b)))
      BY <2>2
    <3> QED
      BY <3>1, <2>1, <1>1, <1>3, DominatesFromTree DEF Dom
  <2>4. /\ answer'.op = "postdominates" /\ answer'.f = f /\ answer'.a = a /\ answer'.b = b
    BY <2>2
  <2>5. AnswersRight'
    BY <2>3, <2>4, <1>2 DEF AnswersRight
  <2> QED
    BY <2>1, <2>5, <1>3
<1>6. CASE NearestCommonDominator(f, a, b)
  <2> DEFINE above == {c \in DOMAIN DT' : Above(DT', c, a) /\ Above(DT', c, b)}
             up == {c \in Body(g) : Dom(w, c, a) /\ Dom(w, c, b)}
  <2>1. UpdateDominators(f)
    BY <1>6 DEF NearestCommonDominator
  <2>2. answer' = [op |-> "nearest", f |-> f, a |-> a, b |-> b,
                   value |-> IF Entry \in {a, b} THEN Entry
                             ELSE IF ~({a, b} \subseteq DOMAIN DT') THEN NULL
                             ELSE CHOOSE c \in above : \A d \in above : Above(DT', d, c)]
    BY <1>6 DEF NearestCommonDominator, Answer
  <2>3. ASSUME f \notin edited', {a, b} \subseteq Body(g)
        PROVE  answer'.value \in up /\ \A c \in up : Dom(w, c, answer'.value)
    <3>1. DT' = IDom[g] /\ DOMAIN DT' = Body(g)
      BY <2>1, <2>3, <1>3
    <3>2. answer'.value = IF Entry \in {a, b} THEN Entry
                          ELSE CHOOSE c \in above : \A d \in above : Above(DT', d, c)
      BY <2>2, <2>3, <3>1
    <3> DEFINE high == {c \in DOMAIN IDom[g] : Above(IDom[g], c, a) /\ Above(IDom[g], c, b)}
    <3>3. above = high
      BY <3>1
    <3>4. answer'.value = IF Entry \in {a, b} THEN Entry
                          ELSE CHOOSE c \in high : \A d \in high : Above(IDom[g], d, c)
      BY <3>1, <3>2, <3>3
    <3>5. a \in Body(g) /\ b \in Body(g)
      BY <2>3
    <3>6. LET nearest == IF Entry \in {a, b} THEN Entry
                         ELSE CHOOSE c \in high : \A d \in high : Above(IDom[g], d, c)
          IN  nearest \in up /\ \A c \in up : Dom(w, c, nearest)
      <4> HIDE DEF g
      <4> QED
        BY <3>5, <1>1, NearestFromTree
    <3> HIDE DEF high, up
    <3> QED
      BY <3>4, <3>6
  <2>4. /\ answer'.op = "nearest" /\ answer'.f = f /\ answer'.a = a /\ answer'.b = b
    BY <2>2
  <2>5. AnswersRight'
    BY <2>3, <2>4, <1>2 DEF AnswersRight
  <2> QED
    BY <2>1, <2>5, <1>3
<1>7. CASE ImmDom(f, b)
  <2>1. UpdateDominators(f)
    BY <1>7 DEF ImmDom
  <2>2. /\ answer'.op = "idom" /\ answer'.f = f /\ answer'.b = b
        /\ answer'.value = IF b \in DOMAIN DT' THEN DT'[b] ELSE NULL
    BY <1>7 DEF ImmDom, Answer
  <2>3. AnswersRight'
    BY <2>1, <2>2, <1>2, <1>3 DEF AnswersRight
  <2> QED
    BY <2>1, <2>3, <1>3
<1>8. CASE ImmPostDom(f, b)
  <2>1. UpdateDominators(f)
    BY <1>8 DEF ImmPostDom
  <2>2. /\ answer'.op = "ipdom" /\ answer'.f = f /\ answer'.b = b
        /\ answer'.value = IF b \in DOMAIN PDT' THEN PDT'[b] ELSE FAULT
    BY <1>8 DEF ImmPostDom, Answer
  <2>3. AnswersRight'
    BY <2>1, <2>2, <1>2, <1>3 DEF AnswersRight
  <2> QED
    BY <2>1, <2>3, <1>3
<1>9. CASE IsReachable(f, b)
  <2>1. UpdateDominators(f)
    BY <1>9 DEF IsReachable
  <2>2. /\ answer'.op = "reachable" /\ answer'.f = f /\ answer'.b = b
        /\ answer'.value = (b \in DOMAIN DT')
    BY <1>9 DEF IsReachable, Answer
  <2>3. AnswersRight'
    BY <2>1, <2>2, <1>2, <1>3 DEF AnswersRight
  <2> QED
    BY <2>1, <2>3, <1>3
<1>10. CASE GetLoopNestingDepth(f, b)
  <2>1. PICK depth \in Nested(LI', analysed', f, b) : Answer("depth", f, b, b, depth)
    BY <1>10 DEF GetLoopNestingDepth
  <2>2. /\ answer'.op = "depth" /\ answer'.f = f /\ answer'.b = b
        /\ analysed'[f] = 1 => answer'.value = LI'[f][b]
    BY <2>1 DEF Answer, Nested
  <2>3. CacheRight' /\ WalkRight'
    <3>1. CASE UpdateDominators(f)
      BY <3>1, <1>3
    <3>2. CASE UNCHANGED <<trees, edited>>
      BY <3>2, <1>2, ForgetKeepsWalk DEF CacheRight, trees
    <3> QED
      BY <1>10, <3>1, <3>2 DEF GetLoopNestingDepth
  <2>4. f \notin edited' /\ analysed'[f] = 1 => LI'[f] = Depths[g]
    BY <2>3, <1>2 DEF CacheRight
  <2>5. AnswersRight'
    BY <2>2, <2>4, <1>2 DEF AnswersRight
  <2> QED
    BY <2>3, <2>5
<1> QED
  BY <1>4, <1>5, <1>6, <1>7, <1>8, <1>9, <1>10

LEMMA ConsultKeeps ==
    ASSUME CacheRight, NEW kind \in Kinds, NEW f \in Functions, Consult(kind, f), UNCHANGED cfg
    PROVE  /\ CacheRight'
           /\ f \notin edited => f \notin edited'
           /\ kind = "children" /\ f \notin edited' => DT' = IDom[cfg[f]]
<1>1. CASE kind = "children"
  BY <1>1, Updated DEF Consult
<1>2. CASE kind # "children"
  BY <1>2 DEF Consult, CacheRight, trees
<1> QED
  BY <1>1, <1>2

LEMMA FirstSteps ==
    ASSUME QueryInv, NEW kind \in Kinds, NEW f \in Functions, NEW b \in Blocks, First(kind, f, b)
    PROVE  QueryInv'
<1> USE DEF QueryInv
<1> DEFINE tops == SetToSeq(TopLoops(cfg[f]))
           line == Line(kind, f, b, tops)
           at == IF line = <<>> THEN NULL ELSE line[1]
<1>1. /\ Consult(kind, f) /\ cfg' = cfg /\ answer' = NULL
  BY DEF First
<1>6. walk' = [kind |-> kind, f |-> f, b |-> b, at |-> at,
               steady |-> kind # "children" \/ f \notin edited',
               loops |-> IF kind = "loops" THEN tops ELSE <<>>,
               seen |-> IF at = NULL THEN <<>> ELSE <<at>>]
  BY Zenon DEF First
<1>2. /\ CacheRight'
      /\ kind = "children" /\ f \notin edited' => DT' = IDom[cfg[f]]
  BY <1>1, ConsultKeeps
<1>3. tops \in Seq(Blocks) /\ ToSet(tops) = TopLoops(cfg[f])
  <2>1. cfg[f] \in Graphs /\ IsFiniteSet(Blocks)
    BY GraphsAssumption DEF CacheRight
  <2>2. TopLoops(cfg[f]) \subseteq Blocks
    BY <2>1, TreesAre DEF TopLoops
  <2>3. IsFiniteSet(TopLoops(cfg[f]))
    BY <2>1, <2>2, FS_Subset
  <2>4. tops \in Seq(TopLoops(cfg[f])) /\ ToSet(tops) = TopLoops(cfg[f])
    BY <2>3, SetInASequence
  <2> QED
    BY <2>2, <2>4
<1> HIDE DEF tops
<1>4. /\ walk'.kind = kind /\ walk'.f = f /\ walk'.b = b /\ walk'.at = at
      /\ walk'.steady = (kind # "children" \/ f \notin edited')
      /\ walk'.loops = (IF kind = "loops" THEN tops ELSE <<>>)
      /\ walk'.seen = (IF at = NULL THEN <<>> ELSE <<at>>)
  BY <1>6
<1>5. AnswersRight'
  BY <1>1 DEF AnswersRight
<1> HIDE DEF at
<1>7. ASSUME kind # "children" \/ f \notin edited'
      PROVE  line = LineNow'
  <2>1. CASE kind = "children"
    BY <1>1, <1>2, <1>4, <1>7, <2>1 DEF Line, LineNow, LineOf
  <2>2. CASE kind # "children"
    BY <1>1, <1>4, <2>2 DEF Line, LineNow, LineOf, Kinds
  <2> QED
    BY <2>1, <2>2
<1>8. LineNow' \in Seq(Blocks)
  <2>1. LineNow' = LineOf(cfg[f], walk')
    BY <1>1, <1>4 DEF LineNow
  <2>2. /\ walk'.kind \in Kinds /\ walk'.b \in Blocks /\ walk'.loops \in Seq(Blocks)
        /\ walk'.kind = "loops" => ToSet(walk'.loops) = TopLoops(cfg[f])
    BY <1>3, <1>4
  <2>3. cfg[f] \in Graphs
    BY DEF CacheRight
  <2> QED
    BY <2>1, <2>2, <2>3, LineIs
<1>9. ASSUME kind # "children" \/ f \notin edited', walk' # NULL
      PROVE  /\ walk'.seen \in Seq(Blocks)
             /\ IF Walking'
                THEN /\ walk'.at \in ToSet(LineNow')
                     /\ ToSet(walk'.seen) \subseteq ToSet(LineNow')
                     /\ Passed(LineNow', walk'.at, ToSet(walk'.seen))
                ELSE walk'.at = NULL /\ ToSet(walk'.seen) = ToSet(LineNow')
  <2> DEFINE now == LineNow'
  <2>1. line = now /\ now \in Seq(Blocks)
    BY <1>7, <1>8, <1>9
  <2>2. walk' # NULL /\ (Walking' <=> walk'.at \notin {NULL, FAULT})
    BY <1>9 DEF Walking
  <2> HIDE DEF line, now
  <2>3. CASE now = <<>>
    <3>1. at = NULL
      BY <2>1, <2>3 DEF at
    <3>2. walk'.at = NULL /\ walk'.seen = <<>>
      BY <3>1, <1>4
    <3>3. ToSet(<<>>) = {}
      BY DEF ToSet
    <3> QED
      BY <3>2, <3>3, <2>2, <2>3 DEF now
  <2>4. CASE now # <<>>
    <3>1. at = now[1] /\ 1 \in 1..Len(now) /\ now[1] \in Blocks
      BY <2>1, <2>4 DEF at
    <3>2. at \notin {NULL, FAULT} /\ at \in ToSet(now)
      BY <3>1, <2>1, GraphsAssumption, MembersOf
    <3>3. walk'.at = at /\ walk'.seen = <<at>> /\ <<at>> \in Seq(Blocks)
      BY <3>1, <3>2, <1>4
    <3>4. ToSet(<<at>>) = {at}
      BY DEF ToSet
    <3>5. Passed(now, at, {at})
      <4>1. ASSUME NEW k \in 1..Len(now), \A j \in 1..k - 1 : now[j] # at
            PROVE  now[k] \in {at}
        <5>1. k = 1
          <6> SUFFICES ASSUME k # 1 PROVE FALSE
            OBVIOUS
          <6>1. 1 \in 1..k - 1
            BY <2>1
          <6> QED
            BY <6>1, <4>1, <3>1
        <5> QED
          BY <5>1, <3>1
      <4> QED
        BY <4>1 DEF Passed
    <3> QED
      BY <3>2, <3>3, <3>4, <3>5, <2>2 DEF now
  <2> QED
    BY <2>3, <2>4
<1>10. WalkRight'
  <2> SUFFICES ASSUME walk' # NULL
               PROVE  /\ DOMAIN walk' = {"kind", "f", "b", "at", "steady", "loops", "seen"}
                      /\ walk'.loops \in Seq(Blocks)
                      /\ walk'.kind = "loops" => ToSet(walk'.loops) = TopLoops(cfg'[walk'.f])
    BY <1>4, <1>9 DEF WalkRight
  <2>1. DOMAIN walk' = {"kind", "f", "b", "at", "steady", "loops", "seen"}
    BY <1>6
  <2>2. walk'.loops \in Seq(Blocks)
    BY <1>3, <1>4
  <2>3. walk'.kind = "loops" => ToSet(walk'.loops) = TopLoops(cfg'[walk'.f])
    BY <1>1, <1>3, <1>4
  <2> QED
    BY <2>1, <2>2, <2>3
<1> QED
  BY <1>2, <1>5, <1>10

LEMMA WalkSteps ==
    ASSUME QueryInv, NextStep
    PROVE  QueryInv'
<1> USE DEF QueryInv
<1> DEFINE f == walk.f
           now == LineNow
           missing == walk.kind = "children" /\ walk.b \notin DOMAIN DT'
           at == IF missing THEN FAULT ELSE Behind(Line(walk.kind, f, walk.b, walk.loops), walk.at)
           seen == IF at \in {NULL, FAULT} \cup ToSet(walk.seen) THEN walk.seen ELSE Append(walk.seen, at)
<1>1. /\ Walking /\ walk # NULL /\ Consult(walk.kind, f) /\ cfg' = cfg /\ answer' = NULL
      /\ walk' = [walk EXCEPT !.at = at, !.seen = seen]
  BY DEF NextStep, Moved, Walking
<1>2. walk.kind \in Kinds /\ f \in Functions /\ walk.b \in Blocks /\ walk.loops \in Seq(Blocks)
  BY <1>1 DEF WalkRight
<1>3. /\ CacheRight'
      /\ f \notin edited => f \notin edited'
      /\ walk.kind = "children" /\ f \notin edited' => DT' = IDom[cfg[f]]
  BY <1>1, <1>2, ConsultKeeps
<1>4. AnswersRight'
  BY <1>1 DEF AnswersRight
<1>5. DOMAIN walk = {"kind", "f", "b", "at", "steady", "loops", "seen"}
  BY <1>1 DEF WalkRight
<1>6. /\ DOMAIN walk' = DOMAIN walk
      /\ walk'.kind = walk.kind /\ walk'.f = f /\ walk'.b = walk.b /\ walk'.steady = walk.steady
      /\ walk'.loops = walk.loops /\ walk'.at = at /\ walk'.seen = seen
  <2> HIDE DEF at, seen
  <2> QED
    BY <1>1, <1>5
<1>7. ASSUME walk.steady, walk' # NULL
      PROVE  /\ walk.kind = "children" => f \notin edited'
             /\ walk'.seen \in Seq(Blocks)
             /\ walk.kind = "loops" => ToSet(walk.loops) = TopLoops(cfg[f])
             /\ IF Walking'
                THEN /\ walk'.at \in ToSet(LineNow')
                     /\ ToSet(walk'.seen) \subseteq ToSet(LineNow')
                     /\ Passed(LineNow', walk'.at, ToSet(walk'.seen))
                ELSE walk'.at = NULL /\ ToSet(walk'.seen) = ToSet(LineNow')
  <2>1. /\ walk.kind = "children" => f \notin edited
        /\ walk.seen \in Seq(Blocks)
        /\ walk.kind = "loops" => ToSet(walk.loops) = TopLoops(cfg[f])
        /\ walk.at \in ToSet(now) /\ ToSet(walk.seen) \subseteq ToSet(now)
        /\ Passed(now, walk.at, ToSet(walk.seen))
    BY <1>1, <1>7 DEF WalkRight
  <2>2. walk.kind = "children" => f \notin edited' /\ DT' = IDom[cfg[f]]
    BY <2>1, <1>3
  <2>3. cfg[f] \in Graphs
    BY <1>2 DEF CacheRight
  <2>4. now \in Seq(Blocks) /\ ToSet(now) = Neighbours(cfg[f], walk)
    BY <2>1, <2>3, <1>2, LineIs DEF LineNow
  <2>5. LineNow' = now
    BY <1>1, <1>6 DEF LineNow, LineOf
  <2>6. Line(walk.kind, f, walk.b, walk.loops) = now
    BY <1>2, <2>2 DEF Line, LineNow, LineOf, Kinds
  <2>7. ~missing
    <3> SUFFICES ASSUME walk.kind = "children" PROVE walk.b \in DOMAIN DT'
      OBVIOUS
    <3>1. PICK c \in DOMAIN IDom[cfg[f]] : IDom[cfg[f]][c] = walk.b
      BY <2>1, <2>4 DEF Neighbours
    <3>2. walk.b # NULL
      BY <1>2, GraphsAssumption
    <3>3. walk.b \in Reachable(Forward(cfg[f]))
      BY <2>3, <3>1, <3>2, TreesAre, TreeIs, WaysThrough
    <3> QED
      BY <3>3, <2>2, <2>3, TreesAre
  <2>8. at = Behind(now, walk.at)
    BY <2>6, <2>7
  <2>9. /\ at = NULL => ToSet(walk.seen) = ToSet(now)
        /\ at # NULL => at \in ToSet(now) /\ Passed(now, at, ToSet(walk.seen) \cup {at})
        /\ at # FAULT
    <3> HIDE DEF at, now
    <3> QED
      BY <2>1, <2>4, <2>8, BehindInLine
  <2>10. Walking' <=> at \notin {NULL, FAULT}
    BY <1>6, <1>7 DEF Walking
  <2> HIDE DEF at, now
  <2>11. CASE at = NULL
    <3>1. seen = walk.seen
      BY <2>11
    <3> QED
      BY <3>1, <2>1, <2>2, <2>5, <2>9, <2>10, <2>11, <1>6
  <2>12. CASE at # NULL
    <3>1. at \in Blocks
      BY <2>4, <2>9, <2>12, MembersOf
    <3>2. seen \in Seq(Blocks) /\ ToSet(seen) = ToSet(walk.seen) \cup {at}
      <4>1. CASE at \in ToSet(walk.seen)
        BY <4>1, <2>1
      <4>2. CASE at \notin ToSet(walk.seen)
        <5>1. seen = walk.seen \o <<at>> /\ <<at>> \in Seq(Blocks)
          BY <4>2, <2>1, <2>9, <2>12, <3>1
        <5>2. ToSet(<<at>>) = {at}
          BY DEF ToSet
        <5> DEFINE u == walk.seen
                   v == <<at>>
        <5>3. u \in Seq(Blocks) /\ v \in Seq(Blocks) /\ seen = u \o v
          BY <5>1, <2>1
        <5> HIDE DEF seen, u, v
        <5>4. u \o v \in Seq(Blocks) /\ ToSet(u \o v) = ToSet(u) \cup ToSet(v)
          BY <5>3, ConcatMembers
        <5> QED
          BY <5>2, <5>3, <5>4 DEF u, v
      <4> QED
        BY <4>1, <4>2
    <3> HIDE DEF seen
    <3> QED
      BY <3>2, <2>1, <2>2, <2>5, <2>9, <2>10, <2>12, <1>6
  <2> QED
    BY <2>11, <2>12
<1> HIDE DEF at, seen, now
<1>8. WalkRight'
  BY <1>1, <1>2, <1>5, <1>6, <1>7 DEF WalkRight
<1> QED
  BY <1>3, <1>4, <1>8

LEMMA EditSteps ==
    ASSUME QueryInv, NEW f \in Functions, Edit(f)
    PROVE  QueryInv'
<1> USE DEF QueryInv
<1>1. PICK g \in Graphs : cfg' = [cfg EXCEPT ![f] = g]
  BY DEF Edit
<1>2. /\ edited' = edited \cup {f}
      /\ answer' = NULL /\ Current' = Current /\ DT' = DT /\ PDT' = PDT /\ LI' = LI
      /\ analysed' = analysed
      /\ walk' = IF walk # NULL /\ walk.f = f THEN [walk EXCEPT !.steady = FALSE] ELSE walk
  BY DEF Edit, trees
<1>3. cfg' \in [Functions -> Graphs] /\ \A h \in Functions \ {f} : cfg'[h] = cfg[h]
  BY <1>1 DEF CacheRight
<1>4. CacheRight'
  BY <1>2, <1>3 DEF CacheRight
<1>5. AnswersRight'
  BY <1>2 DEF AnswersRight
<1>6. WalkRight'
  <2>1. CASE walk = NULL
    BY <2>1, <1>2 DEF WalkRight
  <2>2. CASE walk # NULL /\ walk.f = f
    <3>1. /\ DOMAIN walk' = DOMAIN walk /\ walk'.steady = FALSE
          /\ walk'.kind = walk.kind /\ walk'.f = walk.f /\ walk'.b = walk.b /\ walk'.loops = walk.loops
      BY <2>2, <1>2 DEF WalkRight
    <3> QED
      BY <3>1, <2>2 DEF WalkRight
  <2>3. CASE walk # NULL /\ walk.f # f
    <3>1. walk' = walk /\ cfg'[walk.f] = cfg[walk.f] /\ (walk.f \notin edited => walk.f \notin edited')
      BY <2>3, <1>2, <1>3 DEF WalkRight
    <3>2. LineNow' = LineNow /\ Walking' = Walking
      BY <3>1 DEF LineNow, Walking
    <3> QED
      BY <3>1, <3>2 DEF WalkRight
  <2> QED
    BY <2>1, <2>2, <2>3
<1> QED
  BY <1>4, <1>5, <1>6

(* Whatever the functions, their CFGs and the order of questions, walks and *)
(* changes: what is kept is right for the function it is of, unless that has*)
(* been changed under it; the loop table, to which UpdateDominators         *)
(* (dominance.cpp) only adds, for every function analysed once; and a walk  *)
(* has been where the tracks say.                                           *)
THEOREM QueryInvariance == QuerySpec => []QueryInv
<1>1. QueryInit => QueryInv
  BY GraphsAssumption DEF QueryInit, QueryInv, CacheRight, WalkRight, AnswersRight
<1>2. QueryInv /\ [QueryNext]_queryvars => QueryInv'
  <2> SUFFICES ASSUME QueryInv, [QueryNext]_queryvars PROVE QueryInv'
    OBVIOUS
  <2>1. CASE Query
    BY <2>1, QuerySteps, GraphsAssumption DEF Query
  <2>2. CASE Start
    <3>1. PICK kind \in Kinds, f \in Functions, b \in Walked :
             First(kind, f, IF kind = "loops" THEN Entry ELSE b)
      BY <2>2 DEF Start, Kinds
    <3>2. (IF kind = "loops" THEN Entry ELSE b) \in Blocks
      BY GraphsAssumption
    <3> QED
      BY <3>1, <3>2, FirstSteps
  <2>3. CASE NextStep
    BY <2>3, WalkSteps
  <2>4. ASSUME NEW f \in Functions, Edit(f) PROVE QueryInv'
    BY <2>4, EditSteps
  <2>5. CASE UNCHANGED queryvars
    <3>1. LineNow' = LineNow /\ Walking' = Walking
      BY <2>5 DEF queryvars, trees, LineNow, Walking
    <3> QED
      BY <2>5, <3>1 DEF queryvars, trees, QueryInv, CacheRight, WalkRight, AnswersRight
  <2> QED
    BY <2>1, <2>2, <2>3, <2>4, <2>5 DEF QueryNext
<1> QED
  BY <1>1, <1>2, PTL DEF QuerySpec

(* The trees kept give the answers that the definition of dominance gives on*)
(* the CFG as it is: LLVMDominates, LLVMPostDominates, LLVMImmDom,          *)
(* LLVMImmPostDom, LLVMNearestCommonDominator and LLVMIsReachableFromEntry, *)
(* for all graphs; LLVMGetLoopNestingDepth answers right of a function      *)
(* analysed once, whatever others were analysed before and after it.        *)
THEOREM AnswersAreRight == QuerySpec => []AnswersRight
<1>1. QueryInv => AnswersRight
  BY DEF QueryInv
<1> QED
  BY <1>1, QueryInvariance, PTL

(* A walk that has ended has been to every child, successor, predecessor or *)
(* outermost loop, though each step looks its place up again, and other     *)
(* functions may have been asked about in between.                          *)
THEOREM WalksAreComplete == QuerySpec => []WalkComplete
<1>1. QueryInv => WalkComplete
  <2> SUFFICES ASSUME QueryInv, walk # NULL, ~Walking, walk.steady
               PROVE  walk.at = NULL /\ ToSet(walk.seen) = Neighbours(cfg[walk.f], walk)
    BY DEF WalkComplete
  <2>1. walk.at = NULL /\ ToSet(walk.seen) = ToSet(LineNow)
    BY DEF QueryInv, WalkRight
  <2>2. ToSet(LineNow) = Neighbours(cfg[walk.f], walk)
    BY LineIs DEF QueryInv, WalkRight, CacheRight, LineNow
  <2> QED
    BY <2>1, <2>2
<1> QED
  BY <1>1, QueryInvariance, PTL

=============================================================================
