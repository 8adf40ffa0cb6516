------------------------------ MODULE HashTable ------------------------------
(****************************************************************************)
(* A hash of simple/p2/C++/uthash.h, as symbol.cpp keeps one per scope: the *)
(* items are linked twice, in the order they came and in the chain of their *)
(* bucket; a chain that has grown too long doubles the buckets and links    *)
(* every chain anew.  Nothing keeps two items from having the same key:     *)
(* cmm.y does not ask whether a name is there when it adds it.              *)
(****************************************************************************)
EXTENDS Integers, SequencesExt

CONSTANTS
    Items, NULL,
    keyOf,                         \* the key of an item
    HASH_FCN,                      \* the hash value of a key
    HASH_INITIAL_NUM_BUCKETS,      \* 32 in the code
    HASH_BKT_CAPACITY_THRESH,      \* 10 in the code
    MaxBuckets                     \* bound of this instance

HashAssumption ==
    /\ NULL \notin Items /\ \A i \in Items : HASH_FCN[keyOf[i]] \in Nat
    /\ HASH_INITIAL_NUM_BUCKETS \in Nat \ {0} /\ HASH_BKT_CAPACITY_THRESH \in Nat \ {0}

VARIABLES
    head,              \* the first item, NULL for an empty hash
    next, prev,        \* the links in app order, of the items in the hash
    hh_next, hh_prev,  \* the links in bucket order
    tbl,               \* the table head's handle points to, NULL if head is
    out                \* what the last HASH_FIND found

links == <<next, prev, hh_next, hh_prev>>
vars == <<head, links, tbl, out>>

InTable == DOMAIN next

\* The links f with item i's set to j; the link of NULL nobody follows.
Set(f, i, j) == [k \in (DOMAIN f \cup {i}) \ {NULL} |-> IF k = i THEN j ELSE f[k]]
Without(f, i) == [k \in DOMAIN f \ {i} |-> f[k]]

\* The items from i on along the links f.
Along(f, i) ==
    LET From[k \in DOMAIN f \cup {NULL}] == IF k = NULL THEN <<>> ELSE <<k>> \o From[f[k]]
    IN  From[i]

NoLinks == [i \in {} |-> NULL]
EmptyBucket == [hh_head |-> NULL, count |-> 0, expand_mult |-> 0]
Buckets(n) == [b \in 0..n - 1 |-> EmptyBucket]

\* HASH_MAKE_TABLE
MakeTable(i) ==
    [num_buckets |-> HASH_INITIAL_NUM_BUCKETS, num_items |-> 0, tail |-> i,
     buckets |-> Buckets(HASH_INITIAL_NUM_BUCKETS), ineff_expands |-> 0, noexpand |-> FALSE]

\* HASH_FCN and HASH_TO_BKT; the number of buckets is a power of two.
Bkt(i, n) == HASH_FCN[keyOf[i]] % n

Init ==
    head = NULL /\ next = NoLinks /\ prev = NoLinks /\ hh_next = NoLinks /\ hh_prev = NoLinks
    /\ tbl = NULL /\ out = NULL

-----------------------------------------------------------------------------
(* Chains.  A pair of chain links and buckets: c.n, c.p, c.b                *)

Push_NoBackLink(c, b, i) ==   \* slip: the item that was first is not linked back
    LET first == c.b[b].hh_head
    IN  [n |-> Set(c.n, i, first), p |-> Set(c.p, i, NULL),
         b |-> [c.b EXCEPT ![b].hh_head = i, ![b].count = @ + 1]]

\* To the front of the chain in bucket b.
Push(c, b, i) ==
    LET first == c.b[b].hh_head
    IN  [n |-> Set(c.n, i, first), p |-> Set(Set(c.p, i, NULL), first, i),
         b |-> [c.b EXCEPT ![b].hh_head = i, ![b].count = @ + 1]]

\* Out of the chain in bucket b.
Unchain(c, b, i) ==
    LET n == c.n[i]
        p == c.p[i]
    IN  [n |-> Without(Set(c.n, p, n), i), p |-> Without(Set(c.p, n, p), i),
         b |-> [c.b EXCEPT ![b].hh_head = IF @ = i THEN n ELSE @, ![b].count = @ - 1]]

\* HASH_EXPAND_BUCKETS: each item, bucket by bucket along the links of its chain, which are
\* overwritten on the way, goes to the front of its new one.  An item beyond the ideal length
\* has its bucket tolerate more.
Expand(c, t) ==
    LET m == 2 * t.num_buckets
        ideal == (t.num_items + m - 1) \div m
        Relink(a, k) ==
            LET b == Bkt(a.at, m)
                d == Push(a.c, b, a.at)
                over == d.b[b].count > ideal
            IN  IF a.at = NULL THEN a
                ELSE [c |-> IF over THEN [d EXCEPT !.b[b].expand_mult = d.b[b].count \div ideal]
                            ELSE d,
                      at |-> a.c.n[a.at],
                      nonideal |-> IF over THEN a.nonideal + 1 ELSE a.nonideal]
        Rehash(a, b) ==
            FoldLeft(Relink, [a EXCEPT !.at = c.b[b].hh_head], [k \in 1..t.num_items |-> k])
        all == FoldLeft(Rehash, [c |-> [c EXCEPT !.b = Buckets(m)], at |-> NULL, nonideal |-> 0],
                        [b \in 1..t.num_buckets |-> b - 1])
        ineff == IF all.nonideal > t.num_items \div 2 THEN t.ineff_expands + 1 ELSE 0
    IN  [c |-> all.c,
         t |-> [t EXCEPT !.num_buckets = m, !.ineff_expands = ineff, !.noexpand = @ \/ ineff > 1]]

\* HASH_ADD_TO_BKT
AddToBkt(t, i) ==
    LET b == Bkt(i, t.num_buckets)
        c == Push([n |-> hh_next, p |-> hh_prev, b |-> t.buckets], b, i)
        full == c.b[b].count >= (c.b[b].expand_mult + 1) * HASH_BKT_CAPACITY_THRESH
    IN  IF full /\ ~t.noexpand THEN Expand(c, t) ELSE [c |-> c, t |-> t]

Become(c, t) ==
    /\ hh_next' = c.n /\ hh_prev' = c.p
    /\ tbl' = [t EXCEPT !.buckets = c.b]

-----------------------------------------------------------------------------
(* Operations                                                               *)

\* HASH_ADD_KEYPTR, of an item that is in no hash.
Add(i) ==
    /\ i \notin InTable
    /\ tbl # NULL => tbl.num_buckets < MaxBuckets
    /\ next' = Set(IF head = NULL THEN next ELSE Set(next, tbl.tail, i), i, NULL)
    /\ prev' = Set(prev, i, IF head = NULL THEN NULL ELSE tbl.tail)
    /\ head' = IF head = NULL THEN i ELSE head
    /\ LET t == IF head = NULL THEN MakeTable(i) ELSE [tbl EXCEPT !.tail = i]
           added == AddToBkt([t EXCEPT !.num_items = @ + 1], i)
       IN  Become(added.c, added.t)
    /\ UNCHANGED out

Free ==
    /\ head' = NULL /\ tbl' = NULL
    /\ next' = NoLinks /\ prev' = NoLinks /\ hh_next' = NoLinks /\ hh_prev' = NoLinks
    /\ out' = NULL

\* HASH_DELETE, after which the caller frees the item.
Delete(i) ==
    LET n == next[i]
        p == prev[i]
        c == Unchain([n |-> hh_next, p |-> hh_prev, b |-> tbl.buckets], Bkt(i, tbl.num_buckets), i)
    IN  /\ i \in InTable
        /\ IF p = NULL /\ n = NULL THEN Free
           ELSE /\ head' = IF p = NULL THEN n ELSE head
                /\ next' = Without(Set(next, p, n), i) /\ prev' = Without(Set(prev, n, p), i)
                /\ Become(c, [tbl EXCEPT !.tail = IF @ = i THEN p ELSE @, !.num_items = @ - 1])
                /\ out' = IF out = i THEN NULL ELSE out

\* HASH_CLEAR
Clear == head # NULL /\ Free

Find_ChainHead(k) ==   \* slip: the chain is not walked
    LET first == tbl.buckets[HASH_FCN[k] % tbl.num_buckets].hh_head
    IN  /\ out' = IF head = NULL \/ first = NULL THEN NULL
                  ELSE IF keyOf[first] = k THEN first ELSE NULL
        /\ UNCHANGED <<head, links, tbl>>

\* HASH_FIND: the first item of the chain with the key.
Find(k) ==
    LET chain == Along(hh_next, tbl.buckets[HASH_FCN[k] % tbl.num_buckets].hh_head)
        hits == SelectSeq(chain, LAMBDA i : keyOf[i] = k)
    IN  /\ out' = IF head = NULL \/ hits = <<>> THEN NULL ELSE hits[1]
        /\ UNCHANGED <<head, links, tbl>>

Next == Clear \/ (\E i \in Items : Add(i) \/ Delete(i)) \/ \E i \in Items : Find(keyOf[i])

Spec == Init /\ [][Next]_vars

-----------------------------------------------------------------------------
(* Properties                                                               *)

BackLinks(f, g, i) ==
    LET s == Along(f, i)
    IN  \A k \in DOMAIN s : g[s[k]] = IF k = 1 THEN NULL ELSE s[k - 1]

(* HASH_FSCK, which nothing compiles in: the links back are the links        *)
(* forward reversed, the counts are the lengths, and the tail is the last.   *)
Fsck ==
    head # NULL =>
        /\ BackLinks(next, prev, head)
        /\ Along(next, head) # <<>> /\ tbl.tail = Last(Along(next, head))
        /\ Len(Along(next, head)) = tbl.num_items
        /\ \A b \in 0..tbl.num_buckets - 1 :
              LET chain == Along(hh_next, tbl.buckets[b].hh_head)
              IN  /\ BackLinks(hh_next, hh_prev, tbl.buckets[b].hh_head)
                  /\ tbl.buckets[b].count = Len(chain)
                  /\ \A k \in DOMAIN chain : Bkt(chain[k], tbl.num_buckets) = b

Dict == INSTANCE Dictionary WITH entries <- IF head = NULL THEN <<>> ELSE Along(next, head)

(* Whatever is added, deleted and rehashed in between: an item is found by   *)
(* its key exactly while it is in the hash, and the order of the items is    *)
(* the order they were added in.                                             *)
ImplementsDictionary == Dict!Spec

=============================================================================
