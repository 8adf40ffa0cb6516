---------------------------- MODULE MCSymbolTable ---------------------------
(****************************************************************************)
(* Files of two functions, with two names, up to three parameters and local *)
(* declarations each and blocks nested three deep.                          *)
(*                                                                          *)
(* A scope is a hash: five items, two of them with one key and three keys   *)
(* in one bucket until the buckets have doubled twice; a chain of two is    *)
(* too long.  It is used as long as no file is read.                        *)
(****************************************************************************)
EXTENDS SymbolTable

CONSTANT NULL

Hashed == [k \in {"a", "b", "c", "d"} |->
    CASE k = "a" -> 0 [] k = "b" -> 2 [] k = "c" -> 4 [] k = "d" -> 1]

VARIABLES head, next, prev, hh_next, hh_prev, tbl, out

hvars == <<head, next, prev, hh_next, hh_prev, tbl, out>>

H == INSTANCE HashTable WITH
        Items <- 1..5, keyOf <- <<"a", "a", "b", "c", "d">>,
        HASH_FCN <- Hashed, HASH_INITIAL_NUM_BUCKETS <- 1,
        HASH_BKT_CAPACITY_THRESH <- 2, MaxBuckets <- 8

ASSUME H!HashAssumption

BothInit == Init /\ H!Init

BothNext ==
    \/ Next /\ H!Init /\ UNCHANGED hvars
    \/ H!Next /\ Init /\ UNCHANGED vars

BothSpec == BothInit /\ [][BothNext]_<<vars, hvars>>

(* What HASH_FSCK would report of a scope's hash never happens: links back  *)
(* and forward agree, the counts are the lengths, the tail is the last.     *)
HashFsck == H!Fsck

(* Whatever is added, deleted and rehashed in between: an item is found by  *)
(* its key exactly while it is in the hash, and the order of the items is   *)
(* the order they were added in.                                            *)
ImplementsDictionary == H!ImplementsDictionary

=============================================================================
