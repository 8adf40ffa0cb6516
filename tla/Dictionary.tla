----------------------------- MODULE Dictionary -----------------------------
(****************************************************************************)
(* What a hash of uthash.h promises, without buckets, chains or links: its  *)
(* items in the order they were added, to be found by their keys.           *)
(****************************************************************************)
EXTENDS SequencesExt

CONSTANTS Items, NULL, keyOf

VARIABLES
    entries,     \* in app order
    out          \* what the last HASH_FIND found

Keys == {keyOf[i] : i \in Items}

Init == entries = <<>> /\ out = NULL

Add(i) == ~Contains(entries, i) /\ entries' = Append(entries, i) /\ UNCHANGED out

Delete(i) ==
    /\ Contains(entries, i)
    /\ entries' = Remove(entries, i) /\ out' = IF out = i THEN NULL ELSE out

Clear == entries' = <<>> /\ out' = NULL

\* Of several items with the key, any.
Find(k) ==
    LET hits == {i \in ToSet(entries) : keyOf[i] = k}
    IN  /\ IF hits = {} THEN out' = NULL ELSE out' \in hits
        /\ UNCHANGED entries

Next == Clear \/ (\E i \in Items : Add(i) \/ Delete(i)) \/ \E k \in Keys : Find(k)

Spec == Init /\ [][Next]_<<entries, out>>

=============================================================================
