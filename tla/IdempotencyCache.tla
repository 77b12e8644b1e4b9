-------------------------- MODULE IdempotencyCache --------------------------
(***************************************************************************)
(* The replay cache of the mock server (idempotencyCache in                *)
(* mock/server_options.go): a map and a doubly linked list kept in step    *)
(* under one mutex, so that Get, Put and Reset are each one atomic step.   *)
(* `items` is the key set of the map, `order` the list from its front (the *)
(* entry used last) to its back (the next one to be evicted).              *)
(***************************************************************************)
EXTENDS Naturals, Sequences

CONSTANTS
    Keys,           \* the (method, path, requestId) composites
    Responses,      \* what an entry freezes: status, body and headers
    Cap             \* the capacity

\* newIdempotencyCache replaces a capacity that is not positive by 1024
ASSUME CapIsPositive == Cap \in Nat \ {0}

VARIABLES items, order
cacheVars == <<items, order>>

Entry == [key : Keys, resp : Responses]

Entered(k, r) == [key |-> k, resp |-> r]

CacheInit == items = {} /\ order = <<>>

\* list.MoveToFront of the i-th element, whose value becomes e
MoveToFront(i, e) ==
    order' = [j \in 1..Len(order) |-> IF j = 1 THEN e
                                      ELSE IF j <= i THEN order[j - 1] ELSE order[j]]

\* the elements that stay when one is about to be pushed
Kept == IF Len(order) >= Cap THEN Len(order) - 1 ELSE Len(order)

PushFront(e) ==
    order' = [j \in 1..(Kept + 1) |-> IF j = 1 THEN e ELSE order[j - 1]]

Hit_NoRefresh(k) ==
    /\ k \in items
    /\ UNCHANGED cacheVars

\* Get of a key that is present refreshes its place; Get of any other key is a no-op
Hit(k) ==
    /\ k \in items
    /\ \E i \in 1..Len(order) : order[i].key = k /\ MoveToFront(i, order[i])
    /\ UNCHANGED items

Overwrite_KeepsOld(k, r) ==
    /\ k \in items
    /\ \E i \in 1..Len(order) : order[i].key = k /\ MoveToFront(i, order[i])
    /\ UNCHANGED items

Overwrite(k, r) ==
    /\ k \in items
    /\ \E i \in 1..Len(order) : order[i].key = k /\ MoveToFront(i, Entered(k, r))
    /\ UNCHANGED items

Insert_KeepsIndex(k, r) ==
    /\ k \notin items
    /\ PushFront(Entered(k, r))
    /\ items' = items \cup {k}

Insert(k, r) ==
    /\ k \notin items
    /\ PushFront(Entered(k, r))
    /\ items' = (items \ {order[j].key : j \in (Kept + 1)..Len(order)}) \cup {k}

Put(k, r) == Overwrite(k, r) \/ Insert(k, r)

Clear == items' = {} /\ order' = <<>>

CacheNext == \/ \E k \in Keys : Hit(k)
             \/ \E k \in Keys, r \in Responses : Put(k, r)
             \/ Clear

CacheSpec == CacheInit /\ [][CacheNext]_cacheVars

-----------------------------------------------------------------------------
(* Properties.                                                             *)

CacheTypeOK ==
    /\ items \subseteq Keys
    /\ order \in Seq(Entry)

\* The map and the list describe the same entries, one element per key, and
\* never more than the capacity: what Put's eviction has to keep in step.
IndexAgrees ==
    /\ \A k \in items : \E i \in 1..Len(order) : order[i].key = k
    /\ \A i \in 1..Len(order) : order[i].key \in items
    /\ \A i, j \in 1..Len(order) : order[i].key = order[j].key => i = j
    /\ Len(order) <= Cap
=============================================================================
