---------------------------- MODULE CacheHistory ----------------------------
(***************************************************************************)
(* The replay cache with the history of its uses since the last Reset, and *)
(* the cache a reader of that history would expect.                        *)
(***************************************************************************)
EXTENDS IdempotencyCache, FiniteSetsExt

CONSTANT MaxUses        \* bound on the uses recorded between two Resets

\* a use: a hit, or a Put with the response it stored
VARIABLE uses
useVars == <<items, order, uses>>

HistoryInit == CacheInit /\ uses = <<>>

Used(k, op, r) ==
    /\ Len(uses) < MaxUses
    /\ uses' = Append(uses, [key |-> k, op |-> op, resp |-> r])

\* cache.Get on a key that is present
GetHit(k) ==
    /\ Hit(k)
    /\ \E i \in 1..Len(order) : order[i].key = k /\ Used(k, "get", order[i].resp)

\* cache.Get on a key that is absent
GetMiss(k) == k \notin items /\ UNCHANGED useVars

PutEntry(k, r) == Put(k, r) /\ Used(k, "put", r)

Reset == Clear /\ uses' = <<>>

HistoryNext == \/ \E k \in Keys : GetHit(k) \/ GetMiss(k)
               \/ \E k \in Keys, r \in Responses : PutEntry(k, r)
               \/ Reset

HistorySpec == HistoryInit /\ [][HistoryNext]_useVars

-----------------------------------------------------------------------------
(* Properties.                                                             *)

UsesOf(k) == {n \in 1..Len(uses) : uses[n].key = k}
LastUse(k) == Max(UsesOf(k))
UsedKeys == {k \in Keys : UsesOf(k) # {}}

\* the keys used at least as recently as k
AtLeastAsRecent(k) == {q \in UsedKeys : LastUse(q) >= LastUse(k)}

LastPut(k) == uses[Max({n \in UsesOf(k) : uses[n].op = "put"})].resp

\* A duplicate is answered from the cache exactly when fewer than Cap other
\* keys were used since its key was: Get's refresh and Put's eviction of the
\* list's back (server_options.go) make the cache least-recently-used.
KeepsMostRecent ==
    items = {k \in UsedKeys : Cardinality(AtLeastAsRecent(k)) <= Cap}

\* A replay is the response last stored for its key, whatever was evicted,
\* refreshed or stored again in between.
ReplaysLastPut == \A i \in 1..Len(order) : order[i].resp = LastPut(order[i].key)
=============================================================================
