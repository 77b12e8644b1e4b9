----------------------------- MODULE MockProofs -----------------------------
(***************************************************************************)
(* For every set of keys and responses and every positive capacity, the    *)
(* map and the list of the replay cache stay in step, and the cache is the *)
(* least-recently-used one its history of uses calls for.                  *)
(*                                                                         *)
(* For any number of requests, keys, scenarios and any capacity: whatever  *)
(* the goroutines of serveHTTP, SetScenario and Reset interleave, replays  *)
(* belong to their key, duplicates agree while the cache remembers, and    *)
(* Reset leaves nothing of the past behind.                                *)
(***************************************************************************)
EXTENDS MockServer, CacheHistory, FiniteSetTheorems, TLAPS

-----------------------------------------------------------------------------
(* The cache on its own.                                                   *)


CacheInv == CacheTypeOK /\ IndexAgrees

\* The list of an empty cache has no element.
LEMMA EmptyCache ==
    ASSUME items' = {}, order' = <<>>
    PROVE  CacheInv'
BY CapIsPositive DEF CacheInv, CacheTypeOK, IndexAgrees

\* A new or refreshed entry is an entry.
LEMMA EnteredIsEntry ==
    ASSUME NEW k \in Keys, NEW r \in Responses
    PROVE  Entered(k, r) \in Entry /\ Entered(k, r).key = k
BY DEF Entered, Entry

\* list.MoveToFront with an entry of the same key keeps map and list in step:
\* it permutes the list's keys.
LEMMA MoveToFrontKeeps ==
    ASSUME CacheInv, NEW i \in 1..Len(order), NEW e \in Entry,
           e.key = order[i].key, MoveToFront(i, e), items' = items
    PROVE  CacheInv'
<1> USE DEF CacheInv
<1> DEFINE n == Len(order)
<1>1. n \in Nat /\ order \in [1..n -> Entry]
  BY DEF CacheTypeOK
<1>2. order' \in [1..n -> Entry]
  BY <1>1 DEF MoveToFront
<1>3. order' \in Seq(Entry) /\ Len(order') = n
  BY <1>1, <1>2
<1>4. /\ order'[1] = e
      /\ \A j \in 2..n : j <= i => order'[j] = order[j - 1]
      /\ \A j \in 2..n : j > i => order'[j] = order[j]
  BY <1>1 DEF MoveToFront
<1>5. CacheTypeOK'
  BY <1>3 DEF CacheTypeOK
<1>6. \A j \in 1..n : order'[j].key \in items
  <2> SUFFICES ASSUME NEW j \in 1..n PROVE order'[j].key \in items
    OBVIOUS
  <2>1. CASE j = 1
    BY <2>1, <1>4 DEF IndexAgrees
  <2>2. CASE j > 1 /\ j <= i
    <3>1. order'[j] = order[j - 1] /\ j - 1 \in 1..n
      BY <2>2, <1>4, <1>1
    <3> QED BY <3>1 DEF IndexAgrees
  <2>3. CASE j > i
    <3>1. order'[j] = order[j]
      BY <2>3, <1>4, <1>1
    <3> QED BY <3>1 DEF IndexAgrees
  <2> QED BY <2>1, <2>2, <2>3, <1>1
<1>7. \A k \in items : \E j \in 1..n : order'[j].key = k
  <2> SUFFICES ASSUME NEW k \in items PROVE \E j \in 1..n : order'[j].key = k
    OBVIOUS
  <2>1. PICK m \in 1..n : order[m].key = k
    BY DEF IndexAgrees
  <2>2. CASE m = i
    BY <2>1, <2>2, <1>4, <1>1
  <2>3. CASE m < i
    <3>1. m + 1 \in 2..n /\ m + 1 <= i /\ (m + 1) - 1 = m
      BY <2>3, <1>1
    <3>2. order'[m + 1] = order[m]
      BY <3>1, <1>4
    <3> QED BY <3>1, <3>2, <2>1, <1>1
  <2>4. CASE m > i
    BY <2>1, <2>4, <1>4, <1>1
  <2> QED BY <2>2, <2>3, <2>4, <1>1
<1>8. \A j, m \in 1..n : order'[j].key = order'[m].key => j = m
  <2> DEFINE old(j) == IF j = 1 THEN i ELSE IF j <= i THEN j - 1 ELSE j
  <2>1. \A j \in 1..n : old(j) \in 1..n /\ order'[j].key = order[old(j)].key
    BY <1>4, <1>1
  <2>2. \A j, m \in 1..n : old(j) = old(m) => j = m
    BY <1>1
  <2>3. \A j, m \in 1..n : order[old(j)].key = order[old(m)].key => old(j) = old(m)
    BY <2>1 DEF IndexAgrees
  <2> HIDE DEF old
  <2> QED BY <2>1, <2>2, <2>3
<1>9. IndexAgrees'
  BY <1>3, <1>6, <1>7, <1>8 DEF IndexAgrees
<1> QED BY <1>5, <1>9

\* Get keeps map and list in step.
LEMMA HitKeeps ==
    ASSUME CacheInv, NEW k \in Keys, Hit(k)
    PROVE  CacheInv'
<1>1. PICK i \in 1..Len(order) : order[i].key = k /\ MoveToFront(i, order[i])
  BY DEF Hit
<1>2. order[i] \in Entry
  BY <1>1 DEF CacheInv, CacheTypeOK
<1> QED BY <1>1, <1>2, MoveToFrontKeeps DEF Hit

\* Put over a present key keeps map and list in step.
LEMMA OverwriteKeeps ==
    ASSUME CacheInv, NEW k \in Keys, NEW r \in Responses, Overwrite(k, r)
    PROVE  CacheInv'
<1>1. PICK i \in 1..Len(order) : order[i].key = k /\ MoveToFront(i, Entered(k, r))
  BY DEF Overwrite
<1> QED BY <1>1, EnteredIsEntry, MoveToFrontKeeps DEF Overwrite

\* Put of an absent key keeps map and list in step, evicting at capacity: the
\* keys that leave the map are those of the elements that leave the list.
LEMMA InsertKeeps ==
    ASSUME CacheInv, NEW k \in Keys, NEW r \in Responses, Insert(k, r)
    PROVE  CacheInv'
<1> USE DEF CacheInv
<1> DEFINE n == Len(order)
           e == Entered(k, r)
<1>1. n \in Nat /\ order \in [1..n -> Entry] /\ n <= Cap
  BY DEF CacheTypeOK, IndexAgrees
<1>2. Kept \in Nat /\ Kept <= n /\ Kept + 1 <= Cap
  BY <1>1, CapIsPositive DEF Kept
<1>e. e \in Entry /\ e.key = k
  BY EnteredIsEntry
<1> HIDE DEF e
<1>3. order' \in [1..(Kept + 1) -> Entry]
  BY <1>1, <1>2, <1>e DEF Insert, PushFront, e
<1>4. order' \in Seq(Entry) /\ Len(order') = Kept + 1
  BY <1>2, <1>3
<1>5. order'[1] = e /\ \A j \in 2..(Kept + 1) : order'[j] = order[j - 1]
  BY <1>2 DEF Insert, PushFront, e
<1>6. CacheTypeOK'
  <2>1. items' \subseteq Keys
    BY DEF Insert, CacheTypeOK
  <2> QED BY <1>4, <2>1 DEF CacheTypeOK
<1>7. \A q : q \in items' <=> q = k \/ (q \in items /\ \A j \in (Kept + 1)..n : order[j].key # q)
  BY DEF Insert
<1>8. \A j \in 1..(Kept + 1) : order'[j].key \in items'
  <2> SUFFICES ASSUME NEW j \in 1..(Kept + 1) PROVE order'[j].key \in items'
    OBVIOUS
  <2>1. CASE j = 1
    BY <2>1, <1>5, <1>e, <1>7
  <2>2. CASE j > 1
    <3>1. j \in 2..(Kept + 1) /\ j - 1 \in 1..n /\ j - 1 <= Kept
      BY <2>2, <1>1, <1>2
    <3>2. order'[j] = order[j - 1] /\ order[j - 1].key \in items
      BY <3>1, <1>5 DEF IndexAgrees
    <3>3. \A m \in (Kept + 1)..n : order[m].key # order[j - 1].key
      BY <3>1, <1>1, <1>2 DEF IndexAgrees
    <3> QED BY <3>2, <3>3, <1>7
  <2> QED BY <2>1, <2>2, <1>2
<1>9. \A q \in items' : \E j \in 1..(Kept + 1) : order'[j].key = q
  <2> SUFFICES ASSUME NEW q \in items' PROVE \E j \in 1..(Kept + 1) : order'[j].key = q
    OBVIOUS
  <2>1. CASE q = k
    BY <2>1, <1>5, <1>e, <1>2
  <2>2. CASE q # k
    <3>1. q \in items /\ \A j \in (Kept + 1)..n : order[j].key # q
      BY <2>2, <1>7
    <3>2. PICK m \in 1..n : order[m].key = q
      BY <3>1 DEF IndexAgrees
    <3>3. m <= Kept
      BY <3>1, <3>2, <1>1, <1>2
    <3>4. m + 1 \in 2..(Kept + 1) /\ (m + 1) - 1 = m
      BY <3>3, <1>1, <1>2
    <3>5. order'[m + 1] = order[m]
      BY <3>4, <1>5
    <3> QED BY <3>2, <3>4, <3>5, <1>2
  <2> QED BY <2>1, <2>2
<1>10. \A j, m \in 1..(Kept + 1) : order'[j].key = order'[m].key => j = m
  <2>1. k \notin items
    BY DEF Insert
  <2>2. \A j \in 2..(Kept + 1) : j - 1 \in 1..n /\ order'[j].key = order[j - 1].key
    BY <1>1, <1>2, <1>5
  <2>3. \A j \in 2..(Kept + 1) : order'[j].key # k
    BY <2>1, <2>2 DEF IndexAgrees
  <2>4. \A j, m \in 2..(Kept + 1) : order'[j].key = order'[m].key => j - 1 = m - 1
    BY <2>2 DEF IndexAgrees
  <2>5. order'[1].key = k
    BY <1>5, <1>e
  <2> QED BY <2>3, <2>4, <2>5, <1>2
<1>11. IndexAgrees'
  BY <1>2, <1>4, <1>8, <1>9, <1>10, CapIsPositive DEF IndexAgrees
<1> QED BY <1>6, <1>11

\* A hit brings no entry into the list.
LEMMA HitEntries ==
    ASSUME CacheInv, NEW k \in Keys, Hit(k)
    PROVE  \A j \in 1..Len(order') : \E i \in 1..Len(order) : order'[j] = order[i]
<1>1. PICK m \in 1..Len(order) : order[m].key = k /\ MoveToFront(m, order[m])
  BY DEF Hit
<1>2. Len(order) \in Nat /\ Len(order') = Len(order)
  BY <1>1 DEF MoveToFront, CacheInv, CacheTypeOK
<1> SUFFICES ASSUME NEW j \in 1..Len(order) PROVE \E i \in 1..Len(order) : order'[j] = order[i]
  BY <1>2
<1>3. order'[j] = IF j = 1 THEN order[m] ELSE IF j <= m THEN order[j - 1] ELSE order[j]
  BY <1>1 DEF MoveToFront
<1> QED BY <1>2, <1>3

\* Put brings in its own entry and no other, and its key is present afterwards.
LEMMA PutEntries ==
    ASSUME CacheInv, NEW k \in Keys, NEW r \in Responses, Put(k, r)
    PROVE  /\ k \in items'
           /\ \A j \in 1..Len(order') :
                 order'[j] = Entered(k, r) \/ \E i \in 1..Len(order) : order'[j] = order[i]
<1> DEFINE n == Len(order)
           e == Entered(k, r)
<1>1. n \in Nat /\ Kept \in Nat /\ Kept <= n
  BY CapIsPositive DEF CacheInv, CacheTypeOK, Kept
<1> HIDE DEF e
<1>2. CASE Overwrite(k, r)
  <2>1. PICK m \in 1..n : order[m].key = k /\ MoveToFront(m, e)
    BY <1>2 DEF Overwrite, e
  <2>2. Len(order') = n /\ k \in items'
    BY <1>1, <1>2, <2>1 DEF MoveToFront, Overwrite
  <2>3. \A j \in 1..n : order'[j] = IF j = 1 THEN e ELSE IF j <= m THEN order[j - 1] ELSE order[j]
    BY <2>1 DEF MoveToFront
  <2> QED BY <1>1, <2>2, <2>3 DEF e
<1>3. CASE Insert(k, r)
  <2>1. Len(order') = Kept + 1 /\ k \in items'
    BY <1>1, <1>3 DEF Insert, PushFront
  <2>2. \A j \in 1..(Kept + 1) : order'[j] = IF j = 1 THEN e ELSE order[j - 1]
    BY <1>3 DEF Insert, PushFront, e
  <2>3. \A j \in 1..(Kept + 1) : j # 1 => j - 1 \in 1..n
    BY <1>1
  <2> QED BY <2>1, <2>2, <2>3 DEF e
<1> QED BY <1>2, <1>3 DEF Put

\* The map and the list of the replay cache agree, without duplicates and
\* within the capacity, after any sequence of Get, Put and Reset.
THEOREM CacheStaysInStep == CacheSpec => []IndexAgrees
<1>1. CacheInit => CacheInv
  BY CapIsPositive DEF CacheInit, CacheInv, CacheTypeOK, IndexAgrees
<1>2. CacheInv /\ [CacheNext]_cacheVars => CacheInv'
  <2> SUFFICES ASSUME CacheInv, [CacheNext]_cacheVars PROVE CacheInv'
    OBVIOUS
  <2>1. ASSUME NEW k \in Keys, Hit(k) PROVE CacheInv'
    BY <2>1, HitKeeps
  <2>2. ASSUME NEW k \in Keys, NEW r \in Responses, Put(k, r) PROVE CacheInv'
    BY <2>2, OverwriteKeeps, InsertKeeps DEF Put
  <2>3. CASE Clear
    BY <2>3, EmptyCache DEF Clear
  <2>4. CASE UNCHANGED cacheVars
    BY <2>4 DEF cacheVars, CacheInv, CacheTypeOK, IndexAgrees
  <2> QED BY <2>1, <2>2, <2>3, <2>4 DEF CacheNext
<1>3. CacheInv => IndexAgrees
  BY DEF CacheInv
<1> QED BY <1>1, <1>2, <1>3, PTL DEF CacheSpec

-----------------------------------------------------------------------------
(* Recency.                                                                *)

\* Hit and Put bring their key to the front; behind it stand elements that were
\* in the list before, in the order they had.
Fronted(k) ==
    /\ Len(order') \in Nat \ {0} /\ order'[1].key = k
    /\ \E f \in [2..Len(order') -> 1..Len(order)] :
          /\ \A j \in 2..Len(order') : order'[j] = order[f[j]]
          /\ \A a, b \in 2..Len(order') : a < b => f[a] < f[b]

\* list.MoveToFront brings its element to the front.
LEMMA MoveToFrontFronts ==
    ASSUME CacheInv, NEW i \in 1..Len(order), NEW e, MoveToFront(i, e)
    PROVE  Fronted(e.key) /\ Len(order') = Len(order) /\ order'[1] = e
<1> DEFINE n == Len(order)
           f == [j \in 2..n |-> IF j <= i THEN j - 1 ELSE j]
<1>1. n \in Nat /\ n # 0
  BY DEF CacheInv, CacheTypeOK
<1>2. Len(order') = n
  BY <1>1 DEF MoveToFront
<1>3. order'[1] = e /\ \A j \in 2..n : order'[j] = IF j <= i THEN order[j - 1] ELSE order[j]
  BY <1>1 DEF MoveToFront
<1>4. f \in [2..n -> 1..n]
  BY <1>1
<1>5. \A j \in 2..n : order'[j] = order[f[j]]
  BY <1>1, <1>3
<1>6. \A a, b \in 2..n : a < b => f[a] < f[b]
  BY <1>1
<1> HIDE DEF f
<1> QED BY <1>1, <1>2, <1>3, <1>4, <1>5, <1>6 DEF Fronted

\* A hit brings the entry of its key to the front.
LEMMA HitFronts ==
    ASSUME CacheInv, NEW k \in Keys, Hit(k)
    PROVE  /\ Fronted(k) /\ Len(order') = Len(order)
           /\ \E i \in 1..Len(order) : order'[1] = order[i] /\ order[i].key = k
<1>1. PICK i \in 1..Len(order) : order[i].key = k /\ MoveToFront(i, order[i])
  BY DEF Hit
<1> QED BY <1>1, MoveToFrontFronts

\* Put brings its own entry to the front.
LEMMA PutFronts ==
    ASSUME CacheInv, NEW k \in Keys, NEW r \in Responses, Put(k, r)
    PROVE  /\ Fronted(k) /\ order'[1] = Entered(k, r)
           /\ Overwrite(k, r) => Len(order') = Len(order)
           /\ ~Overwrite(k, r) => Len(order') = Kept + 1
<1>e. Entered(k, r).key = k
  BY EnteredIsEntry
<1>1. CASE Overwrite(k, r)
  <2>1. PICK i \in 1..Len(order) : MoveToFront(i, Entered(k, r))
    BY <1>1 DEF Overwrite
  <2> QED BY <2>1, <1>1, <1>e, MoveToFrontFronts
<1>2. CASE ~Overwrite(k, r)
  <2> DEFINE n == Len(order)
             e == Entered(k, r)
             f == [j \in 2..(Kept + 1) |-> j - 1]
  <2> HIDE DEF e
  <2>1. n \in Nat /\ Kept \in Nat /\ Kept <= n
    BY CapIsPositive DEF CacheInv, CacheTypeOK, Kept
  <2>2. order' = [j \in 1..(Kept + 1) |-> IF j = 1 THEN e ELSE order[j - 1]]
    BY <1>2 DEF Put, Insert, PushFront, e
  <2>3. Len(order') = Kept + 1
    BY <2>1, <2>2
  <2>4. order'[1] = e /\ \A j \in 2..(Kept + 1) : order'[j] = order[f[j]]
    BY <2>1, <2>2
  <2>5. f \in [2..(Kept + 1) -> 1..n] /\ \A a, b \in 2..(Kept + 1) : a < b => f[a] < f[b]
    BY <2>1
  <2> HIDE DEF f
  <2> QED BY <1>2, <1>e, <2>1, <2>3, <2>4, <2>5, SMTT(30) DEF Fronted, e
<1> QED BY <1>1, <1>2

\* x is the greatest element of S
Greatest(x, S) == x \in S /\ \A y \in S : x >= y

\* The greatest number of a set is its Max.
LEMMA MaxIsGreatest ==
    ASSUME NEW S, S \subseteq Nat, NEW x, Greatest(x, S)
    PROVE  Max(S) = x
<1>1. Max(S) \in S /\ \A y \in S : Max(S) >= y
  BY DEF Max, Greatest
<1>2. Max(S) \in Nat /\ x \in Nat /\ Max(S) >= x /\ x >= Max(S)
  BY <1>1 DEF Greatest
<1> QED BY <1>2

PutsOf(k) == {n \in UsesOf(k) : uses[n].op = "put"}

UsesOK == uses \in Seq([key : Keys, op : {"get", "put"}, resp : Responses])

\* the keys that were used have a last use, the keys in the cache a last Put
LastInv ==
    /\ \A k \in UsedKeys : Greatest(LastUse(k), UsesOf(k))
    /\ \A k \in items : k \in UsedKeys /\ Greatest(Max(PutsOf(k)), PutsOf(k))

\* the list is sorted by recency, and what was evicted is older than what stayed
RecencyInv ==
    /\ \A i, j \in 1..Len(order) : i < j => LastUse(order[j].key) < LastUse(order[i].key)
    /\ \A q \in UsedKeys \ items : Len(order) = Cap /\ \A k \in items : LastUse(q) < LastUse(k)

HInv == CacheInv /\ UsesOK /\ LastInv /\ RecencyInv /\ ReplaysLastPut

\* What recording one more use changes: its key is the most recent one from then
\* on, and no other key's uses change.
LEMMA UseRecorded ==
    ASSUME HInv, NEW k \in Keys, NEW op \in {"get", "put"}, NEW r \in Responses, Used(k, op, r)
    PROVE  /\ UsesOK' /\ Len(uses) \in Nat
           /\ UsedKeys' = UsedKeys \cup {k}
           /\ LastUse(k)' = Len(uses) + 1 /\ Greatest(LastUse(k), UsesOf(k))'
           /\ \A q \in UsedKeys : q # k => /\ LastUse(q)' = LastUse(q)
                                           /\ Greatest(LastUse(q), UsesOf(q))'
           /\ \A q \in UsedKeys : LastUse(q) \in 1..Len(uses)
           /\ \A q \in items : op = "get" \/ q # k =>
                 LastPut(q)' = LastPut(q) /\ Greatest(Max(PutsOf(q)), PutsOf(q))'
           /\ op = "put" => LastPut(k)' = r /\ Greatest(Max(PutsOf(k)), PutsOf(k))'
<1> USE DEF HInv
<1> DEFINE m == Len(uses) + 1
           u == [key |-> k, op |-> op, resp |-> r]
<1>1. m \in Nat /\ Len(uses) \in Nat /\ uses \in Seq([key : Keys, op : {"get", "put"}, resp : Responses])
  BY DEF UsesOK
<1>2. /\ uses' = Append(uses, u) /\ Len(uses') = m /\ uses'[m] = u
      /\ \A n \in 1..Len(uses) : uses'[n] = uses[n]
  BY <1>1 DEF Used
<1>3. UsesOK'
  BY <1>1, <1>2 DEF UsesOK
<1>4. u.key = k /\ u.op = op /\ u.resp = r
  OBVIOUS
<1> HIDE DEF u
<1>5. /\ UsesOf(k)' = UsesOf(k) \cup {m}
      /\ \A q : q # k => UsesOf(q)' = UsesOf(q)
      /\ \A q : UsesOf(q) \subseteq 1..Len(uses)
      /\ \A q : UsesOf(q)' \subseteq 1..m
  BY <1>1, <1>2, <1>4 DEF UsesOf
<1>6. UsedKeys' = UsedKeys \cup {k}
  BY <1>5 DEF UsedKeys
<1>7. Greatest(m, UsesOf(k)')
  BY <1>1, <1>5 DEF Greatest
<1>8. Max(UsesOf(k)') = m
  <2>1. UsesOf(k)' \subseteq Nat
    BY <1>1, <1>5
  <2> QED BY <2>1, <1>7, MaxIsGreatest
<1>9. \A q \in UsedKeys : LastUse(q) \in 1..Len(uses)
  BY <1>5 DEF LastInv, Greatest
<1>10. /\ PutsOf(k)' = IF op = "put" THEN PutsOf(k) \cup {m} ELSE PutsOf(k)
       /\ \A q : q # k => PutsOf(q)' = PutsOf(q)
       /\ \A q : PutsOf(q) \subseteq 1..Len(uses) /\ PutsOf(q)' \subseteq 1..m
  BY <1>1, <1>2, <1>4, <1>5 DEF PutsOf
<1>11. ASSUME NEW q \in items, op = "get" \/ q # k
       PROVE  LastPut(q)' = LastPut(q) /\ Greatest(Max(PutsOf(q)), PutsOf(q))'
  <2>1. PutsOf(q)' = PutsOf(q) /\ Greatest(Max(PutsOf(q)), PutsOf(q))
    BY <1>10, <1>11 DEF LastInv
  <2>2. Max(PutsOf(q)) \in 1..Len(uses)
    BY <2>1, <1>10 DEF Greatest
  <2>3. uses'[Max(PutsOf(q))] = uses[Max(PutsOf(q))]
    BY <2>2, <1>2
  <2>4. LastPut(q)' = LastPut(q)
    BY <2>1, <2>3 DEF LastPut, PutsOf
  <2> QED BY <2>1, <2>4 DEF Greatest
<1>12. ASSUME op = "put" PROVE LastPut(k)' = r /\ Greatest(Max(PutsOf(k)), PutsOf(k))'
  <2>1. Greatest(m, PutsOf(k)') /\ PutsOf(k)' \subseteq Nat
    BY <1>1, <1>10, <1>12 DEF Greatest
  <2>2. Max(PutsOf(k)') = m
    BY <2>1, MaxIsGreatest
  <2> QED BY <2>1, <2>2, <1>2, <1>4 DEF LastPut, PutsOf
<1>13. ASSUME NEW q \in UsedKeys, q # k
       PROVE  LastUse(q)' = LastUse(q) /\ Greatest(LastUse(q), UsesOf(q))'
  BY <1>5, <1>13 DEF LastInv, LastUse
<1> QED BY <1>1, <1>3, <1>6, <1>7, <1>8, <1>9, <1>11, <1>12, <1>13, <1>5 DEF LastUse

\* A use keeps the list sorted by recency: its key comes first, and the others
\* keep their order.
LEMMA StaysSorted ==
    ASSUME HInv, CacheInv', NEW k \in Keys, NEW op \in {"get", "put"}, NEW r \in Responses,
           Used(k, op, r), Fronted(k)
    PROVE  \A i, j \in 1..Len(order') : i < j => LastUse(order[j].key)' < LastUse(order[i].key)'
<1> USE DEF HInv
<1>1. PICK f \in [2..Len(order') -> 1..Len(order)] :
          /\ \A j \in 2..Len(order') : order'[j] = order[f[j]]
          /\ \A a, b \in 2..Len(order') : a < b => f[a] < f[b]
  BY DEF Fronted
<1>2. Len(order') \in Nat /\ order'[1].key = k /\ Len(uses) \in Nat
  BY UseRecorded DEF Fronted
<1>3. ASSUME NEW j \in 2..Len(order')
      PROVE  /\ order'[j].key \in UsedKeys /\ order'[j].key # k
             /\ LastUse(order[j].key)' = LastUse(order[f[j]].key)
             /\ LastUse(order[j].key)' <= Len(uses) /\ LastUse(order[j].key)' \in Nat
  <2>q. PICK q : q = order'[j].key
    OBVIOUS
  <2>1. f[j] \in 1..Len(order) /\ q = order[f[j]].key
    BY <1>1, <2>q
  <2>2. q \in items /\ q \in UsedKeys
    BY <2>1 DEF CacheInv, IndexAgrees, LastInv
  <2>3. q # k
    BY <1>2, <2>q DEF CacheInv, IndexAgrees
  <2>4. LastUse(q)' = LastUse(q) /\ LastUse(q) \in 1..Len(uses)
    BY <2>2, <2>3, UseRecorded
  <2>5. LastUse(order[j].key)' = LastUse(q)'
    BY <2>q DEF LastUse, UsesOf
  <2> QED BY <2>q, <2>1, <2>2, <2>3, <2>4, <2>5, <1>2
<1>4. LastUse(order[1].key)' = Len(uses) + 1
  <2>1. Max(UsesOf(k)') = Len(uses) + 1
    BY UseRecorded DEF LastUse
  <2> QED BY <2>1, <1>2 DEF LastUse, UsesOf
<1> SUFFICES ASSUME NEW i \in 1..Len(order'), NEW j \in 1..Len(order'), i < j
             PROVE  LastUse(order[j].key)' < LastUse(order[i].key)'
  OBVIOUS
<1>5. j \in 2..Len(order')
  BY <1>2
<1>6. CASE i = 1
  BY <1>2, <1>3, <1>4, <1>5, <1>6
<1>7. CASE i # 1
  <2>1. i \in 2..Len(order') /\ f[i] < f[j] /\ f[i] \in 1..Len(order) /\ f[j] \in 1..Len(order)
    BY <1>1, <1>2, <1>5, <1>7
  <2>2. LastUse(order[f[j]].key) < LastUse(order[f[i]].key)
    BY <2>1 DEF RecencyInv
  <2> QED BY <2>1, <2>2, <1>3, <1>5
<1> QED BY <1>6, <1>7

\* What a use does to the keys outside the cache: none is more recent than a key
\* that stays, and there is one only when the cache is full.
LEMMA EvictsOldest ==
    ASSUME HInv, CacheInv', NEW k \in Keys, NEW op \in {"get", "put"}, NEW r \in Responses,
           Used(k, op, r), Hit(k) \/ Put(k, r)
    PROVE  \A q \in UsedKeys' \ items' :
               Len(order') = Cap /\ \A p \in items' : LastUse(q)' < LastUse(p)'
<1> USE DEF HInv
<1>0. k \in items'
  BY PutEntries DEF Hit
<1> SUFFICES ASSUME NEW q \in UsedKeys' \ items'
             PROVE  Len(order') = Cap /\ \A p \in items' : LastUse(q)' < LastUse(p)'
  OBVIOUS
<1>1. q \in UsedKeys /\ q # k /\ LastUse(q)' = LastUse(q) /\ LastUse(q) \in 1..Len(uses) /\ Len(uses) \in Nat
  BY <1>0, UseRecorded
<1>2. ASSUME NEW p \in items', p = k \/ (p \in items /\ LastUse(q) < LastUse(p))
      PROVE  LastUse(q)' < LastUse(p)'
  <2>1. CASE p = k
    BY <2>1, <1>1, UseRecorded
  <2>2. CASE p # k
    <3>1. p \in UsedKeys /\ LastUse(p)' = LastUse(p)
      BY <1>2, <2>2, UseRecorded DEF LastInv
    <3> QED BY <1>1, <1>2, <2>2, <3>1
  <2> QED BY <2>1, <2>2
<1>3. CASE Hit(k) \/ Overwrite(k, r)
  <2>1. items' = items /\ Len(order') = Len(order)
    BY <1>3, HitFronts, PutFronts DEF Hit, Overwrite, Put
  <2>2. Len(order) = Cap /\ \A p \in items : LastUse(q) < LastUse(p)
    BY <1>1, <2>1 DEF RecencyInv
  <2> QED BY <1>2, <2>1, <2>2
<1>4. CASE ~Hit(k) /\ ~Overwrite(k, r)
  <2> DEFINE n == Len(order)
  <2>1. Insert(k, r) /\ Len(order') = Kept + 1 /\ n \in Nat /\ n <= Cap
    BY <1>4, PutFronts DEF Put, CacheInv, CacheTypeOK, IndexAgrees
  <2>2. \A p : p \in items' <=> p = k \/ (p \in items /\ \A j \in (Kept + 1)..n : order[j].key # p)
    BY <2>1 DEF Insert
  <2>3. CASE q \notin items
    <3>1. n = Cap /\ \A p \in items : LastUse(q) < LastUse(p)
      BY <1>1, <2>3 DEF RecencyInv
    <3>2. Len(order') = Cap
      BY <2>1, <3>1, CapIsPositive DEF Kept
    <3> QED BY <1>2, <2>2, <3>1, <3>2
  <2>4. CASE q \in items
    <3>1. PICK j \in (Kept + 1)..n : order[j].key = q
      BY <1>1, <2>2, <2>4
    <3>2. n = Cap /\ Kept = n - 1 /\ j = n
      BY <2>1, <3>1, CapIsPositive DEF Kept
    <3>3. ASSUME NEW p \in items', p # k PROVE p \in items /\ LastUse(q) < LastUse(p)
      <4>1. p \in items /\ order[n].key # p
        BY <2>2, <3>1, <3>2, <3>3
      <4>2. PICK i \in 1..n : order[i].key = p
        BY <4>1 DEF CacheInv, IndexAgrees
      <4>3. i < n /\ n \in 1..n
        BY <2>1, <4>1, <4>2
      <4> QED BY <4>1, <4>2, <4>3, <3>1, <3>2 DEF RecencyInv
    <3> QED BY <1>2, <2>1, <3>2, <3>3
  <2> QED BY <2>3, <2>4
<1> QED BY <1>3, <1>4

\* Every entry holds what was last stored for its key.
LEMMA HoldsLastPut ==
    ASSUME HInv, CacheInv', NEW k \in Keys, NEW op \in {"get", "put"}, NEW r \in Responses,
           Used(k, op, r), (op = "get" /\ Hit(k)) \/ (op = "put" /\ Put(k, r))
    PROVE  /\ ReplaysLastPut'
           /\ \A q \in items' : Greatest(Max(PutsOf(q)), PutsOf(q))'
<1> USE DEF HInv
<1>1. Fronted(k) /\ Len(order') \in Nat
  BY HitFronts, PutFronts DEF Fronted
<1>2. PICK f \in [2..Len(order') -> 1..Len(order)] :
          \A j \in 2..Len(order') : order'[j] = order[f[j]]
  BY <1>1 DEF Fronted
<1>i. \A q \in items' : q \in items \/ (q = k /\ op = "put")
  BY DEF Hit, Put, Overwrite, Insert
<1>3. \A q \in items' : Greatest(Max(PutsOf(q)), PutsOf(q))'
  <2> SUFFICES ASSUME NEW q \in items' PROVE Greatest(Max(PutsOf(q)), PutsOf(q))'
    OBVIOUS
  <2>1. CASE op = "put" /\ q = k
    BY <2>1, UseRecorded
  <2>2. CASE ~(op = "put" /\ q = k)
    BY <1>i, <2>2, UseRecorded
  <2> QED BY <2>1, <2>2
<1>4. ASSUME NEW j \in 1..Len(order') PROVE order'[j].resp = LastPut(order[j].key)'
  <2>q. PICK q : q = order'[j].key
    OBVIOUS
  <2>1. LastPut(order[j].key)' = LastPut(q)'
    BY <2>q DEF LastPut, UsesOf
  <2>2. CASE op = "put" /\ j = 1
    <3>1. order'[1] = Entered(k, r) /\ order'[1].key = k
      BY <2>2, PutFronts, EnteredIsEntry
    <3>2. LastPut(q)' = r
      BY <2>q, <2>2, <3>1, UseRecorded
    <3> QED BY <2>1, <2>2, <3>1, <3>2 DEF Entered
  <2>3. CASE ~(op = "put" /\ j = 1)
    <3>1. PICK i \in 1..Len(order) : order'[j] = order[i]
      <4>1. CASE j = 1
        BY <4>1, <2>3, HitFronts
      <4>2. CASE j # 1
        BY <4>2, <1>1, <1>2
      <4> QED BY <4>1, <4>2
    <3>2. q \in items /\ order[i].resp = LastPut(q)
      BY <2>q, <3>1 DEF CacheInv, IndexAgrees, ReplaysLastPut
    <3>3. op = "get" \/ q # k
      <4>1. CASE op = "put"
        <5>1. j # 1 /\ order'[1].key = k /\ 1 \in 1..Len(order')
          BY <4>1, <2>3, <1>1 DEF Fronted
        <5> QED BY <5>1, <2>q DEF CacheInv, IndexAgrees
      <4> QED BY <4>1
    <3>4. LastPut(q)' = LastPut(q)
      BY <3>2, <3>3, UseRecorded
    <3> QED BY <2>1, <3>1, <3>2, <3>4
  <2> QED BY <2>2, <2>3
<1> QED BY <1>3, <1>4 DEF ReplaysLastPut

\* Any sequence of Get, Put and Reset keeps the list sorted by recency.
LEMMA HistoryInvariance == HistorySpec => []HInv
<1>1. HistoryInit => HInv
  BY CapIsPositive DEF HistoryInit, CacheInit, HInv, CacheInv, CacheTypeOK, IndexAgrees, UsesOK,
         LastInv, UsedKeys, UsesOf, RecencyInv, ReplaysLastPut
<1>2. HInv /\ [HistoryNext]_useVars => HInv'
  <2> SUFFICES ASSUME HInv, [HistoryNext]_useVars PROVE HInv'
    OBVIOUS
  <2> USE DEF HInv
  <2>1. ASSUME NEW k \in Keys, NEW op \in {"get", "put"}, NEW r \in Responses,
               Used(k, op, r), (op = "get" /\ Hit(k)) \/ (op = "put" /\ Put(k, r))
        PROVE  HInv'
    <3>1. CacheInv' /\ Fronted(k)
      BY <2>1, HitKeeps, OverwriteKeeps, InsertKeeps, HitFronts, PutFronts DEF Put
    <3>2. UsesOK' /\ \A q \in UsedKeys' : Greatest(LastUse(q), UsesOf(q))'
      BY <2>1, UseRecorded
    <3>3. items' \subseteq UsedKeys'
      <4>1. items' \subseteq items \cup {k}
        BY <2>1 DEF Hit, Put, Overwrite, Insert
      <4> QED BY <2>1, <4>1, UseRecorded DEF LastInv
    <3>4. ReplaysLastPut' /\ \A q \in items' : Greatest(Max(PutsOf(q)), PutsOf(q))'
      BY <2>1, <3>1, HoldsLastPut
    <3>5. LastInv'
      BY <3>2, <3>3, <3>4 DEF LastInv
    <3>6. RecencyInv'
      BY <2>1, <3>1, StaysSorted, EvictsOldest DEF RecencyInv
    <3> QED BY <3>1, <3>2, <3>4, <3>5, <3>6
  <2>2. ASSUME NEW k \in Keys, GetHit(k) PROVE HInv'
    <3>1. PICK i \in 1..Len(order) : Used(k, "get", order[i].resp)
      BY <2>2 DEF GetHit
    <3>2. order[i] \in Entry
      BY DEF CacheInv, CacheTypeOK
    <3>3. PICK r \in Responses : r = order[i].resp
      BY <3>2 DEF Entry
    <3>4. Used(k, "get", r) /\ Hit(k)
      BY <2>2, <3>1, <3>3 DEF GetHit
    <3> QED BY <2>1, <3>4
  <2>3. ASSUME NEW k \in Keys, NEW r \in Responses, PutEntry(k, r) PROVE HInv'
    BY <2>1, <2>3 DEF PutEntry
  <2>4. CASE Reset
    <3>1. items' = {} /\ order' = <<>> /\ uses' = <<>>
      BY <2>4 DEF Reset, Clear
    <3>2. CacheInv'
      BY <3>1, EmptyCache
    <3> QED BY <3>1, <3>2 DEF UsesOK, LastInv, UsedKeys, UsesOf, RecencyInv, ReplaysLastPut
  <2>5. CASE UNCHANGED useVars
    <3>1. items' = items /\ order' = order /\ uses' = uses
      BY <2>5 DEF useVars
    <3>2. CacheInv' /\ UsesOK'
      BY <3>1 DEF CacheInv, CacheTypeOK, IndexAgrees, UsesOK
    <3>3. UsedKeys' = UsedKeys /\ \A q : UsesOf(q)' = UsesOf(q) /\ PutsOf(q)' = PutsOf(q)
      BY <3>1 DEF UsedKeys, UsesOf, PutsOf
    <3>4. LastInv'
      BY <3>1, <3>3 DEF LastInv, Greatest, LastUse
    <3>5. RecencyInv'
      BY <3>1 DEF RecencyInv, UsedKeys, LastUse, UsesOf
    <3>6. ReplaysLastPut'
      BY <3>1 DEF ReplaysLastPut, LastPut, UsesOf
    <3> QED BY <3>2, <3>4, <3>5, <3>6
  <2> QED BY <2>2, <2>3, <2>4, <2>5 DEF HistoryNext, GetMiss
<1> QED BY <1>1, <1>2, PTL DEF HistorySpec

\* A replay is the response last stored for its key, whatever was evicted,
\* refreshed or stored again in between.
THEOREM CacheReplaysLastPut == HistorySpec => []ReplaysLastPut
<1>1. HInv => ReplaysLastPut
  BY DEF HInv
<1> QED BY HistoryInvariance, <1>1, PTL

\* The cache has as many keys as its list has elements.
LEMMA CacheSize ==
    ASSUME CacheInv
    PROVE  IsFiniteSet(items) /\ Cardinality(items) = Len(order)
<1> DEFINE n == Len(order)
           f == [i \in 1..n |-> order[i].key]
<1>1. n \in Nat
  BY DEF CacheInv, CacheTypeOK
<1>2. IsFiniteSet(1..n) /\ Cardinality(1..n) = n
  BY <1>1, FS_Interval, SMTT(30)
<1>3. f \in Bijection(1..n, items)
  BY DEF CacheInv, IndexAgrees, Bijection, Injection, Surjection, IsInjective
<1>4. ExistsBijection(1..n, items)
  BY <1>3 DEF ExistsBijection
<1> QED BY <1>2, <1>4, FS_Bijection

\* The keys used are finitely many.
LEMMA UsedKeysFinite ==
    ASSUME UsesOK
    PROVE  IsFiniteSet(UsedKeys)
<1> DEFINE n == Len(uses)
           f == [i \in 1..n |-> uses[i].key]
           U == [key : Keys, op : {"get", "put"}, resp : Responses]
<1>u. uses \in Seq(U)
  BY DEF UsesOK
<1> HIDE DEF U
<1>0. n \in Nat /\ \A i \in 1..n : uses[i] \in U
  BY <1>u
<1>1. n \in Nat /\ \A i \in 1..n : uses[i].key \in Keys
  BY <1>0 DEF U
<1>2. IsFiniteSet(1..n)
  BY <1>1, FS_Interval
<1>3. f \in Surjection(1..n, UsedKeys)
  BY <1>1 DEF Surjection, UsedKeys, UsesOf
<1> QED BY <1>2, <1>3, FS_Surjection

\* A duplicate is answered from the cache exactly when fewer than Cap other keys
\* were used since its key was, for every capacity and any sequence of uses.
THEOREM CacheKeepsMostRecent == HistorySpec => []KeepsMostRecent
<1>1. HInv => KeepsMostRecent
  <2> SUFFICES ASSUME HInv PROVE KeepsMostRecent
    OBVIOUS
  <2> USE DEF HInv
  <2>1. IsFiniteSet(items) /\ Cardinality(items) = Len(order) /\ Len(order) \in Nat /\ Len(order) <= Cap
    BY CacheSize DEF CacheInv, CacheTypeOK, IndexAgrees
  <2>2. \A q \in UsedKeys : LastUse(q) \in Nat
    BY DEF LastInv, Greatest, UsesOf
  <2>3. ASSUME NEW k \in items PROVE k \in UsedKeys /\ Cardinality(AtLeastAsRecent(k)) <= Cap
    <3>1. k \in UsedKeys
      BY <2>3 DEF LastInv
    <3>2. AtLeastAsRecent(k) \subseteq items
      BY <2>2, <2>3, <3>1 DEF AtLeastAsRecent, RecencyInv
    <3>3. Cardinality(AtLeastAsRecent(k)) <= Cardinality(items)
      BY <2>1, <3>2, FS_Subset
    <3>4. Cardinality(AtLeastAsRecent(k)) \in Nat
      BY <2>1, <3>2, FS_Subset, FS_CardinalityType
    <3> QED BY <2>1, <3>1, <3>3, <3>4, CapIsPositive
  <2>4. ASSUME NEW k \in UsedKeys, k \notin items PROVE ~(Cardinality(AtLeastAsRecent(k)) <= Cap)
    <3>1. Len(order) = Cap /\ \A p \in items : LastUse(k) < LastUse(p)
      BY <2>4 DEF RecencyInv
    <3>2. items \cup {k} \subseteq AtLeastAsRecent(k)
      BY <2>2, <3>1 DEF AtLeastAsRecent, LastInv
    <3>3. IsFiniteSet(AtLeastAsRecent(k))
      BY UsedKeysFinite, FS_Subset DEF AtLeastAsRecent
    <3>4. Cardinality(items \cup {k}) <= Cardinality(AtLeastAsRecent(k))
      BY <3>2, <3>3, FS_Subset
    <3>5. Cardinality(items \cup {k}) = Cap + 1
      BY <2>1, <2>4, <3>1, FS_AddElement
    <3>6. Cardinality(AtLeastAsRecent(k)) \in Nat
      BY <3>3, FS_CardinalityType
    <3> QED BY <3>4, <3>5, <3>6, CapIsPositive
  <2> QED BY <2>3, <2>4 DEF KeepsMostRecent
<1> QED BY HistoryInvariance, <1>1, PTL


-----------------------------------------------------------------------------
(* The inductive invariant of the server.                                  *)

\* where a goroutine stands tells what its client was sent
Stage(h) ==
    /\ pc[h] \in {"idle", "lookup", "dispatch", "respond", "store", "write"} => answer[h] = Unanswered
    /\ pc[h] \in {"callback", "fire"} => answer[h].kind = "fresh"
    /\ pc[h] = "done" => answer[h] # Unanswered
    /\ pc[h] \in {"respond", "store", "write", "fire"} => used[h] \in Scenarios
    /\ answer[h].kind = "fresh" => answer[h].resp \in Responses /\ answer[h].resp.by = h
    /\ answer[h].kind = "replay" => answer[h].resp \in Responses /\ key[h] \in Keys
    /\ callback[h] # None => answer[h].kind = "fresh"

StageInv == \A h \in Handlers : Stage(h)

\* r is what a request with key k was, or is about to be, sent
Belongs(r, k) ==
    /\ key[r.by] = k
    /\ \/ pc[r.by] = "write" /\ Response(r.by) = r
       \/ answer[r.by] = [kind |-> "fresh", resp |-> r]

\* every entry of the cache belongs to its key, and so does every replay
BelongInv ==
    /\ \A i \in 1..Len(order) : Belongs(order[i].resp, order[i].key)
    /\ \A h \in Handlers : answer[h].kind = "replay" => Belongs(answer[h].resp, key[h])

\* what was stored is in the cache, or its key was forgotten
Stamped(h) == pc[h] = "write" \/ answer[h].kind = "fresh"
StampInv ==
    \A h \in Handlers : Stamped(h) /\ key[h] # NoKey => key[h] \in items \cup forgotten

\* the requests with a key that were dispatched and did not fail are one, unless
\* the key was forgotten, or raced for
Owns(h) == pc[h] \in {"dispatch", "respond", "store", "write"} \/ answer[h].kind = "fresh"
OwnerInv ==
    \A g, h \in Handlers :
        /\ Owns(g) /\ Owns(h)
        /\ key[g] = key[h] /\ key[g] \notin {NoKey} \cup forgotten \cup raced
        => g = h

\* the requests a Reset found answered stay answered
SettledInv == settled \subseteq Answered

IInv ==
    /\ TypeOK /\ IndexAgrees /\ StageInv /\ BelongInv /\ StampInv /\ OwnerInv
    /\ SettledInv /\ ResetIsolates

-----------------------------------------------------------------------------
(* Steps.                                                                  *)

\* a step leaves the goroutine of h where it is
Still(h) ==
    /\ pc'[h] = pc[h] /\ key'[h] = key[h] /\ answer'[h] = answer[h]
    /\ used'[h] = used[h] /\ callback'[h] = callback[h]

\* A goroutine moves only by steps of its own.
LEMMA Locality ==
    ASSUME TypeOK, [Next]_vars, NEW g \in Handlers
    PROVE  Still(g) \/ Serve(g) \/ \E k \in IdemKeys : Receive(g, k)
<1>1. ASSUME NEW h \in Handlers, NEW k \in IdemKeys, Receive(h, k), h # g PROVE Still(g)
  BY <1>1 DEF Receive, SpecRefuses, Goto, Answer, Still, TypeOK
<1>2. ASSUME NEW h \in Handlers, Serve(h), h # g PROVE Still(g)
  BY <1>2 DEF Serve, Replay, Miss, Dispatch, Respond, Store, Write, Snapshot, Fire, Goto, Answer,
              Still, TypeOK
<1>3. CASE UNCHANGED vars \/ (\E s \in Scenarios : SetScenario(s)) \/ ResetLog \/ ResetCache
  BY <1>3 DEF vars, serverVars, SetScenario, ResetLog, ResetCache, Still
<1> QED BY <1>1, <1>2, <1>3 DEF Next

\* An answer that was sent, and the key of a request that came, do not change.
LEMMA AnswersStay ==
    ASSUME IInv, [Next]_vars, NEW g \in Handlers
    PROVE  /\ answer[g] # Unanswered => answer'[g] = answer[g]
           /\ pc[g] # "idle" => key'[g] = key[g]
<1> USE DEF IInv
<1>1. CASE Still(g)
  BY <1>1 DEF Still
<1>2. ASSUME NEW k \in IdemKeys, Receive(g, k) PROVE pc[g] = "idle" /\ answer[g] = Unanswered
  BY <1>2 DEF Receive, StageInv, Stage
<1>3. CASE Serve(g)
  <2>1. key' = key
    BY <1>3 DEF Serve, Replay, Miss, Dispatch, Respond, Store, Write, Snapshot, Fire
  <2>2. answer' = answer \/ pc[g] \in {"lookup", "respond", "write"}
    BY <1>3 DEF Serve, Replay, Miss, Dispatch, Respond, Store, Write, Snapshot, Fire
  <2> QED BY <2>1, <2>2 DEF StageInv, Stage
<1> QED BY <1>1, <1>2, <1>3, Locality

\* Only serveHTTP's stamp brings an entry into the cache.
LEMMA CacheSteps ==
    ASSUME IInv, [Next]_vars
    PROVE  /\ CacheInv'
           /\ \A j \in 1..Len(order') :
                 \/ \E i \in 1..Len(order) : order'[j] = order[i]
                 \/ \E h \in Handlers : /\ pc[h] = "store" /\ key[h] \in Keys /\ Store(h)
                                        /\ order'[j] = Entered(key[h], Response(h))
<1> USE DEF IInv
<1>0. CacheInv
  BY DEF TypeOK, CacheInv, CacheTypeOK
<1>1. CASE UNCHANGED <<items, order>>
  <2>1. CacheInv'
    BY <1>0, <1>1 DEF CacheInv, CacheTypeOK, IndexAgrees
  <2> QED BY <1>1, <2>1
<1>2. ASSUME NEW h \in Handlers, Replay(h)
      PROVE  CacheInv' /\ \A j \in 1..Len(order') : \E i \in 1..Len(order) : order'[j] = order[i]
  <2>1. key[h] \in Keys /\ Hit(key[h])
    BY <1>2 DEF Replay, TypeOK
  <2> QED BY <2>1, <1>0, HitKeeps, HitEntries
<1>3. ASSUME NEW h \in Handlers, Store(h), key[h] # NoKey
      PROVE  /\ CacheInv'
             /\ \A j \in 1..Len(order') :
                   \/ \E i \in 1..Len(order) : order'[j] = order[i]
                   \/ /\ pc[h] = "store" /\ key[h] \in Keys /\ Store(h)
                      /\ order'[j] = Entered(key[h], Response(h))
  <2>1. pc[h] = "store" /\ key[h] \in Keys /\ Put(key[h], Response(h))
    BY <1>3 DEF Store, Stamp, TypeOK, IdemKeys
  <2>2. Response(h) \in Responses
    BY <2>1, MockAssumption DEF StageInv, Stage, Response
  <2> QED BY <2>1, <2>2, <1>0, <1>3, OverwriteKeeps, InsertKeeps, PutEntries DEF Put
<1>4. CASE ResetCache
  <2>1. items' = {} /\ order' = <<>>
    BY <1>4 DEF ResetCache, Clear
  <2> QED BY <2>1, EmptyCache
<1>5. ASSUME NEW h \in Handlers, Store(h), key[h] = NoKey PROVE UNCHANGED <<items, order>>
  BY <1>5 DEF Store
<1>6. ASSUME NEW h \in Handlers, Serve(h), ~Replay(h), ~Store(h) PROVE UNCHANGED <<items, order>>
  BY <1>6 DEF Serve, Miss, Dispatch, Respond, Write, Snapshot, Fire
<1>7. ASSUME NEW h \in Handlers, NEW k \in IdemKeys, Receive(h, k) PROVE UNCHANGED <<items, order>>
  BY <1>7 DEF Receive
<1>8. ASSUME UNCHANGED vars \/ (\E s \in Scenarios : SetScenario(s)) \/ ResetLog
      PROVE  UNCHANGED <<items, order>>
  BY <1>8 DEF vars, SetScenario, ResetLog
<1>9. ASSUME NEW h \in Handlers, Serve(h)
      PROVE  /\ CacheInv'
             /\ \A j \in 1..Len(order') :
                   \/ \E i \in 1..Len(order) : order'[j] = order[i]
                   \/ \E g \in Handlers : /\ pc[g] = "store" /\ key[g] \in Keys /\ Store(g)
                                          /\ order'[j] = Entered(key[g], Response(g))
  BY <1>1, <1>2, <1>3, <1>5, <1>6, <1>9
<1> QED BY <1>1, <1>4, <1>7, <1>8, <1>9 DEF Next

\* The condition under which two requests have to agree is only ever lost.
LEMMA HistoryGrows ==
    ASSUME TypeOK, [Next]_vars
    PROVE  forgotten \subseteq forgotten' /\ raced \subseteq raced' /\ items \subseteq items' \cup forgotten'
<1>1. ASSUME NEW h \in Handlers, Serve(h)
      PROVE forgotten \subseteq forgotten' /\ raced \subseteq raced' /\ items \subseteq items' \cup forgotten'
  BY <1>1 DEF Serve, Replay, Hit, Miss, Dispatch, Respond, Store, Stamp, Write, Snapshot, Fire, historyVars
<1> QED BY <1>1 DEF Next, Receive, SetScenario, ResetLog, ResetCache, vars, historyVars

-----------------------------------------------------------------------------
(* Every step keeps the invariant.                                         *)

\* The server starts with an empty cache and no request on its way.
LEMMA InitIInv == Init => IInv
<1> SUFFICES ASSUME Init PROVE IInv
  OBVIOUS
<1> USE MockAssumption DEF Init, CacheInit, Unanswered
<1>1. TypeOK
  <2>1. resetting \in BOOLEAN
    OBVIOUS
  <2>2. [kind |-> "none", resp |-> None] \in
            [kind : {"none", "rejected", "error", "fresh", "replay"}, resp : Responses \cup {None}]
    OBVIOUS
  <2> QED BY <2>1, <2>2 DEF TypeOK, IdemKeys
<1>2. IndexAgrees
  BY CapIsPositive DEF IndexAgrees
<1>3. StageInv /\ BelongInv /\ StampInv /\ OwnerInv
  BY DEF StageInv, Stage, BelongInv, StampInv, Stamped, OwnerInv, Owns
<1>4. SettledInv /\ ResetIsolates
  BY DEF SettledInv, ResetIsolates
<1> QED BY <1>1, <1>2, <1>3, <1>4 DEF IInv

\* Every action keeps its variables' types.
LEMMA NextTypeOK == IInv /\ [Next]_vars => TypeOK'
<1> SUFFICES ASSUME IInv, [Next]_vars PROVE TypeOK'
  OBVIOUS
<1> USE DEF IInv
<1>0. items' \subseteq Keys /\ order' \in Seq(Entry)
  BY CacheSteps DEF CacheInv, CacheTypeOK
<1>1. ASSUME NEW h \in Handlers, NEW k \in IdemKeys, Receive(h, k) PROVE TypeOK'
  BY <1>0, <1>1 DEF TypeOK, Receive, SpecRefuses, Goto, Answer, historyVars
<1>2. ASSUME NEW h \in Handlers, Replay(h) PROVE TypeOK'
  <2>1. PICK i \in 1..Len(order) : Answer(h, "replay", order[i].resp)
    BY <1>2 DEF Replay
  <2>2. order[i].resp \in Responses
    <3>1. order[i] \in Entry
      BY DEF TypeOK
    <3> QED BY <3>1 DEF Entry
  <2>3. answer' \in [Handlers -> [kind : {"none", "rejected", "error", "fresh", "replay"},
                                  resp : Responses \cup {None}]]
    BY <2>1, <2>2 DEF TypeOK, Answer
  <2> QED BY <1>0, <1>2, <2>3 DEF TypeOK, Replay, Goto, historyVars
<1>3. ASSUME NEW h \in Handlers, Miss(h) PROVE TypeOK'
  <2>1. raced' \subseteq IdemKeys
    BY <1>3 DEF TypeOK, Miss
  <2> QED BY <1>0, <1>3, <2>1 DEF TypeOK, Miss, Goto
<1>d. ASSUME NEW h \in Handlers, Dispatch(h) PROVE TypeOK'
  BY <1>0, <1>d DEF TypeOK, Dispatch, Goto, historyVars
<1>4. ASSUME NEW h \in Handlers, Respond(h) PROVE TypeOK'
  <2>1. answer' \in [Handlers -> [kind : {"none", "rejected", "error", "fresh", "replay"},
                                  resp : Responses \cup {None}]]
    BY <1>4 DEF TypeOK, Respond, Answer
  <2>2. \E l \in {"done", "store"} : pc' = [pc EXCEPT ![h] = l]
    BY <1>4 DEF Respond, Goto
  <2> QED BY <1>0, <1>4, <2>1, <2>2 DEF TypeOK, Respond, historyVars
<1>5. ASSUME NEW h \in Handlers, Store(h) PROVE TypeOK'
  BY <1>0, <1>5 DEF TypeOK, Store, Stamp, Goto
<1>6. ASSUME NEW h \in Handlers, Write(h) PROVE TypeOK'
  <2>1. Response(h) \in Responses
    BY <1>6, MockAssumption DEF Write, StageInv, Stage, Response
  <2> QED BY <1>0, <1>6, <2>1 DEF TypeOK, Write, Goto, Answer, historyVars
<1>7. ASSUME NEW h \in Handlers, Snapshot(h) \/ Fire(h) PROVE TypeOK'
  BY <1>0, <1>7, SMTT(30) DEF TypeOK, Snapshot, Fire, Goto, historyVars
<1>8. CASE UNCHANGED vars \/ (\E s \in Scenarios : SetScenario(s))
  BY <1>0, <1>8 DEF TypeOK, vars, serverVars, historyVars, SetScenario
<1>9. CASE ResetLog
  BY <1>0, <1>9 DEF TypeOK, ResetLog, historyVars
<1>10. CASE ResetCache
  BY <1>0, <1>10 DEF TypeOK, ResetCache, Answered
<1> QED BY <1>1, <1>2, <1>3, <1>d, <1>4, <1>5, <1>6, <1>7, <1>8, <1>9, <1>10 DEF Next, Serve

\* serveHTTP answers once, and only after it has dispatched, or on a hit.
LEMMA NextStage == IInv /\ [Next]_vars => StageInv'
<1> SUFFICES ASSUME IInv, [Next]_vars, NEW h \in Handlers PROVE Stage(h)'
  BY DEF StageInv
<1> USE DEF IInv
<1>0. Stage(h)
  BY DEF StageInv
<1>1. CASE Still(h)
  BY <1>0, <1>1 DEF Still, Stage, Unanswered
<1>2. ASSUME NEW k \in IdemKeys, Receive(h, k) PROVE Stage(h)'
  <2>1. answer[h] = Unanswered /\ callback' = callback /\ callback[h] = None
    BY <1>0, <1>2 DEF Receive, Stage, Unanswered
  <2>2. \/ pc'[h] = "done" /\ answer'[h] = [kind |-> "rejected", resp |-> None]
        \/ pc'[h] = "lookup" /\ answer'[h] = Unanswered
    BY <1>2, <2>1 DEF Receive, SpecRefuses, Goto, Answer, TypeOK
  <2> QED BY <2>1, <2>2 DEF Stage, Unanswered
<1>3. CASE Replay(h)
  <2>1. PICK i \in 1..Len(order) : Answer(h, "replay", order[i].resp)
    BY <1>3 DEF Replay
  <2>2. order[i].resp \in Responses
    <3>1. order[i] \in Entry
      BY DEF TypeOK
    <3> QED BY <3>1 DEF Entry
  <2>3. /\ pc'[h] = "done" /\ answer'[h] = [kind |-> "replay", resp |-> order[i].resp]
        /\ key'[h] \in Keys /\ callback'[h] = None
    BY <1>0, <1>3, <2>1 DEF Replay, Goto, Answer, TypeOK, Stage, Unanswered
  <2> QED BY <2>2, <2>3 DEF Stage, Unanswered
<1>4. CASE Miss(h) \/ Dispatch(h) \/ Store(h)
  <2>1. /\ answer' = answer /\ callback' = callback /\ key' = key
        /\ pc[h] \in {"lookup", "dispatch", "store"}
        /\ \/ pc'[h] = "dispatch"
           \/ pc'[h] = "respond" /\ used'[h] \in Scenarios
           \/ pc'[h] = "write" /\ used' = used /\ pc[h] = "store"
    BY <1>4 DEF Miss, Dispatch, Store, Goto, TypeOK
  <2> QED BY <1>0, <2>1 DEF Stage, Unanswered
<1>5. CASE Respond(h)
  <2>1. /\ callback' = callback /\ key' = key /\ used' = used /\ pc[h] = "respond"
        /\ \/ pc'[h] = "done" /\ answer'[h] = [kind |-> "error", resp |-> None]
           \/ pc'[h] = "store" /\ answer' = answer
    BY <1>5 DEF Respond, Goto, Answer, TypeOK
  <2> QED BY <1>0, <2>1 DEF Stage, Unanswered
<1>6. CASE Write(h)
  <2>1. /\ callback' = callback /\ used[h] \in Scenarios
        /\ pc'[h] = "callback" /\ answer'[h] = [kind |-> "fresh", resp |-> Response(h)]
    BY <1>0, <1>6 DEF Write, Goto, Answer, TypeOK, Stage
  <2>2. Response(h) \in Responses /\ Response(h).by = h
    BY <2>1, MockAssumption DEF Response
  <2> QED BY <2>1, <2>2 DEF Stage, Unanswered
<1>7. CASE Snapshot(h) \/ Fire(h)
  <2>1. /\ answer' = answer /\ key' = key /\ pc[h] \in {"callback", "fire"}
        /\ pc'[h] = "done" \/ (pc'[h] = "fire" /\ used'[h] \in Scenarios)
    BY <1>7 DEF Snapshot, Fire, Goto, TypeOK
  <2> QED BY <1>0, <2>1 DEF Stage, Unanswered
<1> QED BY <1>1, <1>2, <1>3, <1>4, <1>5, <1>6, <1>7, Locality DEF Serve

\* A response stays the one its request was, or is about to be, sent.
LEMMA BelongsStays ==
    ASSUME IInv, [Next]_vars, NEW r \in Responses, NEW k, Belongs(r, k)
    PROVE  Belongs(r, k)'
<1> USE DEF IInv
<1> DEFINE g == r.by
<1>0. g \in Handlers /\ Stage(g) /\ key[g] = k /\ pc[g] # "idle"
  BY MockAssumption DEF Belongs, StageInv, Stage, Unanswered
<1>1. CASE answer[g] = [kind |-> "fresh", resp |-> r]
  <2>1. answer'[g] = answer[g] /\ key'[g] = k
    BY <1>0, <1>1, AnswersStay DEF Unanswered
  <2> QED BY <1>1, <2>1 DEF Belongs
<1>2. CASE pc[g] = "write" /\ Response(g) = r
  <2>1. CASE Still(g)
    BY <1>0, <1>2, <2>1 DEF Still, Belongs, Response
  <2>2. CASE Write(g)
    <3>1. answer'[g] = [kind |-> "fresh", resp |-> r] /\ key'[g] = k
      BY <1>0, <1>2, <2>2 DEF Write, Answer, TypeOK
    <3> QED BY <3>1 DEF Belongs
  <2>3. ASSUME ~Still(g) PROVE Write(g)
    BY <1>0, <1>2, <2>3, Locality
       DEF Serve, Receive, Replay, Miss, Dispatch, Respond, Store, Snapshot, Fire
  <2> QED BY <2>1, <2>2, <2>3
<1> QED BY <1>1, <1>2 DEF Belongs

\* The cache holds, and Replay sends, only what belongs to the key.
LEMMA NextBelong == IInv /\ [Next]_vars => BelongInv'
<1> SUFFICES ASSUME IInv, [Next]_vars PROVE BelongInv'
  OBVIOUS
<1> USE DEF IInv
<1>0. \A i \in 1..Len(order) : order[i] \in Entry /\ order[i].resp \in Responses
  <2>1. \A i \in 1..Len(order) : order[i] \in Entry
    BY DEF TypeOK
  <2> QED BY <2>1 DEF Entry
<1>s. \A r \in Responses, k \in Keys : Belongs(r, k) => Belongs(r, k)'
  BY BelongsStays
<1>k. \A r \in Responses, k \in Keys :
         Belongs(r, k) => /\ key'[r.by] = k
                          /\ \/ pc'[r.by] = "write" /\ [by |-> r.by, scenario |-> used'[r.by]] = r
                             \/ answer'[r.by] = [kind |-> "fresh", resp |-> r]
  BY <1>s DEF Belongs, Response
<1>1. ASSUME NEW j \in 1..Len(order')
      PROVE  LET r == order'[j].resp
             IN  /\ key'[r.by] = order'[j].key
                 /\ \/ pc'[r.by] = "write" /\ [by |-> r.by, scenario |-> used'[r.by]] = r
                    \/ answer'[r.by] = [kind |-> "fresh", resp |-> r]
  <2>1. ASSUME NEW i \in 1..Len(order), order'[j] = order[i]
        PROVE  LET r == order'[j].resp
               IN  /\ key'[r.by] = order'[j].key
                   /\ \/ pc'[r.by] = "write" /\ [by |-> r.by, scenario |-> used'[r.by]] = r
                      \/ answer'[r.by] = [kind |-> "fresh", resp |-> r]
    <3>1. order[i].resp \in Responses /\ order[i].key \in Keys /\ Belongs(order[i].resp, order[i].key)
      BY <1>0 DEF BelongInv, Entry
    <3> QED BY <2>1, <3>1, <1>k
  <2>2. ASSUME NEW h \in Handlers, pc[h] = "store", Store(h), order'[j] = Entered(key[h], Response(h))
        PROVE  LET r == order'[j].resp
               IN  /\ key'[r.by] = order'[j].key
                   /\ pc'[r.by] = "write" /\ [by |-> r.by, scenario |-> used'[r.by]] = r
    <3>1. pc'[h] = "write" /\ key' = key /\ used' = used
      BY <2>2 DEF Store, Goto, TypeOK
    <3>2. order'[j].key = key[h] /\ order'[j].resp = [by |-> h, scenario |-> used[h]]
      BY <2>2 DEF Entered, Response
    <3> QED BY <3>1, <3>2
  <2> QED BY <2>1, <2>2, CacheSteps
<1>2. ASSUME NEW h \in Handlers, answer'[h].kind = "replay"
      PROVE  LET r == answer'[h].resp
             IN  /\ key'[r.by] = key'[h]
                 /\ \/ pc'[r.by] = "write" /\ [by |-> r.by, scenario |-> used'[r.by]] = r
                    \/ answer'[r.by] = [kind |-> "fresh", resp |-> r]
  <2>1. CASE answer[h].kind = "replay"
    <3>1. answer'[h] = answer[h] /\ key'[h] = key[h]
      BY <2>1, AnswersStay DEF StageInv, Stage, Unanswered
    <3>2. answer[h].resp \in Responses /\ key[h] \in Keys /\ Belongs(answer[h].resp, key[h])
      BY <2>1 DEF StageInv, Stage, BelongInv
    <3> QED BY <3>1, <3>2, <1>k
  <2>2. CASE answer[h].kind # "replay"
    <3>1. Replay(h)
      <4>1. ~Still(h)
        BY <1>2, <2>2 DEF Still
      <4>2. ASSUME NEW k \in IdemKeys, Receive(h, k) PROVE FALSE
        BY <1>2, <2>2, <4>2 DEF Receive, SpecRefuses, Answer, TypeOK
      <4>3. ASSUME Serve(h), ~Replay(h) PROVE FALSE
        BY <1>2, <2>2, <4>3 DEF Serve, Miss, Dispatch, Respond, Store, Write, Snapshot, Fire, Answer, TypeOK
      <4> QED BY <4>1, <4>2, <4>3, Locality
    <3>2. PICK i \in 1..Len(order) : order[i].key = key[h] /\ Answer(h, "replay", order[i].resp)
      BY <3>1 DEF Replay
    <3>3. answer'[h].resp = order[i].resp /\ key' = key
      BY <3>1, <3>2 DEF Replay, Answer, TypeOK
    <3>4. order[i].resp \in Responses /\ order[i].key \in Keys /\ Belongs(order[i].resp, order[i].key)
      BY <1>0 DEF BelongInv, Entry
    <3> QED BY <3>2, <3>3, <3>4, <1>k
  <2> QED BY <2>1, <2>2
<1> QED BY <1>1, <1>2 DEF BelongInv, Belongs, Response

\* Store puts its key into the cache, and what leaves the cache is forgotten.
LEMMA NextStamp == IInv /\ [Next]_vars => StampInv'
<1> SUFFICES ASSUME IInv, [Next]_vars, NEW h \in Handlers, Stamped(h)', key'[h] # NoKey
             PROVE  key'[h] \in items' \cup forgotten'
  BY DEF StampInv
<1> USE DEF IInv
<1>1. CASE Stamped(h)
  <2>1. pc[h] # "idle"
    BY <1>1 DEF Stamped, StageInv, Stage, Unanswered
  <2> QED BY <1>1, <2>1, AnswersStay, HistoryGrows DEF StampInv
<1>2. CASE ~Stamped(h)
  <2>1. Store(h)
    <3>1. ~Still(h)
      BY <1>2 DEF Still, Stamped
    <3>2. ASSUME NEW k \in IdemKeys, Receive(h, k) PROVE FALSE
      BY <1>2, <3>2 DEF Receive, SpecRefuses, Answer, Goto, TypeOK, Stamped
    <3>3. ASSUME Replay(h) PROVE FALSE
      <4>1. PICK i \in 1..Len(order) : Answer(h, "replay", order[i].resp)
        BY <3>3 DEF Replay
      <4>2. answer'[h].kind = "replay" /\ pc'[h] = "done"
        BY <3>3, <4>1 DEF Replay, Answer, Goto, TypeOK
      <4> QED BY <4>2 DEF Stamped
    <3>4. ASSUME Serve(h), ~Replay(h), ~Store(h) PROVE FALSE
      BY <1>2, <3>4 DEF Serve, Miss, Dispatch, Respond, Write, Snapshot, Fire, Answer, Goto, TypeOK, Stamped
    <3> QED BY <3>1, <3>2, <3>3, <3>4, Locality
  <2>2. pc[h] = "store" /\ key'[h] = key[h] /\ key[h] \in Keys /\ Put(key[h], Response(h))
    BY <2>1 DEF Store, Stamp, TypeOK, IdemKeys
  <2>3. Response(h) \in Responses
    BY <2>2, MockAssumption DEF StageInv, Stage, Response
  <2>4. CacheInv
    BY DEF TypeOK, CacheInv, CacheTypeOK
  <2> QED BY <2>2, <2>3, <2>4, PutEntries
<1> QED BY <1>1, <1>2

\* A request that finds its key neither in the cache nor on its way is the only
\* one to be dispatched with it.
LEMMA NextOwner == IInv /\ [Next]_vars => OwnerInv'
<1> SUFFICES ASSUME IInv, [Next]_vars, NEW g \in Handlers, NEW h \in Handlers,
                    Owns(g)', Owns(h)', key'[g] = key'[h],
                    key'[g] \notin {NoKey} \cup forgotten' \cup raced', g # h
             PROVE  FALSE
  BY DEF OwnerInv
<1> USE DEF IInv
<1>1. ASSUME NEW f \in Handlers, Owns(f)', ~Owns(f) PROVE Miss(f)
  <2>1. ~Still(f)
    BY <1>1 DEF Still, Owns
  <2>2. ASSUME NEW k \in IdemKeys, Receive(f, k) PROVE FALSE
    BY <1>1, <2>2 DEF Receive, SpecRefuses, Answer, Goto, TypeOK, Owns
  <2>3. ASSUME Replay(f) PROVE FALSE
    <3>1. PICK i \in 1..Len(order) : Answer(f, "replay", order[i].resp)
      BY <2>3 DEF Replay
    <3>2. answer'[f].kind = "replay" /\ pc'[f] = "done"
      BY <2>3, <3>1 DEF Replay, Answer, Goto, TypeOK
    <3> QED BY <1>1, <3>2 DEF Owns
  <2>4. ASSUME Serve(f), ~Replay(f), ~Miss(f) PROVE FALSE
    BY <1>1, <2>4 DEF Serve, Dispatch, Respond, Store, Write, Snapshot, Fire, Answer, Goto, TypeOK, Owns
  <2> QED BY <2>1, <2>2, <2>3, <2>4, Locality
<1>2. ASSUME NEW f \in Handlers, Owns(f) PROVE key'[f] = key[f]
  <2>1. pc[f] # "idle"
    BY <1>2 DEF Owns, StageInv, Stage, Unanswered
  <2> QED BY <2>1, AnswersStay
<1>3. ASSUME NEW d \in Handlers, NEW f \in Handlers, d # f, Owns(d), Miss(f), key[d] = key[f],
             key[f] \notin {NoKey} \cup forgotten' \cup raced'
      PROVE  FALSE
  <2>1. pc[f] = "lookup" /\ key[f] \notin items /\ forgotten' = forgotten
    BY <1>3 DEF Miss
  <2>2. ~InFlight(f)
    BY <1>3 DEF Miss
  <2>3. ~Stamped(d)
    BY <1>3, <2>1 DEF StampInv
  <2>4. pc[d] \in {"dispatch", "respond", "store", "write"} /\ answer[d] = Unanswered
    BY <1>3, <2>3 DEF Owns, Stamped, StageInv, Stage
  <2> QED BY <1>3, <2>2, <2>4 DEF InFlight
<1>4. ASSUME NEW f \in Handlers, Miss(f) PROVE key' = key
  BY <1>4 DEF Miss
<1>5. CASE Owns(g) /\ Owns(h)
  BY <1>5, <1>2, HistoryGrows DEF OwnerInv
<1>6. CASE ~Owns(g) /\ Owns(h)
  BY <1>6, <1>1, <1>3, <1>4
<1>7. CASE Owns(g) /\ ~Owns(h)
  BY <1>7, <1>1, <1>3, <1>4
<1>8. CASE ~Owns(g) /\ ~Owns(h)
  <2>1. Miss(g) /\ Miss(h)
    BY <1>8, <1>1
  <2> QED BY <2>1 DEF Miss, Goto, TypeOK
<1> QED BY <1>5, <1>6, <1>7, <1>8

\* Reset empties the cache of what it found answered, and a response is stored
\* before its client is answered.
LEMMA NextSettled == IInv /\ [Next]_vars => SettledInv' /\ ResetIsolates'
<1> SUFFICES ASSUME IInv, [Next]_vars PROVE SettledInv' /\ ResetIsolates'
  OBVIOUS
<1> USE DEF IInv
<1>0. \A h \in Handlers : answer[h] # Unanswered => answer'[h] # Unanswered
  BY AnswersStay
<1>1. CASE ResetCache
  <2>1. settled' = Answered /\ order' = <<>>
    BY <1>1 DEF ResetCache, Clear
  <2> QED BY <1>0, <2>1 DEF SettledInv, ResetIsolates, Answered, Unanswered
<1>2. CASE ~ResetCache
  <2>1. settled' = settled
    BY <1>2 DEF Next, Receive, Serve, Replay, Miss, Dispatch, Respond, Store, Write, Snapshot, Fire,
                SetScenario, ResetLog, vars, historyVars
  <2>2. SettledInv'
    BY <1>0, <2>1 DEF SettledInv, Answered, Unanswered
  <2>3. ASSUME NEW j \in 1..Len(order') PROVE order'[j].resp.by \notin settled
    <3>1. CASE \E i \in 1..Len(order) : order'[j] = order[i]
      BY <3>1 DEF ResetIsolates
    <3>2. ASSUME NEW h \in Handlers, pc[h] = "store", order'[j] = Entered(key[h], Response(h))
          PROVE  order'[j].resp.by \notin settled
      <4>1. order'[j].resp.by = h
        BY <3>2 DEF Entered, Response
      <4>2. answer[h] = Unanswered
        BY <3>2 DEF StageInv, Stage
      <4> QED BY <4>1, <4>2 DEF SettledInv, Answered
    <3> QED BY <3>1, <3>2, CacheSteps
  <2> QED BY <2>1, <2>2, <2>3 DEF ResetIsolates
<1> QED BY <1>1, <1>2

-----------------------------------------------------------------------------
(* What the mock server guarantees.                                        *)

\* The invariant holds of every reachable state.
LEMMA Invariance == Spec => []IInv
<1>1. IInv /\ [Next]_vars => IndexAgrees'
  BY CacheSteps DEF CacheInv
<1>2. IInv /\ [Next]_vars => IInv'
  BY <1>1, NextTypeOK, NextStage, NextBelong, NextStamp, NextOwner, NextSettled DEF IInv
<1> QED BY InitIInv, <1>2, PTL DEF Spec

\* The mock server keeps its variables' types, and its cache in step, for any
\* requests, keys, scenarios and capacity.
THEOREM MockTypeOK == Spec => [](TypeOK /\ IndexAgrees)
<1>1. IInv => TypeOK /\ IndexAgrees
  BY DEF IInv
<1> QED BY Invariance, <1>1, PTL

\* Every replay is the response a request with the same key was, or is about to
\* be, sent, whatever the scenarios, evictions and resets in between.
THEOREM MockReplaysBelong == Spec => []ReplaysBelong
<1>1. IInv => ReplaysBelong
  BY DEF IInv, BelongInv, Belongs, ReplaysBelong
<1> QED BY Invariance, <1>1, PTL

\* a request that succeeded was answered with the response of an owner of its key
Source(g, h) ==
    /\ g \in Handlers /\ Owns(g) /\ key[g] = key[h]
    /\ answer[h].resp = IF pc[g] = "write" THEN Response(g) ELSE answer[g].resp

\* ... which is the request itself, or the one whose response was replayed.
LEMMA SourceExists ==
    ASSUME IInv, NEW h \in Succeeded
    PROVE  \E g \in Handlers : Source(g, h)
<1> USE DEF IInv
<1>0. h \in Handlers /\ Stage(h)
  BY DEF Succeeded, StageInv
<1>1. CASE answer[h].kind = "fresh"
  BY <1>0, <1>1 DEF Source, Owns, Stage, Unanswered
<1>2. CASE answer[h].kind = "replay"
  <2> DEFINE r == answer[h].resp
             g == r.by
  <2>1. r \in Responses /\ g \in Handlers /\ Belongs(r, key[h])
    BY <1>0, <1>2, MockAssumption DEF Stage, BelongInv
  <2>2. pc[g] = "write" => answer[g] = Unanswered
    BY <2>1 DEF StageInv, Stage
  <2> QED BY <2>1, <2>2 DEF Belongs, Source, Owns, Unanswered
<1> QED BY <1>1, <1>2 DEF Succeeded

\* Requests with the same key are answered alike as long as their key was not
\* evicted or reset and none arrived before an earlier one was answered.
THEOREM MockDuplicatesAgree == Spec => []DuplicatesAgree
<1>1. IInv => DuplicatesAgree
  <2> SUFFICES ASSUME IInv, NEW g \in Succeeded, NEW h \in Succeeded, key[g] = key[h],
                      key[g] \notin {NoKey} \cup forgotten \cup raced
               PROVE  answer[g].resp = answer[h].resp
    BY DEF DuplicatesAgree
  <2>1. PICK d \in Handlers : Source(d, g)
    BY SourceExists
  <2>2. PICK f \in Handlers : Source(f, h)
    BY SourceExists
  <2>3. d = f
    BY <2>1, <2>2 DEF IInv, OwnerInv, Source
  <2> QED BY <2>1, <2>2, <2>3 DEF Source
<1> QED BY Invariance, <1>1, PTL

\* Under the same conditions only one request with a key fires a callback.
THEOREM MockOneCallbackPerKey == Spec => []OneCallbackPerKey
<1>1. IInv => OneCallbackPerKey
  BY DEF IInv, StageInv, Stage, OwnerInv, Owns, OneCallbackPerKey
<1> QED BY Invariance, <1>1, PTL

\* After Server.Reset the cache holds nothing that had been answered before it,
\* also when goroutines of the previous sub-test are still on their way.
THEOREM MockResetIsolates == Spec => []ResetIsolates
<1>1. IInv => ResetIsolates
  BY DEF IInv
<1> QED BY Invariance, <1>1, PTL
=============================================================================
