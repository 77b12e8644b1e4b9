---------------------------- MODULE PagingProofs ----------------------------
(***************************************************************************)
(* No row is missed and, while nothing is inserted, none is repeated: for  *)
(* every ledger, start and page size.                                      *)
(***************************************************************************)
EXTENDS Paging, TLAPS

In(r, s) == \E i \in 1..Len(s) : s[i] = r

AtOrAfter(r, n) == \E j \in 1..Len(list) : j >= n /\ list[j] = r

\* The walk stands as many rows beyond its start as it has collected, and has
\* a page in hand only at "page".
WalkPosition ==
    /\ pc # "returned" => Len(out) = cur - start
    /\ pc \in {"top", "call"} => page = <<>>
    /\ result = "ok" => pc = "returned"

\* A row of the ledger at the beginning is collected or still ahead. Once a
\* page was cut, "ahead" is beyond that page, the page is full, and its total
\* counts the row.
NothingIsBehind ==
    \A r \in base :
        \/ In(r, out)
        \/ pc \in {"top", "call"} /\ AtOrAfter(r, cur)
        \/ pc = "page" /\ In(r, page)
        \/ /\ pc = "page" /\ Len(page) = count
           /\ total > 0 => cur + count <= total
           /\ AtOrAfter(r, cur + count)
        \/ pc = "returned" /\ result # "ok"

\* While nothing is inserted the page in hand is the ledger's at cur.
PageIsCurrent ==
    (calm = "yes" /\ pc = "page") =>
        \A i \in 1..Len(page) : cur + i - 1 <= Len(list) /\ page[i] = list[cur + i - 1]

IInv == TypeOK /\ WalkPosition /\ NothingIsBehind /\ CalmWalkIsExact /\ PageIsCurrent

\* The walk's parameters and the ledger it begins with are well typed.
LEMMA TypesBegin == Init => TypeOK
BY PagingAssumption DEF Init, TypeOK, OrDefault, DefaultStart, RowsFrom

\* Nothing is collected at first and every row counted on lies ahead.
LEMMA InitIInv == Init => IInv
<1> SUFFICES ASSUME Init PROVE IInv
  OBVIOUS
<1>1. TypeOK
  BY TypesBegin
<1>2. WalkPosition
  BY <1>1 DEF Init, WalkPosition, TypeOK
<1>3. NothingIsBehind
  BY <1>1 DEF Init, NothingIsBehind, RowsFrom, AtOrAfter, TypeOK
<1>4. CalmWalkIsExact /\ PageIsCurrent
  BY DEF Init, CalmWalkIsExact, PageIsCurrent
<1> QED
  BY <1>1, <1>2, <1>3, <1>4 DEF IInv

\* The page is cut from the ledger as it is now, so what it leaves out lies
\* beyond it, and only if it is full.
LEMMA ReadKeeps == ASSUME IInv, GatewayReads PROVE IInv'
<1> DEFINE n == IF Len(list) < cur THEN 0
                ELSE IF Len(list) - cur + 1 < count THEN Len(list) - cur + 1
                ELSE count
<1> USE DEF IInv
<1>2. n \in Nat /\ n <= count
  BY DEF TypeOK
<1>3. \A i \in 1..n : cur + i - 1 \in 1..Len(list)
  BY DEF TypeOK
<1>4. page' = [i \in 1..n |-> list[cur + i - 1]]
  BY DEF GatewayReads
<1> HIDE DEF n
<1>5. page' \in Seq(Rows \cup {New}) /\ Len(page') = n
  BY <1>2, <1>3, <1>4 DEF TypeOK
<1>6. TypeOK'
  <2>1. total' \in 0..MaxRows
    BY PagingAssumption DEF GatewayReads, TypeOK
  <2> QED
    BY <1>2, <1>5, <2>1 DEF GatewayReads, TypeOK
<1>7. WalkPosition'
  BY DEF GatewayReads, WalkPosition
<1>8. ASSUME NEW r \in base, AtOrAfter(r, cur), ~ In(r, page')
      PROVE  /\ Len(page') = count
             /\ total' > 0 => cur + count <= total'
             /\ AtOrAfter(r, cur + count)
  <2>1. PICK j \in 1..Len(list) : j >= cur /\ list[j] = r
    BY <1>8 DEF AtOrAfter
  <2>2. j >= cur + n
    <3> SUFFICES ASSUME j < cur + n PROVE FALSE
      BY <1>2, <2>1 DEF TypeOK
    <3>1. j - cur + 1 \in 1..n /\ cur + (j - cur + 1) - 1 = j
      BY <1>2, <2>1 DEF TypeOK
    <3>2. page'[j - cur + 1] = r
      BY <1>4, <2>1, <3>1
    <3> QED
      BY <1>5, <1>8, <3>1, <3>2 DEF In
  <2>3. n = count
    BY <2>1, <2>2 DEF n, TypeOK
  <2> QED
    BY <1>5, <2>1, <2>2, <2>3 DEF GatewayReads, AtOrAfter, TypeOK
<1>9. NothingIsBehind'
  BY <1>8 DEF GatewayReads, NothingIsBehind, In, AtOrAfter
<1>10. CalmWalkIsExact' /\ PageIsCurrent'
  <2>1. CalmWalkIsExact'
    BY DEF GatewayReads, CalmWalkIsExact
  <2>2. \A i \in 1..Len(page') : cur + i - 1 <= Len(list) /\ page'[i] = list[cur + i - 1]
    <3> SUFFICES ASSUME NEW i \in 1..n
                 PROVE  cur + i - 1 <= Len(list) /\ page'[i] = list[cur + i - 1]
      BY <1>5
    <3>1. page'[i] = list[cur + i - 1]
      BY <1>4
    <3>2. cur + i - 1 \in 1..Len(list)
      BY <1>3
    <3> QED
      BY <3>1, <3>2 DEF TypeOK
  <2> QED
    BY <2>1, <2>2 DEF GatewayReads, PageIsCurrent
<1> QED
  BY <1>6, <1>7, <1>9, <1>10

\* What the page held is collected; a last page has nothing beyond it.
LEMMA TakeKeeps == ASSUME IInv, TakePage PROVE IInv'
<1> USE DEF IInv
<1>1. out' = [i \in 1..(Len(out) + Len(page)) |->
                IF i <= Len(out) THEN out[i] ELSE page[i - Len(out)]]
  BY DEF TakePage, Collected
<1>2. Len(out) \in Nat /\ Len(page) \in Nat
  BY DEF TypeOK
<1>3. out' \in Seq(Rows \cup {New}) /\ Len(out') = Len(out) + Len(page)
  BY <1>1, <1>2 DEF TypeOK
<1>4. Len(Collected) = Len(out) + Len(page)
  BY <1>1, <1>3 DEF TakePage
<1>5. TypeOK'
  <2>1. cur' \in Nat \ {0} /\ pc' \in {"top", "returned"} /\ result' \in {result, "ok"}
    BY DEF TakePage, Return, NextStart, TypeOK
  <2>2. page' = <<>> /\ total' \in 0..MaxRows
    BY PagingAssumption DEF TakePage
  <2> QED
    BY <1>3, <2>1, <2>2 DEF TakePage, TypeOK
<1>6. WalkPosition'
  <2>1. CASE LastPage
    BY <2>1 DEF TakePage, Return, WalkPosition
  <2>2. CASE ~ LastPage
    <3>1. Len(page) = count
      BY <2>2 DEF LastPage, TypeOK
    <3>2. pc' = "top" /\ cur' = cur + count /\ result' = result /\ page' = <<>> /\ start' = start
      BY <2>2 DEF TakePage, NextStart
    <3>3. pc = "page" /\ Len(out) = cur - start
      BY DEF TakePage, WalkPosition
    <3>4. Len(out') = cur' - start'
      BY <1>3, <3>1, <3>2, <3>3 DEF TypeOK
    <3> QED
      BY <3>2, <3>3, <3>4 DEF WalkPosition
  <2> QED
    BY <2>1, <2>2
<1>7. \A r : In(r, out) \/ In(r, page) => In(r, out')
  <2> SUFFICES ASSUME NEW r, In(r, out) \/ In(r, page) PROVE In(r, out')
    OBVIOUS
  <2>1. CASE In(r, out)
    BY <1>1, <1>2, <1>3, <2>1 DEF In
  <2>2. CASE In(r, page)
    <3>1. PICK i \in 1..Len(page) : page[i] = r
      BY <2>2 DEF In
    <3>2. Len(out) + i \in 1..Len(out') /\ out'[Len(out) + i] = r
      BY <1>1, <1>2, <1>3, <3>1
    <3> QED
      BY <3>2 DEF In
  <2> QED
    BY <2>1, <2>2
<1>8. ASSUME NEW r \in base, ~ In(r, out')
      PROVE  ~ LastPage /\ AtOrAfter(r, cur + count)
  BY <1>4, <1>7, <1>8 DEF NothingIsBehind, WalkPosition, TakePage, LastPage, TypeOK
<1>9. NothingIsBehind'
  BY <1>8 DEF NothingIsBehind, TakePage, NextStart, AtOrAfter
<1>10. CalmWalkIsExact'
  <2> SUFFICES ASSUME calm = "yes", NEW i \in 1..(Len(out) + Len(page))
               PROVE  start + i - 1 <= Len(list) /\ out'[i] = list[start + i - 1]
    BY <1>3 DEF CalmWalkIsExact, TakePage
  <2>1. CASE i <= Len(out)
    BY <1>1, <1>2, <2>1 DEF CalmWalkIsExact
  <2>2. CASE i > Len(out)
    <3>1. i - Len(out) \in 1..Len(page) /\ out'[i] = page[i - Len(out)]
      BY <1>1, <1>2, <2>2
    <3>2. Len(out) = cur - start
      BY DEF TakePage, WalkPosition
    <3>3. cur + (i - Len(out)) - 1 = start + i - 1
      BY <3>2 DEF TypeOK
    <3> QED
      BY <3>1, <3>3 DEF PageIsCurrent, TakePage
  <2> QED
    BY <1>2, <2>1, <2>2
<1>11. PageIsCurrent'
  BY DEF PageIsCurrent, TakePage, Return
<1> QED
  BY <1>5, <1>6, <1>9, <1>10, <1>11

\* An insertion moves rows away from the walk's start, never towards it.
LEMMA InsertKeeps == ASSUME IInv, NEW p \in 1..(Len(list) + 1), Insert(p) PROVE IInv'
<1> USE DEF IInv
<1>1. list' = [i \in 1..(Len(list) + 1) |->
                 IF i < p THEN list[i] ELSE IF i = p THEN New ELSE list[i - 1]]
  BY DEF Insert
<1>2. Len(list) \in Nat
  BY DEF TypeOK
<1>3. list' \in Seq(Rows \cup {New}) /\ Len(list') = Len(list) + 1
  BY <1>1, <1>2 DEF TypeOK
<1>4. TypeOK'
  <2>1. Len(list') <= MaxRows
    BY <1>2, <1>3, PagingAssumption DEF Insert
  <2> QED
    BY <1>3, <2>1 DEF Insert, TypeOK
<1>5. ASSUME NEW r, NEW n \in Nat, AtOrAfter(r, n)
      PROVE  \E j \in 1..Len(list') : j >= n /\ list'[j] = r
  <2>1. PICK j \in 1..Len(list) : j >= n /\ list[j] = r
    BY <1>5 DEF AtOrAfter
  <2>2. CASE j < p
    BY <1>1, <1>2, <1>3, <2>1, <2>2
  <2>3. CASE j >= p
    <3>1. j + 1 \in 1..Len(list') /\ list'[j + 1] = r
      BY <1>1, <1>2, <1>3, <2>1, <2>3
    <3> QED
      BY <2>1, <3>1
  <2> QED
    BY <1>2, <2>1, <2>2, <2>3
<1>6. WalkPosition'
  BY DEF Insert, WalkPosition
<1>7. NothingIsBehind'
  <2>1. cur \in Nat /\ cur + count \in Nat
    BY DEF TypeOK
  <2>2. SUFFICES ASSUME NEW r \in base
        PROVE  \/ In(r, out)
               \/ pc \in {"top", "call"} /\ AtOrAfter(r, cur)'
               \/ pc = "page" /\ In(r, page)
               \/ /\ pc = "page" /\ Len(page) = count
                  /\ total > 0 => cur + count <= total
                  /\ AtOrAfter(r, cur + count)'
               \/ pc = "returned" /\ result # "ok"
    BY DEF Insert, NothingIsBehind, In
  <2>3. CASE pc \in {"top", "call"} /\ AtOrAfter(r, cur)
    <3>1. \E j \in 1..Len(list') : j >= cur /\ list'[j] = r
      BY <1>5, <2>1, <2>3
    <3>2. AtOrAfter(r, cur)'
      BY <3>1 DEF AtOrAfter, Insert
    <3> QED
      BY <2>3, <3>2
  <2>4. CASE /\ pc = "page" /\ Len(page) = count
             /\ total > 0 => cur + count <= total
             /\ AtOrAfter(r, cur + count)
    <3>1. \E j \in 1..Len(list') : j >= cur + count /\ list'[j] = r
      BY <1>5, <2>1, <2>4
    <3>2. AtOrAfter(r, cur + count)'
      BY <3>1 DEF AtOrAfter, Insert
    <3> QED
      BY <2>4, <3>2
  <2> QED
    BY <2>3, <2>4 DEF NothingIsBehind
<1>8. CalmWalkIsExact' /\ PageIsCurrent'
  BY DEF Insert, CalmWalkIsExact, PageIsCurrent
<1> QED
  BY <1>4, <1>6, <1>7, <1>8

\* A step that moves neither the ledger nor the walk, except that the walk goes
\* on to its call or ends with an error, keeps everything.
LEMMA ControlKeeps ==
    ASSUME IInv,
           UNCHANGED <<list, start, count, cur, out, page, total, base, calm>>,
           ctx' \in {"live", "done"},
           \/ UNCHANGED <<pc, result>>
           \/ pc = "top" /\ pc' = "call" /\ UNCHANGED result
           \/ pc' = "returned" /\ result' \in {"error", "noData"}
    PROVE  IInv'
<1> USE DEF IInv
<1>1. TypeOK'
  BY DEF TypeOK
<1>2. WalkPosition'
  BY DEF WalkPosition
<1>3. NothingIsBehind'
  <2>1. CASE pc' = "returned" /\ result' \in {"error", "noData"}
    BY <2>1 DEF NothingIsBehind
  <2>2. CASE UNCHANGED <<pc, result>>
    BY <2>2 DEF NothingIsBehind, AtOrAfter, In
  <2>3. CASE pc = "top" /\ pc' = "call" /\ UNCHANGED result
    BY <2>3 DEF NothingIsBehind, AtOrAfter, In
  <2> QED
    BY <2>1, <2>2, <2>3
<1>4. CalmWalkIsExact'
  BY DEF CalmWalkIsExact
<1>5. PageIsCurrent'
  BY DEF PageIsCurrent
<1> QED
  BY <1>1, <1>2, <1>3, <1>4, <1>5

\* Every step keeps the invariant.
LEMMA StepIInv == IInv /\ [Next]_vars => IInv'
<1> SUFFICES ASSUME IInv, [Next]_vars PROVE IInv'
  OBVIOUS
<1>0. ctx \in {"live", "done"}
  BY DEF IInv, TypeOK
<1>1. CASE Top
  BY <1>1, <1>0, ControlKeeps DEF Top, Return
<1>2. CASE GatewayReads
  BY <1>2, ReadKeeps
<1>3. CASE CallFails
  BY <1>3, <1>0, ControlKeeps DEF CallFails, Return
<1>4. CASE NoData
  BY <1>4, <1>0, ControlKeeps DEF NoData, Return
<1>5. CASE TakePage
  BY <1>5, TakeKeeps
<1>6. ASSUME NEW p \in 1..(Len(list) + 1), Insert(p) PROVE IInv'
  BY <1>6, InsertKeeps
<1>7. CASE CallerDone
  BY <1>7, ControlKeeps DEF CallerDone
<1>8. CASE Done \/ UNCHANGED vars
  BY <1>8, <1>0, ControlKeeps DEF Done, vars
<1> QED
  BY <1>1, <1>2, <1>3, <1>4, <1>5, <1>6, <1>7, <1>8 DEF Next

\* Whatever the ledger, the page size and the insertions: a walk that ends
\* without an error, on a page, has every row that was there when it began.
THEOREM WalksAreComplete == Spec => []WalkIsComplete
<1>1. IInv => WalkIsComplete
  BY DEF IInv, WalkPosition, NothingIsBehind, WalkIsComplete, In
<1> QED
  BY <1>1, InitIInv, StepIInv, PTL DEF Spec

\* As long as nothing is inserted, what was collected is the ledger from the
\* walk's start, in order and without repetition, after an error too.
THEOREM CalmWalksAreExact == Spec => []CalmWalkIsExact
<1>1. IInv => CalmWalkIsExact
  BY DEF IInv
<1> QED
  BY <1>1, InitIInv, StepIInv, PTL DEF Spec

\* The walk's position, page and rows keep their types, the position included that
\* grows with every page read.
THEOREM TypesHold == Spec => []TypeOK
<1>1. IInv => TypeOK
  BY DEF IInv
<1> QED
  BY <1>1, InitIInv, StepIInv, PTL DEF Spec
=============================================================================
