------------------------------- MODULE Paging -------------------------------
(***************************************************************************)
(* TransactionsAll (transaction/transaction.go): the whole ledger, page by *)
(* page, while the gateway inserts rows into it between two pages and      *)
(* between a page's being read and its arrival. `start` counts rows, from  *)
(* 1. The ledger and how it is cut into pages are external. A row stands   *)
(* for an element of PaymentInfo, RefundInfo or RepaymentInfo.             *)
(***************************************************************************)
EXTENDS Integers, Sequences

CONSTANTS
    Rows, New,      \* the rows the walk finds, and any row inserted after it began
    Ledgers,        \* the ledgers the walk may begin with
    Starts, Counts, \* TransactionsParams.Start and Count as the caller sets them
    DefaultCount, MaxCount,
    MaxRows         \* bound: the ledger's length

DefaultStart == 1

ASSUME PagingAssumption ==
    /\ \A l \in Ledgers : l \in Seq(Rows) /\ Len(l) <= MaxRows
    /\ New \notin Rows
    /\ \A n \in Starts \cup Counts : n \in Int
    /\ DefaultCount \in Nat \ {0} /\ MaxCount \in Nat /\ MaxRows \in Nat

VARIABLES
    list,           \* the gateway's ledger
    start, count,   \* where the walk begins, and the size of its pages
    cur,            \* cur.Start: the first row of the next page
    pc, out, result,
    ctx,            \* the caller's context: "live" or "done"
    page, total,    \* the page on its way, and the TotalCount it carries (0 if none)
    base,           \* (history) the rows the walk set out to collect
    calm            \* (history) "yes" until a row is inserted

vars == <<list, start, count, cur, pc, out, result, ctx, page, total, base, calm>>

RowsFrom(s, n) == {s[i] : i \in {j \in 1..Len(s) : j >= n}}

OrDefault_Strict(n, d) == IF n < 0 THEN d ELSE n

OrDefault(n, d) == IF n <= 0 THEN d ELSE n

Init ==
    /\ list \in Ledgers
    /\ \E s \in Starts : start = OrDefault(s, DefaultStart)
    /\ \E c \in Counts : count = OrDefault(c, DefaultCount)
    /\ cur = start
    /\ pc = "top" /\ out = <<>> /\ result = "pending" /\ ctx = "live"
    /\ page = <<>> /\ total = 0
    /\ base = RowsFrom(list, start)
    /\ calm = "yes"

-----------------------------------------------------------------------------

Return(r) == pc' = "returned" /\ result' = r

\* validateTransactionsParams: the page size; Start and Count were given their
\* defaults, and an empty required field fails like any call
Refused == count > MaxCount

Top ==
    /\ pc = "top"
    /\ IF ctx = "done" \/ Refused
       THEN Return("error")
       ELSE pc' = "call" /\ UNCHANGED result
    /\ UNCHANGED <<list, start, count, cur, out, ctx, page, total, base, calm>>

\* the gateway cuts the page; it may leave the paginator out
GatewayReads ==
    /\ pc = "call"
    /\ page' = [i \in 1..(IF Len(list) < cur THEN 0
                          ELSE IF Len(list) - cur + 1 < count THEN Len(list) - cur + 1
                          ELSE count) |-> list[cur + i - 1]]
    /\ total' \in {Len(list), 0}
    /\ pc' = "page"
    /\ UNCHANGED <<list, start, count, cur, out, result, ctx, base, calm>>

\* validation, the signed GET or its decoding fails: what was collected is
\* returned with the error
CallFails ==
    /\ pc \in {"call", "page"}
    /\ Return("error")
    /\ UNCHANGED <<list, start, count, cur, out, ctx, page, total, base, calm>>

\* an envelope without data ends the walk, without an error: to the caller it
\* looks like "ok" and is kept apart here for the properties only
NoData ==
    /\ pc = "call"
    /\ Return("noData")
    /\ UNCHANGED <<list, start, count, cur, out, ctx, page, total, base, calm>>

Collected == [i \in 1..(Len(out) + Len(page)) |->
                IF i <= Len(out) THEN out[i] ELSE page[i - Len(out)]]

LastPage_TotalOfPage == Len(page) < count \/ (total > 0 /\ cur + Len(page) >= total)

\* a short page, or as many rows as the paginator counts
LastPage == Len(page) < count \/ (total > 0 /\ Len(Collected) >= total)

NextStart_Page == cur + 1

NextStart == cur + count

TakePage_TotalOnly ==
    /\ pc = "page"
    /\ out' = Collected
    /\ IF total > 0 /\ Len(Collected) >= total
       THEN Return("ok") /\ UNCHANGED cur
       ELSE pc' = "top" /\ cur' = cur + Len(page) /\ UNCHANGED result
    /\ page' = <<>> /\ total' = 0
    /\ UNCHANGED <<list, start, count, ctx, base, calm>>

TakePage ==
    /\ pc = "page"
    /\ out' = Collected
    /\ IF LastPage THEN Return("ok") /\ UNCHANGED cur
                   ELSE pc' = "top" /\ cur' = NextStart /\ UNCHANGED result
    /\ page' = <<>> /\ total' = 0
    /\ UNCHANGED <<list, start, count, ctx, base, calm>>

\* the gateway inserts a row before position p, or at the end
Insert(p) ==
    /\ pc # "returned"
    /\ Len(list) < MaxRows
    /\ list' = [i \in 1..(Len(list) + 1) |->
                  IF i < p THEN list[i] ELSE IF i = p THEN New ELSE list[i - 1]]
    /\ calm' = "no"
    /\ UNCHANGED <<start, count, cur, pc, out, result, ctx, page, total, base>>

CallerDone ==
    /\ pc # "returned" /\ ctx = "live"
    /\ ctx' = "done"
    /\ UNCHANGED <<list, start, count, cur, pc, out, result, page, total, base, calm>>

Done == pc = "returned" /\ UNCHANGED vars

Next == \/ Top \/ GatewayReads \/ CallFails \/ NoData \/ TakePage
        \/ \E p \in 1..(Len(list) + 1) : Insert(p)
        \/ CallerDone
        \/ Done

Spec == Init /\ [][Next]_vars

\* the walking goroutine runs, and each of its calls returns (Dispatch: CallReturns)
FairSpec == Spec /\ WF_vars(Top \/ GatewayReads \/ CallFails \/ NoData \/ TakePage)

-----------------------------------------------------------------------------
(* Properties.                                                             *)

\* Type correctness of the walk.
TypeOK ==
    /\ list \in Seq(Rows \cup {New}) /\ Len(list) <= MaxRows
    /\ start \in Nat \ {0} /\ count \in Nat \ {0} /\ cur \in Nat \ {0}
    /\ pc \in {"top", "call", "page", "returned"}
    /\ out \in Seq(Rows \cup {New}) /\ page \in Seq(Rows \cup {New}) /\ Len(page) <= count
    /\ result \in {"pending", "ok", "error", "noData"} /\ ctx \in {"live", "done"}
    /\ total \in 0..MaxRows
    /\ base \subseteq Rows /\ calm \in {"yes", "no"}

\* A walk that ends without an error has every row that was in the ledger, from
\* Start on, when it began, wherever rows were inserted meanwhile and whether
\* or not the gateway sends a TotalCount.
WalkIsComplete == result = "ok" => \A r \in base : \E i \in 1..Len(out) : out[i] = r

\* As long as nothing is inserted, what was collected is the ledger itself from
\* Start on, row by row: no row twice, none out of order, also when the walk is
\* cut short by an error (the rows returned with it).
CalmWalkIsExact == calm = "yes" =>
    \A i \in 1..Len(out) : start + i - 1 <= Len(list) /\ out[i] = list[start + i - 1]

\* The walk ends: pages run out, whatever the gateway says of their number.
WalkEnds == <>(pc = "returned")
=============================================================================
