----------------------------- MODULE MCServices -----------------------------
(***************************************************************************)
(* Services with one struct of each type in turn, two goroutines and the   *)
(* field values that decide a validator: absent, in range, out of range,   *)
(* amounts on both sides of each minimum and at the edge of the range.     *)
(***************************************************************************)
EXTENDS Services, TLC

Big == HalfRange - 1

Sub(a, p) == [amount |-> a, subOrderId |-> "ok", merchantId |-> "ok", merchantName |-> "ok",
              period |-> p]

Sku == [skuId |-> "ok", amount |-> 1]
Info == [merchantId |-> "ok", skus |-> <<Sku>>]

\* one sub-order whose own tenor, 3, asks for a larger total
Food == [rid |-> NoId, uid |-> "ok", order |-> "ok", total |-> 19999, period |-> 0,
         subs |-> <<Sub(19999, 3)>>, orderType |-> "GRAB_FOOD", infos |-> <<Info>>,
         session |-> "ok", sessionId |-> "empty", mode |-> "ask", applyTime |-> 1,
         mobile |-> "ok", email |-> "ok", country |-> "ID", language |-> "id", bank |-> "BCA"]

\* a cart of two at tenor 3, one of its sub-orders at the minimum
Mart == [Food EXCEPT !.rid = OwnId, !.period = 3, !.orderType = "GRAB_MART",
                     !.total = 20003, !.subs = <<Sub(3, 0), Sub(20000, 0)>>]

\* a sum at the edge of the range, and one whose sum wraps to a negative value
Edge == [Mart EXCEPT !.rid = NoId, !.period = 1, !.total = Big, !.subs = <<Sub(1, 1), Sub(Big - 1, 1)>>]
Wrapped == [Edge EXCEPT !.total = Big, !.subs = <<Sub(Big, 1), Sub(Big, 1)>>]

CallersAlike == Permutations(Callers)

Restricted(op, r) == [f \in Fields(op) |-> r[f]]

MCDrafts ==
    [op \in Ops |->
        {Restricted(op, r) : r \in IF "subs" \in Fields(op) THEN {Food, Mart, Edge, Wrapped} ELSE {Food, Mart}}]

MCChoices ==
    [rid |-> {NoId, LongId}, uid |-> {"empty", "long"}, order |-> {"empty", "long"},
     total |-> {0, 1, 20000},
     period |-> {0, 1, 3},
     subs |-> {<<>>, <<Sub(19999, 1)>>, <<Sub(0, 1), Sub(20000, 3)>>,
               <<[Sub(20000, 3) EXCEPT !.merchantName = "empty"]>>,
               <<[Sub(20000, 0) EXCEPT !.merchantId = "empty", !.subOrderId = "empty"]>>},
     orderType |-> {"nil", "other", "TRANSPORT"},
     infos |-> {<<>>, <<[Info EXCEPT !.skus = <<>>]>>},
     session |-> {"empty", "long"}, sessionId |-> {"long"}, mode |-> {"get", "other"},
     applyTime |-> {0}, mobile |-> {"empty"}, email |-> {"empty", "long"},
     country |-> {"empty", "other"}, language |-> {"empty", "other"}, bank |-> {"other"}]
=============================================================================
