--------------------------- MODULE ServicesProofs ---------------------------
(***************************************************************************)
(* For any structs, callers, drafts and edits: nothing is sent that its    *)
(* validator would refuse, the sums of one or two sub-orders are exact,    *)
(* the later stages of an order accept what /auth accepted, and what the   *)
(* services write into the partner's structs is consistent.                *)
(***************************************************************************)
EXTENDS Services, TLAPS

-----------------------------------------------------------------------------
(* Sums of amounts.                                                        *)

\* the sum over one sub-order
LEMMA TotalOfOne ==
    ASSUME NEW subs, Len(subs) = 1, subs[1].amount \in Amounts
    PROVE  Total(subs) = subs[1].amount
<1> DEFINE F(f) == f = [i \in 0..Len(subs) |-> IF i = 0 THEN 0 ELSE Add(f[i - 1], subs[i].amount)]
           g == CHOOSE f : F(f)
           w == [i \in 0..1 |-> IF i = 0 THEN 0 ELSE subs[1].amount]
<1>0. HalfRange \in Nat BY HalfRangeAssumption
<1>1. Add(0, subs[1].amount) = subs[1].amount
  BY <1>0 DEF Add, Amounts
<1>2. F(w) BY <1>1
<1>3. F(g)
  <2> HIDE DEF F
  <2> QED BY <1>2, Zenon
<1>4. ASSUME NEW h, F(h) PROVE h[1] = subs[1].amount
  <2>1. h[0] = 0 BY <1>4
  <2>2. h[1] = Add(h[0], subs[1].amount) BY <1>4
  <2> QED BY <2>1, <2>2, <1>1
<1>5. Total(subs) = g[Len(subs)]
  BY DEF Total
<1> HIDE DEF F, g
<1> QED BY <1>3, <1>4, <1>5

LEMMA TotalOfTwo ==
    ASSUME NEW subs, Len(subs) = 2, subs[1].amount \in Amounts, subs[2].amount \in Amounts
    PROVE  Total(subs) = Add(subs[1].amount, subs[2].amount)
<1> DEFINE F(f) == f = [i \in 0..Len(subs) |-> IF i = 0 THEN 0 ELSE Add(f[i - 1], subs[i].amount)]
           g == CHOOSE f : F(f)
           a == subs[1].amount
           b == subs[2].amount
           w == [i \in 0..2 |-> IF i = 0 THEN 0 ELSE IF i = 1 THEN a ELSE Add(a, b)]
<1>0. HalfRange \in Nat BY HalfRangeAssumption
<1>1. Add(0, a) = a
  BY <1>0 DEF Add, Amounts
<1>2. F(w) BY <1>1
<1>3. F(g)
  <2> HIDE DEF F
  <2> QED BY <1>2, Zenon
<1>4. ASSUME NEW h, F(h) PROVE h[2] = Add(a, b)
  <2>1. h[0] = 0 BY <1>4
  <2>2. h[1] = Add(h[0], a) BY <1>4
  <2>3. h[2] = Add(h[1], b) BY <1>4
  <2> QED BY <2>1, <2>2, <2>3, <1>1
<1>5. Total(subs) = g[Len(subs)]
  BY DEF Total
<1> HIDE DEF F, g
<1> QED BY <1>3, <1>4, <1>5

\* what wraps is negative, so it is no total
LEMMA SumIsExact ==
    ASSUME NEW subs, SubOrders(subs), Len(subs) \in 1..2,
           \A i \in 1..Len(subs) : subs[i].amount > 0, Total(subs) > 0
    PROVE  Total(subs) = subs[1].amount + IF Len(subs) = 2 THEN subs[2].amount ELSE 0
<1>0. HalfRange \in Nat BY HalfRangeAssumption
<1>1. CASE Len(subs) = 1
  BY <1>0, <1>1, TotalOfOne DEF SubOrders, Amounts
<1>2. CASE Len(subs) = 2
  <2>1. subs[1].amount \in Amounts /\ subs[2].amount \in Amounts
    BY <1>2 DEF SubOrders
  <2>2. Total(subs) = Add(subs[1].amount, subs[2].amount)
    BY <1>2, <2>1, TotalOfTwo
  <2> QED BY <1>0, <1>2, <2>1, <2>2 DEF Amounts, Add
<1> QED BY <1>1, <1>2

-----------------------------------------------------------------------------
(* What a validator depends on.                                            *)

\* a validator reads the fields of its own type only, and of an identifier no
\* more than whether it is valid
LEMMA AcceptsOnFields ==
    ASSUME NEW op \in Ops, NEW r, NEW q, DOMAIN r = Fields(op), DOMAIN q = Fields(op),
           \A f \in Fields(op) \ {"rid"} : r[f] = q[f],
           op # "va" => q["rid"] = r["rid"] \/ ValidId(q["rid"]),
           Accepts(op, r)
    PROVE  Accepts(op, q)
<1>1. CASE op = "auth"
  BY <1>1 DEF Accepts, Fields, AuthRequest, validateAuthRequest
<1>2. CASE op = "capture"
  BY <1>2 DEF Accepts, Fields, CaptureRequest, validateCaptureRequest
<1>3. CASE op = "reAuth"
  BY <1>3 DEF Accepts, Fields, ReAuthRequest, validateReAuthRequest
<1>4. CASE op = "voidAuth"
  BY <1>4 DEF Accepts, Fields, VoidAuthRequest, validateVoidAuthRequest
<1>5. CASE op = "plan"
  BY <1>5 DEF Accepts, Fields, PaymentPlanRequest, validatePaymentPlanRequest, InferredPeriod
<1>6. CASE op = "precheck"
  BY <1>6 DEF Accepts, Fields, PaymentPreCheckRequest, validatePaymentPreCheckRequest,
              PreCheckShape, PreCheckAmounts, InferPeriod, InferredPeriod
<1>7. CASE op = "refund"
  BY <1>7 DEF Accepts, Fields, RefundParam, validateRefund
<1>8. CASE op = "repayment"
  BY <1>8 DEF Accepts, Fields, RepaymentParam, validateRepayment
<1>9. CASE op \in {"userTag", "information"}
  BY <1>9 DEF Accepts
<1>10. CASE op = "application"
  BY <1>10 DEF Accepts, Fields, CreditApplicationParam, validateCreditApplication
<1>11. CASE op = "change"
  BY <1>11 DEF Accepts, Fields, CreditApplicationChangeParam, validateCreditApplicationChange
<1>12. CASE op = "close"
  BY <1>12 DEF Accepts, Fields, CloseAccountParam, validateCloseAccount
<1>13. CASE op = "va"
  BY <1>13 DEF Accepts, Fields, VirtualAccountRequest, validateVirtualAccountRequest
<1> QED BY <1>1, <1>2, <1>3, <1>4, <1>5, <1>6, <1>7, <1>8, <1>9, <1>10, <1>11, <1>12, <1>13 DEF Ops

\* r under the partner's own identifier
Own(op, r) == IF op = "va" THEN r ELSE [r EXCEPT !.rid = OwnId]

LEMMA RidIsAField ==
    ASSUME NEW op \in Ops
    PROVE  op # "va" => "rid" \in Fields(op)
BY DEF Ops, Fields, AuthRequest, CaptureRequest, ReAuthRequest, VoidAuthRequest, PaymentPlanRequest,
       PaymentPreCheckRequest, RefundParam, RepaymentParam, QueryUserTagParam,
       CreditInformationParam, CreditApplicationParam, CreditApplicationChangeParam,
       CloseAccountParam

LEMMA OwnFields ==
    ASSUME NEW op \in Ops, NEW r, DOMAIN r = Fields(op)
    PROVE  /\ DOMAIN Own(op, r) = Fields(op)
           /\ \A f \in Fields(op) \ {"rid"} : Own(op, r)[f] = r[f]
           /\ op # "va" => Own(op, r)["rid"] = OwnId
BY RidIsAField DEF Own

LEMMA OwnIdIsValid == ValidId(OwnId)
BY DEF ValidId, OwnId, NoId, LongId

\* an identifier of the partner's own is never refused, and hides the one it
\* takes the place of
LEMMA OwnIdIsAccepted ==
    ASSUME NEW op \in Ops, NEW r, NEW q, DOMAIN r = Fields(op), DOMAIN q = Fields(op),
           \A f \in Fields(op) \ {"rid"} : r[f] = q[f],
           Accepts(op, r) \/ Accepts(op, Own(op, r))
    PROVE  Accepts(op, Own(op, q))
<1>1. /\ DOMAIN Own(op, q) = Fields(op)
      /\ \A f \in Fields(op) \ {"rid"} : Own(op, q)[f] = q[f]
      /\ op # "va" => Own(op, q)["rid"] = OwnId
  BY OwnFields
<1>2. /\ DOMAIN Own(op, r) = Fields(op)
      /\ \A f \in Fields(op) \ {"rid"} : Own(op, r)[f] = r[f]
  BY OwnFields
<1>3. CASE Accepts(op, r)
  BY <1>1, <1>3, AcceptsOnFields, OwnIdIsValid
<1>4. CASE Accepts(op, Own(op, r))
  BY <1>1, <1>2, <1>4, AcceptsOnFields, OwnIdIsValid
<1> QED BY <1>3, <1>4

\* a precheck that was accepted is accepted again with the tenor it inferred
LEMMA InferredIsAccepted ==
    ASSUME NEW r, DOMAIN r = Fields("precheck"), Accepts("precheck", r)
    PROVE  Accepts("precheck", InferPeriod(r))
<1> DEFINE q == [r EXCEPT !.period = InferredPeriod(r)]
<1>1. DOMAIN r = PaymentPreCheckRequest /\ "period" \in DOMAIN r
  BY DEF Fields, PaymentPreCheckRequest
<1>2. PreCheckShape(r) /\ InferPeriod(r) = q /\ PreCheckAmounts(q)
  BY DEF Accepts, validatePaymentPreCheckRequest, InferPeriod
<1>3. /\ DOMAIN q = DOMAIN r /\ q.period = InferredPeriod(r)
      /\ \A f \in DOMAIN r \ {"period"} : q[f] = r[f]
  BY <1>1
<1> HIDE DEF q
<1>4. PreCheckShape(q)
  BY <1>1, <1>2, <1>3 DEF PreCheckShape, PreCheckAmounts, PaymentPreCheckRequest
<1>5. InferredPeriod(q) = q.period
  BY <1>1, <1>3 DEF InferredPeriod, PaymentPreCheckRequest
<1>6. PreCheckAmounts(InferPeriod(q))
  BY <1>1, <1>2, <1>3, <1>4, <1>5 DEF InferPeriod, PreCheckAmounts, PaymentPreCheckRequest
<1> QED BY <1>2, <1>4, <1>6 DEF Accepts, validatePaymentPreCheckRequest

-----------------------------------------------------------------------------
(* Messages.                                                               *)

LEMMA HiddenOf ==
    /\ Hidden("auth") = {"session"}
    /\ Hidden("plan") = {"rid", "session", "period"}
    /\ Hidden("precheck") = {"rid", "period"}
    /\ \A op \in Ops \ {"auth", "plan", "precheck"} : Hidden(op) = {}
BY DEF Hidden, Ops

\* m is the message a call of operation op marshals from the struct r
MarshalledFrom(m, op, r) ==
    /\ m.op = op /\ m.body = MarshalSigning(op, r)
    /\ m.rest = [f \in Hidden(op) |-> r[f]]

\* no field of the struct is lost on the way into the body or beside it
LEMMA StructIsRead ==
    ASSUME NEW op \in Ops, NEW r, NEW m, DOMAIN r = Fields(op), MarshalledFrom(m, op, r)
    PROVE  DOMAIN StructOf(m) = Fields(op) /\ \A f \in Fields(op) : StructOf(m)[f] = r[f]
BY DEF MarshalledFrom, StructOf, MarshalSigning

LEMMA MessageIsAccepted ==
    ASSUME NEW op \in Ops, NEW r, NEW m, DOMAIN r = Fields(op), MarshalledFrom(m, op, r)
    PROVE  /\ Accepts(op, r) => Accepts(op, StructOf(m))
           /\ Accepts(op, Own(op, r)) => Accepts(op, Own(op, StructOf(m)))
<1> DEFINE q == StructOf(m)
<1>1. DOMAIN q = Fields(op) /\ \A f \in Fields(op) : q[f] = r[f]
  BY StructIsRead
<1> HIDE DEF q
<1>2. Accepts(op, r) => Accepts(op, q)
  BY <1>1, AcceptsOnFields, RidIsAField
<1>3. Accepts(op, Own(op, r)) => Accepts(op, Own(op, q))
  BY <1>1, OwnIdIsAccepted
<1> QED BY <1>2, <1>3 DEF q

-----------------------------------------------------------------------------
(* The stages of an order.                                                 *)

Order == {"uid", "total", "period", "subs", "orderType", "infos"}

LEMMA MirrorFields ==
    ASSUME NEW m, NEW op \in {"capture", "reAuth", "plan", "precheck"}
    PROVE  /\ \A f \in Fields(op) \cap Order : Mirror(m, op)[f] = m.body[f]
           /\ "rid" \in Fields(op) => Mirror(m, op)["rid"] = OwnId
           /\ "order" \in Fields(op) => Mirror(m, op)["order"] = "ok"
           /\ "mode" \in Fields(op) => Mirror(m, op)["mode"] = "ask"
           /\ \A f \in Fields(op) \cap {"sessionId", "session"} : Mirror(m, op)[f] = "empty"
           /\ DOMAIN Mirror(m, op) = Fields(op)
BY DEF Mirror, Order

\* the sub-orders and amounts of an auth satisfy the other stages
LEMMA AuthSubOrders ==
    ASSUME NEW r, validateAuthRequest(r), r.total \in Int, SubOrders(r.subs), r.period \in {1, 3}
    PROVE  /\ validateCaptureReAuthAmounts(r.period, subOrderAmounts(r.subs))
           /\ validatePlanSubOrders(r.orderType, r.subs)
           /\ validatePlanMainOrderExtendInfos(r.orderType, r.infos)
           /\ validateCheckoutAmounts(r.period, r.total, planSubOrderAmounts(r.subs))
           /\ validateCheckoutAmounts(r.period, r.total, setPlanSubOrderAmounts(r.subs))
           /\ r.orderType \in {"GRAB_FOOD", "TRANSPORT"} => Len(r.subs) <= 1
<1>0. HalfRange \in Nat BY HalfRangeAssumption
<1>1. \A a \in subOrderAmounts(r.subs) : a \in Int
  BY <1>0 DEF subOrderAmounts, SubOrders, Amounts
<1>2. validateCheckoutAmounts(r.period, r.total, subOrderAmounts(r.subs))
  BY DEF validateAuthRequest
<1>3. validateCaptureReAuthAmounts(r.period, subOrderAmounts(r.subs))
  BY <1>1, <1>2 DEF validateCaptureReAuthAmounts, validateCheckoutAmounts
<1>4. /\ IsValidOrderType(r.orderType)
      /\ validateAuthCaptureSubOrders(r.orderType, r.subs)
      /\ validateAuthCaptureMainOrderExtendInfos(r.orderType, r.infos)
  BY DEF validateAuthRequest
<1>5. validatePlanSubOrders(r.orderType, r.subs)
  BY <1>4 DEF validatePlanSubOrders, validateAuthCaptureSubOrders, validateFoodMartAuthSubOrder,
              IsValidOrderType
<1>6. validatePlanMainOrderExtendInfos(r.orderType, r.infos)
  BY <1>4 DEF validatePlanMainOrderExtendInfos, validateAuthCaptureMainOrderExtendInfos
<1>7. planSubOrderAmounts(r.subs) = subOrderAmounts(r.subs)
  BY DEF planSubOrderAmounts, subOrderAmounts
<1>8. validateCheckoutAmounts(r.period, r.total, setPlanSubOrderAmounts(r.subs))
  BY <1>2, <1>7 DEF validateCheckoutAmounts, setPlanSubOrderAmounts
<1>9. r.orderType \in {"GRAB_FOOD", "TRANSPORT"} => Len(r.subs) <= 1
  <2>1. r.orderType \in {"GRAB_FOOD", "TRANSPORT"} => Len(r.subs) = 1
    BY <1>4, Zenon DEF validateAuthCaptureSubOrders
  <2> QED BY <2>1 DEF SubOrders
<1> QED BY <1>2, <1>3, <1>5, <1>6, <1>7, <1>8, <1>9

LEMMA StagesFollow ==
    ASSUME NEW m, NEW r, validateAuthRequest(r), r.total \in Int, SubOrders(r.subs),
           r.period \in {1, 3}, \A f \in Order : m.body[f] = r[f]
    PROVE  /\ (\A i \in 1..Len(m.body["subs"]) : m.body["subs"][i].merchantName # "empty")
                    => validateCaptureRequest(Mirror(m, "capture"))
           /\ m.body["uid"] = "ok" => validateReAuthRequest(Mirror(m, "reAuth"))
           /\ validatePaymentPlanRequest(Mirror(m, "plan"))
           /\ validatePaymentPreCheckRequest(Mirror(m, "precheck"))
<1>1. /\ ValidId(OwnId) /\ r.uid # "empty" /\ r.total > 0
      /\ IsValidOrderType(r.orderType)
      /\ validateAuthCaptureSubOrders(r.orderType, r.subs)
      /\ sumSubOrderAmount(r.subs) = r.total
      /\ validateAuthCaptureMainOrderExtendInfos(r.orderType, r.infos)
  BY OwnIdIsValid DEF validateAuthRequest
<1>2. /\ validateCaptureReAuthAmounts(r.period, subOrderAmounts(r.subs))
      /\ validatePlanSubOrders(r.orderType, r.subs)
      /\ validatePlanMainOrderExtendInfos(r.orderType, r.infos)
      /\ validateCheckoutAmounts(r.period, r.total, planSubOrderAmounts(r.subs))
      /\ validateCheckoutAmounts(r.period, r.total, setPlanSubOrderAmounts(r.subs))
      /\ r.orderType \in {"GRAB_FOOD", "TRANSPORT"} => Len(r.subs) <= 1
  BY AuthSubOrders
<1>3. sumPlanSubOrderAmount(r.subs) = r.total
  BY <1>1 DEF sumPlanSubOrderAmount, sumSubOrderAmount
<1>4. ASSUME \A i \in 1..Len(m.body["subs"]) : m.body["subs"][i].merchantName # "empty"
      PROVE  validateCaptureRequest(Mirror(m, "capture"))
  <2> DEFINE q == Mirror(m, "capture")
  <2> HIDE DEF q
  <2>1. /\ \A f \in CaptureRequest \cap Order : q[f] = r[f]
        /\ "rid" \in CaptureRequest => q["rid"] = OwnId
        /\ "order" \in CaptureRequest => q["order"] = "ok"
    <3>1. \A f \in Fields("capture") \cap Order : q[f] = m.body[f]
      BY MirrorFields DEF q
    <3>2. Fields("capture") = CaptureRequest BY DEF Fields
    <3> QED BY <3>1, <3>2, MirrorFields DEF q
  <2>2. /\ q.uid = r.uid /\ q.total = r.total /\ q.period = r.period /\ q.subs = r.subs
        /\ q.orderType = r.orderType /\ q.infos = r.infos /\ q.rid = OwnId /\ q.order = "ok"
    BY <2>1 DEF CaptureRequest, Order
  <2>3. \A i \in 1..Len(r.subs) : r.subs[i].merchantName # "empty"
    BY <1>4 DEF Order
  <2>4. validateCaptureRequest(q)
    BY <1>1, <1>2, <2>2, <2>3 DEF validateCaptureRequest, validateCaptureSubOrders
  <2> QED BY <2>4 DEF q
<1>5. ASSUME m.body["uid"] = "ok" PROVE validateReAuthRequest(Mirror(m, "reAuth"))
  <2> DEFINE q == Mirror(m, "reAuth")
  <2> HIDE DEF q
  <2>1. /\ \A f \in ReAuthRequest \cap Order : q[f] = r[f]
        /\ "rid" \in ReAuthRequest => q["rid"] = OwnId
        /\ "order" \in ReAuthRequest => q["order"] = "ok"
    <3>1. \A f \in Fields("reAuth") \cap Order : q[f] = m.body[f]
      BY MirrorFields DEF q
    <3>2. Fields("reAuth") = ReAuthRequest BY DEF Fields
    <3> QED BY <3>1, <3>2, MirrorFields DEF q
  <2>2. /\ q.uid = "ok" /\ q.total = r.total /\ q.period = r.period /\ q.subs = r.subs
        /\ q.orderType = r.orderType /\ q.infos = r.infos /\ q.rid = OwnId /\ q.order = "ok"
    BY <1>5, <2>1 DEF ReAuthRequest, Order
  <2>3. validateReAuthRequest(q)
    BY <1>1, <1>2, <2>2 DEF validateReAuthRequest
  <2> QED BY <2>3 DEF q
<1>6. validatePaymentPlanRequest(Mirror(m, "plan"))
  <2> DEFINE q == Mirror(m, "plan")
  <2> HIDE DEF q
  <2>1. /\ \A f \in PaymentPlanRequest \cap Order : q[f] = r[f]
        /\ "rid" \in PaymentPlanRequest => q["rid"] = OwnId
        /\ "mode" \in PaymentPlanRequest => q["mode"] = "ask"
        /\ \A f \in PaymentPlanRequest \cap {"sessionId", "session"} : q[f] = "empty"
    <3>1. \A f \in Fields("plan") \cap Order : q[f] = m.body[f]
      BY MirrorFields DEF q
    <3>2. Fields("plan") = PaymentPlanRequest BY DEF Fields
    <3> QED BY <3>1, <3>2, MirrorFields, ZenonT(60) DEF q
  <2>2. /\ q.uid = r.uid /\ q.total = r.total /\ q.period = r.period /\ q.subs = r.subs
        /\ q.orderType = r.orderType /\ q.infos = r.infos /\ q.rid = OwnId /\ q.mode = "ask"
        /\ q.sessionId = "empty" /\ q.session = "empty"
    BY <2>1 DEF PaymentPlanRequest, Order
  <2>3. InferredPeriod(q) = r.period BY <2>2 DEF InferredPeriod
  <2>4. validatePaymentPlanRequest(q)
    BY <1>1, <1>2, <1>3, <2>2, <2>3 DEF validatePaymentPlanRequest, IsValidMode
  <2> QED BY <2>4 DEF q
<1>7. validatePaymentPreCheckRequest(Mirror(m, "precheck"))
  <2> DEFINE q == Mirror(m, "precheck")
  <2> HIDE DEF q
  <2>1. /\ \A f \in PaymentPreCheckRequest \cap Order : q[f] = r[f]
        /\ DOMAIN q = PaymentPreCheckRequest
    <3>1. \A f \in Fields("precheck") \cap Order : q[f] = m.body[f]
      BY MirrorFields DEF q
    <3>2. Fields("precheck") = PaymentPreCheckRequest BY DEF Fields
    <3> QED BY <3>1, <3>2, MirrorFields DEF q
  <2>2. /\ q.uid = r.uid /\ q.total = r.total /\ q.period = r.period /\ q.subs = r.subs
        /\ q.orderType = r.orderType /\ DOMAIN q = PaymentPreCheckRequest
    BY <2>1 DEF PaymentPreCheckRequest, Order
  <2>3. InferredPeriod(q) = r.period BY <2>2 DEF InferredPeriod
  <2>4. PreCheckShape(q)
    BY <1>1, <1>2, <2>2 DEF PreCheckShape
  <2>5. /\ InferPeriod(q).period = r.period /\ InferPeriod(q).total = r.total
        /\ InferPeriod(q).subs = r.subs
    BY <2>2, <2>3 DEF InferPeriod, PaymentPreCheckRequest
  <2>6. PreCheckAmounts(InferPeriod(q))
    BY <1>2, <1>3, <2>5 DEF PreCheckAmounts
  <2> QED BY <2>4, <2>6 DEF validatePaymentPreCheckRequest, q
<1> QED BY <1>4, <1>5, <1>6, <1>7

-----------------------------------------------------------------------------
(* The inductive invariant.                                                *)

\* r passes the validator, under an identifier of its own where the struct s
\* is in shared
Passes(op, r, s, shared) == Accepts(op, IF s \in shared THEN Own(op, r) ELSE r)

\* a body ready to be sent, or sent
Sound(m, shared) ==
    /\ m.op \in Ops
    /\ DOMAIN m.body = Fields(m.op) \ Hidden(m.op) /\ DOMAIN m.rest = Hidden(m.op)
    /\ AmountsTyped(m.body)
    /\ Passes(m.op, StructOf(m), m.s, shared)

CallFields == {"pc", "n", "s", "op", "loop", "wrapped", "round", "body", "rest", "outcome"}
Polled == {"auth", "capture", "refund", "repayment"}

TInv ==
    /\ DOMAIN type = Structs /\ DOMAIN heap = Structs /\ DOMAIN call = Callers
    /\ \A s \in Structs :
          type[s] \in Ops /\ DOMAIN heap[s] = Fields(type[s]) /\ AmountsTyped(heap[s])
    /\ \A c \in Callers : DOMAIN call[c] = CallFields

\* a call works on a struct of its type; only orders are polled, and only
\* requests with an identifier look for it
CInv ==
    \A c \in Callers : Working(c) =>
        /\ call[c].s \in Structs /\ type[call[c].s] = call[c].op
        /\ call[c].loop = "poll" => call[c].op \in Polled
        /\ call[c].pc \in {"read", "mint"} => call[c].op # "va"

\* two calls never work on one struct unnoticed
OInv ==
    \A c, d \in Callers :
        c # d /\ Working(c) /\ Working(d) /\ call[c].s = call[d].s => call[c].s \in overlapped

\* what was validated still passes when it is marshalled, and when it is sent
MInv ==
    \A c \in Callers :
        call[c].pc = "marshal" => Passes(call[c].op, heap[call[c].s], call[c].s, overlapped)

SInv == \A c \in Callers : call[c].pc = "send" => Sound(call[c], overlapped)

WInv == \A m \in wire : Sound(m, overlapped)

IInv == TInv /\ CInv /\ OInv /\ MInv /\ SInv /\ WInv

LEMMA PassesMonotone ==
    ASSUME NEW op \in Ops, NEW r, NEW s, NEW shared, NEW more, DOMAIN r = Fields(op),
           shared \subseteq more, Passes(op, r, s, shared)
    PROVE  Passes(op, r, s, more)
BY OwnIdIsAccepted DEF Passes

LEMMA SoundMonotone ==
    ASSUME NEW m, NEW shared, NEW more, shared \subseteq more, Sound(m, shared)
    PROVE  Sound(m, more)
<1>1. DOMAIN StructOf(m) = Fields(m.op) BY DEF StructOf
<1> QED BY <1>1, PassesMonotone DEF Sound

LEMMA IdleFields ==
    /\ DOMAIN Idle = CallFields
    /\ Idle.pc = "idle" /\ Idle.loop = "once" /\ Idle.n = 0 /\ Idle.s = "none"
BY DEF Idle, CallFields

\* a step of one call that touches neither struct nor wire, and neither has a
\* request validated nor marshalled
LEMMA ControlKeeps ==
    ASSUME IInv, NEW c \in Callers, UNCHANGED <<type, heap, wire, overlapped>>,
           DOMAIN call' = Callers, \A d \in Callers \ {c} : call'[d] = call[d],
           DOMAIN call'[c] = CallFields, call'[c].pc \notin {"marshal", "send"},
           call'[c].pc \notin {"idle", "done"} =>
                /\ Working(c) /\ call'[c].s = call[c].s /\ call'[c].op = call[c].op
                /\ call'[c].loop = call[c].loop,
           call'[c].pc \in {"read", "mint"} => call[c].op # "va"
    PROVE  IInv'
<1>1. TInv' BY DEF IInv, TInv
<1>2. CInv' BY DEF IInv, CInv, Working
<1>3. OInv' BY DEF IInv, OInv, Working
<1>4. MInv' BY DEF IInv, MInv
<1>5. SInv' BY DEF IInv, SInv
<1>6. WInv' BY DEF IInv, WInv
<1> QED BY <1>1, <1>2, <1>3, <1>4, <1>5, <1>6 DEF IInv

LEMMA InitIsSound == Init => IInv
<1> SUFFICES ASSUME Init PROVE IInv OBVIOUS
<1>1. TInv
  <2>1. DOMAIN type = Structs /\ DOMAIN heap = Structs /\ DOMAIN call = Callers
    BY DEF Init
  <2>2. ASSUME NEW s \in Structs
        PROVE  type[s] \in DOMAIN Drafts /\ heap[s] \in Drafts[type[s]]
    BY DEF Init
  <2>3. \A c \in Callers : DOMAIN call[c] = CallFields
    BY IdleFields DEF Init
  <2> QED BY <2>1, <2>2, <2>3, DraftsAssumption DEF TInv
<1>2. \A c \in Callers : call[c].pc = "idle" BY IdleFields DEF Init
<1>3. wire = {} BY DEF Init
<1> QED BY <1>1, <1>2, <1>3 DEF IInv, CInv, OInv, MInv, SInv, WInv, Working

LEMMA EditIsSound ==
    ASSUME IInv, NEW s \in Structs, NEW f \in Fields(type[s]), NEW v \in Choices[f], Edit(s, f, v)
    PROVE  IInv'
<1> USE DEF Edit
<1>1. \A c \in Callers : ~(Working(c) /\ call[c].s = s)
  BY DEF Busy
<1>2. \A c \in Callers : call'[c] = IF call[c].s = s /\ call[c].pc = "done" THEN Idle ELSE call[c]
  BY DEF Collect
<1>3. \A c \in Callers : call'[c].pc \notin {"idle", "done"} => Working(c) /\ call'[c] = call[c]
  BY <1>2, IdleFields DEF Working
<1>4. TInv'
  <2>1. DOMAIN type' = Structs /\ DOMAIN heap' = Structs /\ DOMAIN call' = Callers
    BY DEF IInv, TInv, Collect
  <2>2. \A c \in Callers : DOMAIN call'[c] = CallFields
    BY <1>2, IdleFields DEF IInv, TInv
  <2>3. ASSUME NEW t \in Structs
        PROVE  type'[t] \in Ops /\ DOMAIN heap'[t] = Fields(type'[t]) /\ AmountsTyped(heap'[t])
    <3>1. CASE t # s BY <3>1 DEF IInv, TInv
    <3>2. CASE t = s
      <4>1. /\ DOMAIN heap'[t] = Fields(type'[t]) /\ type'[t] \in Ops
            /\ heap'[t][f] = v /\ \A g \in DOMAIN heap[t] \ {f} : heap'[t][g] = heap[t][g]
        BY <3>2 DEF IInv, TInv
      <4>2. AmountsTyped(heap[t]) /\ DOMAIN heap[t] = DOMAIN heap'[t]
        BY <4>1 DEF IInv, TInv
      <4>3. AmountsTyped(heap'[t])
        BY <4>1, <4>2, ChoicesAssumption DEF AmountsTyped
      <4> QED BY <4>1, <4>3
    <3> QED BY <3>1, <3>2
  <2> QED BY <2>1, <2>2, <2>3 DEF TInv
<1>5. CInv' BY <1>3 DEF IInv, CInv, Working
<1>6. OInv' BY <1>3 DEF IInv, OInv, Working
<1>7. MInv'
  <2> SUFFICES ASSUME NEW c \in Callers, call'[c].pc = "marshal"
               PROVE  Passes(call'[c].op, heap'[call'[c].s], call'[c].s, overlapped')
    BY DEF MInv
  <2>1. Working(c) /\ call'[c] = call[c] BY <1>3
  <2>2. call[c].s # s /\ call[c].s \in Structs BY <1>1, <2>1 DEF IInv, CInv
  <2>3. heap'[call[c].s] = heap[call[c].s] BY <2>2 DEF IInv, TInv
  <2> QED BY <2>1, <2>3 DEF IInv, MInv
<1>8. SInv' BY <1>3 DEF IInv, SInv
<1>9. WInv' BY DEF IInv, WInv
<1> QED BY <1>4, <1>5, <1>6, <1>7, <1>8, <1>9 DEF IInv

LEMMA SubmitIsSound ==
    ASSUME IInv, NEW c \in Callers, NEW s \in Structs, NEW op, NEW loop, Submit(c, s, op, loop),
           loop = "poll" => op \in Polled
    PROVE  IInv'
<1> USE DEF Submit
<1>1. \A d \in Callers \ {c} :
          call'[d] = IF call[d].s = s /\ call[d].pc = "done" THEN Idle ELSE call[d]
  BY DEF Collect
<1>2. \A d \in Callers \ {c} :
          call'[d].pc \notin {"idle", "done"} => Working(d) /\ call'[d] = call[d]
  BY <1>1, IdleFields DEF Working
<1>3. /\ DOMAIN call'[c] = CallFields /\ call'[c].s = s /\ call'[c].op = op
      /\ call'[c].loop = loop /\ call'[c].pc = IF op = "va" THEN "check" ELSE "read"
  BY IdleFields DEF Collect, CallFields
<1>4. overlapped \subseteq overlapped' /\ (Busy(s) => s \in overlapped')
  OBVIOUS
<1>5. TInv'
  <2>1. \A d \in Callers : DOMAIN call'[d] = CallFields
    BY <1>1, <1>3, IdleFields DEF IInv, TInv
  <2> QED BY <2>1 DEF IInv, TInv, Collect
<1>6. CInv' BY <1>2, <1>3 DEF IInv, CInv, Working
<1>7. OInv'
  <2> SUFFICES ASSUME NEW d \in Callers, NEW e \in Callers, d # e,
                      call'[d].pc \notin {"idle", "done"}, call'[e].pc \notin {"idle", "done"},
                      call'[d].s = call'[e].s
               PROVE  call'[d].s \in overlapped'
    BY DEF OInv, Working
  <2>1. CASE d = c BY <2>1, <1>2, <1>3, <1>4 DEF Busy
  <2>2. CASE e = c BY <2>2, <1>2, <1>3, <1>4 DEF Busy
  <2>3. CASE d # c /\ e # c BY <2>3, <1>2, <1>4 DEF IInv, OInv
  <2> QED BY <2>1, <2>2, <2>3
<1>8. MInv'
  <2> SUFFICES ASSUME NEW d \in Callers, call'[d].pc = "marshal"
               PROVE  Passes(call'[d].op, heap'[call'[d].s], call'[d].s, overlapped')
    BY DEF MInv
  <2>1. d # c /\ Working(d) /\ call'[d] = call[d] BY <1>2, <1>3
  <2>2. Passes(call[d].op, heap[call[d].s], call[d].s, overlapped)
    BY <2>1 DEF IInv, MInv
  <2>3. /\ call[d].op \in Ops /\ DOMAIN heap[call[d].s] = Fields(call[d].op)
    BY <2>1 DEF IInv, CInv, TInv
  <2> QED BY <1>4, <2>1, <2>2, <2>3, PassesMonotone
<1>9. SInv'
  <2> SUFFICES ASSUME NEW d \in Callers, call'[d].pc = "send"
               PROVE  Sound(call'[d], overlapped')
    BY DEF SInv
  <2>1. d # c /\ call'[d] = call[d] BY <1>2, <1>3
  <2> QED BY <1>4, <2>1, SoundMonotone DEF IInv, SInv
<1>10. WInv' BY <1>4, SoundMonotone DEF IInv, WInv
<1> QED BY <1>5, <1>6, <1>7, <1>8, <1>9, <1>10 DEF IInv

LEMMA ControlStepIsSound ==
    ASSUME IInv, NEW c \in Callers,
           checkConfigured(c) \/ ReadId(c) \/ Unanswered(c) \/ Answered(c)
    PROVE  IInv'
<1>0. DOMAIN call = Callers /\ DOMAIN call[c] = CallFields BY DEF IInv, TInv
<1>1. CASE checkConfigured(c)
  <2>1. UNCHANGED <<type, heap, wire, overlapped>> BY <1>1 DEF checkConfigured, ghosts
  <2>2. DOMAIN call' = Callers /\ \A d \in Callers \ {c} : call'[d] = call[d]
    BY <1>0, <1>1 DEF checkConfigured
  <2>3. DOMAIN call'[c] = CallFields /\ call'[c].pc = "done"
    BY <1>0, <1>1, IdleFields DEF checkConfigured, CallFields
  <2> QED BY <2>1, <2>2, <2>3, ControlKeeps
<1>2. CASE ReadId(c)
  <2>1. UNCHANGED <<type, heap, wire, overlapped>> BY <1>2 DEF ReadId, ghosts
  <2>2. DOMAIN call' = Callers /\ \A d \in Callers \ {c} : call'[d] = call[d]
    BY <1>0, <1>2 DEF ReadId
  <2>3. Working(c) /\ call[c].op # "va"
    BY <1>2 DEF ReadId, Working, IInv, CInv
  <2>4. /\ DOMAIN call'[c] = CallFields /\ call'[c].pc \in {"mint", "read", "check"}
        /\ call'[c].s = call[c].s /\ call'[c].op = call[c].op /\ call'[c].loop = call[c].loop
    BY <1>0, <1>2 DEF ReadId, AfterId, CallFields
  <2> QED BY <2>1, <2>2, <2>3, <2>4, ControlKeeps
<1>3. CASE Unanswered(c)
  <2>1. UNCHANGED <<type, heap, wire, overlapped>> BY <1>3 DEF Unanswered, ghosts
  <2>2. DOMAIN call' = Callers /\ \A d \in Callers \ {c} : call'[d] = call[d]
    BY <1>0, <1>3 DEF Unanswered, Return
  <2>3. DOMAIN call'[c] = CallFields /\ call'[c].pc = "done"
    BY <1>0, <1>3 DEF Unanswered, Return, CallFields
  <2> QED BY <2>1, <2>2, <2>3, ControlKeeps
<1>4. CASE Answered(c)
  <2>1. UNCHANGED <<type, heap, wire, overlapped>> BY <1>4 DEF Answered, ghosts
  <2>2. DOMAIN call' = Callers /\ \A d \in Callers \ {c} : call'[d] = call[d]
    BY <1>0, <1>4 DEF Answered, Return
  <2>3. Working(c) BY <1>4 DEF Answered, Working
  <2>4. /\ DOMAIN call'[c] = CallFields /\ call'[c].pc \in {"read", "done"}
        /\ call'[c].s = call[c].s /\ call'[c].op = call[c].op /\ call'[c].loop = call[c].loop
    BY <1>0, <1>4 DEF Answered, Return, CallFields
  <2>5. call'[c].pc = "read" => call[c].loop = "poll"
    BY <1>0, <1>4 DEF Answered, Return, CallFields
  <2>6. call'[c].pc = "read" => call[c].op # "va"
    BY <2>3, <2>5 DEF IInv, CInv, Polled
  <2> QED BY <2>1, <2>2, <2>3, <2>4, <2>6, ControlKeeps
<1> QED BY <1>1, <1>2, <1>3, <1>4

\* a fresh identifier in a struct that another call has already validated: the
\* two overlap, so that call answers for its other fields only
LEMMA MintIsSound ==
    ASSUME IInv, NEW c \in Callers, NewRequestID(c)
    PROVE  IInv'
<1> DEFINE s == call[c].s
<1>0. /\ DOMAIN call = Callers /\ DOMAIN heap = Structs /\ \A d \in Callers : DOMAIN call[d] = CallFields
      /\ Working(c) /\ s \in Structs /\ type[s] = call[c].op /\ call[c].op # "va" /\ type[s] \in Ops
      /\ DOMAIN heap[s] = Fields(type[s])
  BY DEF IInv, TInv, CInv, NewRequestID, Working
<1>1. UNCHANGED <<type, wire, overlapped>> BY DEF NewRequestID, ghosts
<1>2. /\ DOMAIN call' = Callers /\ \A d \in Callers \ {c} : call'[d] = call[d]
      /\ DOMAIN call'[c] = CallFields /\ call'[c].pc \in {"read", "check"}
      /\ call'[c].s = s /\ call'[c].op = call[c].op /\ call'[c].loop = call[c].loop
  BY <1>0 DEF NewRequestID, AfterId, CallFields
<1>3. /\ DOMAIN heap' = Structs /\ \A t \in Structs \ {s} : heap'[t] = heap[t]
      /\ DOMAIN heap'[s] = Fields(type[s]) /\ \A f \in Fields(type[s]) \ {"rid"} : heap'[s][f] = heap[s][f]
  BY <1>0 DEF NewRequestID
<1> HIDE DEF s
<1>4. TInv'
  <2>1. AmountsTyped(heap'[s])
    <3>1. AmountsTyped(heap[s]) BY <1>0 DEF IInv, TInv
    <3> QED BY <1>0, <1>3, <3>1 DEF AmountsTyped
  <2> QED BY <1>0, <1>1, <1>2, <1>3, <2>1 DEF IInv, TInv
<1>5. CInv' BY <1>0, <1>1, <1>2 DEF IInv, CInv, Working, s
<1>6. OInv' BY <1>0, <1>1, <1>2 DEF IInv, OInv, Working, s
<1>7. MInv'
  <2> SUFFICES ASSUME NEW d \in Callers, call'[d].pc = "marshal"
               PROVE  Passes(call'[d].op, heap'[call'[d].s], call'[d].s, overlapped')
    BY DEF MInv
  <2>1. d # c /\ call'[d] = call[d] /\ Working(d) BY <1>2 DEF Working
  <2>2. /\ Passes(call[d].op, heap[call[d].s], call[d].s, overlapped)
        /\ call[d].s \in Structs /\ call[d].op = type[call[d].s]
    BY <2>1 DEF IInv, MInv, CInv
  <2>3. CASE call[d].s # s BY <1>1, <1>3, <2>1, <2>2, <2>3
  <2>4. CASE call[d].s = s
    <3>1. s \in overlapped BY <1>0, <2>1, <2>4 DEF IInv, OInv, s
    <3>2. Accepts(type[s], Own(type[s], heap[s])) BY <2>2, <2>4, <3>1 DEF Passes
    <3>3. Accepts(type[s], Own(type[s], heap'[s])) BY <1>0, <1>3, <3>2, OwnIdIsAccepted
    <3> QED BY <1>1, <2>1, <2>2, <2>4, <3>1, <3>3 DEF Passes
  <2> QED BY <2>3, <2>4
<1>8. SInv' BY <1>1, <1>2 DEF IInv, SInv
<1>9. WInv' BY <1>1 DEF IInv, WInv
<1> QED BY <1>4, <1>5, <1>6, <1>7, <1>8, <1>9 DEF IInv

\* a validator never takes back what it, or that of another call, has accepted
LEMMA InferredPasses ==
    ASSUME NEW r, NEW s, NEW shared, DOMAIN r = Fields("precheck"), Passes("precheck", r, s, shared)
    PROVE  Passes("precheck", InferPeriod(r), s, shared)
<1>1. "precheck" \in Ops BY DEF Ops
<1>2. DOMAIN InferPeriod(r) = Fields("precheck") BY DEF InferPeriod
<1>3. CASE s \notin shared BY <1>3, InferredIsAccepted DEF Passes
<1>4. CASE s \in shared
  <2>1. /\ DOMAIN Own("precheck", r) = Fields("precheck")
        /\ \A f \in Fields("precheck") \ {"rid"} : Own("precheck", r)[f] = r[f]
    BY <1>1, OwnFields
  <2>2. Accepts("precheck", r)
    <3>1. Accepts("precheck", Own("precheck", r)) BY <1>4 DEF Passes
    <3> QED BY <2>1, <3>1
         DEF Accepts, Fields, PaymentPreCheckRequest, validatePaymentPreCheckRequest,
             PreCheckShape, PreCheckAmounts, InferPeriod, InferredPeriod
  <2>3. Accepts("precheck", InferPeriod(r)) BY <2>2, InferredIsAccepted
  <2>4. Accepts("precheck", Own("precheck", InferPeriod(r)))
    BY <1>1, <1>2, <2>3, OwnIdIsAccepted
  <2> QED BY <1>4, <2>4 DEF Passes
<1> QED BY <1>3, <1>4

LEMMA InferKeepsTypes ==
    ASSUME NEW r, DOMAIN r = Fields("precheck"), AmountsTyped(r)
    PROVE  DOMAIN InferPeriod(r) = Fields("precheck") /\ AmountsTyped(InferPeriod(r))
<1>1. /\ DOMAIN InferPeriod(r) = DOMAIN r
      /\ \A f \in DOMAIN r \ {"period"} : InferPeriod(r)[f] = r[f]
  BY DEF InferPeriod
<1> QED BY <1>1 DEF AmountsTyped

LEMMA CheckIsSound ==
    ASSUME IInv, NEW c \in Callers, Check(c)
    PROVE  IInv'
<1> DEFINE s == call[c].s
           Left(t) == IF t = s /\ type[s] = "precheck" THEN InferPeriod(heap[t]) ELSE heap[t]
<1>0. /\ DOMAIN call = Callers /\ DOMAIN heap = Structs /\ \A d \in Callers : DOMAIN call[d] = CallFields
      /\ Working(c) /\ s \in Structs /\ type[s] = call[c].op /\ type[s] \in Ops
  BY DEF IInv, TInv, CInv, Check, Working
<1>1. UNCHANGED <<type, wire, overlapped>> BY DEF Check, ghosts
<1>2. /\ DOMAIN call' = Callers /\ \A d \in Callers \ {c} : call'[d] = call[d]
      /\ DOMAIN call'[c] = CallFields /\ call'[c].pc \in {"marshal", "done"}
      /\ call'[c].s = s /\ call'[c].op = call[c].op /\ call'[c].loop = call[c].loop
      /\ call'[c].pc = "marshal" => Accepts(type[s], heap[s])
  BY <1>0 DEF Check, Return, CallFields
<1>3. DOMAIN heap' = Structs /\ \A t \in Structs : heap'[t] = Left(t)
  BY <1>0 DEF Check
<1> HIDE DEF s
<1>4. ASSUME NEW t \in Structs
      PROVE  DOMAIN heap'[t] = Fields(type[t]) /\ AmountsTyped(heap'[t])
  <2>1. DOMAIN heap[t] = Fields(type[t]) /\ AmountsTyped(heap[t]) BY DEF IInv, TInv
  <2>2. CASE t = s /\ type[s] = "precheck" BY <1>3, <2>1, <2>2, InferKeepsTypes
  <2>3. CASE ~(t = s /\ type[s] = "precheck") BY <1>3, <2>1, <2>3
  <2> QED BY <2>2, <2>3
<1>5. ASSUME NEW t \in Structs, Passes(type[t], heap[t], t, overlapped)
      PROVE  Passes(type[t], heap'[t], t, overlapped)
  <2>1. DOMAIN heap[t] = Fields(type[t]) BY DEF IInv, TInv
  <2>2. CASE t = s /\ type[s] = "precheck" BY <1>3, <1>5, <2>1, <2>2, InferredPasses
  <2>3. CASE ~(t = s /\ type[s] = "precheck") BY <1>3, <1>5, <2>3
  <2> QED BY <2>2, <2>3
<1>6. Accepts(type[s], heap[s]) => Passes(type[s], heap[s], s, overlapped)
  <2>1. DOMAIN heap[s] = Fields(type[s]) BY <1>0 DEF IInv, TInv
  <2> QED BY <1>0, <2>1, OwnIdIsAccepted DEF Passes
<1> HIDE DEF Left
<1>7. TInv' BY <1>0, <1>1, <1>2, <1>3, <1>4 DEF IInv, TInv
<1>8. CInv' BY <1>0, <1>1, <1>2 DEF IInv, CInv, Working, s
<1>9. OInv' BY <1>0, <1>1, <1>2 DEF IInv, OInv, Working, s
<1>10. MInv'
  <2> SUFFICES ASSUME NEW d \in Callers, call'[d].pc = "marshal"
               PROVE  Passes(call'[d].op, heap'[call'[d].s], call'[d].s, overlapped')
    BY DEF MInv
  <2>1. CASE d = c
    <3>1. Passes(type[s], heap'[s], s, overlapped) BY <1>0, <1>2, <1>5, <1>6, <2>1
    <3> QED BY <1>0, <1>1, <1>2, <2>1, <3>1
  <2>2. CASE d # c
    <3>1. call'[d] = call[d] /\ Working(d) BY <1>2, <2>2 DEF Working
    <3>2. /\ call[d].s \in Structs /\ call[d].op = type[call[d].s]
          /\ Passes(call[d].op, heap[call[d].s], call[d].s, overlapped)
      BY <3>1 DEF IInv, CInv, MInv
    <3> QED BY <1>1, <1>5, <3>1, <3>2
  <2> QED BY <2>1, <2>2
<1>11. SInv' BY <1>1, <1>2 DEF IInv, SInv
<1>12. WInv' BY <1>1 DEF IInv, WInv
<1> QED BY <1>7, <1>8, <1>9, <1>10, <1>11, <1>12 DEF IInv

LEMMA MarshalIsSound ==
    ASSUME IInv, NEW c \in Callers, Marshal(c)
    PROVE  IInv'
<1> DEFINE s == call[c].s
<1>0. /\ DOMAIN call = Callers /\ \A d \in Callers : DOMAIN call[d] = CallFields
      /\ Working(c) /\ s \in Structs /\ type[s] = call[c].op /\ type[s] \in Ops
      /\ DOMAIN heap[s] = Fields(type[s]) /\ AmountsTyped(heap[s])
  BY DEF IInv, TInv, CInv, Marshal, Working
<1>1. UNCHANGED <<type, heap, wire, overlapped>> BY DEF Marshal, ghosts
<1>2. /\ DOMAIN call' = Callers /\ \A d \in Callers \ {c} : call'[d] = call[d]
      /\ DOMAIN call'[c] = CallFields /\ call'[c].pc \in {"send", "done"}
      /\ call'[c].s = s /\ call'[c].op = call[c].op /\ call'[c].loop = call[c].loop
  BY <1>0 DEF Marshal, Return, CallFields
<1>3. call'[c].pc = "send" =>
          /\ call'[c].body = MarshalSigning(type[s], heap[s])
          /\ call'[c].rest = [f \in Hidden(type[s]) |-> heap[s][f]]
  BY <1>0 DEF Marshal, Return, CallFields
<1>4. Passes(type[s], heap[s], s, overlapped) BY <1>0 DEF Marshal, IInv, MInv
<1> HIDE DEF s
<1>5. ASSUME call'[c].pc = "send" PROVE Sound(call'[c], overlapped)
  <2>1. MarshalledFrom(call'[c], type[s], heap[s]) BY <1>0, <1>2, <1>3, <1>5 DEF MarshalledFrom
  <2>2. /\ DOMAIN call'[c].body = Fields(type[s]) \ Hidden(type[s])
        /\ DOMAIN call'[c].rest = Hidden(type[s])
        /\ \A f \in DOMAIN call'[c].body : call'[c].body[f] = heap[s][f] /\ f \in DOMAIN heap[s]
    BY <1>0, <1>3, <1>5 DEF MarshalSigning
  <2>3. AmountsTyped(call'[c].body) BY <1>0, <2>2 DEF AmountsTyped
  <2>4. /\ Accepts(type[s], heap[s]) => Accepts(type[s], StructOf(call'[c]))
        /\ Accepts(type[s], Own(type[s], heap[s])) => Accepts(type[s], Own(type[s], StructOf(call'[c])))
    BY <1>0, <2>1, MessageIsAccepted
  <2>5. Passes(type[s], StructOf(call'[c]), s, overlapped) BY <1>4, <2>4 DEF Passes
  <2> QED BY <1>0, <1>2, <2>2, <2>3, <2>5 DEF Sound
<1>6. TInv' BY <1>0, <1>1, <1>2 DEF IInv, TInv
<1>7. CInv' BY <1>0, <1>1, <1>2 DEF IInv, CInv, Working, s
<1>8. OInv' BY <1>0, <1>1, <1>2 DEF IInv, OInv, Working, s
<1>9. MInv' BY <1>1, <1>2 DEF IInv, MInv
<1>10. SInv' BY <1>1, <1>2, <1>5 DEF IInv, SInv
<1>11. WInv' BY <1>1 DEF IInv, WInv
<1> QED BY <1>6, <1>7, <1>8, <1>9, <1>10, <1>11 DEF IInv

LEMMA TransmitIsSound ==
    ASSUME IInv, NEW c \in Callers, Transmit(c)
    PROVE  IInv'
<1>0. DOMAIN call = Callers /\ \A d \in Callers : DOMAIN call[d] = CallFields
  BY DEF IInv, TInv
<1>1. UNCHANGED <<type, heap, overlapped>> BY DEF Transmit, ghosts
<1>2. /\ DOMAIN call' = Callers /\ \A d \in Callers \ {c} : call'[d] = call[d]
      /\ DOMAIN call'[c] = CallFields /\ call'[c].pc = "sent" /\ Working(c)
      /\ call'[c].s = call[c].s /\ call'[c].op = call[c].op /\ call'[c].loop = call[c].loop
  BY <1>0 DEF Transmit, CallFields, Working
<1>3. ASSUME NEW m \in wire' \ wire
      PROVE  m.op = call[c].op /\ m.body = call[c].body /\ m.rest = call[c].rest /\ m.s = call[c].s
  BY DEF Transmit
<1>4. Sound(call[c], overlapped) BY DEF Transmit, IInv, SInv
<1>5. ASSUME NEW m \in wire' PROVE Sound(m, overlapped)
  <2>1. CASE m \in wire BY <2>1 DEF IInv, WInv
  <2>2. CASE m \notin wire
    <3>1. m.op = call[c].op /\ m.body = call[c].body /\ m.rest = call[c].rest /\ m.s = call[c].s
      BY <1>3, <2>2
    <3>2. StructOf(m) = StructOf(call[c]) BY <3>1 DEF StructOf
    <3> QED BY <1>4, <3>1, <3>2 DEF Sound
  <2> QED BY <2>1, <2>2
<1>6. TInv' BY <1>0, <1>1, <1>2 DEF IInv, TInv
<1>7. CInv' BY <1>1, <1>2 DEF IInv, CInv, Working
<1>8. OInv' BY <1>1, <1>2 DEF IInv, OInv, Working
<1>9. MInv' BY <1>1, <1>2 DEF IInv, MInv
<1>10. SInv' BY <1>1, <1>2 DEF IInv, SInv
<1>11. WInv' BY <1>1, <1>5 DEF WInv
<1> QED BY <1>6, <1>7, <1>8, <1>9, <1>10, <1>11 DEF IInv

\* every service method is a Submit, of an order where it polls
LEMMA OperationSubmits ==
    ASSUME NEW c, NEW s, Operation(c, s)
    PROVE  \E op \in Ops, loop \in {"once", "poll"} :
              Submit(c, s, op, loop) /\ (loop = "poll" => op \in Polled)
BY DEF Operation, Auth, Capture, ReAuth, VoidAuth, PaymentPlan, PaymentPreCheck, Refund, Repayment,
       QueryUserTag, SubmitInformation, SubmitApplication, ModifyApplicationInfo, CloseAccount,
       GetOrCreate, AuthPollUntilTerminal, CapturePollUntilTerminal, RefundPollUntilTerminal,
       RepaymentPollUntilTerminal, Ops, Polled

LEMMA NextIsSound == IInv /\ [Next]_vars => IInv'
<1> SUFFICES ASSUME IInv, [Next]_vars PROVE IInv' OBVIOUS
<1>1. ASSUME NEW s \in Structs, NEW f \in Fields(type[s]), NEW v \in Choices[f], Edit(s, f, v)
      PROVE  IInv'
  BY <1>1, EditIsSound
<1>2. ASSUME NEW c \in Callers, checkConfigured(c) PROVE IInv'
  BY <1>2, ControlStepIsSound
<1>3. ASSUME NEW c \in Callers, NEW s \in Structs, Operation(c, s) PROVE IInv'
  BY <1>3, OperationSubmits, SubmitIsSound
<1>4. ASSUME NEW c \in Callers, Step(c) PROVE IInv'
  BY <1>4, ControlStepIsSound, MintIsSound, CheckIsSound, MarshalIsSound, TransmitIsSound DEF Step
<1>5. CASE UNCHANGED vars
  BY <1>5 DEF vars, IInv, TInv, CInv, OInv, MInv, SInv, WInv, Working
<1> QED BY <1>1, <1>2, <1>3, <1>4, <1>5 DEF Next

LEMMA Invariance == Spec => []IInv
BY InitIsSound, NextIsSound, PTL DEF Spec

-----------------------------------------------------------------------------
(* Theorems.                                                               *)

\* SentIsAccepted: a request is validated, marshalled and sent in steps of
\* their own (payment.go:92-109) from a struct that other goroutines write to,
\* and still only what the validator accepts is sent, in every round of a poll.
THEOREM SentRequestsAreAccepted == Spec => []SentIsAccepted
<1>1. IInv => SentIsAccepted
  <2> SUFFICES ASSUME IInv, NEW m \in wire
               PROVE  Accepts(m.op, IF m.s \in overlapped /\ m.op # "va"
                                    THEN [StructOf(m) EXCEPT !.rid = OwnId] ELSE StructOf(m))
    BY DEF SentIsAccepted
  <2>1. Passes(m.op, StructOf(m), m.s, overlapped) BY DEF IInv, WInv, Sound
  <2> QED BY <2>1 DEF Passes, Own
<1> QED BY <1>1, Invariance, PTL

\* what the checks of a sent order say of its body, whatever its identifier
LEMMA SoundOrder ==
    ASSUME NEW m, NEW shared, Sound(m, shared)
    PROVE  \E r : /\ Accepts(m.op, r) /\ DOMAIN r = Fields(m.op)
                  /\ \A f \in DOMAIN m.body \ {"rid"} : r[f] = m.body[f] /\ f \in DOMAIN r
<1> DEFINE q == StructOf(m)
           r == IF m.s \in shared THEN Own(m.op, q) ELSE q
<1>1. DOMAIN q = Fields(m.op) /\ \A f \in DOMAIN m.body : q[f] = m.body[f]
  BY DEF StructOf, Sound
<1>2. Accepts(m.op, r) BY DEF Sound, Passes
<1> HIDE DEF q
<1>3. DOMAIN r = Fields(m.op) /\ \A f \in Fields(m.op) \ {"rid"} : r[f] = q[f]
  BY <1>1, OwnFields DEF Sound
<1> HIDE DEF r
<1>4. \A f \in DOMAIN m.body \ {"rid"} : r[f] = m.body[f] /\ f \in DOMAIN r
  BY <1>1, <1>3 DEF Sound
<1> QED BY <1>2, <1>3, <1>4

\* AcceptedIsExact: the int64 sum of suborder_validate.go:224-271 may wrap, but
\* for one or two positive amounts of any width a sum that wrapped never
\* equals a positive total.
THEOREM AcceptedSumsAreExact == Spec => []AcceptedIsExact
<1>1. IInv => AcceptedIsExact
  <2> SUFFICES ASSUME IInv, NEW m \in wire,
                      m.op \in {"auth", "capture", "reAuth", "plan", "refund", "precheck"},
                      Len(m.body["subs"]) \in 1..2,
                      \A i \in 1..Len(m.body["subs"]) : m.body["subs"][i].amount > 0
               PROVE  m.body["total"] = m.body["subs"][1].amount
                            + IF Len(m.body["subs"]) = 2 THEN m.body["subs"][2].amount ELSE 0
    BY DEF AcceptedIsExact
  <2>1. Sound(m, overlapped) BY DEF IInv, WInv
  <2>2. PICK r : /\ Accepts(m.op, r) /\ DOMAIN r = Fields(m.op)
                 /\ \A f \in DOMAIN m.body \ {"rid"} : r[f] = m.body[f] /\ f \in DOMAIN r
    BY <2>1, SoundOrder
  <2>3. "subs" \in DOMAIN m.body /\ "total" \in DOMAIN m.body
    <3>1. DOMAIN m.body = Fields(m.op) \ Hidden(m.op) BY <2>1 DEF Sound
    <3>2. "subs" \in Fields(m.op) /\ "total" \in Fields(m.op)
      BY DEF Fields, AuthRequest, CaptureRequest, ReAuthRequest, PaymentPlanRequest,
             PaymentPreCheckRequest, RefundParam
    <3>3. "subs" \notin Hidden(m.op) /\ "total" \notin Hidden(m.op)
      BY HiddenOf DEF Ops
    <3> QED BY <3>1, <3>2, <3>3
  <2>4. SubOrders(m.body["subs"]) BY <2>1, <2>3 DEF Sound, AmountsTyped
  <2>5. r.subs = m.body["subs"] /\ r.total = m.body["total"] BY <2>2, <2>3
  <2>6. r.total > 0 /\ Total(r.subs) = r.total
    <3>1. CASE m.op \in {"auth", "capture", "reAuth", "refund"}
      BY <2>2, <3>1 DEF Accepts, validateAuthRequest, validateCaptureRequest, validateReAuthRequest,
                        validateRefund, sumSubOrderAmount
    <3>2. CASE m.op = "plan"
      BY <2>2, <3>2 DEF Accepts, validatePaymentPlanRequest, sumPlanSubOrderAmount
    <3>3. CASE m.op = "precheck"
      <4>1. PreCheckShape(r) /\ PreCheckAmounts(InferPeriod(r))
        BY <2>2, <3>3 DEF Accepts, validatePaymentPreCheckRequest
      <4>2. InferPeriod(r).subs = r.subs /\ InferPeriod(r).total = r.total
        BY <2>2, <3>3 DEF InferPeriod, Fields, PaymentPreCheckRequest
      <4>3. r.subs # <<>>
        <5>1. Len(<<>>) = 0 OBVIOUS
        <5>2. \A n \in 1..2 : n # 0 OBVIOUS
        <5>3. Len(m.body["subs"]) # 0 BY <5>2, Zenon
        <5> QED BY <2>5, <5>1, <5>3, Zenon
      <4>4. allPlanSubOrderAmountsSet(r.subs) BY <2>5 DEF allPlanSubOrderAmountsSet
      <4> QED BY <4>1, <4>2, <4>3, <4>4 DEF PreCheckShape, PreCheckAmounts, sumPlanSubOrderAmount
    <3> QED BY <3>1, <3>2, <3>3
  <2> QED BY <2>4, <2>5, <2>6, SumIsExact
<1> QED BY <1>1, Invariance, PTL

\* StagesAgree: the validators of capture.go, reauth.go, plan.go and precheck.go
\* accept the order of every /auth of tenor 1 or 3 that was sent.
THEOREM LaterStagesAccept == Spec => []StagesAgree
<1>1. IInv => StagesAgree
  <2> SUFFICES ASSUME IInv, NEW m \in wire, m.op = "auth", m.body["period"] \in {1, 3}
               PROVE  /\ (\A i \in 1..Len(m.body["subs"]) : m.body["subs"][i].merchantName # "empty")
                            => validateCaptureRequest(Mirror(m, "capture"))
                      /\ m.body["uid"] = "ok" => validateReAuthRequest(Mirror(m, "reAuth"))
                      /\ validatePaymentPlanRequest(Mirror(m, "plan"))
                      /\ validatePaymentPreCheckRequest(Mirror(m, "precheck"))
    BY DEF StagesAgree
  <2>1. Sound(m, overlapped) BY DEF IInv, WInv
  <2>2. PICK r : /\ Accepts(m.op, r) /\ DOMAIN r = Fields(m.op)
                 /\ \A f \in DOMAIN m.body \ {"rid"} : r[f] = m.body[f] /\ f \in DOMAIN r
    BY <2>1, SoundOrder
  <2>3. DOMAIN m.body = AuthRequest \ {"session"} BY <2>1, HiddenOf DEF Sound, Fields
  <2>4. \A f \in Order : m.body[f] = r[f] /\ f \in DOMAIN m.body
    BY <2>2, <2>3 DEF Order, AuthRequest
  <2>5. validateAuthRequest(r) BY <2>2 DEF Accepts
  <2>6. r.total \in Int /\ SubOrders(r.subs)
    <3>1. HalfRange \in Nat BY HalfRangeAssumption
    <3>2. m.body["total"] \in Amounts /\ SubOrders(m.body["subs"])
      BY <2>1, <2>3 DEF Sound, AmountsTyped, AuthRequest
    <3> QED BY <2>4, <3>1, <3>2 DEF Order, Amounts
  <2>7. r.period \in {1, 3} BY <2>4 DEF Order
  <2> QED BY <2>4, <2>5, <2>6, <2>7, StagesFollow
<1> QED BY <1>1, Invariance, PTL

-----------------------------------------------------------------------------
(* What the services write into the partner's structs: the identifier a    *)
(* struct shows when a call returns is the one in every body the call      *)
(* sent, and the tenor a precheck leaves behind does not change the        *)
(* verdict of the next one.                                                *)

\* between the start of a call, or of a round of its poll, and the next copy
Early(c) == call[c].pc \in {"read", "mint", "check", "marshal", "send"}

\* calls are numbered apart
NInv ==
    /\ calls \in Nat
    /\ \A c \in Callers :
          call[c].n \in 0..calls /\ (call[c].pc = "idle" => call[c].n = 0) /\ (Working(c) => call[c].n # 0)
    /\ \A c, d \in Callers : c # d /\ call[c].n = call[d].n => call[c].n = 0
    /\ \A m \in wire : m.n \in 1..calls /\ m.s \in Structs

\* a message belongs to the call of its number, and a call that sends again polls
BelongInv ==
    \A c \in Callers, m \in wire : m.n = call[c].n =>
        m.s = call[c].s /\ m.op = call[c].op /\ (Early(c) => call[c].loop = "poll")

\* who works on the struct of a call, while it lasts or until the partner takes
\* note of its end, has met it there
AloneInv ==
    \A c, d \in Callers, m \in wire :
        c # d /\ m.n = call[c].n /\ Working(d) /\ call[d].s = m.s => m.s \in overlapped

\* the body holds the identifier of the struct
BodyInv ==
    \A c \in Callers :
        call[c].pc = "send" /\ call[c].s \notin overlapped /\ "rid" \in DOMAIN call[c].body
        => call[c].body["rid"] = heap[call[c].s]["rid"]

\* ... and later rounds find it there
KeptInv ==
    \A c \in Callers, m \in wire : m.n = call[c].n /\ m.s \notin overlapped =>
        /\ "rid" \in DOMAIN m.body => m.body["rid"] = heap[m.s]["rid"]
        /\ Early(c) => call[c].pc # "mint" /\ heap[m.s]["rid"] # NoId

EInv == NInv /\ BelongInv /\ AloneInv /\ BodyInv /\ KeptInv

LEMMA EchoInit == Init => EInv
<1> SUFFICES ASSUME Init PROVE EInv OBVIOUS
<1>1. \A c \in Callers : call[c] = Idle BY DEF Init
<1>2. wire = {} /\ calls = 0 BY DEF Init
<1>3. NInv BY <1>1, <1>2, IdleFields DEF NInv, Working
<1> QED BY <1>1, <1>2, <1>3, IdleFields DEF EInv, BelongInv, AloneInv, BodyInv, KeptInv

\* a polled order that was sent has an identifier
LEMMA PolledHasId ==
    ASSUME IInv, NEW m \in wire, m.op \in Polled, m.s \notin overlapped
    PROVE  "rid" \in DOMAIN m.body /\ m.body["rid"] # NoId
<1>1. /\ m.op \in Ops /\ DOMAIN m.body = Fields(m.op) \ Hidden(m.op)
      /\ Accepts(m.op, StructOf(m))
  BY DEF IInv, WInv, Sound, Passes
<1>2. "rid" \in DOMAIN m.body BY <1>1, RidIsAField, HiddenOf DEF Polled
<1>3. StructOf(m).rid = m.body["rid"] BY <1>1, <1>2 DEF StructOf
<1>4. ValidId(StructOf(m).rid)
  BY <1>1 DEF Polled, Accepts, validateAuthRequest, validateCaptureRequest, validateRefund,
              validateRepayment
<1> QED BY <1>2, <1>3, <1>4 DEF ValidId

LEMMA EditEchoes ==
    ASSUME IInv, EInv, NEW s \in Structs, NEW f \in Fields(type[s]), NEW v \in Choices[f],
           Edit(s, f, v)
    PROVE  EInv'
<1> USE DEF Edit
<1>1. \A c \in Callers : ~(Working(c) /\ call[c].s = s) BY DEF Busy
<1>2. \A c \in Callers : call'[c] = IF call[c].s = s /\ call[c].pc = "done" THEN Idle ELSE call[c]
  BY DEF Collect
<1>3. UNCHANGED <<wire, calls, overlapped>> OBVIOUS
<1>4. \A t \in Structs \ {s} : heap'[t] = heap[t] BY DEF IInv, TInv
<1>5. \A c \in Callers : call'[c] = call[c] \/ (call'[c].n = 0 /\ call'[c].pc = "idle")
  BY <1>2, IdleFields
<1>6. ASSUME NEW c \in Callers, NEW m \in wire, m.n = call'[c].n
      PROVE  call'[c] = call[c] /\ m.n = call[c].n /\ m.s # s /\ m.s \in Structs
  <2>1. m.n # 0 /\ m.s \in Structs BY DEF EInv, NInv
  <2>2. call'[c] = call[c] BY <1>5, <1>6, <2>1
  <2>3. call[c].s = m.s BY <1>6, <2>2 DEF EInv, BelongInv
  <2>4. call[c].pc # "idle" BY <1>6, <2>1, <2>2 DEF EInv, NInv
  <2>5. call[c].s # s BY <1>1, <1>2, <1>6, <2>1, <2>2, <2>4, IdleFields DEF Working
  <2> QED BY <1>6, <2>1, <2>2, <2>3, <2>5
<1>7. NInv' BY <1>3, <1>5 DEF EInv, NInv, Working
<1>8. BelongInv' BY <1>3, <1>6 DEF EInv, BelongInv, Early
<1>9. AloneInv' BY <1>3, <1>5, <1>6 DEF EInv, AloneInv, Working
<1>10. BodyInv'
  <2> SUFFICES ASSUME NEW c \in Callers, call'[c].pc = "send", call'[c].s \notin overlapped',
                      "rid" \in DOMAIN call'[c].body
               PROVE  call'[c].body["rid"] = heap'[call'[c].s]["rid"]
    BY DEF BodyInv
  <2>1. call'[c] = call[c] /\ Working(c) BY <1>5 DEF Working
  <2>2. call[c].s # s /\ call[c].s \in Structs BY <1>1, <2>1 DEF IInv, CInv
  <2>3. heap'[call[c].s] = heap[call[c].s] BY <1>4, <2>2
  <2> QED BY <1>3, <2>1, <2>3 DEF EInv, BodyInv
<1>11. KeptInv'
  <2> SUFFICES ASSUME NEW c \in Callers, NEW m \in wire, m.n = call'[c].n, m.s \notin overlapped
               PROVE  /\ "rid" \in DOMAIN m.body => m.body["rid"] = heap'[m.s]["rid"]
                      /\ call'[c].pc \in {"read", "mint", "check", "marshal", "send"} =>
                            call'[c].pc # "mint" /\ heap'[m.s]["rid"] # NoId
    BY <1>3 DEF KeptInv, Early
  <2>1. call'[c] = call[c] /\ heap'[m.s] = heap[m.s] BY <1>4, <1>6
  <2> QED BY <2>1 DEF EInv, KeptInv, Early
<1> QED BY <1>7, <1>8, <1>9, <1>10, <1>11 DEF EInv

\* a step of one call that leaves the structs and the wire alone, and neither
\* begins the call nor hands over a body
LEMMA ControlEchoes ==
    ASSUME IInv, EInv, NEW c \in Callers, UNCHANGED <<heap, wire, calls, overlapped>>,
           \A d \in Callers \ {c} : call'[d] = call[d],
           call'[c].pc # "send", Working(c), call'[c].pc # "idle",
           call'[c].n = call[c].n, call'[c].s = call[c].s, call'[c].op = call[c].op,
           call'[c].loop = call[c].loop,
           call'[c].pc \in {"read", "mint", "check", "marshal"} => Early(c) \/ call[c].loop = "poll",
           \A m \in wire : m.n = call[c].n /\ m.s \notin overlapped
                /\ call'[c].pc \in {"read", "mint", "check", "marshal"} =>
                    call'[c].pc # "mint" /\ heap[m.s]["rid"] # NoId
    PROVE  EInv'
<1>1. NInv' BY DEF EInv, NInv, Working
<1>2. BelongInv' BY DEF EInv, BelongInv, Early
<1>3. AloneInv' BY DEF EInv, AloneInv, Working
<1>4. BodyInv' BY DEF EInv, BodyInv
<1>5. KeptInv' BY DEF EInv, KeptInv, Early
<1> QED BY <1>1, <1>2, <1>3, <1>4, <1>5 DEF EInv

LEMMA StartEchoes ==
    ASSUME IInv, EInv, NEW c \in Callers, UNCHANGED <<heap, wire>>, calls' = calls + 1,
           overlapped \subseteq overlapped', call'[c].n = calls', call'[c].pc \notin {"idle", "send"},
           \A d \in Callers \ {c} :
                call'[d] = call[d] \/ (call'[d].n = 0 /\ call'[d].pc = "idle"),
           \A d \in Callers \ {c}, m \in wire :
                m.n = call'[d].n /\ call'[c].s = m.s /\ call'[c].pc \notin {"idle", "done"}
                => m.s \in overlapped'
    PROVE  EInv'
<1>0. calls \in Nat BY DEF EInv, NInv
<1>1. \A m \in wire : m.n # 0 /\ m.n # call'[c].n BY <1>0 DEF EInv, NInv
<1>2. ASSUME NEW d \in Callers, NEW m \in wire, m.n = call'[d].n
      PROVE  d # c /\ call'[d] = call[d]
  BY <1>1, <1>2
<1>3. NInv'
  <2>1. calls' \in Nat BY <1>0
  <2>2. \A d \in Callers : /\ call'[d].n \in 0..calls' /\ (call'[d].pc = "idle" => call'[d].n = 0)
                           /\ call'[d].pc \notin {"idle", "done"} => call'[d].n # 0
    BY <1>0 DEF EInv, NInv, Working
  <2>3. \A d, e \in Callers : d # e /\ call'[d].n = call'[e].n => call'[d].n = 0
    BY <1>0 DEF EInv, NInv
  <2>4. \A m \in wire' : m.n \in 1..calls' /\ m.s \in Structs BY <1>0 DEF EInv, NInv
  <2> QED BY <2>1, <2>2, <2>3, <2>4 DEF NInv, Working
<1>4. BelongInv' BY <1>2 DEF EInv, BelongInv, Early
<1>5. AloneInv'
  <2> SUFFICES ASSUME NEW d \in Callers, NEW e \in Callers, NEW m \in wire, d # e, m.n = call'[d].n,
                      call'[e].pc \notin {"idle", "done"}, call'[e].s = m.s
               PROVE  m.s \in overlapped'
    BY DEF AloneInv, Working
  <2>1. d # c /\ call'[d] = call[d] BY <1>2
  <2>2. CASE e = c BY <2>1, <2>2
  <2>3. CASE e # c
    <3>1. call'[e] = call[e] BY <2>3
    <3> QED BY <2>1, <3>1 DEF EInv, AloneInv, Working
  <2> QED BY <2>2, <2>3
<1>6. BodyInv'
  <2> SUFFICES ASSUME NEW d \in Callers, call'[d].pc = "send", call'[d].s \notin overlapped',
                      "rid" \in DOMAIN call'[d].body
               PROVE  call'[d].body["rid"] = heap'[call'[d].s]["rid"]
    BY DEF BodyInv
  <2>1. call'[d] = call[d] OBVIOUS
  <2> QED BY <2>1 DEF EInv, BodyInv
<1>7. KeptInv'
  <2> SUFFICES ASSUME NEW d \in Callers, NEW m \in wire, m.n = call'[d].n, m.s \notin overlapped'
               PROVE  /\ "rid" \in DOMAIN m.body => m.body["rid"] = heap[m.s]["rid"]
                      /\ call'[d].pc \in {"read", "mint", "check", "marshal", "send"} =>
                            call'[d].pc # "mint" /\ heap[m.s]["rid"] # NoId
    BY DEF KeptInv, Early
  <2>1. call'[d] = call[d] BY <1>2
  <2> QED BY <2>1 DEF EInv, KeptInv, Early
<1> QED BY <1>3, <1>4, <1>5, <1>6, <1>7 DEF EInv

LEMMA ConfiguredEchoes ==
    ASSUME IInv, EInv, NEW c \in Callers, checkConfigured(c)
    PROVE  EInv'
<1>0. DOMAIN call = Callers BY DEF IInv, TInv
<1>1. UNCHANGED <<heap, wire, overlapped>> /\ calls' = calls + 1 BY DEF checkConfigured, ghosts
<1>2. /\ \A d \in Callers \ {c} : call'[d] = call[d]
      /\ call'[c].n = calls' /\ call'[c].pc = "done"
  BY <1>0, IdleFields DEF checkConfigured, CallFields
<1>3. overlapped \subseteq overlapped' BY <1>1
<1> QED BY <1>1, <1>2, <1>3, StartEchoes

LEMMA SubmitEchoes ==
    ASSUME IInv, EInv, NEW c \in Callers, NEW s \in Structs, NEW op, NEW loop,
           Submit(c, s, op, loop)
    PROVE  EInv'
<1> USE DEF Submit
<1>1. \A d \in Callers \ {c} :
          call'[d] = IF call[d].s = s /\ call[d].pc = "done" THEN Idle ELSE call[d]
  BY DEF Collect
<1>2. \A d \in Callers \ {c} : call'[d] = call[d] \/ (call'[d].n = 0 /\ call'[d].pc = "idle")
  BY <1>1, IdleFields
<1>3. /\ call'[c].n = calls' /\ call'[c].s = s
      /\ call'[c].pc = IF op = "va" THEN "check" ELSE "read"
  BY IdleFields DEF Collect, CallFields
<1>4. overlapped \subseteq overlapped' /\ (Busy(s) => s \in overlapped') OBVIOUS
<1>5. ASSUME NEW d \in Callers \ {c}, NEW m \in wire, m.n = call'[d].n, s = m.s
      PROVE  m.s \in overlapped'
  <2>1. m.n # 0 BY DEF EInv, NInv
  <2>2. call'[d] = call[d] BY <1>2, <1>5, <2>1
  <2>3. call[d].s = s /\ call[d].pc # "idle" BY <1>5, <2>1, <2>2 DEF EInv, BelongInv, NInv
  <2>4. Working(d) BY <1>1, <1>5, <2>1, <2>2, <2>3, IdleFields DEF Working
  <2> QED BY <1>4, <1>5, <2>3, <2>4 DEF Busy
<1>6. UNCHANGED <<heap, wire>> /\ calls' = calls + 1 OBVIOUS
<1>7. \A d \in Callers \ {c}, m \in wire :
          m.n = call'[d].n /\ call'[c].s = m.s /\ call'[c].pc \notin {"idle", "done"}
          => m.s \in overlapped'
  BY <1>3, <1>5
<1>8. call'[c].n = calls' /\ call'[c].pc \notin {"idle", "send"} BY <1>3
<1> HIDE DEF Submit
<1> QED BY <1>2, <1>4, <1>6, <1>7, <1>8, StartEchoes

LEMMA ReadEchoes ==
    ASSUME IInv, EInv, NEW c \in Callers, ReadId(c)
    PROVE  EInv'
<1>0. DOMAIN call = Callers /\ DOMAIN call[c] = CallFields /\ Working(c) /\ call[c].s \in Structs
  BY DEF IInv, TInv, CInv, ReadId, Working
<1>1. UNCHANGED <<heap, wire, calls, overlapped>> BY DEF ReadId, ghosts
<1>2. /\ \A d \in Callers \ {c} : call'[d] = call[d]
      /\ call'[c].pc \in {"mint", "read", "check"} /\ call'[c].n = call[c].n
      /\ call'[c].s = call[c].s /\ call'[c].op = call[c].op /\ call'[c].loop = call[c].loop
      /\ call'[c].pc = "mint" => heap[call[c].s].rid = NoId
  BY <1>0 DEF ReadId, AfterId, CallFields
<1>3. Early(c) BY DEF ReadId, Early
<1>4. ASSUME NEW m \in wire, m.n = call[c].n, m.s \notin overlapped
      PROVE  call'[c].pc # "mint" /\ heap[m.s]["rid"] # NoId
  <2>1. heap[m.s]["rid"] # NoId /\ m.s = call[c].s
    BY <1>3, <1>4 DEF EInv, KeptInv, BelongInv
  <2> QED BY <1>2, <2>1
<1> QED BY <1>0, <1>1, <1>2, <1>3, <1>4, ControlEchoes

LEMMA ReturnEchoes ==
    ASSUME IInv, EInv, NEW c \in Callers, Unanswered(c) \/ Answered(c)
    PROVE  EInv'
<1>0. DOMAIN call = Callers /\ DOMAIN call[c] = CallFields /\ Working(c)
  BY DEF IInv, TInv, Unanswered, Answered, Working
<1>1. UNCHANGED <<heap, wire, calls, overlapped>> BY DEF Unanswered, Answered, ghosts
<1>2. /\ \A d \in Callers \ {c} : call'[d] = call[d]
      /\ call'[c].pc \in {"read", "done"} /\ call'[c].n = call[c].n
      /\ call'[c].s = call[c].s /\ call'[c].op = call[c].op /\ call'[c].loop = call[c].loop
      /\ call'[c].pc = "read" => call[c].loop = "poll"
  BY <1>0 DEF Unanswered, Answered, Return, CallFields
<1>3. ASSUME NEW m \in wire, m.n = call[c].n, m.s \notin overlapped, call'[c].pc = "read"
      PROVE  heap[m.s]["rid"] # NoId
  <2>1. m.op \in Polled BY <1>0, <1>2, <1>3 DEF EInv, BelongInv, IInv, CInv
  <2>2. "rid" \in DOMAIN m.body /\ m.body["rid"] # NoId BY <1>3, <2>1, PolledHasId
  <2> QED BY <1>3, <2>2 DEF EInv, KeptInv
<1> QED BY <1>0, <1>1, <1>2, <1>3, ControlEchoes

\* the one step that changes an identifier: a call that has sent comes here only
\* when another one took the identifier away
LEMMA MintEchoes ==
    ASSUME IInv, EInv, NEW c \in Callers, NewRequestID(c)
    PROVE  EInv'
<1> DEFINE s == call[c].s
<1>0. DOMAIN call = Callers /\ DOMAIN heap = Structs /\ DOMAIN call[c] = CallFields /\ Working(c)
  BY DEF IInv, TInv, NewRequestID, Working
<1>1. UNCHANGED <<wire, calls, overlapped>> BY DEF NewRequestID, ghosts
<1>2. /\ \A d \in Callers \ {c} : call'[d] = call[d]
      /\ call'[c].pc \in {"read", "check"} /\ call'[c].n = call[c].n
      /\ call'[c].s = s /\ call'[c].op = call[c].op /\ call'[c].loop = call[c].loop
  BY <1>0 DEF NewRequestID, AfterId, CallFields
<1>3. \A t \in Structs \ {s} : heap'[t] = heap[t] BY <1>0 DEF NewRequestID
<1>4. call[c].pc = "mint" /\ Early(c) BY DEF NewRequestID, Early
<1> HIDE DEF s
<1>5. ASSUME NEW d \in Callers, NEW m \in wire, m.n = call[d].n, m.s \notin overlapped
      PROVE  d # c /\ heap'[m.s] = heap[m.s]
  <2>1. d # c BY <1>4, <1>5 DEF EInv, KeptInv
  <2>2. m.s # s BY <1>0, <1>5, <2>1 DEF EInv, AloneInv, s
  <2>3. m.s \in Structs BY DEF EInv, NInv
  <2> QED BY <1>3, <2>1, <2>2, <2>3
<1>6. NInv' BY <1>0, <1>1, <1>2 DEF EInv, NInv, Working
<1>7. BelongInv' BY <1>1, <1>2, <1>4 DEF EInv, BelongInv, Early, s
<1>8. AloneInv' BY <1>0, <1>1, <1>2 DEF EInv, AloneInv, Working, s
<1>9. BodyInv'
  <2> SUFFICES ASSUME NEW d \in Callers, call'[d].pc = "send", call'[d].s \notin overlapped',
                      "rid" \in DOMAIN call'[d].body
               PROVE  call'[d].body["rid"] = heap'[call'[d].s]["rid"]
    BY DEF BodyInv
  <2>1. d # c /\ call'[d] = call[d] /\ Working(d) BY <1>2 DEF Working
  <2>2. call[d].s # s /\ call[d].s \in Structs
    BY <1>0, <1>1, <2>1 DEF IInv, OInv, CInv, s
  <2> QED BY <1>1, <1>3, <2>1, <2>2 DEF EInv, BodyInv
<1>10. KeptInv'
  <2> SUFFICES ASSUME NEW d \in Callers, NEW m \in wire, m.n = call'[d].n, m.s \notin overlapped
               PROVE  /\ "rid" \in DOMAIN m.body => m.body["rid"] = heap'[m.s]["rid"]
                      /\ call'[d].pc \in {"read", "mint", "check", "marshal", "send"} =>
                            call'[d].pc # "mint" /\ heap'[m.s]["rid"] # NoId
    BY <1>1 DEF KeptInv, Early
  <2>1. m.n = call[d].n BY <1>2
  <2>2. d # c /\ heap'[m.s] = heap[m.s] BY <1>5, <2>1
  <2>3. call'[d] = call[d] BY <1>2, <2>2
  <2> QED BY <2>2, <2>3 DEF EInv, KeptInv, Early
<1> QED BY <1>6, <1>7, <1>8, <1>9, <1>10 DEF EInv

LEMMA CheckEchoes ==
    ASSUME IInv, EInv, NEW c \in Callers, Check(c)
    PROVE  EInv'
<1> DEFINE s == call[c].s
<1>0. /\ DOMAIN call = Callers /\ DOMAIN heap = Structs /\ DOMAIN call[c] = CallFields /\ Working(c)
      /\ s \in Structs
  BY DEF IInv, TInv, CInv, Check, Working
<1>1. UNCHANGED <<wire, calls, overlapped>> BY DEF Check, ghosts
<1>2. /\ \A d \in Callers \ {c} : call'[d] = call[d]
      /\ call'[c].pc \in {"marshal", "done"} /\ call'[c].n = call[c].n
      /\ call'[c].s = s /\ call'[c].op = call[c].op /\ call'[c].loop = call[c].loop
  BY <1>0 DEF Check, Return, CallFields
<1>3. \A t \in Structs : heap'[t]["rid"] = heap[t]["rid"]
  <2>1. ASSUME NEW r, DOMAIN r = Fields("precheck") PROVE InferPeriod(r)["rid"] = r["rid"]
    BY <2>1 DEF InferPeriod, Fields, PaymentPreCheckRequest
  <2>2. type[s] = "precheck" => DOMAIN heap[s] = Fields("precheck") BY <1>0 DEF IInv, TInv
  <2>3. \A t \in Structs :
            heap'[t] = IF t = s /\ type[s] = "precheck" THEN InferPeriod(heap[t]) ELSE heap[t]
    BY <1>0 DEF Check
  <2> QED BY <2>1, <2>2, <2>3
<1>4. Early(c) /\ call[c].pc # "send" BY DEF Check, Early
<1> HIDE DEF s
<1>5. NInv' BY <1>0, <1>1, <1>2 DEF EInv, NInv, Working
<1>6. BelongInv' BY <1>1, <1>2, <1>4 DEF EInv, BelongInv, Early, s
<1>7. AloneInv' BY <1>0, <1>1, <1>2 DEF EInv, AloneInv, Working, s
<1>8. BodyInv'
  <2> SUFFICES ASSUME NEW d \in Callers, call'[d].pc = "send", call'[d].s \notin overlapped',
                      "rid" \in DOMAIN call'[d].body
               PROVE  call'[d].body["rid"] = heap'[call'[d].s]["rid"]
    BY DEF BodyInv
  <2>1. d # c /\ call'[d] = call[d] /\ Working(d) BY <1>2 DEF Working
  <2>2. call[d].s \in Structs BY <2>1 DEF IInv, CInv
  <2> QED BY <1>1, <1>3, <2>1, <2>2 DEF EInv, BodyInv
<1>9. KeptInv'
  <2> SUFFICES ASSUME NEW d \in Callers, NEW m \in wire, m.n = call'[d].n, m.s \notin overlapped
               PROVE  /\ "rid" \in DOMAIN m.body => m.body["rid"] = heap'[m.s]["rid"]
                      /\ call'[d].pc \in {"read", "mint", "check", "marshal", "send"} =>
                            call'[d].pc # "mint" /\ heap'[m.s]["rid"] # NoId
    BY <1>1 DEF KeptInv, Early
  <2>1. m.n = call[d].n /\ m.s \in Structs BY <1>2 DEF EInv, NInv
  <2>2. heap'[m.s]["rid"] = heap[m.s]["rid"] BY <1>3, <2>1
  <2>3. CASE d = c BY <1>2, <1>4, <2>1, <2>2, <2>3 DEF EInv, KeptInv
  <2>4. CASE d # c
    <3>1. call'[d] = call[d] BY <1>2, <2>4
    <3> QED BY <2>2, <3>1 DEF EInv, KeptInv, Early
  <2> QED BY <2>3, <2>4
<1> QED BY <1>5, <1>6, <1>7, <1>8, <1>9 DEF EInv

LEMMA MarshalEchoes ==
    ASSUME IInv, EInv, NEW c \in Callers, Marshal(c)
    PROVE  EInv'
<1>0. /\ DOMAIN call = Callers /\ DOMAIN call[c] = CallFields /\ Working(c)
      /\ call[c].s \in Structs /\ DOMAIN heap[call[c].s] = Fields(type[call[c].s])
  BY DEF IInv, TInv, CInv, Marshal, Working
<1>1. UNCHANGED <<heap, wire, calls, overlapped>> BY DEF Marshal, ghosts
<1>2. /\ \A d \in Callers \ {c} : call'[d] = call[d]
      /\ call'[c].pc \in {"send", "done"} /\ call'[c].n = call[c].n
      /\ call'[c].s = call[c].s /\ call'[c].op = call[c].op /\ call'[c].loop = call[c].loop
      /\ call'[c].pc = "send" =>
            call'[c].body = MarshalSigning(type[call[c].s], heap[call[c].s])
  BY <1>0 DEF Marshal, Return, CallFields
<1>3. Early(c) BY DEF Marshal, Early
<1>4. call'[c].pc = "send" /\ "rid" \in DOMAIN call'[c].body
          => call'[c].body["rid"] = heap[call[c].s]["rid"]
  BY <1>0, <1>2 DEF MarshalSigning
<1>5. NInv' BY <1>0, <1>1, <1>2 DEF EInv, NInv, Working
<1>6. BelongInv' BY <1>1, <1>2, <1>3 DEF EInv, BelongInv, Early
<1>7. AloneInv' BY <1>0, <1>1, <1>2 DEF EInv, AloneInv, Working
<1>8. BodyInv' BY <1>1, <1>2, <1>4 DEF EInv, BodyInv
<1>9. KeptInv' BY <1>1, <1>2, <1>3 DEF EInv, KeptInv, Early
<1> QED BY <1>5, <1>6, <1>7, <1>8, <1>9 DEF EInv

LEMMA TransmitEchoes ==
    ASSUME IInv, EInv, NEW c \in Callers, Transmit(c)
    PROVE  EInv'
<1>0. DOMAIN call = Callers /\ DOMAIN call[c] = CallFields /\ Working(c) /\ call[c].s \in Structs
  BY DEF IInv, TInv, CInv, Transmit, Working
<1>1. UNCHANGED <<heap, calls, overlapped>> BY DEF Transmit, ghosts
<1>2. /\ \A d \in Callers \ {c} : call'[d] = call[d]
      /\ call'[c].pc = "sent" /\ call'[c].n = call[c].n
      /\ call'[c].s = call[c].s /\ call'[c].op = call[c].op /\ call'[c].loop = call[c].loop
  BY <1>0 DEF Transmit, CallFields
<1>3. ASSUME NEW m \in wire' \ wire
      PROVE  m.n = call[c].n /\ m.s = call[c].s /\ m.op = call[c].op /\ m.body = call[c].body
  BY DEF Transmit
<1>4. \A d \in Callers : call'[d].n = call[d].n BY <1>2
<1>5. call[c].n # 0 /\ call[c].n \in 0..calls /\ calls \in Nat BY <1>0 DEF EInv, NInv
<1>6. ASSUME NEW d \in Callers, NEW m \in wire' \ wire, m.n = call'[d].n PROVE d = c
  BY <1>3, <1>4, <1>5, <1>6 DEF EInv, NInv
<1>7. NInv'
  <2>1. \A m \in wire' : m.n \in 1..calls /\ m.s \in Structs BY <1>0, <1>3, <1>5 DEF EInv, NInv
  <2> QED BY <1>0, <1>1, <1>2, <2>1 DEF EInv, NInv, Working
<1>8. BelongInv'
  <2> SUFFICES ASSUME NEW d \in Callers, NEW m \in wire', m.n = call'[d].n
               PROVE  /\ m.s = call'[d].s /\ m.op = call'[d].op
                      /\ call'[d].pc \in {"read", "mint", "check", "marshal", "send"} =>
                            call'[d].loop = "poll"
    BY DEF BelongInv, Early
  <2>1. CASE m \in wire BY <1>2, <2>1 DEF EInv, BelongInv, Early
  <2>2. CASE m \notin wire BY <1>2, <1>3, <1>6, <2>2
  <2> QED BY <2>1, <2>2
<1>9. AloneInv'
  <2> SUFFICES ASSUME NEW d \in Callers, NEW e \in Callers, NEW m \in wire', d # e, m.n = call'[d].n,
                      call'[e].pc \notin {"idle", "done"}, call'[e].s = m.s
               PROVE  m.s \in overlapped
    BY <1>1 DEF AloneInv, Working
  <2>1. Working(e) /\ call[e].s = m.s BY <1>0, <1>2 DEF Working
  <2>2. CASE m \in wire BY <1>4, <2>1, <2>2 DEF EInv, AloneInv
  <2>3. CASE m \notin wire BY <1>0, <1>3, <1>6, <2>1, <2>3 DEF IInv, OInv
  <2> QED BY <2>2, <2>3
<1>10. BodyInv' BY <1>1, <1>2 DEF EInv, BodyInv
<1>11. KeptInv'
  <2> SUFFICES ASSUME NEW d \in Callers, NEW m \in wire', m.n = call'[d].n, m.s \notin overlapped
               PROVE  /\ "rid" \in DOMAIN m.body => m.body["rid"] = heap[m.s]["rid"]
                      /\ call'[d].pc \in {"read", "mint", "check", "marshal", "send"} =>
                            call'[d].pc # "mint" /\ heap[m.s]["rid"] # NoId
    BY <1>1 DEF KeptInv, Early
  <2>1. CASE m \in wire BY <1>2, <2>1 DEF EInv, KeptInv, Early
  <2>2. CASE m \notin wire
    <3>1. d = c /\ call'[d].pc = "sent" BY <1>2, <1>6, <2>2
    <3>2. call[c].pc = "send" BY DEF Transmit
    <3> QED BY <1>3, <2>2, <3>1, <3>2 DEF EInv, BodyInv
  <2> QED BY <2>1, <2>2
<1> QED BY <1>7, <1>8, <1>9, <1>10, <1>11 DEF EInv

LEMMA NextEchoes == IInv /\ EInv /\ [Next]_vars => EInv'
<1> SUFFICES ASSUME IInv, EInv, [Next]_vars PROVE EInv' OBVIOUS
<1>1. ASSUME NEW s \in Structs, NEW f \in Fields(type[s]), NEW v \in Choices[f], Edit(s, f, v)
      PROVE  EInv'
  BY <1>1, EditEchoes
<1>2. ASSUME NEW c \in Callers, checkConfigured(c) PROVE EInv'
  BY <1>2, ConfiguredEchoes
<1>3. ASSUME NEW c \in Callers, NEW s \in Structs, Operation(c, s) PROVE EInv'
  BY <1>3, OperationSubmits, SubmitEchoes
<1>4. ASSUME NEW c \in Callers, Step(c) PROVE EInv'
  BY <1>4, ReadEchoes, MintEchoes, CheckEchoes, MarshalEchoes, TransmitEchoes, ReturnEchoes DEF Step
<1>5. CASE UNCHANGED vars
  BY <1>5 DEF vars, EInv, NInv, BelongInv, AloneInv, BodyInv, KeptInv, Working, Early
<1> QED BY <1>1, <1>2, <1>3, <1>4, <1>5 DEF Next

\* EchoedIdIsTransmitted: auth.go:88-90 lets callers read req.RequestID after the
\* call for the value that was transmitted. It is minted once (auth.go:107-109),
\* every round of a poll finds and sends it again, and until the partner edits
\* or hands on the struct it stays there.
THEOREM EchoedIdsAreTransmitted == Spec => []EchoedIdIsTransmitted
<1>1. EInv => EchoedIdIsTransmitted
  BY DEF EInv, KeptInv, EchoedIdIsTransmitted
<1> QED BY <1>1, Invariance, EchoInit, NextEchoes, PTL DEF Spec

-----------------------------------------------------------------------------
(* The tenor a precheck infers.                                            *)

\* a precheck struct r holds the tenor p the partner wrote, or the one of its
\* first sub-order, inferred from a struct of no tenor and of the right shape
Asked(r, p) ==
    \/ r.period = p
    \/ /\ p = 0 /\ r.subs # <<>> /\ r.period = r.subs[1].period
       /\ PreCheckShape([r EXCEPT !.period = 0])

\* Two precheck structs that differ in their identifier, or in their tenor.
LEMMA ShapeOnFields ==
    ASSUME NEW r, NEW q, DOMAIN r = Fields("precheck"), DOMAIN q = Fields("precheck"),
           q.uid = r.uid, q.total = r.total, q.subs = r.subs, q.orderType = r.orderType
    PROVE  /\ q.period = r.period => (PreCheckShape(q) <=> PreCheckShape(r))
           /\ q.period = r.period => (PreCheckAmounts(q) <=> PreCheckAmounts(r))
           /\ PreCheckShape(q) /\ PreCheckAmounts(r) => PreCheckShape(r)
BY DEF PreCheckShape, PreCheckAmounts

\* The fields of a precheck struct whose tenor, or identifier, is replaced.
LEMMA Replaced ==
    ASSUME NEW r, DOMAIN r = Fields("precheck"), NEW p
    PROVE  LET q == [r EXCEPT !.period = p] IN
           /\ DOMAIN q = Fields("precheck") /\ q.period = p
           /\ q.rid = r.rid /\ q.uid = r.uid /\ q.total = r.total /\ q.subs = r.subs
           /\ q.orderType = r.orderType
BY DEF Fields, PaymentPreCheckRequest

\* The verdict on a struct another precheck has left its tenor in is the one on
\* the struct the partner wrote.
LEMMA SameVerdict ==
    ASSUME NEW r, NEW p, DOMAIN r = Fields("precheck"), Asked(r, p)
    PROVE  validatePaymentPreCheckRequest(r) <=> PreCheckAsked([r EXCEPT !.period = p])
<1> DEFINE w == [r EXCEPT !.period = p]
           v == [w EXCEPT !.period = InferredPeriod(w)]
           u == [r EXCEPT !.period = InferredPeriod(r)]
<1>1. /\ DOMAIN w = Fields("precheck") /\ w.period = p
      /\ w.uid = r.uid /\ w.total = r.total /\ w.subs = r.subs /\ w.orderType = r.orderType
  BY Replaced
<1>2. /\ DOMAIN u = Fields("precheck") /\ u.period = InferredPeriod(r)
      /\ u.uid = r.uid /\ u.total = r.total /\ u.subs = r.subs /\ u.orderType = r.orderType
  BY Replaced
<1> HIDE DEF w, u
<1>3. /\ DOMAIN v = Fields("precheck") /\ v.period = InferredPeriod(w)
      /\ v.uid = r.uid /\ v.total = r.total /\ v.subs = r.subs /\ v.orderType = r.orderType
  BY <1>1, Replaced
<1>4. PreCheckAsked(w) <=> PreCheckShape(w) /\ PreCheckAmounts(v)
  BY DEF PreCheckAsked
<1>5. validatePaymentPreCheckRequest(r) <=> PreCheckShape(r) /\ PreCheckAmounts(u)
  BY DEF validatePaymentPreCheckRequest, InferPeriod, u
<1> HIDE DEF v
<1>6. CASE r.period = p
  <2>1. InferredPeriod(w) = InferredPeriod(r)
    BY <1>1, <1>6 DEF InferredPeriod
  <2>2. PreCheckShape(w) <=> PreCheckShape(r)
    BY <1>1, <1>6, ShapeOnFields
  <2>3. PreCheckAmounts(v) <=> PreCheckAmounts(u)
    BY <1>2, <1>3, <2>1, ShapeOnFields
  <2> QED BY <1>4, <1>5, <2>2, <2>3 DEF w
<1>7. CASE r.period # p
  <2>1. p = 0 /\ r.subs # <<>> /\ r.period = r.subs[1].period /\ PreCheckShape(w)
    BY <1>7 DEF Asked, w
  <2>2. InferredPeriod(w) = r.period /\ InferredPeriod(r) = r.period
    BY <1>1, <1>7, <2>1 DEF InferredPeriod
  <2>3. (PreCheckAmounts(v) <=> PreCheckAmounts(r)) /\ (PreCheckAmounts(u) <=> PreCheckAmounts(r))
    BY <1>2, <1>3, <2>2, ShapeOnFields
  <2>4. PreCheckAmounts(r) => PreCheckShape(r)
    BY <1>1, <2>1, ShapeOnFields
  <2> QED BY <1>4, <1>5, <2>1, <2>3, <2>4 DEF w
<1> QED BY <1>6, <1>7

\* Another precheck leaves a tenor that was asked for.
LEMMA InferredIsAsked ==
    ASSUME NEW r, NEW p, DOMAIN r = Fields("precheck"), Asked(r, p)
    PROVE  Asked(InferPeriod(r), p)
<1> DEFINE u == [r EXCEPT !.period = InferredPeriod(r)]
<1>1. CASE ~PreCheckShape(r)
  BY <1>1 DEF InferPeriod
<1>2. CASE PreCheckShape(r)
  <2>1. InferPeriod(r) = u
    BY <1>2 DEF InferPeriod
  <2>2. /\ DOMAIN u = Fields("precheck") /\ u.period = InferredPeriod(r)
        /\ u.uid = r.uid /\ u.total = r.total /\ u.subs = r.subs /\ u.orderType = r.orderType
    BY Replaced
  <2> HIDE DEF u
  <2>3. CASE r.period = 0 /\ r.subs # <<>> /\ p = 0
    <3> DEFINE w == [u EXCEPT !.period = 0]
    <3>1. /\ DOMAIN w = Fields("precheck") /\ w.period = 0
          /\ w.uid = r.uid /\ w.total = r.total /\ w.subs = r.subs /\ w.orderType = r.orderType
      BY <2>2, Replaced
    <3> HIDE DEF w
    <3>2. PreCheckShape(w)
      BY <1>2, <2>3, <3>1, ShapeOnFields
    <3>3. u.period = u.subs[1].period
      BY <2>2, <2>3 DEF InferredPeriod
    <3> QED BY <2>1, <2>2, <2>3, <3>2, <3>3 DEF Asked, w
  <2>4. CASE ~(r.period = 0 /\ r.subs # <<>> /\ p = 0)
    <3>1. u.period = r.period
      BY <2>2, <2>4 DEF InferredPeriod, Asked
    <3> DEFINE w == [r EXCEPT !.period = 0]
               x == [u EXCEPT !.period = 0]
    <3>2. /\ DOMAIN w = Fields("precheck") /\ w.period = 0
          /\ w.uid = r.uid /\ w.total = r.total /\ w.subs = r.subs /\ w.orderType = r.orderType
      BY Replaced
    <3>3. /\ DOMAIN x = Fields("precheck") /\ x.period = 0
          /\ x.uid = r.uid /\ x.total = r.total /\ x.subs = r.subs /\ x.orderType = r.orderType
      BY <2>2, Replaced
    <3> HIDE DEF w, x
    <3>4. PreCheckShape(w) <=> PreCheckShape(x)
      BY <3>2, <3>3, ShapeOnFields
    <3> QED BY <2>1, <2>2, <3>1, <3>4 DEF Asked, w, x
  <2> QED BY <2>3, <2>4
<1> QED BY <1>1, <1>2

\* So does a fresh identifier, which no rule but its own looks at.
LEMMA MintedIsAsked ==
    ASSUME NEW r, NEW q, NEW p, DOMAIN r = Fields("precheck"), DOMAIN q = Fields("precheck"),
           \A f \in Fields("precheck") \ {"rid"} : q[f] = r[f], Asked(r, p)
    PROVE  Asked(q, p)
<1>1. q.uid = r.uid /\ q.total = r.total /\ q.subs = r.subs /\ q.orderType = r.orderType /\ q.period = r.period
  BY DEF Fields, PaymentPreCheckRequest
<1> DEFINE w == [r EXCEPT !.period = 0]
           x == [q EXCEPT !.period = 0]
<1>2. /\ DOMAIN w = Fields("precheck") /\ w.period = 0
      /\ w.uid = r.uid /\ w.total = r.total /\ w.subs = r.subs /\ w.orderType = r.orderType
  BY Replaced
<1>3. /\ DOMAIN x = Fields("precheck") /\ x.period = 0
      /\ x.uid = r.uid /\ x.total = r.total /\ x.subs = r.subs /\ x.orderType = r.orderType
  BY <1>1, Replaced
<1> HIDE DEF w, x
<1>4. PreCheckShape(w) <=> PreCheckShape(x)
  BY <1>2, <1>3, ShapeOnFields
<1> QED BY <1>1, <1>4 DEF Asked, w, x

\* what is written into structs: the partner's choices, identifiers, and in a
\* precheck that the partner has not edited since, a tenor that was asked for
AInv ==
    /\ DOMAIN asked = Structs
    /\ minted \in Nat /\ minted >= OwnId
    /\ \A s \in Structs : type[s] \in DOMAIN Drafts /\ Drafts[type[s]] # {}
    /\ \A s \in Structs : \A f \in DOMAIN heap[s] \ {"rid", "period"} :
          heap[s][f] \in Choices[f] \cup {r[f] : r \in Drafts[type[s]]}
    /\ \A s \in Structs \ stale : type[s] = "precheck" => Asked(heap[s], asked[s])

\* what a service may do to the struct s
Serviced(s) ==
    /\ asked' = asked /\ stale' = stale
    /\ \/ heap'[s] = heap[s]
       \/ /\ DOMAIN heap'[s] = DOMAIN heap[s]
          /\ \A f \in DOMAIN heap[s] \ {"rid"} : heap'[s][f] = heap[s][f]
       \/ type[s] = "precheck" /\ heap'[s] = InferPeriod(heap[s])

\* A struct is written by the partner, by NewRequestID and by the validator of a
\* precheck, and by nothing else.
LEMMA HeapSteps ==
    ASSUME IInv, AInv, [Next]_vars, NEW s \in Structs
    PROVE  /\ type' = type
           /\ \/ Serviced(s)
              \/ heap'[s] = heap[s] /\ asked'[s] = asked[s] /\ (s \in stale' <=> s \in stale)
              \/ \E f \in Fields(type[s]) : \E v \in Choices[f] : Edit(s, f, v)
<1>0. DOMAIN heap = Structs /\ DOMAIN asked = Structs
  BY DEF IInv, TInv, AInv
<1>1. ASSUME NEW t \in Structs, NEW f \in Fields(type[t]), NEW v \in Choices[f], Edit(t, f, v)
      PROVE  /\ type' = type
             /\ t # s => heap'[s] = heap[s] /\ asked'[s] = asked[s] /\ (s \in stale' <=> s \in stale)
  BY <1>0, <1>1 DEF Edit
<1>2. ASSUME NEW c \in Callers, checkConfigured(c) \/ ReadId(c) \/ Unanswered(c) \/ Answered(c)
                                \/ Marshal(c) \/ Transmit(c)
      PROVE  type' = type /\ Serviced(s)
  BY <1>2 DEF checkConfigured, ReadId, Unanswered, Answered, Marshal, Transmit, ghosts, Serviced
<1>3. ASSUME NEW c \in Callers, NEW t \in Structs, Operation(c, t) PROVE type' = type /\ Serviced(s)
  <2>1. PICK op \in Ops, loop \in {"once", "poll"} : Submit(c, t, op, loop)
    BY <1>3, OperationSubmits
  <2> QED BY <2>1 DEF Submit, Serviced
<1>4. ASSUME NEW c \in Callers, NewRequestID(c) PROVE type' = type /\ Serviced(s)
  <2>1. type' = type /\ asked' = asked /\ stale' = stale
    BY <1>4 DEF NewRequestID, ghosts
  <2>2. PICK id : heap' = [heap EXCEPT ![call[c].s].rid = id]
    BY <1>4 DEF NewRequestID
  <2>3. /\ DOMAIN heap'[s] = DOMAIN heap[s]
        /\ \A f \in DOMAIN heap[s] \ {"rid"} : heap'[s][f] = heap[s][f]
    BY <1>0, <2>2
  <2> QED BY <2>1, <2>3 DEF Serviced
<1>5. ASSUME NEW c \in Callers, Check(c) PROVE type' = type /\ Serviced(s)
  <2>1. type' = type /\ asked' = asked /\ stale' = stale
    BY <1>5 DEF Check, ghosts
  <2>2. heap'[s] = heap[s] \/ (type[s] = "precheck" /\ heap'[s] = InferPeriod(heap[s]))
    BY <1>0, <1>5 DEF Check
  <2> QED BY <2>1, <2>2 DEF Serviced
<1>6. CASE UNCHANGED vars
  BY <1>6 DEF vars, Serviced
<1> QED BY <1>1, <1>2, <1>3, <1>4, <1>5, <1>6 DEF Next, Step

\* Every draft may be the struct of its type.
LEMMA InitAsked == Init => AInv
<1> SUFFICES ASSUME Init PROVE AInv
  OBVIOUS
<1>1. DOMAIN asked = Structs /\ minted \in Nat /\ minted >= OwnId
  BY DEF Init, OwnId
<1>2. ASSUME NEW s \in Structs PROVE type[s] \in DOMAIN Drafts /\ heap[s] \in Drafts[type[s]]
  BY DEF Init
<1>3. ASSUME NEW s \in Structs, type[s] = "precheck" PROVE Asked(heap[s], asked[s])
  <2>1. DOMAIN heap[s] = Fields("precheck")
    BY <1>2, <1>3, DraftsAssumption
  <2>2. "period" \in DOMAIN heap[s]
    BY <2>1 DEF Fields, PaymentPreCheckRequest
  <2>3. asked[s] = heap[s].period
    BY <2>2 DEF Init, PeriodType
  <2> QED BY <2>3 DEF Asked
<1> QED BY <1>1, <1>2, <1>3 DEF AInv

\* Every step keeps what is written into structs.
LEMMA NextAsked == IInv /\ AInv /\ [Next]_vars => AInv'
<1> SUFFICES ASSUME IInv, AInv, [Next]_vars PROVE AInv'
  OBVIOUS
<1>1. DOMAIN asked' = Structs
  <2>1. ASSUME NEW s \in Structs, NEW f \in Fields(type[s]), NEW v \in Choices[f], Edit(s, f, v)
        PROVE  DOMAIN asked' = Structs
    BY <2>1 DEF Edit, AInv
  <2>2. ASSUME NEW c \in Callers, NEW s \in Structs, Operation(c, s) PROVE asked' = asked
    <3>1. PICK op \in Ops, loop \in {"once", "poll"} : Submit(c, s, op, loop)
      BY <2>2, OperationSubmits
    <3> QED BY <3>1 DEF Submit
  <2>3. ASSUME NEW c \in Callers, checkConfigured(c) \/ Step(c) PROVE asked' = asked
    BY <2>3 DEF checkConfigured, Step, ReadId, NewRequestID, Check, Marshal, Transmit, Unanswered,
                Answered, ghosts
  <2>4. UNCHANGED vars => asked' = asked
    BY DEF vars
  <2> QED BY <2>1, <2>2, <2>3, <2>4 DEF Next, AInv
<1>2. minted' \in Nat /\ minted' >= OwnId
  <2>1. ASSUME NEW c \in Callers, NEW s \in Structs, Operation(c, s) PROVE minted' = minted
    <3>1. PICK op \in Ops, loop \in {"once", "poll"} : Submit(c, s, op, loop)
      BY <2>1, OperationSubmits
    <3> QED BY <3>1 DEF Submit
  <2>2. ASSUME NEW c \in Callers, NewRequestID(c) PROVE minted' = minted \/ minted' = minted + 1
    BY <2>2 DEF NewRequestID
  <2>3. ASSUME NEW c \in Callers, checkConfigured(c) \/ (Step(c) /\ ~NewRequestID(c)) PROVE minted' = minted
    BY <2>3 DEF checkConfigured, Step, ReadId, Check, Marshal, Transmit, Unanswered, Answered
  <2>4. minted' = minted \/ minted' = minted + 1
    BY <2>1, <2>2, <2>3 DEF Next, Edit, vars
  <2> QED BY <2>4 DEF AInv, OwnId
<1>3. ASSUME NEW s \in Structs
      PROVE  /\ type'[s] \in DOMAIN Drafts /\ Drafts[type'[s]] # {}
             /\ \A f \in DOMAIN heap'[s] \ {"rid", "period"} :
                   heap'[s][f] \in Choices[f] \cup {r[f] : r \in Drafts[type'[s]]}
             /\ s \notin stale' /\ type'[s] = "precheck" => Asked(heap'[s], asked'[s])
  <2>0. type' = type /\ type[s] \in DOMAIN Drafts /\ Drafts[type[s]] # {}
    BY HeapSteps DEF AInv
  <2>1. \A f \in DOMAIN heap[s] \ {"rid", "period"} :
            heap[s][f] \in Choices[f] \cup {r[f] : r \in Drafts[type[s]]}
    BY DEF AInv
  <2>2. s \notin stale /\ type[s] = "precheck" => Asked(heap[s], asked[s])
    BY DEF AInv
  <2>3. DOMAIN heap[s] = Fields(type[s]) /\ DOMAIN heap = Structs /\ DOMAIN asked = Structs
    BY DEF IInv, TInv, AInv
  <2>4. CASE Serviced(s)
    <3>1. /\ DOMAIN heap'[s] = DOMAIN heap[s]
          /\ \A f \in DOMAIN heap[s] \ {"rid", "period"} : heap'[s][f] = heap[s][f]
      BY <2>4 DEF Serviced, InferPeriod
    <3>2. ASSUME s \notin stale', type[s] = "precheck" PROVE Asked(heap'[s], asked'[s])
      BY <2>2, <2>3, <2>4, <3>1, <3>2, InferredIsAsked, MintedIsAsked DEF Serviced
    <3> QED BY <2>0, <2>1, <3>1, <3>2
  <2>5. CASE heap'[s] = heap[s] /\ asked'[s] = asked[s] /\ (s \in stale' <=> s \in stale)
    BY <2>0, <2>1, <2>2, <2>5
  <2>6. ASSUME NEW f \in Fields(type[s]), NEW v \in Choices[f], Edit(s, f, v)
        PROVE  /\ \A g \in DOMAIN heap'[s] \ {"rid", "period"} :
                     heap'[s][g] \in Choices[g] \cup {r[g] : r \in Drafts[type[s]]}
               /\ s \notin stale' /\ type[s] = "precheck" => Asked(heap'[s], asked'[s])
    <3>1. heap'[s] = [heap[s] EXCEPT ![f] = v]
      BY <2>3, <2>6 DEF Edit
    <3>2. \A g \in DOMAIN heap'[s] \ {"rid", "period"} :
              heap'[s][g] \in Choices[g] \cup {r[g] : r \in Drafts[type[s]]}
      BY <2>1, <2>3, <3>1
    <3>3. ASSUME s \notin stale', type[s] = "precheck" PROVE Asked(heap'[s], asked'[s])
      <4>1. "period" \in DOMAIN heap[s]
        BY <2>3, <3>3 DEF Fields, PaymentPreCheckRequest
      <4>2. CASE f = "period"
        BY <2>3, <2>6, <3>1, <4>1, <4>2 DEF Edit, Asked
      <4>3. CASE f # "period"
        <5>1. heap[s].period = asked[s] /\ asked' = asked
          BY <2>6, <3>3, <4>1, <4>3 DEF Edit, PeriodType
        <5> QED BY <3>1, <4>1, <4>3, <5>1 DEF Asked
      <4> QED BY <4>2, <4>3
    <3> QED BY <3>2, <3>3
  <2> QED BY <2>0, <2>4, <2>5, <2>6, HeapSteps
<1> QED BY <1>1, <1>2, <1>3 DEF AInv

\* Structs keep the fields and the values of their type, calls work on structs of
\* their operation, and bodies have the fields that operation sends, whatever the
\* partner edits and however the calls interleave.
THEOREM ServicesTypesHold == Spec => []TypeOK
<1>1. IInv /\ AInv => TypeOK
  <2> SUFFICES ASSUME IInv, AInv PROVE TypeOK
    OBVIOUS
  <2>1. ASSUME NEW s \in Structs PROVE DOMAIN heap[s] = DOMAIN CHOOSE r \in Drafts[type[s]] : TRUE
    <3>1. type[s] \in DOMAIN Drafts /\ Drafts[type[s]] # {} /\ DOMAIN heap[s] = Fields(type[s])
      BY DEF IInv, TInv, AInv
    <3>2. (CHOOSE r \in Drafts[type[s]] : TRUE) \in Drafts[type[s]]
      BY <3>1
    <3> QED BY <3>1, <3>2, DraftsAssumption
  <2>2. \A c \in Callers : Working(c) => type[call[c].s] = call[c].op
    BY DEF IInv, CInv
  <2>3. \A m \in wire : DOMAIN m.body = Fields(m.op) \ Hidden(m.op) /\ DOMAIN m.rest = Hidden(m.op)
    BY DEF IInv, WInv, Sound
  <2> QED BY <2>1, <2>2, <2>3 DEF TypeOK, AInv
<1> QED BY <1>1, Invariance, InitAsked, NextAsked, PTL DEF Spec

\* VerdictFollowsStruct: precheck.go:27-30 writes the inferred tenor into the
\* partner's struct, where the next precheck finds it. The verdict is still the
\* one for the struct as the partner wrote it.
THEOREM VerdictsFollowStructs == Spec => VerdictFollowsStruct
<1> DEFINE A == \A c \in Callers :
                   LET s == call[c].s IN
                   /\ call[c].pc = "check" /\ call'[c].pc # "check"
                   /\ call[c].op = "precheck" /\ s \notin stale
                   => (call'[c].pc = "marshal")
                         = PreCheckAsked([heap[s] EXCEPT !.period = asked[s]])
<1>1. IInv /\ AInv /\ [Next]_vars => [A]_vars
  <2> SUFFICES ASSUME IInv, AInv, [Next]_vars, NEW c \in Callers,
                      call[c].pc = "check", call'[c].pc # "check", call[c].op = "precheck",
                      call[c].s \notin stale
               PROVE  (call'[c].pc = "marshal")
                         = PreCheckAsked([heap[call[c].s] EXCEPT !.period = asked[call[c].s]])
    OBVIOUS
  <2> DEFINE s == call[c].s
             p == asked[s]
  <2>1. /\ Working(c) /\ s \in Structs /\ type[s] = "precheck" /\ DOMAIN heap[s] = Fields("precheck")
        /\ DOMAIN call = Callers /\ DOMAIN call[c] = CallFields
    BY DEF Working, IInv, CInv, TInv
  <2>2. Check(c)
    <3>1. ASSUME NEW t \in Structs, NEW f \in Fields(type[t]), NEW v \in Choices[f], Edit(t, f, v)
          PROVE  FALSE
      BY <3>1 DEF Edit, Collect
    <3>2. ASSUME NEW d \in Callers, NEW t \in Structs, Operation(d, t) PROVE FALSE
      <4>1. PICK op \in Ops, loop \in {"once", "poll"} : Submit(d, t, op, loop)
        BY <3>2, OperationSubmits
      <4> QED BY <2>1, <4>1 DEF Submit, Collect
    <3>3. ASSUME NEW d \in Callers, checkConfigured(d) PROVE FALSE
      BY <2>1, <3>3 DEF checkConfigured
    <3>4. ASSUME NEW d \in Callers, d # c, Step(d) PROVE FALSE
      BY <3>4, <2>1 DEF Step, ReadId, NewRequestID, Check, Return, Marshal, Transmit, Unanswered, Answered
    <3>5. ASSUME Step(c) PROVE Check(c)
      BY <3>5 DEF Step, ReadId, NewRequestID, Marshal, Transmit, Unanswered, Answered
    <3> QED BY <3>1, <3>2, <3>3, <3>4, <3>5 DEF Next, vars
  <2>3. (call'[c].pc = "marshal") <=> validatePaymentPreCheckRequest(heap[s])
    BY <2>1, <2>2 DEF Check, Return, Accepts, CallFields
  <2>4. Asked(heap[s], p)
    BY <2>1 DEF AInv
  <2>5. validatePaymentPreCheckRequest(heap[s]) <=> PreCheckAsked([heap[s] EXCEPT !.period = p])
    BY <2>1, <2>4, SameVerdict
  <2>6. PreCheckAsked([heap[s] EXCEPT !.period = p]) \in BOOLEAN
    BY DEF PreCheckAsked
  <2> QED BY <2>3, <2>5, <2>6
<1>2. Spec => [](IInv /\ AInv)
  BY Invariance, InitAsked, NextAsked, PTL DEF Spec
<1>3. Spec => [][A]_vars
  BY <1>1, <1>2, PTL DEF Spec
<1> QED BY <1>3 DEF VerdictFollowsStruct
=============================================================================
