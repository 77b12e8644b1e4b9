------------------------------ MODULE Requests ------------------------------
(***************************************************************************)
(* What the services accept: the client-side validators of the payment,    *)
(* refund, repayment, credit and virtualaccount packages, as predicates    *)
(* that keep the names of the Go functions. A predicate is true where the  *)
(* function returns nil; which error it would return is left out.          *)
(*                                                                         *)
(* A request struct of any type is one record with the fields of all of    *)
(* them; the sets under "Request types" say which fields its type has.     *)
(* Texts are abstracted to "empty", "ok" (within the limit that is checked *)
(* for the field) and "long" (above it); a nil ExtendInfo is orderType     *)
(* "nil"; a nil PeriodType pointer of a sub-order is 0. Amounts are        *)
(* integers of -HalfRange..HalfRange-1 and wrap, as int64 does.            *)
(***************************************************************************)
EXTENDS Integers, Sequences

CONSTANT HalfRange              \* 2^63, scaled down for TLC

ASSUME HalfRangeAssumption == HalfRange \in Nat \ {0}

NoId == 0                       \* RequestID ""
LongId == -1                    \* a RequestID of more than 64 characters
OwnId == 1                      \* the partner's own; minted ones are 2, 3, ...

-----------------------------------------------------------------------------
(* Request types: the fields of each struct.                               *)

AuthRequest == {"rid", "uid", "total", "period", "subs", "orderType", "infos", "session"}
CaptureRequest == {"rid", "uid", "order", "total", "period", "subs", "orderType", "infos"}
ReAuthRequest == {"rid", "uid", "order", "total", "period", "subs", "orderType", "infos"}
VoidAuthRequest == {"rid", "uid", "order"}
PaymentPlanRequest == {"rid", "uid", "mode", "sessionId", "total", "period", "subs",
                       "orderType", "infos", "session"}
PaymentPreCheckRequest == {"rid", "uid", "total", "period", "subs", "orderType"}
RefundParam == {"rid", "uid", "order", "total", "subs", "orderType"}
RepaymentParam == {"rid", "uid", "total", "applyTime"}
QueryUserTagParam == {"rid", "mobile", "country"}
CreditInformationParam == {"rid", "uid", "mobile", "email", "country", "language"}
CreditApplicationParam == {"rid", "uid", "mobile", "email", "country", "orderType", "order"}
CreditApplicationChangeParam == {"rid", "uid", "mobile", "email", "language"}
CloseAccountParam == {"rid", "uid"}
VirtualAccountRequest == {"uid", "bank"}

Ops == {"auth", "capture", "reAuth", "voidAuth", "plan", "precheck", "refund", "repayment",
        "userTag", "information", "application", "change", "close", "va"}

Fields(op) ==
    CASE op = "auth"        -> AuthRequest
      [] op = "capture"     -> CaptureRequest
      [] op = "reAuth"      -> ReAuthRequest
      [] op = "voidAuth"    -> VoidAuthRequest
      [] op = "plan"        -> PaymentPlanRequest
      [] op = "precheck"    -> PaymentPreCheckRequest
      [] op = "refund"      -> RefundParam
      [] op = "repayment"   -> RepaymentParam
      [] op = "userTag"     -> QueryUserTagParam
      [] op = "information" -> CreditInformationParam
      [] op = "application" -> CreditApplicationParam
      [] op = "change"      -> CreditApplicationChangeParam
      [] op = "close"       -> CloseAccountParam
      [] op = "va"          -> VirtualAccountRequest

\* the fields tagged json:"-": read by the SDK, never part of the body
Hidden(op) ==
    CASE op = "auth"     -> {"session"}
      [] op = "plan"     -> {"rid", "session", "period"}
      [] op = "precheck" -> {"rid", "period"}
      [] OTHER           -> {}

MarshalSigning_AllFields(op, r) == [f \in Fields(op) |-> r[f]]

MarshalSigning(op, r) == [f \in Fields(op) \ Hidden(op) |-> r[f]]

-----------------------------------------------------------------------------
(* Amounts and sub-orders.                                                 *)

Add(a, b) ==
    LET s == a + b IN
    IF s >= HalfRange THEN s - 2 * HalfRange
    ELSE IF s < -HalfRange THEN s + 2 * HalfRange
    ELSE s

Total(subs) ==
    LET upTo[i \in 0..Len(subs)] == IF i = 0 THEN 0 ELSE Add(upTo[i - 1], subs[i].amount)
    IN  upTo[Len(subs)]

\* as sets: each amount is compared with a minimum, on its own
planSubOrderAmounts(subs) == {subs[i].amount : i \in 1..Len(subs)}

subOrderAmounts(subs) == {subs[i].amount : i \in 1..Len(subs)}

setPlanSubOrderAmounts(subs) == {a \in planSubOrderAmounts(subs) : a > 0}

allPlanSubOrderAmountsSet(subs) == \A i \in 1..Len(subs) : subs[i].amount > 0

sumPlanSubOrderAmount(subs) == Total(subs)

sumSubOrderAmount_Saturates(subs) ==
    IF Len(subs) = 2 /\ subs[1].amount + subs[2].amount >= HalfRange
    THEN HalfRange - 1 ELSE Total(subs)

sumSubOrderAmount(subs) == Total(subs)

IsValidOrderType(t) == t \in {"TRANSPORT", "GRAB_FOOD", "GRAB_MART"}

IsValidMode(m) == m \in {"ask", "get"}

validateCheckoutAmounts(period, total, amounts) ==
    /\ total >= IF period = 3 THEN 20000 ELSE 1
    /\ \A a \in amounts : a >= IF period = 3 THEN 3 ELSE 1

validateCaptureReAuthAmounts_OffByOne(period, amounts) ==
    \A a \in amounts : a > IF period < 1 THEN 1 ELSE period

validateCaptureReAuthAmounts(period, amounts) ==
    \A a \in amounts : a >= IF period < 1 THEN 1 ELSE period

validatePlanSubOrders(orderType, subs) ==
    CASE orderType \in {"GRAB_FOOD", "TRANSPORT"} -> Len(subs) = 1 /\ subs[1].amount > 0
      [] orderType = "GRAB_MART" ->
            /\ subs # <<>>
            /\ \A i \in 1..Len(subs) : subs[i].merchantId # "empty" /\ subs[i].amount > 0
      [] OTHER -> subs # <<>>

validateFoodMartAuthSubOrder(s) ==
    s.subOrderId # "empty" /\ s.merchantId # "empty" /\ s.amount > 0

validateAuthCaptureSubOrders(orderType, subs) ==
    CASE orderType = "TRANSPORT" -> Len(subs) = 1 /\ subs[1].amount > 0
      [] orderType = "GRAB_FOOD" -> Len(subs) = 1 /\ validateFoodMartAuthSubOrder(subs[1])
      [] orderType = "GRAB_MART" ->
            subs # <<>> /\ \A i \in 1..Len(subs) : validateFoodMartAuthSubOrder(subs[i])
      [] OTHER -> subs # <<>>

validateCaptureSubOrders(orderType, subs) ==
    /\ validateAuthCaptureSubOrders(orderType, subs)
    /\ orderType \in {"GRAB_FOOD", "GRAB_MART"} =>
            \A i \in 1..Len(subs) : subs[i].merchantName # "empty"

validateRequiredSKUInfos(infos) ==
    /\ infos # <<>>
    /\ \A i \in 1..Len(infos) :
            /\ infos[i].merchantId # "empty"
            /\ infos[i].skus # <<>>
            /\ \A j \in 1..Len(infos[i].skus) :
                    infos[i].skus[j].skuId # "empty" /\ infos[i].skus[j].amount > 0

validatePlanMainOrderExtendInfos(orderType, infos) ==
    orderType = "GRAB_MART" => validateRequiredSKUInfos(infos)

validateAuthCaptureMainOrderExtendInfos(orderType, infos) ==
    orderType \in {"GRAB_MART", "GRAB_FOOD"} => validateRequiredSKUInfos(infos)

-----------------------------------------------------------------------------
(* The validators, one per request type.                                   *)

ValidId(rid) == rid \notin {NoId, LongId}       \* requestId non-empty, at most 64

validateAuthRequest(r) ==
    /\ ValidId(r.rid) /\ r.uid # "empty" /\ r.total > 0
    /\ validateCheckoutAmounts(r.period, r.total, subOrderAmounts(r.subs))
    /\ IsValidOrderType(r.orderType)
    /\ validateAuthCaptureSubOrders(r.orderType, r.subs)
    /\ sumSubOrderAmount(r.subs) = r.total
    /\ validateAuthCaptureMainOrderExtendInfos(r.orderType, r.infos)
    /\ r.session = "ok"

validateCaptureRequest(r) ==
    /\ ValidId(r.rid) /\ r.uid # "empty" /\ r.order # "empty" /\ r.total > 0
    /\ validateCaptureReAuthAmounts(r.period, subOrderAmounts(r.subs))
    /\ IsValidOrderType(r.orderType)
    /\ validateCaptureSubOrders(r.orderType, r.subs)
    /\ sumSubOrderAmount(r.subs) = r.total
    /\ validateAuthCaptureMainOrderExtendInfos(r.orderType, r.infos)

validateReAuthRequest(r) ==
    /\ ValidId(r.rid) /\ r.uid = "ok" /\ r.order # "empty" /\ r.total > 0
    /\ validateCaptureReAuthAmounts(r.period, subOrderAmounts(r.subs))
    /\ IsValidOrderType(r.orderType)
    /\ validateAuthCaptureSubOrders(r.orderType, r.subs)
    /\ sumSubOrderAmount(r.subs) = r.total
    /\ validateAuthCaptureMainOrderExtendInfos(r.orderType, r.infos)

validateVoidAuthRequest(r) == ValidId(r.rid) /\ r.uid # "empty" /\ r.order # "empty"

\* the tenor a plan or precheck is held to: the request's, or else that of the
\* first sub-order
InferredPeriod(r) ==
    IF r.period = 0 /\ r.subs # <<>> THEN r.subs[1].period ELSE r.period

validatePaymentPlanRequest(r) ==
    /\ ValidId(r.rid) /\ r.uid # "empty" /\ IsValidMode(r.mode) /\ r.sessionId # "long"
    /\ r.total > 0
    /\ validateCheckoutAmounts(InferredPeriod(r), r.total, planSubOrderAmounts(r.subs))
    /\ validateCheckoutAmounts(r.period, r.total, planSubOrderAmounts(r.subs))
    /\ IsValidOrderType(r.orderType)
    /\ validatePlanSubOrders(r.orderType, r.subs)
    /\ sumPlanSubOrderAmount(r.subs) = r.total
    /\ validatePlanMainOrderExtendInfos(r.orderType, r.infos)
    /\ r.session # "long"

\* validatePaymentPreCheckRequest up to the assignment of req.PeriodType
PreCheckShape(r) ==
    /\ r.uid # "empty" /\ r.total > 0
    /\ validateCheckoutAmounts(r.period, r.total, setPlanSubOrderAmounts(r.subs))
    /\ r.orderType \notin {"nil", "empty"} => IsValidOrderType(r.orderType)
    /\ r.orderType \in {"GRAB_FOOD", "TRANSPORT"} => Len(r.subs) <= 1

\* ... and what follows it
PreCheckAmounts(r) ==
    /\ validateCheckoutAmounts(r.period, r.total, setPlanSubOrderAmounts(r.subs))
    /\ r.subs # <<>> /\ allPlanSubOrderAmountsSet(r.subs) =>
            sumPlanSubOrderAmount(r.subs) = r.total

InferPeriod_Dropped(r) == r

\* the struct as the precheck validator leaves it
InferPeriod(r) == IF PreCheckShape(r) THEN [r EXCEPT !.period = InferredPeriod(r)] ELSE r

validatePaymentPreCheckRequest(r) == PreCheckShape(r) /\ PreCheckAmounts(InferPeriod(r))

validateRefund(r) ==
    /\ ValidId(r.rid) /\ r.uid = "ok" /\ r.order = "ok" /\ r.total > 0
    /\ r.subs # <<>>
    /\ \A i \in 1..Len(r.subs) : r.subs[i].amount > 0
    /\ Total(r.subs) = r.total
    /\ IsValidOrderType(r.orderType)
    /\ r.orderType \in {"TRANSPORT", "GRAB_FOOD"} => Len(r.subs) = 1
    /\ r.orderType = "GRAB_MART" => \A i \in 1..Len(r.subs) : r.subs[i].merchantId # "empty"

validateRepayment(r) == ValidId(r.rid) /\ r.uid = "ok" /\ r.total > 0 /\ r.applyTime > 0

IsValidCountry(c) == c = "ID"

IsValidLanguage(l) == l \in {"en", "id"}

IsValidBank(b) == b \in {"BCA", "MANDIRI", "BRI", "BNI", "PERMATA", "SAHABAT_SAMPOERNA"}

validateCreditApplication(r) ==
    /\ ValidId(r.rid) /\ r.uid = "ok" /\ r.mobile # "empty" /\ r.email = "ok"
    /\ IsValidCountry(r.country)
    /\ r.orderType # "nil"                      \* ExtendInfo present
    /\ r.order = "ok"                           \* CreditInformationRequestID

validateCreditApplicationChange(r) ==
    /\ ValidId(r.rid) /\ r.uid = "ok" /\ r.mobile # "empty" /\ r.email # "long"
    /\ r.language # "empty" => IsValidLanguage(r.language)

validateCloseAccount(r) == ValidId(r.rid) /\ r.uid = "ok"

validateVirtualAccountRequest(r) == r.uid = "ok" /\ IsValidBank(r.bank)

\* QueryUserTag and SubmitInformation leave validation to the gateway
Accepts(op, r) ==
    CASE op = "auth"        -> validateAuthRequest(r)
      [] op = "capture"     -> validateCaptureRequest(r)
      [] op = "reAuth"      -> validateReAuthRequest(r)
      [] op = "voidAuth"    -> validateVoidAuthRequest(r)
      [] op = "plan"        -> validatePaymentPlanRequest(r)
      [] op = "precheck"    -> validatePaymentPreCheckRequest(r)
      [] op = "refund"      -> validateRefund(r)
      [] op = "repayment"   -> validateRepayment(r)
      [] op = "application" -> validateCreditApplication(r)
      [] op = "change"      -> validateCreditApplicationChange(r)
      [] op = "close"       -> validateCloseAccount(r)
      [] op = "va"          -> validateVirtualAccountRequest(r)
      [] op \in {"userTag", "information"} -> TRUE
=============================================================================
