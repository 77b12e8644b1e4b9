------------------------------ MODULE Services ------------------------------
(***************************************************************************)
(* The services that submit orders: Auth, Capture, ReAuth, VoidAuth,       *)
(* PaymentPlan, PaymentPreCheck, Refund, Repayment, the credit POSTs and   *)
(* GetOrCreate, with the poll wrappers that submit again.                  *)
(*                                                                         *)
(* A request struct belongs to the partner, who edits it between calls and *)
(* may hand it to several goroutines at once (Callers). The services write *)
(* into it: an empty RequestID is minted, and the precheck validator sets  *)
(* PeriodType. Nothing locks the struct, so the test of an empty RequestID *)
(* and the assignment that follows are steps of their own, as are          *)
(* validation and marshalling.                                             *)
(*                                                                         *)
(* The signed call is taken at its contract (module SignedCall): an answer *)
(* means that the body was sent, an error says nothing of it.              *)
(***************************************************************************)
EXTENDS Requests

CONSTANTS
    Callers,        \* goroutines that call the services
    Structs,        \* request structs of the partner
    Drafts,         \* what a struct holds at first: [op |-> set of requests]
    Choices,        \* what the partner writes into a field: [field |-> set of values]
    MaxEdits,       \* bound: fields the partner rewrites
    MaxCalls,       \* bound: calls started
    MaxRounds       \* bound: submissions of one poll

\* what a Go variable of type Amount, and of type []SubOrder, can hold
Amounts == -HalfRange..HalfRange - 1
SubOrders(v) ==
    Len(v) \in Nat /\ \A i \in 1..Len(v) : v[i].amount \in Amounts

AmountsTyped(r) ==
    /\ "total" \in DOMAIN r => r["total"] \in Amounts
    /\ "subs" \in DOMAIN r => SubOrders(r["subs"])

ASSUME DraftsAssumption ==
    /\ DOMAIN Drafts \subseteq Ops
    /\ \A op \in DOMAIN Drafts : \A r \in Drafts[op] : DOMAIN r = Fields(op) /\ AmountsTyped(r)

ASSUME ChoicesAssumption ==
    /\ \A v \in Choices["total"] : v \in Amounts
    /\ \A v \in Choices["subs"] : SubOrders(v)

VARIABLES
    type,           \* the Go type of each struct, by the operation that takes it
    heap,           \* the structs
    encryptKey,     \* does the client hold Atome's encryption certificate
    call,           \* the latest call of each caller
    wire,           \* bodies sent, each with the fields of its struct left out of it
    minted,         \* the latest identifier NewRequestID returned
    calls, edits,   \* counters for the bounds
    asked,          \* (history) PeriodType of each struct as the partner wrote it
    stale,          \* (history) structs edited while they hold an inferred PeriodType
    overlapped      \* (history) structs two calls worked on at the same time

vars == <<type, heap, encryptKey, call, wire, minted, calls, edits, asked, stale, overlapped>>

ghosts == <<asked, stale, overlapped>>

Idle == [pc |-> "idle", n |-> 0, s |-> "none", op |-> "none", loop |-> "once",
         wrapped |-> "no", round |-> 0, body |-> <<>>, rest |-> <<>>, outcome |-> "none"]

Encrypted == {"userTag", "information", "application"}

PeriodType(r) == IF "period" \in DOMAIN r THEN r["period"] ELSE 0

Working(c) == call[c].pc \notin {"idle", "done"}
Busy(s) == \E c \in Callers : Working(c) /\ call[c].s = s

\* the partner has taken note of the calls on s that have returned
Collect(f, s) == [c \in Callers |-> IF f[c].s = s /\ f[c].pc = "done" THEN Idle ELSE f[c]]

Init ==
    /\ type \in [Structs -> DOMAIN Drafts]
    /\ heap \in {h \in [Structs -> UNION {Drafts[op] : op \in DOMAIN Drafts}] :
                    \A s \in Structs : h[s] \in Drafts[type[s]]}
    /\ encryptKey \in {"set", "unset"}
    /\ call = [c \in Callers |-> Idle]
    /\ wire = {} /\ minted = OwnId /\ calls = 0 /\ edits = 0
    /\ asked = [s \in Structs |-> PeriodType(heap[s])]
    /\ stale = {} /\ overlapped = {}

-----------------------------------------------------------------------------
(* The partner.                                                            *)

Edit(s, f, v) ==
    /\ ~Busy(s) /\ edits < MaxEdits /\ heap[s][f] # v
    /\ edits' = edits + 1
    /\ heap' = [heap EXCEPT ![s][f] = v]
    /\ call' = Collect(call, s)
    /\ asked' = IF f = "period" THEN [asked EXCEPT ![s] = v] ELSE asked
    /\ stale' = IF f = "period" THEN stale \ {s}
                ELSE IF PeriodType(heap[s]) # asked[s] THEN stale \cup {s}
                ELSE stale
    /\ UNCHANGED <<type, encryptKey, wire, minted, calls, overlapped>>

\* a nil service, a service without a client or a nil request
checkConfigured(c) ==
    /\ ~Working(c) /\ calls < MaxCalls
    /\ calls' = calls + 1
    /\ call' = [call EXCEPT ![c] = [Idle EXCEPT !.pc = "done", !.n = calls', !.outcome = "validation"]]
    /\ UNCHANGED <<type, heap, encryptKey, wire, minted, edits, ghosts>>

Submit(c, s, op, loop) ==
    /\ ~Working(c) /\ type[s] = op /\ calls < MaxCalls
    /\ calls' = calls + 1
    /\ call' = [Collect(call, s) EXCEPT ![c] =
                    [Idle EXCEPT !.pc = IF op = "va" THEN "check" ELSE "read", !.n = calls',
                                 !.s = s, !.op = op, !.loop = loop, !.round = 1,
                                 !.wrapped = IF loop = "poll" THEN "yes" ELSE "no"]]
    /\ overlapped' = IF Busy(s) THEN overlapped \cup {s} ELSE overlapped
    /\ UNCHANGED <<type, heap, encryptKey, wire, minted, edits, asked, stale>>

Auth(c, s) == Submit(c, s, "auth", "once")
Capture(c, s) == Submit(c, s, "capture", "once")
ReAuth(c, s) == Submit(c, s, "reAuth", "once")
VoidAuth(c, s) == Submit(c, s, "voidAuth", "once")
PaymentPlan(c, s) == Submit(c, s, "plan", "once")
PaymentPreCheck(c, s) == Submit(c, s, "precheck", "once")
Refund(c, s) == Submit(c, s, "refund", "once")
Repayment(c, s) == Submit(c, s, "repayment", "once")
QueryUserTag(c, s) == Submit(c, s, "userTag", "once")
SubmitInformation(c, s) == Submit(c, s, "information", "once")
SubmitApplication(c, s) == Submit(c, s, "application", "once")
ModifyApplicationInfo(c, s) == Submit(c, s, "change", "once")
CloseAccount(c, s) == Submit(c, s, "close", "once")
GetOrCreate(c, s) == Submit(c, s, "va", "once")
AuthPollUntilTerminal(c, s) == Submit(c, s, "auth", "poll")
CapturePollUntilTerminal(c, s) == Submit(c, s, "capture", "poll")
RefundPollUntilTerminal(c, s) == Submit(c, s, "refund", "poll")
RepaymentPollUntilTerminal(c, s) == Submit(c, s, "repayment", "poll")

-----------------------------------------------------------------------------
(* What every submission goes through.                                     *)

\* after the RequestID: a poll wrapper goes on to its first submission, which
\* looks at RequestID again
AfterId(r) == [r EXCEPT !.pc = IF r.wrapped = "yes" THEN "read" ELSE "check", !.wrapped = "no"]

ReadId_AlwaysMints(c) ==
    /\ call[c].pc = "read"
    /\ call' = [call EXCEPT ![c].pc = "mint"]
    /\ UNCHANGED <<type, heap, encryptKey, wire, minted, calls, edits, ghosts>>

\* if req.RequestID == ""
ReadId(c) ==
    /\ call[c].pc = "read"
    /\ call' = [call EXCEPT ![c] = IF heap[call[c].s].rid = NoId
                                   THEN [call[c] EXCEPT !.pc = "mint"]
                                   ELSE AfterId(call[c])]
    /\ UNCHANGED <<type, heap, encryptKey, wire, minted, calls, edits, ghosts>>

\* req.RequestID = s.c.NewRequestID(): a value never used before, or nothing
\* where the partner's generator returns ""
NewRequestID(c) ==
    /\ call[c].pc = "mint"
    /\ \E id \in {minted + 1, NoId} :
          /\ heap' = [heap EXCEPT ![call[c].s].rid = id]
          /\ minted' = IF id = NoId THEN minted ELSE id
    /\ call' = [call EXCEPT ![c] = AfterId(call[c])]
    /\ UNCHANGED <<type, encryptKey, wire, calls, edits, ghosts>>

Return(c, outcome) == call' = [call EXCEPT ![c].pc = "done", ![c].outcome = outcome]

Check_TrustsPolls(c) ==
    LET s == call[c].s IN
    /\ call[c].pc = "check"
    /\ heap' = IF type[s] = "precheck" THEN [heap EXCEPT ![s] = InferPeriod(@)] ELSE heap
    /\ IF Accepts(type[s], heap[s]) \/ call[c].loop = "poll"
       THEN call' = [call EXCEPT ![c].pc = "marshal"]
       ELSE Return(c, "validation")
    /\ UNCHANGED <<type, encryptKey, wire, minted, calls, edits, ghosts>>

\* the validator of the operation; that of a precheck also writes PeriodType
Check(c) ==
    LET s == call[c].s IN
    /\ call[c].pc = "check"
    /\ heap' = IF type[s] = "precheck" THEN [heap EXCEPT ![s] = InferPeriod(@)] ELSE heap
    /\ IF Accepts(type[s], heap[s])
       THEN call' = [call EXCEPT ![c].pc = "marshal"]
       ELSE Return(c, "validation")
    /\ UNCHANGED <<type, encryptKey, wire, minted, calls, edits, ghosts>>

\* the body; the rest of the struct stays out of it: Sessionid travels as a header,
\* RequestID and PeriodType do not travel (their values are history, for the
\* properties). The free-form ExtendInfo of a repayment may hold a value JSON
\* cannot encode
Marshal(c) ==
    LET s == call[c].s IN
    /\ call[c].pc = "marshal"
    /\ \/ call' = [call EXCEPT ![c].pc = "send",
                               ![c].body = MarshalSigning(type[s], heap[s]),
                               ![c].rest = [f \in Hidden(type[s]) |-> heap[s][f]]]
       \/ type[s] = "repayment" /\ Return(c, "signature")
    /\ UNCHANGED <<type, heap, encryptKey, wire, minted, calls, edits, ghosts>>

Sendable(c) == call[c].op \in Encrypted => encryptKey = "set"

\* DoSigned, or DoEncryptedSigned for the credit POSTs that carry personal data
Transmit(c) ==
    /\ call[c].pc = "send" /\ Sendable(c)
    /\ wire' = wire \cup {[n |-> call[c].n, s |-> call[c].s, op |-> call[c].op,
                           body |-> call[c].body, rest |-> call[c].rest,
                           form |-> IF call[c].op \in Encrypted THEN "cipher" ELSE "plain"]}
    /\ call' = [call EXCEPT ![c].pc = "sent"]
    /\ UNCHANGED <<type, heap, encryptKey, minted, calls, edits, ghosts>>

\* the signed call ends without a response: nothing was sent, or no answer came
Unanswered(c) ==
    /\ \/ /\ call[c].pc = "send"
          /\ Return(c, IF Sendable(c) THEN "error" ELSE "validation")
       \/ call[c].pc = "sent" /\ Return(c, "error")
    /\ UNCHANGED <<type, heap, encryptKey, wire, minted, calls, edits, ghosts>>

\* a response, or a 2xx body that does not decode; a poll that reads PROCESSING
\* submits once more, through the service method from its first line
Answered(c) ==
    /\ call[c].pc = "sent"
    /\ \/ \E o \in {"response", "unmarshal"} : Return(c, o)
       \/ /\ call[c].loop = "poll" /\ call[c].round < MaxRounds
          /\ call' = [call EXCEPT ![c].pc = "read", ![c].round = @ + 1]
    /\ UNCHANGED <<type, heap, encryptKey, wire, minted, calls, edits, ghosts>>

Operation(c, s) ==
    \/ Auth(c, s) \/ Capture(c, s) \/ ReAuth(c, s) \/ VoidAuth(c, s)
    \/ PaymentPlan(c, s) \/ PaymentPreCheck(c, s)
    \/ Refund(c, s) \/ Repayment(c, s)
    \/ QueryUserTag(c, s) \/ SubmitInformation(c, s) \/ SubmitApplication(c, s)
    \/ ModifyApplicationInfo(c, s) \/ CloseAccount(c, s) \/ GetOrCreate(c, s)
    \/ AuthPollUntilTerminal(c, s) \/ CapturePollUntilTerminal(c, s)
    \/ RefundPollUntilTerminal(c, s) \/ RepaymentPollUntilTerminal(c, s)

Step(c) ==
    \/ ReadId(c) \/ NewRequestID(c) \/ Check(c) \/ Marshal(c)
    \/ Transmit(c) \/ Unanswered(c) \/ Answered(c)

Next ==
    \/ \E s \in Structs : \E f \in Fields(type[s]) : \E v \in Choices[f] : Edit(s, f, v)
    \/ \E c \in Callers :
          \/ checkConfigured(c)
          \/ \E s \in Structs : Operation(c, s)
          \/ Step(c)

Spec == Init /\ [][Next]_vars

-----------------------------------------------------------------------------
(* Properties.                                                             *)

\* every struct keeps its type, a call works on a struct of its operation, and
\* what was sent has the fields of its type
TypeOK ==
    /\ \A s \in Structs :
          /\ DOMAIN heap[s] = DOMAIN CHOOSE r \in Drafts[type[s]] : TRUE
          /\ \A f \in DOMAIN heap[s] \ {"rid", "period"} :
                heap[s][f] \in Choices[f] \cup {r[f] : r \in Drafts[type[s]]}
    /\ \A c \in Callers : Working(c) => type[call[c].s] = call[c].op
    /\ \A m \in wire : DOMAIN m.body = Fields(m.op) \ Hidden(m.op) /\ DOMAIN m.rest = Hidden(m.op)
    /\ minted >= OwnId

\* auth.go:88-90: "callers can read req.RequestID after the call to log the
\* value the SDK actually transmitted". Every body with a requestId that the call
\* sent, those of the later rounds of a poll included, carries the identifier
\* the struct shows when the call returns, unless another goroutine used the
\* struct meanwhile. /payment-plan and /payment-precheck send no RequestID
\* (json:"-"), and a virtual account has none.
EchoedIdIsTransmitted ==
    \A c \in Callers : \A m \in wire :
        /\ call[c].pc = "done" /\ m.n = call[c].n /\ m.s \notin overlapped
        /\ "rid" \in DOMAIN m.body
        => m.body["rid"] = heap[m.s].rid

\* the struct a message was made of, at the moment it was marshalled: what went
\* into the body and what stayed beside it
StructOf(m) ==
    [f \in Fields(m.op) |-> IF f \in DOMAIN m.body THEN m.body[f] ELSE m.rest[f]]

\* A request is validated in one step and marshalled in a later one, from a
\* struct other goroutines write to (a minted RequestID, the PeriodType another
\* precheck infers). Still nothing is sent from a struct that the validator would
\* refuse as it then stands, held to the tenor it then has; only a RequestID can
\* be replaced behind its back, when two calls share the struct.
SentIsAccepted ==
    \A m \in wire :
        LET r == StructOf(m) IN
        Accepts(m.op, IF m.s \in overlapped /\ m.op # "va" THEN [r EXCEPT !.rid = OwnId] ELSE r)

\* "must equal sum of subOrders[].amount": an int64 sum that wrapped never
\* passes for the total of one or two sub-orders.
AcceptedIsExact ==
    \A m \in wire :
        /\ m.op \in {"auth", "capture", "reAuth", "plan", "refund", "precheck"}
        /\ Len(m.body["subs"]) \in 1..2
        /\ \A i \in 1..Len(m.body["subs"]) : m.body["subs"][i].amount > 0
        => m.body["total"] = m.body["subs"][1].amount
                + IF Len(m.body["subs"]) = 2 THEN m.body["subs"][2].amount ELSE 0

\* the order of an accepted /auth, as the partner would send it to the
\* stage op under an identifier of its own
Mirror(m, op) ==
    [f \in Fields(op) |->
        CASE f = "rid" -> OwnId
          [] f = "order" -> "ok"
          [] f = "mode" -> "ask"
          [] f \in {"sessionId", "session"} -> "empty"
          [] OTHER -> m.body[f]]

\* capture.go:11-15: a capture mirrors its auth. What /auth accepted for tenor
\* 1 or 3 the other stages of the order accept too: the capture (given the
\* merchant names it asks for), the reAuth (given a uid it asks to be short),
\* and the plan and precheck that come before.
StagesAgree ==
    \A m \in wire :
        m.op = "auth" /\ m.body["period"] \in {1, 3} =>
            /\ (\A i \in 1..Len(m.body["subs"]) : m.body["subs"][i].merchantName # "empty")
                    => validateCaptureRequest(Mirror(m, "capture"))
            /\ m.body["uid"] = "ok" => validateReAuthRequest(Mirror(m, "reAuth"))
            /\ validatePaymentPlanRequest(Mirror(m, "plan"))
            /\ validatePaymentPreCheckRequest(Mirror(m, "precheck"))

\* what the precheck's documentation asks of a struct the partner wrote as r
PreCheckAsked(r) ==
    PreCheckShape(r) /\ PreCheckAmounts([r EXCEPT !.period = InferredPeriod(r)])

\* precheck.go:27-30: PeriodType "is inferred from the optional sub-order
\* periodType when present, then used for the partner-side IDR minimum-amount
\* validation". The verdict is the one for the struct as the partner wrote it,
\* whatever earlier and concurrent prechecks left in PeriodType, as long as the
\* partner does not edit the struct after a precheck has.
VerdictFollowsStruct ==
    [][\A c \in Callers :
          LET s == call[c].s IN
          /\ call[c].pc = "check" /\ call'[c].pc # "check"
          /\ call[c].op = "precheck" /\ s \notin stale
          => (call'[c].pc = "marshal")
                = PreCheckAsked([heap[s] EXCEPT !.period = asked[s]])]_vars
=============================================================================
