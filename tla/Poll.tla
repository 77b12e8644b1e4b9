-------------------------------- MODULE Poll --------------------------------
(***************************************************************************)
(* Polling one order to its end: the wrappers AuthPollUntilTerminal,       *)
(* CapturePollUntilTerminal, RefundPollUntilTerminal and                   *)
(* RepaymentPollUntilTerminal over the shared loop pollUntilTerminal       *)
(* (payment/payment.go). Each round is one signed call, taken here at its  *)
(* contract (SignedCall): at most MaxAttempts copies of the request, then  *)
(* one outcome. Copies may be lost, or reach the gateway late, after the   *)
(* round or the whole poll has ended. The gateway is external: it keeps    *)
(* one order per requestId and answers a repeated request with its state.  *)
(*                                                                         *)
(* The caller may poll again with the same request struct. Time is not     *)
(* counted: MaxWait and the caller's deadline may pass at any step.        *)
(***************************************************************************)
EXTENDS Integers, FiniteSets

CONSTANTS
    Options,        \* the PollOptions considered: initial, max, mult (in 1/Grain)
    Defaults,       \* what withDefaults puts in the place of unset options
    HalfRange,      \* a time.Duration is an int64 of -HalfRange..HalfRange - 1
    Grain,          \* 1/Grain separates the float64 values just above 1
    Floats,         \* the float64 values that are not negative, in units of 1/Grain
    Exact,          \* up to here every whole number is a float64
    MaxAttempts,    \* copies one signed call may transmit
    MaxCalls,       \* bound: polls of one caller
    MaxCopies       \* bound: copies transmitted over all polls

Durations == -HalfRange..HalfRange - 1

\* for a float64 Grain is 2^52, Exact 2^53 and HalfRange 2^63
ASSUME FloatAssumption ==
    /\ Grain \in Nat \ {0} /\ Exact \in Nat \ {0} /\ HalfRange \in Nat /\ Exact < HalfRange
    /\ Floats \subseteq Nat
    /\ \A n \in 0..Exact : n * Grain \in Floats

ASSUME PollAssumption ==
    /\ MaxAttempts \in Nat \ {0} /\ MaxCalls \in Nat \ {0} /\ MaxCopies \in Nat \ {0}
    /\ \A o \in Options : o.initial \in Durations /\ o.max \in Durations /\ o.mult \in Int
    /\ Defaults.initial \in 1..HalfRange - 1 /\ Defaults.max \in 1..HalfRange - 1
    /\ Defaults.mult \in Nat /\ Defaults.mult >= Grain

Ids == 1..MaxCalls          \* what NewRequestID mints: a fresh value each time
NoId == 0
Nil == [code |-> "nil", status |-> "nil"]       \* a nil response

Response(c, s) == [code |-> c, status |-> s]
Responses == [code : {"none", "SUCCESS", "OTHER"},
              status : {"none", "PROCESSING", "SUCCESS", "FAILED"}]

VARIABLES
    opts, probe,    \* the options in force, and whether getRejection is given
    reqID,          \* RequestID of the caller's request struct
    minted,         \* identifiers minted so far
    calls,          \* polls started so far
    ctx,            \* the caller's context: "live" or "done"
    waited,         \* MaxWait has elapsed
    pc, round, delay,
    resp, lastResp, \* the response of this round, and of the latest round that had one
    result,         \* what the poll returned
    attempts,       \* copies transmitted in this round
    sent,           \* copies transmitted in all
    pending,        \* copies on their way to the gateway
    reply,          \* the gateway's answer to the latest copy
    order,          \* the gateway's orders, by requestId
    seen            \* (history) the latest response received in this poll

clientVars == <<opts, probe, reqID, minted, calls, ctx, waited, pc, round, delay, resp,
                lastResp, result, seen>>
wireVars == <<attempts, sent, pending, reply, order>>
vars == <<clientVars, wireVars>>

Pending == [kind |-> "pending", resp |-> Nil]

IsTerminal(s) == s \in {"SUCCESS", "FAILED"}

IsSyncRejection_CodeOnly(r) == r.code \notin {"none", "SUCCESS"}

IsSyncRejection(r) == r.code \notin {"none", "SUCCESS"} /\ r.status = "none"

WithDefaults(o) ==
    [initial |-> IF o.initial <= 0 THEN Defaults.initial ELSE o.initial,
     max |-> IF o.max <= 0 THEN Defaults.max ELSE o.max,
     mult |-> IF o.mult < Grain THEN Defaults.mult ELSE o.mult]

Init ==
    /\ opts \in {WithDefaults(o) : o \in Options}
    /\ probe \in BOOLEAN
    /\ reqID = NoId /\ minted = 0 /\ calls = 0
    /\ ctx = "live" /\ waited = FALSE
    /\ pc = "idle" /\ round = 0 /\ delay = opts.initial
    /\ resp = Nil /\ lastResp = Nil /\ seen = Nil /\ result = Pending
    /\ attempts = 0 /\ sent = 0 /\ pending = {} /\ reply = Nil
    /\ order = [i \in Ids |-> "none"]

PollDone == ctx = "done" \/ waited          \* pollCtx.Err() != nil

-----------------------------------------------------------------------------
(* The wrapper and the loop.                                               *)

Start_Remints ==
    /\ pc \in {"idle", "returned"}
    /\ calls < MaxCalls
    /\ calls' = calls + 1
    /\ reqID' = minted + 1 /\ minted' = minted + 1
    /\ ctx' = "live" /\ waited' = FALSE
    /\ pc' = "top" /\ round' = 0 /\ delay' = opts.initial
    /\ resp' = Nil /\ lastResp' = Nil /\ seen' = Nil /\ result' = Pending
    /\ UNCHANGED <<opts, probe, wireVars>>

\* the caller polls, for the first time or again, with a context of its own;
\* an empty RequestID is minted into the caller's struct
Start ==
    /\ pc \in {"idle", "returned"}
    /\ calls < MaxCalls
    /\ calls' = calls + 1
    /\ IF reqID = NoId
       THEN reqID' = minted + 1 /\ minted' = minted + 1
       ELSE UNCHANGED <<reqID, minted>>
    /\ ctx' = "live" /\ waited' = FALSE
    /\ pc' = "top" /\ round' = 0 /\ delay' = opts.initial
    /\ resp' = Nil /\ lastResp' = Nil /\ seen' = Nil /\ result' = Pending
    /\ UNCHANGED <<opts, probe, wireVars>>

Return(kind, r) ==
    /\ pc' = "returned"
    /\ result' = [kind |-> kind, resp |-> r]

Top ==
    /\ pc = "top"
    /\ IF PollDone
       THEN pc' = "stopping" /\ UNCHANGED <<round, resp, attempts, reply>>
       ELSE /\ pc' = "calling"
            /\ round' = round + 1
            /\ resp' = Nil
            /\ attempts' = 0 /\ reply' = Nil
    /\ UNCHANGED <<opts, probe, reqID, minted, calls, ctx, waited, delay, lastResp, result, seen,
                   sent, pending, order>>

Judge_ForgetsLast ==
    /\ pc \in {"answered", "failed"}
    /\ \/ /\ PollDone
          /\ lastResp' = resp
          /\ pc' = "stopping" /\ UNCHANGED result
       \/ /\ ~PollDone
          /\ IF pc = "failed"
             THEN Return("error", Nil) /\ UNCHANGED lastResp
             ELSE /\ lastResp' = resp
                  /\ IF IsTerminal(resp.status) THEN Return("terminal", resp)
                     ELSE IF probe /\ IsSyncRejection(resp) THEN Return("rejected", Nil)
                     ELSE pc' = "sleep" /\ UNCHANGED result
    /\ UNCHANGED <<opts, probe, reqID, minted, calls, ctx, waited, round, delay, resp, seen, wireVars>>

\* the rest of the round, once the call is back
Judge ==
    /\ pc \in {"answered", "failed"}
    /\ \/ /\ PollDone
          /\ lastResp' = IF resp # Nil THEN resp ELSE lastResp
          /\ pc' = "stopping" /\ UNCHANGED result
       \/ /\ ~PollDone
          /\ IF pc = "failed"
             THEN Return("error", Nil) /\ UNCHANGED lastResp
             ELSE /\ lastResp' = resp
                  /\ IF IsTerminal(resp.status) THEN Return("terminal", resp)
                     ELSE IF probe /\ IsSyncRejection(resp) THEN Return("rejected", Nil)
                     ELSE pc' = "sleep" /\ UNCHANGED result
    /\ UNCHANGED <<opts, probe, reqID, minted, calls, ctx, waited, round, delay, resp, seen, wireVars>>

Abs(i) == IF i < 0 THEN -i ELSE i

\* float64 arithmetic rounds n/q to a nearest value (of two, to one of them)
Nearest(n, q) == {f \in Floats : \A g \in Floats : Abs(f * q - n) <= Abs(g * q - n)}

\* float64(delay) * o.Multiplier
Product(d, m) == UNION {Nearest(a * m, Grain) : a \in Nearest(d * Grain, 1)}

\* time.Duration(f) drops the fraction; what it makes of a value that is no int64
\* is up to the build: the least one (amd64) or the greatest (arm64)
Duration(f) == IF f < HalfRange * Grain THEN {f \div Grain} ELSE {-HalfRange, HalfRange - 1}

\* the least Duration stays what it is, whatever it is multiplied by
Multiplied(d, m) == IF d < 0 THEN {d} ELSE UNION {Duration(f) : f \in Product(d, m)}

NextDelay_NoCap == Multiplied(delay, opts.mult)

NextDelay == {IF d > opts.max THEN opts.max ELSE d : d \in Multiplied(delay, opts.mult)}

\* the timer of sleepWithCtx, which select may take although pollCtx is done; a
\* delay that is not positive is no wait at all
SleepEnds ==
    /\ pc = "sleep"
    /\ pc' = "top"
    /\ delay' \in NextDelay
    /\ UNCHANGED <<opts, probe, reqID, minted, calls, ctx, waited, round, resp, lastResp, result,
                   seen, wireVars>>

SleepCut ==
    /\ pc = "sleep" /\ delay > 0
    /\ PollDone
    /\ pc' = "stopping"
    /\ UNCHANGED <<opts, probe, reqID, minted, calls, ctx, waited, round, delay, resp, lastResp,
                   result, seen, wireVars>>

\* pollError blames the caller's context if it is done by now
Report ==
    /\ pc = "stopping"
    /\ Return(IF ctx = "done" THEN "callerDone" ELSE "maxWait", lastResp)
    /\ UNCHANGED <<opts, probe, reqID, minted, calls, ctx, waited, round, delay, resp, lastResp,
                   seen, wireVars>>

-----------------------------------------------------------------------------
(* One round: a signed call, at its contract.                              *)

Transmit_NoLimit ==
    /\ pc = "calling"
    /\ sent < MaxCopies
    /\ attempts' = attempts + 1 /\ sent' = sent + 1
    /\ pending' = pending \cup {[id |-> reqID, n |-> sent + 1]}
    /\ reply' = Nil
    /\ UNCHANGED <<clientVars, order>>

Transmit ==
    /\ pc = "calling" /\ ~PollDone
    /\ attempts < MaxAttempts /\ sent < MaxCopies
    /\ attempts' = attempts + 1 /\ sent' = sent + 1
    /\ pending' = pending \cup {[id |-> reqID, n |-> sent + 1]}
    /\ reply' = Nil
    /\ UNCHANGED <<clientVars, order>>

\* Auth, Capture, Refund, Repayment: a decoded 2xx answer to the latest copy
CallAnswers ==
    /\ pc = "calling"
    /\ reply # Nil
    /\ pc' = "answered" /\ resp' = reply /\ seen' = reply
    /\ UNCHANGED <<opts, probe, reqID, minted, calls, ctx, waited, round, delay, lastResp, result,
                   wireVars>>

Fails ==
    /\ pc = "calling"
    /\ pc' = "failed"
    /\ UNCHANGED <<opts, probe, reqID, minted, calls, ctx, waited, round, delay, resp, lastResp,
                   result, seen, wireVars>>

\* validation, signing, HTTP or decoding error, or the retries exhausted
CallFails == ~PollDone /\ Fails

CallAborted_ParentOnly == ctx = "done" /\ Fails

\* the call runs under pollCtx and gives up when that is done
CallAborted == PollDone /\ Fails

-----------------------------------------------------------------------------
(* The gateway (external), the network and the clocks.                     *)

\* the first request for an identifier opens an order, or is refused for good
Decide(s) == IF s = "none" THEN {"PROCESSING", "SUCCESS", "FAILED", "REJECTED"} ELSE {s}

Answers(s) ==
    CASE s = "REJECTED"   -> {Response("OTHER", "none")}
      [] s = "PROCESSING" -> {Response("SUCCESS", "PROCESSING"), Response("OTHER", "PROCESSING"),
                              Response("SUCCESS", "none")}
      [] OTHER            -> {Response("SUCCESS", s), Response("OTHER", s)}

\* a copy arrives; its answer is lost, or comes in time for the call that sent it
GatewayHandles(c) ==
    /\ pending' = pending \ {c}
    /\ \E s \in Decide(order[c.id]) :
          /\ order' = [order EXCEPT ![c.id] = s]
          /\ \/ UNCHANGED reply
             \/ pc = "calling" /\ c.n = sent /\ attempts > 0 /\ reply' \in Answers(s)
    /\ UNCHANGED <<clientVars, attempts, sent>>

CopyLost(c) ==
    /\ pending' = pending \ {c}
    /\ UNCHANGED <<clientVars, attempts, sent, reply, order>>

GatewaySettles(i) ==
    /\ order[i] = "PROCESSING"
    /\ \E s \in {"SUCCESS", "FAILED"} : order' = [order EXCEPT ![i] = s]
    /\ UNCHANGED <<clientVars, attempts, sent, pending, reply>>

Active == pc \notin {"idle", "returned"}

CallerDone ==
    /\ Active /\ ctx = "live"
    /\ ctx' = "done"
    /\ UNCHANGED <<opts, probe, reqID, minted, calls, waited, pc, round, delay, resp, lastResp,
                   result, seen, wireVars>>

MaxWaitElapses ==
    /\ Active /\ ~waited
    /\ waited' = TRUE
    /\ UNCHANGED <<opts, probe, reqID, minted, calls, ctx, pc, round, delay, resp, lastResp,
                   result, seen, wireVars>>

-----------------------------------------------------------------------------

Loop == Top \/ Judge \/ SleepEnds \/ SleepCut \/ Report

Finished == pc = "returned" /\ calls = MaxCalls /\ UNCHANGED vars

Next == \/ Start \/ Loop
        \/ Transmit \/ CallAnswers \/ CallFails \/ CallAborted
        \/ \E c \in pending : GatewayHandles(c) \/ CopyLost(c)
        \/ \E i \in Ids : GatewaySettles(i)
        \/ CallerDone \/ MaxWaitElapses
        \/ Finished

Spec == Init /\ [][Next]_vars

\* The polling goroutine runs, MaxWait's timer fires, and a call under a context
\* that is done returns (Dispatch shows that it does).
Fairness == WF_vars(Loop) /\ WF_vars(MaxWaitElapses) /\ WF_vars(CallAborted)

FairSpec == Spec /\ Fairness

-----------------------------------------------------------------------------
(* Properties.                                                             *)

\* Type correctness of the polling loop and the calls under it.
TypeOK ==
    /\ probe \in BOOLEAN /\ waited \in BOOLEAN /\ ctx \in {"live", "done"}
    /\ reqID \in Ids \cup {NoId} /\ minted \in 0..MaxCalls /\ calls \in 0..MaxCalls
    /\ pc \in {"idle", "top", "calling", "answered", "failed", "sleep", "stopping", "returned"}
    /\ round \in 0..(MaxCopies + 1)
    /\ delay \in Durations /\ (delay > 0 \/ delay = -HalfRange)
    /\ {resp, lastResp, seen, reply, result.resp} \subseteq Responses \cup {Nil}
    /\ result.kind \in {"pending", "terminal", "rejected", "error", "maxWait", "callerDone"}
    /\ attempts \in 0..MaxAttempts /\ sent \in 0..MaxCopies
    /\ pending \subseteq [id : Ids, n : 1..MaxCopies]
    /\ order \in [Ids -> {"none", "PROCESSING", "SUCCESS", "FAILED", "REJECTED"}]

\* However often the loop re-submits, the client retries, copies arrive late and
\* the caller polls again with the same struct: the gateway sees one requestId,
\* and opens one order.
OneOrder == Cardinality({i \in Ids : order[i] # "none"}) <= 1

\* What a poll reports holds at the gateway from then on: a terminal response,
\* even one returned with a timeout, is how the order ended; a business rejection
\* means that the order was refused and never opened.
OutcomeHolds ==
    /\ IsTerminal(result.resp.status) => order[reqID] = result.resp.status
    /\ result.kind = "rejected" => order[reqID] = "REJECTED"

\* A poll stopped by MaxWait or the caller returns the last response it was
\* given, however the round after that one ended (POLLING.md).
StopsWithLastResponse == result.kind \in {"maxWait", "callerDone"} => result.resp = seen

\* the powers of b, spelled out for the provers
Power(b) == LET p[n \in Nat] == IF n = 0 THEN 1 ELSE b * p[n - 1] IN p

\* the wait after round n for a whole multiplier b
Wait(b, n) ==
    LET w == opts.initial * Power(b)[n - 1]
    IN  IF n > 1 /\ w > opts.max THEN opts.max ELSE w

\* the whole multipliers on both sides of the one in force: the same if it is whole
Floor == opts.mult \div Grain
Ceil == (opts.mult + Grain - 1) \div Grain

\* no product leaves the whole numbers that float64 can count: 104 days in
\* nanoseconds
Countable == Ceil * opts.initial <= Exact /\ Ceil * opts.max <= Exact

\* payment.go:317 multiplies in float64 and drops the fraction at every round.
\* Whatever that loses or rounds up, the wait after round n is initial *
\* mult^(n-1) under the cap for a whole multiplier, and lies between those of the
\* whole multipliers next to any other, while products stay countable; beyond,
\* where the conversion may turn negative, it still never passes the cap. Only the
\* first wait is not capped.
BackoffIsGeometric ==
    pc = "sleep" =>
        /\ round = 1 => delay = opts.initial
        /\ round > 1 => delay <= opts.max
        /\ Countable => Wait(Floor, round) <= delay /\ delay <= Wait(Ceil, round)

\* Every poll returns: MaxWait bounds calls and sleeps alike, whatever the
\* gateway and the network do.
PollReturns == Active ~> ~Active

\* PollOptions.MaxDelay "caps any single backoff step" (payment.go).
EveryWaitIsCapped == pc = "sleep" => delay <= opts.max
=============================================================================
