------------------------------ MODULE Dispatch ------------------------------
(***************************************************************************)
(* One signed call of the SDK: the entry points DoSigned, DoSignedGET and  *)
(* DoEncryptedSigned, the retry loop signAndDispatch, one HTTP attempt     *)
(* (dispatchAttempt) and the backoff sleep (RetryPolicy.Sleep), against a  *)
(* network that loses requests and answers, a caller that cancels, and     *)
(* deadlines that expire between any two steps.                            *)
(*                                                                         *)
(* Time is not counted: a deadline, a timer or a timeout may fire at any   *)
(* step at which it is armed.                                              *)
(***************************************************************************)
EXTENDS Naturals

CONSTANTS
    Policies,       \* the client configurations considered
    Statuses        \* the HTTP statuses the gateway may answer with

Codes == {"SERVER_ERROR", "OTHER"}    \* the envelope's code, as Temporary reads it
NoStatus == 0
TransportErrors == {"canceled", "deadline", "network", "tooLarge"}

(***************************************************************************)
(* A policy is transport.RetryPolicy with the client's timeout: max is     *)
(* MaxAttempts, pause says that Backoff is positive, retryStatus and       *)
(* retryTransport are the two callbacks, timeout says c.timeout > 0.       *)
(***************************************************************************)
ASSUME PoliciesAreValid ==
    \A p \in Policies :
        /\ p.max \in Nat \ {0}
        /\ p.pause \in BOOLEAN /\ p.timeout \in BOOLEAN /\ p.retryTransport \in BOOLEAN
        /\ p.retryStatus \subseteq Statuses

ASSUME StatusesAreHTTP == \A s \in Statuses : s \in 100..599

VARIABLES
    policy,         \* the configuration, fixed for the call
    ctx,            \* the caller's context: "live", "canceled" or "deadline"
    expired,        \* the per-attempt timeout of the current attempt has fired
    pc,             \* where the call stands
    attempt,        \* the loop variable of signAndDispatch (0 before the loop)
    reply,          \* status and code of the answer being read
    err,            \* the transport error being classified
    copies,         \* copies of the request handed to the network
    abandoned,      \* outcomes of the attempts that were followed by a sleep
    retried,        \* attempts for which Observer.OnRetry was called
    deadStarts,     \* attempts begun although the caller's context was done
    result          \* what the call returned

vars == <<policy, ctx, expired, pc, attempt, reply, err, copies, abandoned,
          retried, deadStarts, result>>

Reply == [status : Statuses \cup {NoStatus}, code : Codes]
NoReply == [status |-> NoStatus, code |-> "OTHER"]

\* what an attempt that was given up had come to
Outcome == [status : Statuses \cup {NoStatus}, err : TransportErrors \cup {"none"}]

Pending == [kind |-> "pending", op |-> "none", status |-> NoStatus, code |-> "OTHER", retry |-> "no"]

YesNo(b) == IF b THEN "yes" ELSE "no"

TransportError(op, retryable) ==
    [kind |-> "transport", op |-> op, status |-> NoStatus, code |-> "OTHER",
     retry |-> YesNo(retryable)]

APIError(r) ==
    [kind |-> "api", op |-> "none", status |-> r.status, code |-> r.code, retry |-> "no"]

Result == [kind : {"pending", "ok", "api", "transport", "signature", "validation"},
           op : {"none", "encrypt", "sign", "build", "do", "read", "sleep"},
           status : Statuses \cup {NoStatus}, code : Codes, retry : {"yes", "no"}]

\* APIError.Temporary
Temporary(r) == r.code = "SERVER_ERROR" \/ r.status \in {500, 502, 503, 504}

\* IsRetryableTransport: only a cancellation is final
IsRetryableTransport(e) == e # "canceled"

Init ==
    /\ policy \in Policies
    /\ ctx = "live"
    /\ expired = FALSE
    /\ pc = "entry"
    /\ attempt = 0
    /\ reply = NoReply
    /\ err = "network"
    /\ copies = 0
    /\ abandoned = {}
    /\ retried = {}
    /\ deadStarts = 0
    /\ result = Pending

-----------------------------------------------------------------------------
(* Before the loop: argument checks, encryption, and the one signature.    *)

Return(r) ==
    /\ pc' = "returned"
    /\ result' = r

\* DoSigned, DoSignedGET, DoEncryptedSigned refuse a bad method or path, or
\* an encrypted call without the gateway's public key; encrypt.Marshal may fail.
EntryRejects ==
    /\ pc = "entry"
    /\ \/ Return([Pending EXCEPT !.kind = "validation"])
       \/ Return(TransportError("encrypt", FALSE))
    /\ UNCHANGED <<policy, ctx, expired, attempt, reply, err, copies, abandoned, retried, deadStarts>>

EntryAccepts ==
    /\ pc = "entry"
    /\ pc' = "sign"
    /\ UNCHANGED <<policy, ctx, expired, attempt, reply, err, copies, abandoned, retried, deadStarts, result>>

\* signer.Sign refuses a context that is done; any other failure is a SignatureError
SignFails ==
    /\ pc = "sign"
    /\ Return(IF ctx = "live" THEN [Pending EXCEPT !.kind = "signature"]
                              ELSE TransportError("sign", FALSE))
    /\ UNCHANGED <<policy, ctx, expired, attempt, reply, err, copies, abandoned, retried, deadStarts>>

SignSucceeds ==
    /\ pc = "sign"
    /\ ctx = "live"
    /\ pc' = "attempt"
    /\ attempt' = 1
    /\ UNCHANGED <<policy, ctx, expired, reply, err, copies, abandoned, retried, deadStarts, result>>

-----------------------------------------------------------------------------
(* One HTTP attempt.                                                       *)

\* dispatchAttempt up to httpClient.Do: a fresh timeout, OnRequest, buildReq
BeginAttempt ==
    /\ pc = "attempt"
    /\ expired' = FALSE
    /\ reply' = NoReply
    /\ deadStarts' = IF ctx = "live" THEN deadStarts ELSE deadStarts + 1
    /\ \/ pc' = "do" /\ UNCHANGED result
       \/ Return(TransportError("build", FALSE))
    /\ UNCHANGED <<policy, ctx, attempt, err, copies, abandoned, retried>>

\* net/http puts the request on the wire, unless its context is already done
Transmit ==
    /\ pc = "do"
    /\ ctx = "live" /\ ~expired
    /\ pc' = "wait"
    /\ copies' = copies + 1
    /\ UNCHANGED <<policy, ctx, expired, attempt, reply, err, abandoned, retried, deadStarts, result>>

\* the error net/http reports when the attempt's context is done
ContextError(e) ==
    \/ ctx = "canceled" /\ e = "canceled"
    \/ (ctx = "deadline" \/ expired) /\ e = "deadline"

Abort ==
    /\ \E e \in {"canceled", "deadline"} : ContextError(e) /\ err' = e
    /\ \/ pc \in {"do", "wait"} /\ pc' = "doError"
       \/ pc = "read" /\ pc' = "readError"
    /\ UNCHANGED <<policy, ctx, expired, attempt, reply, copies, abandoned, retried, deadStarts, result>>

\* the network loses the request, or the answer before or within its body
NetworkFails ==
    /\ err' = "network"
    /\ \/ pc \in {"do", "wait"} /\ pc' = "doError"
       \/ pc = "read" /\ pc' = "readError"
    /\ UNCHANGED <<policy, ctx, expired, attempt, reply, copies, abandoned, retried, deadStarts, result>>

HeadersArrive ==
    /\ pc = "wait"
    /\ \E s \in Statuses, c \in Codes : reply' = [status |-> s, code |-> c]
    /\ pc' = "read"
    /\ UNCHANGED <<policy, ctx, expired, attempt, err, copies, abandoned, retried, deadStarts, result>>

\* readAndClose: the whole body within maxRespBytes, or more than that
BodyArrives ==
    /\ pc = "read"
    /\ \/ pc' = "answered" /\ UNCHANGED err
       \/ pc' = "readError" /\ err' = "tooLarge"
    /\ UNCHANGED <<policy, ctx, expired, attempt, reply, copies, abandoned, retried, deadStarts, result>>

-----------------------------------------------------------------------------
(* What signAndDispatch does with the attempt's outcome.                   *)

GiveUp ==
    /\ pc' = "sleep"
    /\ abandoned' = abandoned \cup {[status |-> reply.status,
                                     err |-> IF pc = "answered" THEN "none" ELSE err]}
    /\ UNCHANGED result

Conclude_OffByOne(retryable, e) ==
    IF ~retryable \/ attempt > policy.max
    THEN Return(e) /\ UNCHANGED abandoned
    ELSE GiveUp

\* return the error, or give the attempt up and sleep
Conclude(retryable, e) ==
    IF ~retryable \/ attempt = policy.max
    THEN Return(e) /\ UNCHANGED abandoned
    ELSE GiveUp

DoRetryable_DeadlineAlone ==
    policy.retryTransport /\ IsRetryableTransport(err)

\* the classification of an httpClient.Do error, evaluated when it is read
DoRetryable == ctx = "live" /\ policy.retryTransport /\ IsRetryableTransport(err)

ClassifyDo_StaleFlag ==
    /\ pc = "doError"
    /\ retried' = retried \cup {attempt}
    /\ Conclude(DoRetryable, TransportError("do", DoRetryable_DeadlineAlone))
    /\ UNCHANGED <<policy, ctx, expired, attempt, reply, err, copies, deadStarts>>

ClassifyDo ==
    /\ pc = "doError"
    /\ retried' = retried \cup {attempt}
    /\ Conclude(DoRetryable, TransportError("do", DoRetryable))
    /\ UNCHANGED <<policy, ctx, expired, attempt, reply, err, copies, deadStarts>>

ReadRetryable_AnyStatus ==
    /\ ctx = "live"
    /\ err # "tooLarge"
    /\ policy.retryTransport
    /\ IsRetryableTransport(err)

ReadRetryable ==
    /\ ctx = "live"
    /\ err # "tooLarge"
    /\ reply.status < 400 \/ reply.status \in policy.retryStatus
    /\ policy.retryTransport
    /\ IsRetryableTransport(err)

ClassifyRead_Silent ==
    /\ pc = "readError"
    /\ Conclude(ReadRetryable, TransportError("read", ReadRetryable))
    /\ UNCHANGED <<policy, ctx, expired, attempt, reply, err, copies, retried, deadStarts>>

ClassifyRead ==
    /\ pc = "readError"
    /\ retried' = IF ReadRetryable /\ attempt < policy.max THEN retried \cup {attempt} ELSE retried
    /\ Conclude(ReadRetryable, TransportError("read", ReadRetryable))
    /\ UNCHANGED <<policy, ctx, expired, attempt, reply, err, copies, deadStarts>>

StatusRetryable == reply.status \in policy.retryStatus /\ attempt < policy.max

ClassifyStatus ==
    /\ pc = "answered"
    /\ retried' = IF StatusRetryable THEN retried \cup {attempt} ELSE retried
    /\ IF ~StatusRetryable /\ reply.status < 400
       THEN /\ Return([Pending EXCEPT !.kind = "ok", !.status = reply.status, !.code = reply.code])
            /\ UNCHANGED abandoned
       ELSE Conclude(StatusRetryable, APIError(reply))
    /\ UNCHANGED <<policy, ctx, expired, attempt, reply, err, copies, deadStarts>>

\* the timer fires: Go's select may take it even when ctx is done as well;
\* without a pause (Backoff <= 0) the context is checked first
SleepWakes ==
    /\ pc = "sleep"
    /\ policy.pause \/ ctx = "live"
    /\ pc' = "attempt"
    /\ attempt' = attempt + 1
    /\ UNCHANGED <<policy, ctx, expired, reply, err, copies, abandoned, retried, deadStarts, result>>

SleepCancelled ==
    /\ pc = "sleep"
    /\ ctx # "live"
    /\ Return(TransportError("sleep", FALSE))
    /\ UNCHANGED <<policy, ctx, expired, attempt, reply, err, copies, abandoned, retried, deadStarts>>

-----------------------------------------------------------------------------
(* The caller and the clock.                                               *)

\* the caller cancels, or its deadline passes
CtxDone ==
    /\ pc # "returned"
    /\ ctx = "live"
    /\ ctx' \in {"canceled", "deadline"}
    /\ UNCHANGED <<policy, expired, pc, attempt, reply, err, copies, abandoned, retried, deadStarts, result>>

AttemptExpires_HeadersOnly ==
    /\ policy.timeout
    /\ pc \in {"do", "wait"}
    /\ ~expired
    /\ expired' = TRUE
    /\ UNCHANGED <<policy, ctx, pc, attempt, reply, err, copies, abandoned, retried, deadStarts, result>>

\* the context.WithTimeout of dispatchAttempt, armed until the attempt ends
AttemptExpires ==
    /\ policy.timeout
    /\ pc \in {"do", "wait", "read"}
    /\ ~expired
    /\ expired' = TRUE
    /\ UNCHANGED <<policy, ctx, pc, attempt, reply, err, copies, abandoned, retried, deadStarts, result>>

-----------------------------------------------------------------------------

Client == \/ EntryAccepts \/ EntryRejects
          \/ SignSucceeds \/ SignFails
          \/ BeginAttempt
          \/ ClassifyDo \/ ClassifyRead \/ ClassifyStatus
          \/ SleepWakes \/ SleepCancelled

Network == Transmit \/ NetworkFails \/ HeadersArrive \/ BodyArrives

\* a call that has returned stays returned
Done == pc = "returned" /\ UNCHANGED vars

Next == Client \/ Network \/ Abort \/ CtxDone \/ AttemptExpires \/ Done

Spec == Init /\ [][Next]_vars

\* The goroutine running the call is scheduled, an armed timeout fires, and a
\* Do or a read whose context is done returns. The network and the caller owe nothing.
Fairness == WF_vars(Client) /\ WF_vars(AttemptExpires) /\ WF_vars(Abort)

FairSpec == Spec /\ Fairness

-----------------------------------------------------------------------------
(* Properties.                                                             *)

\* Type correctness of one signed call (doer.go).
TypeOK ==
    /\ policy \in Policies
    /\ ctx \in {"live", "canceled", "deadline"}
    /\ expired \in BOOLEAN
    /\ pc \in {"entry", "sign", "attempt", "do", "wait", "read", "doError", "readError",
               "answered", "sleep", "returned"}
    /\ attempt \in 0..policy.max
    /\ reply \in Reply
    /\ err \in TransportErrors
    /\ copies \in 0..attempt
    /\ abandoned \subseteq Outcome
    /\ retried \subseteq 1..attempt
    /\ deadStarts \in Nat
    /\ result \in Result

\* The caller may trust a TransportError with Retry set, and an APIError with a
\* status the policy retries, to mean that every attempt was used up
\* (errors.go: "retries are exhausted").
RetryableMeansExhausted ==
    \/ result.kind = "transport" /\ result.retry = "yes"
    \/ result.kind = "api" /\ result.status \in policy.retryStatus
    => attempt = policy.max

\* No attempt is given up and repeated after a final answer: not after an HTTP
\* error the policy does not retry, even one whose body was lost, not after an
\* oversized body, not after a cancellation.
FinalAnswersStand ==
    \A o \in abandoned :
        /\ o.status >= 400 => o.status \in policy.retryStatus
        /\ o.err \notin {"tooLarge", "canceled"}

\* Once the caller's context is done, at most one more attempt is begun: the
\* one whose backoff timer won the race against the context.
AtMostOneDeadStart == deadStarts <= 1

\* Every attempt but the last was reported to Observer.OnRetry, so retries
\* counted by an observer are never fewer than the attempts made.
RetriesAreObserved == \A n \in 1..(attempt - 1) : n \in retried

\* A call ends if its attempts carry a timeout or its context is ever done,
\* whatever the network does.
CallReturns ==
    policy.timeout \/ ctx # "live" ~> pc = "returned"

\* The doc comment of APIError.Temporary (errors.go): a temporary APIError that
\* reaches the caller means the retries were exhausted.
TemporaryMeansExhausted ==
    result.kind = "api" /\ Temporary(result) => attempt = policy.max

\* Refinement: the call as the services above see it.
Call == INSTANCE SignedCall WITH limit <- policy.max, outcome <- result.kind
CallContract == Call!CallSpec
=============================================================================
