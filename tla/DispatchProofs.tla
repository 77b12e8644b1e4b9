--------------------------- MODULE DispatchProofs ---------------------------
(***************************************************************************)
(* Proofs about one signed call for every set of policies and statuses:    *)
(* its invariants, by one inductive invariant, and that it implements the  *)
(* contract of module SignedCall.                                          *)
(***************************************************************************)
EXTENDS Dispatch, TLAPS

\* The attempts are numbered from 1, and the loop ends at policy.max.
AttemptRange ==
    /\ pc \in {"entry", "sign"} => attempt = 0
    /\ pc \notin {"entry", "sign", "returned"} => attempt >= 1
    /\ pc = "sleep" => attempt < policy.max

\* An attempt puts at most one copy on the wire, and only a copy is answered.
CopiesPerAttempt ==
    /\ pc \in {"attempt", "do"} => copies < attempt
    /\ pc \in {"wait", "read", "readError", "answered"} => copies > 0

\* What ClassifyDo finds: no answer, and no error of the body.
DoErrorHasNoReply ==
    /\ pc \in {"do", "wait", "doError"} => reply = NoReply
    /\ pc = "doError" => err # "tooLarge"

\* The result is set by the step that returns.
ResultOnReturn == pc # "returned" => result = Pending

\* A dead start goes nowhere: it cannot transmit, and its error is final.
DeadStartEnds ==
    /\ ctx = "live" => deadStarts = 0
    /\ pc = "attempt" => deadStarts = 0
    /\ deadStarts > 0 => pc \in {"do", "doError", "returned"}

SleepIsObserved == pc = "sleep" => attempt \in retried

IInv ==
    /\ TypeOK
    /\ AttemptRange
    /\ CopiesPerAttempt
    /\ DoErrorHasNoReply
    /\ ResultOnReturn
    /\ DeadStartEnds
    /\ SleepIsObserved
    /\ AtMostOneDeadStart
    /\ RetryableMeansExhausted
    /\ FinalAnswersStand
    /\ RetriesAreObserved

\* What the proofs need of a valid policy (RetryPolicy.Validate).
LEMMA MaxIsPositive == ASSUME NEW p \in Policies PROVE p.max \in Nat \ {0}
  BY PoliciesAreValid

\* A reply's status can be compared with 400.
LEMMA StatusIsNat == ASSUME NEW s \in Statuses \cup {NoStatus} PROVE s \in Nat
  BY StatusesAreHTTP DEF NoStatus

\* The empty values and the values built by the error constructors are well typed.
LEMMA Constructors ==
    /\ NoReply \in Reply
    /\ Pending \in Result
    /\ [Pending EXCEPT !.kind = "validation"] \in Result
    /\ [Pending EXCEPT !.kind = "signature"] \in Result
    /\ \A op \in {"encrypt", "sign", "build", "do", "read", "sleep"}, b \in BOOLEAN :
           TransportError(op, b) \in Result
    /\ \A r \in Reply : /\ APIError(r) \in Result
                         /\ [Pending EXCEPT !.kind = "ok", !.status = r.status, !.code = r.code]
                                \in Result
  <1>1. NoReply \in Reply
    BY DEF NoReply, Reply, NoStatus, Codes
  <1>2. Pending \in Result
    BY DEF Pending, Result, NoStatus, Codes
  <1>3. \A op \in {"encrypt", "sign", "build", "do", "read", "sleep"}, b \in BOOLEAN :
           TransportError(op, b) \in Result
    BY DEF TransportError, YesNo, Result, NoStatus, Codes
  <1>4. \A r \in Reply : APIError(r) \in Result
    BY DEF APIError, Reply, Result, NoStatus, Codes
  <1>5. \A r \in Reply :
           [Pending EXCEPT !.kind = "ok", !.status = r.status, !.code = r.code] \in Result
    BY DEF Pending, Reply, Result, NoStatus, Codes
  <1>6. /\ [Pending EXCEPT !.kind = "validation"] \in Result
        /\ [Pending EXCEPT !.kind = "signature"] \in Result
    BY DEF Pending, Result, NoStatus, Codes
  <1>7. QED
    BY <1>1, <1>2, <1>3, <1>4, <1>5, <1>6

\* The call starts in a state of the invariant: nothing sent, nothing returned.
LEMMA InitIInv == Init => IInv
  <1> SUFFICES ASSUME Init PROVE IInv
    OBVIOUS
  <1>1. TypeOK
    <2>1. reply \in Reply /\ result \in Result
      BY Constructors DEF Init
    <2>2. attempt \in 0..policy.max
      BY MaxIsPositive DEF Init
    <2>3. expired \in BOOLEAN /\ err \in TransportErrors
      BY DEF Init, TransportErrors
    <2>4. /\ copies \in 0..attempt /\ retried \subseteq 1..attempt /\ deadStarts \in Nat
          /\ abandoned \subseteq Outcome
      BY DEF Init
    <2>5. QED
      BY <2>1, <2>2, <2>3, <2>4 DEF Init, TypeOK
  <1>2. RetryableMeansExhausted /\ FinalAnswersStand /\ RetriesAreObserved
    BY DEF Init, RetryableMeansExhausted, FinalAnswersStand, RetriesAreObserved, Pending
  <1>3. QED
    BY <1>1, <1>2
    DEF Init, IInv, AttemptRange, CopiesPerAttempt, DoErrorHasNoReply, ResultOnReturn,
        DeadStartEnds, SleepIsObserved, AtMostOneDeadStart

\* Every step keeps the types, and with them the bound on attempts and copies.
LEMMA NextTypeOK == IInv /\ [Next]_vars => TypeOK'
  <1> SUFFICES ASSUME IInv, [Next]_vars
               PROVE  TypeOK'
    OBVIOUS
  <1>0. policy.max \in Nat \ {0}
    BY MaxIsPositive DEF IInv, TypeOK
  <1>a. \A r \in Reply, e \in TransportErrors \cup {"none"} :
            [status |-> r.status, err |-> e] \in Outcome
    BY DEF Reply, Outcome
  <1> USE <1>0 DEF IInv, TypeOK, AttemptRange, CopiesPerAttempt
  <1>1. CASE EntryRejects
    <2>1. result' \in Result
      BY <1>1, Constructors DEF EntryRejects, Return
    <2>2. QED
      BY <1>1, <2>1 DEF EntryRejects, Return
  <1>2. CASE EntryAccepts
    BY <1>2 DEF EntryAccepts
  <1>3. CASE SignFails
    <2>1. result' \in Result
      BY <1>3, Constructors DEF SignFails, Return
    <2>2. QED
      BY <1>3, <2>1 DEF SignFails, Return
  <1>4. CASE SignSucceeds
    BY <1>4 DEF SignSucceeds
  <1>5. CASE BeginAttempt
    <2>1. result' \in Result /\ reply' \in Reply
      BY <1>5, Constructors DEF BeginAttempt, Return
    <2>2. expired' = FALSE /\ deadStarts' \in Nat
      BY <1>5 DEF BeginAttempt
    <2>3. pc' \in {"do", "returned"}
      BY <1>5 DEF BeginAttempt, Return
    <2>4. QED
      BY <1>5, <2>1, <2>2, <2>3 DEF BeginAttempt
  <1>6. CASE Transmit
    BY <1>6 DEF Transmit
  <1>7. CASE Abort
    BY <1>7 DEF Abort, TransportErrors
  <1>8. CASE NetworkFails
    BY <1>8 DEF NetworkFails, TransportErrors
  <1>9. CASE HeadersArrive
    <2>1. reply' \in Reply
      BY <1>9 DEF HeadersArrive, Reply
    <2>2. QED
      BY <1>9, <2>1 DEF HeadersArrive
  <1>10. CASE BodyArrives
    BY <1>10 DEF BodyArrives, TransportErrors
  <1>11. CASE ClassifyDo
    <2>1. result' \in Result
      BY <1>11, Constructors DEF ClassifyDo, Conclude, GiveUp, Return, DoRetryable
    <2>2. abandoned' \subseteq Outcome
      BY <1>11, <1>a DEF ClassifyDo, Conclude, GiveUp
    <2>3. QED
      BY <1>11, <2>1, <2>2 DEF ClassifyDo, Conclude, GiveUp, Return
  <1>12. CASE ClassifyRead
    <2>1. result' \in Result
      BY <1>12, Constructors DEF ClassifyRead, Conclude, GiveUp, Return, ReadRetryable
    <2>2. abandoned' \subseteq Outcome
      BY <1>12, <1>a DEF ClassifyRead, Conclude, GiveUp
    <2>3. QED
      BY <1>12, <2>1, <2>2 DEF ClassifyRead, Conclude, GiveUp, Return
  <1>13. CASE ClassifyStatus
    <2>1. result' \in Result
      BY <1>13, Constructors DEF ClassifyStatus, Conclude, GiveUp, Return
    <2>2. abandoned' \subseteq Outcome
      BY <1>13, <1>a DEF ClassifyStatus, Conclude, GiveUp
    <2>3. QED
      BY <1>13, <2>1, <2>2 DEF ClassifyStatus, Conclude, GiveUp, Return
  <1>14. CASE SleepWakes
    BY <1>14 DEF SleepWakes
  <1>15. CASE SleepCancelled
    <2>1. result' \in Result
      BY <1>15, Constructors DEF SleepCancelled, Return
    <2>2. QED
      BY <1>15, <2>1 DEF SleepCancelled, Return
  <1>16. CASE CtxDone
    BY <1>16 DEF CtxDone
  <1>17. CASE AttemptExpires
    BY <1>17 DEF AttemptExpires
  <1>18. CASE UNCHANGED vars
    BY <1>18 DEF vars
  <1>19. QED
    BY <1>1, <1>2, <1>3, <1>4, <1>5, <1>6, <1>7, <1>8, <1>9, <1>10, <1>11, <1>12, <1>13,
       <1>14, <1>15, <1>16, <1>17, <1>18
    DEF Next, Client, Network, Done

\* Every step of the call, its network, its caller and its clock keeps the
\* rest of the invariant.
LEMMA NextIInv == IInv /\ [Next]_vars => IInv'
  <1> SUFFICES ASSUME IInv, [Next]_vars
               PROVE  IInv'
    OBVIOUS
  <1>0. TypeOK' /\ policy.max \in Nat \ {0} /\ reply.status \in Nat
    <2>1. reply.status \in Statuses \cup {NoStatus}
      BY DEF IInv, TypeOK, Reply
    <2>2. QED
      BY <2>1, NextTypeOK, MaxIsPositive, StatusIsNat DEF IInv, TypeOK
  <1> USE <1>0
      DEF IInv, AttemptRange, CopiesPerAttempt, DoErrorHasNoReply, ResultOnReturn,
          DeadStartEnds, SleepIsObserved, AtMostOneDeadStart, RetryableMeansExhausted,
          FinalAnswersStand, RetriesAreObserved
  <1>1. CASE EntryRejects
    BY <1>1 DEF EntryRejects, Return, TransportError, YesNo, Pending
  <1>2. CASE EntryAccepts
    BY <1>2 DEF EntryAccepts
  <1>3. CASE SignFails
    BY <1>3 DEF SignFails, Return, TransportError, YesNo, Pending
  <1>4. CASE SignSucceeds
    BY <1>4 DEF SignSucceeds, Pending, TypeOK
  <1>5. CASE BeginAttempt
    BY <1>5 DEF BeginAttempt, Return, TransportError, YesNo, Pending, TypeOK
  <1>6. CASE Transmit
    BY <1>6 DEF Transmit, TypeOK
  <1>7. CASE Abort
    BY <1>7 DEF Abort, ContextError
  <1>8. CASE NetworkFails
    BY <1>8 DEF NetworkFails
  <1>9. CASE HeadersArrive
    BY <1>9 DEF HeadersArrive
  <1>10. CASE BodyArrives
    BY <1>10 DEF BodyArrives
  <1>11. CASE ClassifyDo
    BY <1>11 DEF ClassifyDo, Conclude, GiveUp, DoRetryable, IsRetryableTransport, Return,
                 TransportError, YesNo, NoReply, NoStatus, TypeOK
  <1>12. CASE ClassifyRead
    <2>1. CASE ReadRetryable /\ attempt # policy.max
      <3>1. FinalAnswersStand'
        <4>1. abandoned' = abandoned \cup {[status |-> reply.status, err |-> err]}
          BY <1>12, <2>1 DEF ClassifyRead, Conclude, GiveUp
        <4>2. /\ reply.status >= 400 => reply.status \in policy.retryStatus
              /\ err \notin {"tooLarge", "canceled"}
          BY <2>1 DEF ReadRetryable, IsRetryableTransport
        <4>3. policy' = policy
          BY <1>12 DEF ClassifyRead
        <4>4. QED
          BY <4>1, <4>2, <4>3
      <3>2. attempt < policy.max /\ retried' = retried \cup {attempt} /\ ctx = "live"
        BY <1>12, <2>1 DEF ClassifyRead, ReadRetryable, TypeOK
      <3>3. QED
        BY <1>12, <2>1, <3>1, <3>2 DEF ClassifyRead, Conclude, GiveUp
    <2>2. CASE ~(ReadRetryable /\ attempt # policy.max)
      BY <1>12, <2>2 DEF ClassifyRead, Conclude, Return, TransportError, YesNo, TypeOK
    <2>3. QED
      BY <2>1, <2>2
  <1>13. CASE ClassifyStatus
    <2>1. CASE StatusRetryable
      BY <1>13, <2>1 DEF ClassifyStatus, Conclude, GiveUp, StatusRetryable, TypeOK
    <2>2. CASE ~StatusRetryable /\ reply.status < 400
      BY <1>13, <2>2, ZenonT(60) DEF ClassifyStatus, Return, Pending, TypeOK
    <2>3. CASE ~StatusRetryable /\ ~(reply.status < 400)
      BY <1>13, <2>3 DEF ClassifyStatus, Conclude, StatusRetryable, Return, APIError, TypeOK
    <2>4. QED
      BY <2>1, <2>2, <2>3
  <1>14. CASE SleepWakes
    BY <1>14 DEF SleepWakes, TypeOK, Pending
  <1>15. CASE SleepCancelled
    BY <1>15 DEF SleepCancelled, Return, TransportError, YesNo
  <1>16. CASE CtxDone
    BY <1>16 DEF CtxDone
  <1>17. CASE AttemptExpires
    BY <1>17 DEF AttemptExpires
  <1>18. CASE UNCHANGED vars
    BY <1>18 DEF vars
  <1>19. QED
    BY <1>1, <1>2, <1>3, <1>4, <1>5, <1>6, <1>7, <1>8, <1>9, <1>10, <1>11, <1>12, <1>13,
       <1>14, <1>15, <1>16, <1>17, <1>18
    DEF Next, Client, Network, Done

\* The inductive invariant of the retry loop of signAndDispatch.
THEOREM Invariance == Spec => []IInv
  <1>1. Init => IInv
    BY InitIInv
  <1>2. IInv /\ [Next]_vars => IInv'
    BY NextIInv
  <1>3. QED
    BY <1>1, <1>2, PTL DEF Spec

\* The call is type correct: in particular it makes at most MaxAttempts attempts
\* and transmits at most one copy for each (doer.go).
THEOREM TypeCorrect == Spec => []TypeOK
  BY Invariance, PTL DEF IInv

\* Whatever the policy, an error reported as retryable reaches the caller of
\* DoSigned only after MaxAttempts attempts (doer.go, errors.go).
THEOREM ExhaustionIsReported == Spec => []RetryableMeansExhausted
  BY Invariance, PTL DEF IInv

\* Whatever the policy, a final answer is never followed by another attempt.
THEOREM FinalAnswersAreFinal == Spec => []FinalAnswersStand
  BY Invariance, PTL DEF IInv

\* Whatever the policy, a context that is done stops the loop after at most
\* one more attempt.
THEOREM CancellationIsPrompt == Spec => []AtMostOneDeadStart
  BY Invariance, PTL DEF IInv

\* Whatever the policy, every retry was reported to the observer before the
\* attempt that follows it.
THEOREM RetriesAreReported == Spec => []RetriesAreObserved
  BY Invariance, PTL DEF IInv

\* signAndDispatch implements the contract of module SignedCall: a step of the
\* call transmits a copy within the limit, returns once, or is invisible.
THEOREM CallImplementsContract == Spec => CallContract
  <1>1. Init => Call!CallInit
    <2> SUFFICES ASSUME Init PROVE Call!CallInit
      OBVIOUS
    <2>1. policy.max \in Nat \ {0}
      BY MaxIsPositive DEF Init
    <2>2. QED
      BY <2>1 DEF Init, Call!CallInit, Pending
  <1>2. IInv /\ [Next]_vars => [Call!CallNext]_(Call!callVars)
    <2> SUFFICES ASSUME IInv, [Next]_vars
                 PROVE  [Call!CallNext]_(Call!callVars)
      OBVIOUS
    <2>0. policy.max \in Nat \ {0}
      BY MaxIsPositive DEF IInv, TypeOK
    <2>1. ASSUME UNCHANGED <<policy, copies, result>>
          PROVE  UNCHANGED Call!callVars
      BY <2>1 DEF Call!callVars
    <2>2. ASSUME pc # "returned", UNCHANGED <<policy, copies>>,
                 NEW r \in Result, result' = r,
                 r.kind \in {"transport", "signature", "validation"}
          PROVE  Call!Returned
      BY <2>2 DEF Call!Returned, Call!Answered, Call!Unanswered, IInv, ResultOnReturn, Pending
    <2>3. CASE Transmit
      BY <2>3, <2>0 DEF Transmit, Call!CallNext, Call!Transmitted, IInv, TypeOK,
                        CopiesPerAttempt, ResultOnReturn, Pending
    <2>4. CASE EntryRejects \/ SignFails \/ SleepCancelled
      <3>1. /\ pc # "returned" /\ UNCHANGED <<policy, copies>>
            /\ result'.kind \in {"transport", "signature", "validation"}
        <4>1. CASE EntryRejects
          <5>1. \/ result' = [Pending EXCEPT !.kind = "validation"]
                \/ result' = TransportError("encrypt", FALSE)
            BY <4>1 DEF EntryRejects, Return
          <5>2. [Pending EXCEPT !.kind = "validation"].kind = "validation"
            BY DEF Pending
          <5>3. TransportError("encrypt", FALSE).kind = "transport"
            BY DEF TransportError
          <5>4. QED
            BY <4>1, <5>1, <5>2, <5>3 DEF EntryRejects
        <4>2. CASE SignFails
          BY <4>2 DEF SignFails, Return, TransportError, Pending
        <4>3. CASE SleepCancelled
          BY <4>3 DEF SleepCancelled, Return, TransportError
        <4>4. QED
          BY <2>4, <4>1, <4>2, <4>3
      <3>2. QED
        BY <3>1, <2>2, NextTypeOK DEF TypeOK, Call!CallNext
    <2>5. CASE BeginAttempt
      <3>1. CASE result' = TransportError("build", FALSE)
        <4>1. pc # "returned" /\ UNCHANGED <<policy, copies>> /\ result'.kind = "transport"
          BY <2>5, <3>1 DEF BeginAttempt, TransportError
        <4>2. QED
          BY <4>1, <2>2, NextTypeOK DEF TypeOK, Call!CallNext
      <3>2. CASE result' # TransportError("build", FALSE)
        BY <2>5, <3>2, <2>1 DEF BeginAttempt, Return
      <3>3. QED
        BY <3>1, <3>2
    <2>6. CASE ClassifyDo \/ ClassifyRead
      <3>0. pc # "returned" /\ UNCHANGED <<policy, copies>>
        BY <2>6 DEF ClassifyDo, ClassifyRead
      <3>1. UNCHANGED result \/ result'.kind = "transport"
        BY <2>6 DEF ClassifyDo, ClassifyRead, Conclude, GiveUp, Return, TransportError
      <3>2. QED
        BY <3>0, <3>1, <2>1, <2>2, NextTypeOK DEF TypeOK, Call!CallNext
    <2>7. CASE ClassifyStatus
      <3>1. pc = "answered" /\ copies > 0 /\ result = Pending /\ UNCHANGED <<policy, copies>>
        BY <2>7 DEF ClassifyStatus, IInv, CopiesPerAttempt, ResultOnReturn
      <3>2. UNCHANGED result \/ result'.kind \in {"ok", "api"}
        <4>1. CASE ~StatusRetryable /\ reply.status < 400
          BY <2>7, <4>1 DEF ClassifyStatus, Return, Pending
        <4>2. CASE ~(~StatusRetryable /\ reply.status < 400)
          BY <2>7, <4>2 DEF ClassifyStatus, Conclude, GiveUp, Return, APIError
        <4>3. QED
          BY <4>1, <4>2
      <3>3. CASE UNCHANGED result
        BY <3>1, <3>3, <2>1
      <3>4. CASE result'.kind \in {"ok", "api"}
        BY <3>1, <3>4 DEF Call!CallNext, Call!Returned, Call!Answered, Call!Unanswered, Pending
      <3>5. QED
        BY <3>2, <3>3, <3>4
    <2>8. CASE \/ EntryAccepts \/ SignSucceeds \/ SleepWakes \/ NetworkFails \/ HeadersArrive
               \/ BodyArrives \/ Abort \/ CtxDone \/ AttemptExpires \/ UNCHANGED vars
      BY <2>8, <2>1 DEF EntryAccepts, SignSucceeds, SleepWakes, NetworkFails, HeadersArrive,
                        BodyArrives, Abort, CtxDone, AttemptExpires, vars
    <2>9. QED
      BY <2>3, <2>4, <2>5, <2>6, <2>7, <2>8 DEF Next, Client, Network, Done
  <1>3. QED
    BY <1>1, <1>2, Invariance, PTL DEF Spec, CallContract, Call!CallSpec

=============================================================================
