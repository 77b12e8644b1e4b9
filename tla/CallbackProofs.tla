--------------------------- MODULE CallbackProofs ---------------------------
(***************************************************************************)
(* Safety of the callback receiver for every set of events and handlers,   *)
(* every time window and any number of copies, crashes and milliseconds.   *)
(***************************************************************************)
EXTENDS Callback, SequenceTheorems, TLAPS

\* A copy that is not signed with a foreign key carries an event the gateway issued.
Issued(m) == m.key # "foreign" => m.event \in Events /\ outbox[m.event] # "none"

CopiesAreIssued ==
    /\ \A m \in wire : Issued(m)
    /\ \A h \in Handlers : Issued(msg[h])

\* What has passed the signature check is covered by a key of the gateway.
CallsAreVerified ==
    \A h \in Handlers : pc[h] = "call" => AsSigned(flaw[h]) /\ msg[h].key # "foreign"

\* A 200 is on its way only for an event that was applied.
AcksAreEarned ==
    \A h \in Handlers : status[h] = 200 => msg[h].event \in applied

IInv ==
    /\ TypeOK
    /\ CopiesAreIssued
    /\ CallsAreVerified
    /\ AcksAreEarned
    /\ AckedMeansApplied
    /\ OnlyGenuineEvents

\* The copy an idle handler holds, and those the two senders post, are well typed.
LEMMA CopyTypes ==
    /\ NoCopy \in Copy /\ NoCopy.key = "foreign"
    /\ \A e \in Events \cup {Stray}, k \in {"old", "new", "foreign"}, t \in 0..MaxTime :
           /\ [event |-> e, key |-> k, time |-> t] \in Copy
           /\ [event |-> e, key |-> k, time |-> t].event = e
           /\ [event |-> e, key |-> k, time |-> t].key = k
    /\ \A m \in Copy : /\ m.event \in Events \cup {Stray}
                       /\ m.key \in {"old", "new", "foreign"} /\ m.time \in 0..MaxTime
  BY CallbackAssumption DEF NoCopy, Copy

\* What the partner's function is called with is well typed.
LEMMA CallTypes ==
    \A e \in Events \cup {Stray}, f \in Flaws :
        /\ [event |-> e, flaw |-> f] \in Calls
        /\ [event |-> e, flaw |-> f].event = e /\ [event |-> e, flaw |-> f].flaw = f
  BY DEF Calls

\* Texts that agree in all but one place disagree as a whole: of what surrounds the
\* path, and of what precedes the body, nothing can make up for the difference.
LEMMA OneDifference ==
    /\ \A p, u, v, b \in Seq(Characters) : (p \o u) \o b = (p \o v) \o b => u = v
    /\ \A p, u, b, c \in Seq(Characters) : (p \o u) \o b = (p \o u) \o c => b = c
  <1>1. \A s, t \in Seq(Characters) : s \o t \in Seq(Characters)
    OBVIOUS
  <1>2. \A s, t, w \in Seq(Characters) : s \o w = t \o w => s = t
    BY ConcatSimplifications, Zenon
  <1>3. \A s, t, w \in Seq(Characters) : s \o t = s \o w => t = w
    BY ConcatSimplifications, Zenon
  <1>4. ASSUME NEW p \in Seq(Characters), NEW u \in Seq(Characters), NEW v \in Seq(Characters),
               NEW b \in Seq(Characters), (p \o u) \o b = (p \o v) \o b
        PROVE  u = v
    <2>1. p \o u = p \o v
      BY <1>1, <1>2, <1>4, Zenon
    <2>2. QED
      BY <1>3, <2>1, Zenon
  <1>5. ASSUME NEW p \in Seq(Characters), NEW u \in Seq(Characters), NEW b \in Seq(Characters),
               NEW c \in Seq(Characters), (p \o u) \o b = (p \o u) \o c
        PROVE  b = c
    BY <1>1, <1>3, <1>5, Zenon
  <1>6. QED
    BY <1>4, <1>5, Zenon

\* A body that was torn, or an endpoint the signature is over that was missed, shows
\* in the bytes the handler verifies, although the canonical has no delimiter.
LEMMA CoveredIsAsSigned ==
    ASSUME TypeOK, NEW h \in Handlers, Covers(h)
    PROVE  AsSigned(flaw[h])
  <1> DEFINE m == msg[h]
             before == ((ClientID \o Millis[m.time]) \o <<"POST">>) \o <<" ">>
             whole == Body[m.event]
             damaged == Torn[Body[m.event]]
  <1>1. m.event \in Events \cup {Stray} /\ m.time \in 0..MaxTime
    BY CopyTypes DEF TypeOK
  <1>2. /\ whole \in DOMAIN Base64 /\ damaged \in DOMAIN Base64 /\ damaged # whole
        /\ Base64[whole] \in Seq(Characters) /\ Base64[damaged] \in Seq(Characters)
        /\ Base64[damaged] # Base64[whole]
    BY <1>1, TextAssumption
  <1>3. before \in Seq(Characters)
    <2> HIDE DEF m
    <2>1. ClientID \in Seq(Characters) /\ Millis[m.time] \in Seq(Characters)
      BY <1>1, TextAssumption
    <2>2. "POST" \in Characters /\ " " \in Characters
      BY TextAssumption, Zenon
    <2>3. \A c \in Characters : <<c>> \in Seq(Characters)
      OBVIOUS
    <2>4. <<"POST">> \in Seq(Characters) /\ <<" ">> \in Seq(Characters)
      BY <2>2, <2>3, Zenon
    <2>5. \A s, t \in Seq(Characters) : s \o t \in Seq(Characters)
      OBVIOUS
    <2>6. QED
      BY <2>1, <2>4, <2>5, Zenon
  <1>4. Canonical(m.time, RequestURI(h), ReadBody(h)) = Canonical(m.time, Endpoint, whole)
    BY DEF Covers
  <1>5. flaw[h] # "torn"
    <2>1. SUFFICES ASSUME flaw[h] = "torn" PROVE FALSE
      OBVIOUS
    <2>2. RequestURI(h) = Endpoint /\ ReadBody(h) = damaged
      BY <2>1 DEF RequestURI, ReadBody
    <2>3. Canonical(m.time, Endpoint, damaged) = Canonical(m.time, Endpoint, whole)
      BY <1>4, <2>2
    <2>4. CASE hmac
      <3>1. (before \o Endpoint) \o Base64[damaged] = (before \o Endpoint) \o Base64[whole]
        BY <2>3, <2>4 DEF Canonical, OVOHMACCanonical
      <3> HIDE DEF before, whole, damaged, m
      <3>2. QED
        <4>1. Endpoint \in Seq(Characters)
          BY TextAssumption
        <4>2. QED
          BY <1>2, <1>3, <3>1, <4>1, OneDifference, Zenon
    <2>5. CASE ~hmac
      BY <1>2, <2>3, <2>5 DEF Canonical
    <2>6. QED
      BY <2>4, <2>5
  <1>6. ASSUME hmac PROVE flaw[h] # "misrouted"
    <2>1. SUFFICES ASSUME flaw[h] = "misrouted" PROVE FALSE
      OBVIOUS
    <2>2. RequestURI(h) = Elsewhere /\ ReadBody(h) = whole
      BY <2>1 DEF RequestURI, ReadBody
    <2>3. (before \o Elsewhere) \o Base64[whole] = (before \o Endpoint) \o Base64[whole]
      BY <1>4, <1>6, <2>2 DEF Canonical, OVOHMACCanonical
    <2> HIDE DEF before, whole, damaged, m
    <2>4. QED
      <3>1. Endpoint \in Seq(Characters) /\ Elsewhere \in Seq(Characters) /\ Endpoint # Elsewhere
        BY TextAssumption
      <3>2. QED
        BY <1>2, <1>3, <2>3, <3>1, OneDifference, Zenon
  <1>7. QED
    BY <1>5, <1>6 DEF AsSigned

\* Nothing has been issued, received or acknowledged at first.
LEMMA InitIInv == Init => IInv
  <1> SUFFICES ASSUME Init PROVE IInv
    OBVIOUS
  <1>1. TypeOK
    BY CopyTypes, CallbackAssumption DEF Init, TypeOK, Flaws, Statuses
  <1>2. CopiesAreIssued
    BY CopyTypes DEF Init, CopiesAreIssued, Issued
  <1>3. QED
    BY <1>1, <1>2
    DEF Init, IInv, CallsAreVerified, AcksAreEarned, AckedMeansApplied, OnlyGenuineEvents

\* The types are kept by every step of the gateways, the network and the server.
LEMMA NextTypeOK == IInv /\ [Next]_vars => TypeOK'
  <1> SUFFICES ASSUME IInv, [Next]_vars PROVE TypeOK'
    OBVIOUS
  <1> USE CopyTypes DEF IInv, TypeOK
  <1>1. ASSUME NEW e \in Events, NEW t \in Stamps, Send(e, t)
        PROVE  TypeOK'
    <2>1. [event |-> e, key |-> signing, time |-> t] \in Copy
      BY DEF Stamps
    <2>2. wire' \subseteq Copy
      BY <1>1, <2>1 DEF Send, Post
    <2>3. QED
      BY <1>1, <2>2 DEF Send, configVars, rotationVars, handlerVars, partnerVars
  <1>2. CASE SendStray
    <2>1. [event |-> Stray, key |-> "foreign", time |-> clock] \in Copy
      OBVIOUS
    <2>2. wire' \subseteq Copy
      BY <1>2, <2>1 DEF SendStray, Post
    <2>3. QED
      BY <1>2, <2>2 DEF SendStray, configVars, rotationVars, handlerVars, partnerVars
  <1>3. CASE Tick
    BY <1>3, CallbackAssumption DEF Tick, configVars, rotationVars, handlerVars, partnerVars
  <1>4. ASSUME NEW h \in Handlers, NEW m \in wire, NEW f \in Flaws, Receive(h, m, f)
        PROVE  TypeOK'
    <2>1. CASE Admit(h, m, f)
      BY <1>4, <2>1 DEF Receive, Admit, Goto, configVars, rotationVars, partnerVars
    <2>2. ASSUME NEW s \in {400, 401, 405}, Refuse(h, s) PROVE TypeOK'
      BY <1>4, <2>2 DEF Receive, Refuse, Goto, Flaws, Statuses, configVars, rotationVars, partnerVars
    <2>3. QED
      BY <1>4, <2>1, <2>2 DEF Receive
  <1>5. ASSUME NEW h \in Handlers, VerifySignature(h)
        PROVE  TypeOK'
    <2>1. CASE Goto(h, "call") /\ UNCHANGED <<msg, flaw, status>>
      BY <1>5, <2>1 DEF VerifySignature, Goto, configVars, rotationVars, partnerVars
    <2>2. CASE Refuse(h, 401)
      BY <1>5, <2>2 DEF VerifySignature, Refuse, Goto, Flaws, Statuses, configVars, rotationVars,
                        partnerVars
    <2>3. QED
      BY <1>5, <2>1, <2>2 DEF VerifySignature
  <1>6. ASSUME NEW h \in Handlers, HungUp(h) \/ DecodeFails(h)
        PROVE  TypeOK'
    <2>1. CASE HungUp(h)
      BY <2>1 DEF HungUp, Finish, Goto, Flaws, Statuses, configVars, rotationVars, partnerVars
    <2>2. CASE DecodeFails(h)
      BY <2>2 DEF DecodeFails, Refuse, Goto, Flaws, Statuses, configVars, rotationVars, partnerVars
    <2>3. QED
      BY <1>6, <2>1, <2>2
  <1>7. ASSUME NEW h \in Handlers, FnReturnsNil(h) \/ FnReturnsError(h) \/ FnPanics(h)
        PROVE  TypeOK'
    <2>1. called' \subseteq Calls
      <3>1. [event |-> msg[h].event, flaw |-> flaw[h]] \in Calls
        BY CallTypes
      <3>2. called' = called \cup {[event |-> msg[h].event, flaw |-> flaw[h]]}
        BY <1>7 DEF FnReturnsNil, FnReturnsError, FnPanics, Invoked
      <3>3. QED
        BY <3>1, <3>2
    <2>2. applied' \subseteq Events \cup {Stray}
      BY <1>7 DEF FnReturnsNil, FnReturnsError, FnPanics
    <2>3. CASE FnReturnsNil(h)
      BY <2>1, <2>2, <2>3 DEF FnReturnsNil, Acknowledge, Goto, Flaws, Statuses, configVars,
                              rotationVars
    <2>4. CASE FnReturnsError(h)
      BY <2>1, <2>2, <2>4 DEF FnReturnsError, Refuse, Goto, Flaws, Statuses, configVars, rotationVars
    <2>5. CASE FnPanics(h)
      BY <2>1, <2>2, <2>5 DEF FnPanics, Finish, Goto, Flaws, Statuses, configVars, rotationVars
    <2>6. QED
      BY <1>7, <2>3, <2>4, <2>5
  <1>8. ASSUME NEW h \in Handlers, NEW a \in BOOLEAN, WriteAck(h, a)
        PROVE  TypeOK'
    BY <1>8 DEF WriteAck, Finish, Goto, Flaws, Statuses, configVars, rotationVars, partnerVars
  <1>9. CASE Crash \/ AddKey \/ DropKey
    BY <1>9 DEF Crash, AddKey, DropKey, Restart, Flaws, Statuses, configVars, partnerVars
  <1>10. CASE SwitchKey
    BY <1>10 DEF SwitchKey, configVars, handlerVars, partnerVars
  <1>11. CASE UNCHANGED vars
    BY <1>11 DEF vars, configVars, rotationVars, handlerVars, partnerVars
  <1>12. QED
    BY <1>1, <1>2, <1>3, <1>4, <1>5, <1>6, <1>7, <1>8, <1>9, <1>10, <1>11 DEF Next, Serve

\* Copies stay genuine, calls stay verified and acknowledgements stay earned.
LEMMA NextSafe == IInv /\ [Next]_vars => IInv'
  <1> SUFFICES ASSUME IInv, [Next]_vars PROVE IInv'
    OBVIOUS
  <1>0. TypeOK /\ TypeOK'
    BY NextTypeOK DEF IInv
  <1> DEFINE Rest == /\ CopiesAreIssued /\ CallsAreVerified /\ AcksAreEarned
                     /\ AckedMeansApplied /\ OnlyGenuineEvents
  <1> SUFFICES Rest'
    BY <1>0 DEF IInv
  <1>a. Rest
    BY DEF IInv
  <1> USE CopyTypes DEF TypeOK
  <1>1. ASSUME NEW e \in Events, NEW t \in Stamps, Send(e, t)
        PROVE  Rest'
    <2>1. outbox' = [outbox EXCEPT ![e] = "open"]
      BY <1>1 DEF Send
    <2>2. \A m \in wire' : m \in wire \/ m = [event |-> e, key |-> signing, time |-> t]
      BY <1>1 DEF Send, Post
    <2>3. [event |-> e, key |-> signing, time |-> t].event = e
      OBVIOUS
    <2>4. /\ UNCHANGED <<pc, msg, flaw, status, called, applied, hmac>>
          /\ outbox[e] # "acked"
      BY <1>1 DEF Send, handlerVars, partnerVars, configVars
    <2>5. CopiesAreIssued'
      BY <1>0, <1>a, <2>1, <2>2, <2>3, <2>4 DEF CopiesAreIssued, Issued
    <2>6. AckedMeansApplied' /\ OnlyGenuineEvents'
      BY <1>0, <1>a, <2>1, <2>4 DEF AckedMeansApplied, OnlyGenuineEvents, AsSigned
    <2>7. QED
      BY <1>a, <2>4, <2>5, <2>6 DEF CallsAreVerified, AsSigned, AcksAreEarned
  <1>2. CASE SendStray
    <2>1. \A m \in wire' : m \in wire \/ m.key = "foreign"
      BY <1>2 DEF SendStray, Post
    <2>2. UNCHANGED <<pc, msg, flaw, status, called, applied, hmac, outbox>>
      BY <1>2 DEF SendStray, handlerVars, partnerVars, configVars
    <2>3. QED
      BY <1>a, <2>1, <2>2 DEF CopiesAreIssued, Issued, CallsAreVerified, AsSigned, AcksAreEarned,
                              AckedMeansApplied, OnlyGenuineEvents, AsSigned
  <1>3. CASE Tick \/ SwitchKey \/ UNCHANGED vars
    <2>1. UNCHANGED <<pc, msg, flaw, status, called, applied, hmac, outbox, wire>>
      BY <1>3 DEF Tick, SwitchKey, vars, handlerVars, partnerVars, configVars
    <2>2. QED
      BY <1>a, <2>1 DEF CopiesAreIssued, Issued, CallsAreVerified, AsSigned, AcksAreEarned,
                        AckedMeansApplied, OnlyGenuineEvents
  \* refusing, finishing and restarting leave a handler with no copy and no 200
  <1>b. ASSUME NEW h \in Handlers, Finish(h) \/ (\E s \in {400, 401, 405, 500} : Refuse(h, s)),
               UNCHANGED <<outbox, hmac>>, wire' \subseteq wire, applied \subseteq applied'
        PROVE  CopiesAreIssued' /\ CallsAreVerified' /\ AcksAreEarned'
    <2>1. /\ pc' \in {[pc EXCEPT ![h] = "idle"], [pc EXCEPT ![h] = "reply"]}
          /\ msg' = [msg EXCEPT ![h] = NoCopy]
          /\ flaw' = [flaw EXCEPT ![h] = "none"]
          /\ \E s \in {0, 400, 401, 405, 500} : status' = [status EXCEPT ![h] = s]
      BY <1>b DEF Finish, Refuse, Goto
    <2>2. CopiesAreIssued'
      BY <1>0, <1>a, <1>b, <2>1 DEF CopiesAreIssued, Issued
    <2>3. CallsAreVerified'
      BY <1>0, <1>a, <1>b, <2>1 DEF CallsAreVerified, AsSigned
    <2>4. AcksAreEarned'
      BY <1>0, <1>a, <1>b, <2>1 DEF AcksAreEarned
    <2>5. QED
      BY <2>2, <2>3, <2>4
  <1>4. ASSUME NEW h \in Handlers, NEW m \in wire, NEW f \in Flaws, Receive(h, m, f)
        PROVE  Rest'
    <2>1. UNCHANGED <<outbox, hmac, called, applied>> /\ wire' \subseteq wire
      BY <1>4 DEF Receive, configVars, partnerVars
    <2>2. AckedMeansApplied' /\ OnlyGenuineEvents'
      BY <1>a, <2>1 DEF AckedMeansApplied, OnlyGenuineEvents, AsSigned
    <2>3. CASE Admit(h, m, f)
      <3>1. /\ pc' = [pc EXCEPT ![h] = "verify"] /\ msg' = [msg EXCEPT ![h] = m]
            /\ flaw' = [flaw EXCEPT ![h] = f] /\ status' = status /\ pc[h] = "idle"
        BY <1>4, <2>3 DEF Admit, Goto, Receive
      <3>2. CopiesAreIssued'
        BY <1>0, <1>a, <2>1, <3>1 DEF CopiesAreIssued, Issued
      <3>3. CallsAreVerified' /\ AcksAreEarned'
        BY <1>0, <1>a, <2>1, <3>1 DEF CallsAreVerified, AsSigned, AcksAreEarned
      <3>4. QED
        BY <2>2, <3>2, <3>3
    <2>4. CASE \E s \in {400, 401, 405, 500} : Refuse(h, s)
      BY <1>b, <2>1, <2>2, <2>4
    <2>5. QED
      BY <1>4, <2>3, <2>4 DEF Receive
  <1>5. ASSUME NEW h \in Handlers, VerifySignature(h)
        PROVE  Rest'
    <2>1. UNCHANGED <<outbox, hmac, called, applied, wire>>
      BY <1>5 DEF VerifySignature, configVars, partnerVars
    <2>2. AckedMeansApplied' /\ OnlyGenuineEvents'
      BY <1>a, <2>1 DEF AckedMeansApplied, OnlyGenuineEvents, AsSigned
    <2>3. CASE Verify(h)
      <3>1. pc' = [pc EXCEPT ![h] = "call"] /\ UNCHANGED <<msg, flaw, status>>
        BY <1>5, <2>3 DEF VerifySignature, Goto
      <3>2. AsSigned(flaw[h]) /\ msg[h].key # "foreign"
        <4>1. \A i \in 1..Len(configured) : configured[i] \in {"old", "new"}
          BY <1>0
        <4>2. Covers(h) /\ msg[h].key # "foreign"
          BY <2>3, <4>1 DEF Verify
        <4>3. QED
          BY <1>0, <4>2, CoveredIsAsSigned
      <3>3. QED
        BY <1>0, <1>a, <2>1, <2>2, <3>1, <3>2
        DEF CopiesAreIssued, Issued, CallsAreVerified, AsSigned, AcksAreEarned
    <2>4. CASE ~Verify(h)
      BY <1>5, <1>b, <2>1, <2>2, <2>4 DEF VerifySignature
    <2>5. QED
      BY <2>3, <2>4
  <1>6. ASSUME NEW h \in Handlers, HungUp(h) \/ DecodeFails(h)
        PROVE  Rest'
    <2>1. UNCHANGED <<outbox, hmac, called, applied, wire>>
      BY <1>6 DEF HungUp, DecodeFails, configVars, partnerVars
    <2>2. AckedMeansApplied' /\ OnlyGenuineEvents'
      BY <1>a, <2>1 DEF AckedMeansApplied, OnlyGenuineEvents, AsSigned
    <2>3. QED
      BY <1>6, <1>b, <2>1, <2>2 DEF HungUp, DecodeFails
  <1>7. ASSUME NEW h \in Handlers, FnReturnsNil(h) \/ FnReturnsError(h) \/ FnPanics(h)
        PROVE  Rest'
    <2>1. UNCHANGED <<outbox, hmac, wire>> /\ applied \subseteq applied' /\ pc[h] = "call"
      BY <1>7 DEF FnReturnsNil, FnReturnsError, FnPanics, configVars
    <2>2. called' = called \cup {[event |-> msg[h].event, flaw |-> flaw[h]]}
      BY <1>7 DEF FnReturnsNil, FnReturnsError, FnPanics, Invoked
    <2>3. /\ [event |-> msg[h].event, flaw |-> flaw[h]].event = msg[h].event
          /\ [event |-> msg[h].event, flaw |-> flaw[h]].flaw = flaw[h]
      BY <1>0, CallTypes
    <2>4. /\ msg[h].event \in Events /\ outbox[msg[h].event] # "none"
          /\ AsSigned(flaw[h])
      BY <1>a, <2>1 DEF CallsAreVerified, AsSigned, CopiesAreIssued, Issued
    <2>5. AckedMeansApplied'
      BY <1>a, <2>1 DEF AckedMeansApplied
    <2>6. OnlyGenuineEvents'
      BY <1>a, <2>1, <2>2, <2>3, <2>4 DEF OnlyGenuineEvents, AsSigned
    <2>7. CASE FnReturnsNil(h)
      <3>1. /\ pc' = [pc EXCEPT ![h] = "reply"] /\ UNCHANGED <<msg, flaw>>
            /\ status' = [status EXCEPT ![h] = 200] /\ applied' = applied \cup {msg[h].event}
        BY <2>7 DEF FnReturnsNil, Acknowledge, Goto
      <3>2. QED
        BY <1>0, <1>a, <2>1, <2>5, <2>6, <3>1
        DEF CopiesAreIssued, Issued, CallsAreVerified, AsSigned, AcksAreEarned
    <2>8. CASE FnReturnsError(h) \/ FnPanics(h)
      BY <1>b, <2>1, <2>5, <2>6, <2>8 DEF FnReturnsError, FnPanics
    <2>9. QED
      BY <1>7, <2>7, <2>8
  <1>8. ASSUME NEW h \in Handlers, NEW a \in BOOLEAN, WriteAck(h, a)
        PROVE  Rest'
    <2>1. /\ UNCHANGED <<hmac, wire, called, applied>>
          /\ pc' = [pc EXCEPT ![h] = "idle"] /\ msg' = [msg EXCEPT ![h] = NoCopy]
          /\ flaw' = [flaw EXCEPT ![h] = "none"] /\ status' = [status EXCEPT ![h] = 0]
      BY <1>8 DEF WriteAck, Finish, Goto, configVars, partnerVars
    <2>2. \/ outbox' = outbox
          \/ /\ status[h] = 200 /\ msg[h].event \in Events
             /\ outbox' = [outbox EXCEPT ![msg[h].event] = "acked"]
      BY <1>8 DEF WriteAck
    <2>3. CopiesAreIssued' /\ OnlyGenuineEvents'
      BY <1>0, <1>a, <2>1, <2>2 DEF CopiesAreIssued, Issued, OnlyGenuineEvents, AsSigned
    <2>4. AckedMeansApplied'
      BY <1>0, <1>a, <2>1, <2>2 DEF AckedMeansApplied, AcksAreEarned
    <2>5. CallsAreVerified' /\ AcksAreEarned'
      BY <1>0, <1>a, <2>1 DEF CallsAreVerified, AsSigned, AcksAreEarned
    <2>6. QED
      BY <2>3, <2>4, <2>5
  <1>9. CASE Crash \/ AddKey \/ DropKey
    <2>1. /\ UNCHANGED <<hmac, wire, called, applied, outbox>>
          /\ pc' = [h \in Handlers |-> "idle"] /\ msg' = [h \in Handlers |-> NoCopy]
          /\ status' = [h \in Handlers |-> 0]
      BY <1>9 DEF Crash, AddKey, DropKey, Restart, configVars, partnerVars
    <2>2. QED
      BY <1>a, <2>1 DEF CopiesAreIssued, Issued, CallsAreVerified, AcksAreEarned,
                        AckedMeansApplied, OnlyGenuineEvents, AsSigned
  <1>10. QED
    BY <1>1, <1>2, <1>3, <1>4, <1>5, <1>6, <1>7, <1>8, <1>9 DEF Next, Serve

\* The receiver and its environment never leave the invariant.
LEMMA AlwaysIInv == Spec => []IInv
  BY InitIInv, NextSafe, PTL DEF Spec

\* For any number of handlers, copies, crashes and rotation steps: an event is
\* acknowledged only after the partner's function returned nil for it.
THEOREM AcknowledgedEventsAreApplied == Spec => []AckedMeansApplied
  <1>1. IInv => AckedMeansApplied
    BY DEF IInv
  <1>2. QED
    BY <1>1, AlwaysIInv, PTL

\* The receiver's and the gateways' variables keep their types: whatever is lost,
\* repeated or cut short, a handler at work holds a copy and a status of the code.
THEOREM TypesHold == Spec => []TypeOK
  <1>1. IInv => TypeOK
    BY DEF IInv
  <1>2. QED
    BY <1>1, AlwaysIInv, PTL

\* Under any key rotation in the documented order, the partner's function sees
\* only issued events, as they were signed.
THEOREM OnlyVerifiedEventsAreCalled == Spec => []OnlyGenuineEvents
  <1>1. IInv => OnlyGenuineEvents
    BY DEF IInv
  <1>2. QED
    BY <1>1, AlwaysIInv, PTL

=============================================================================
