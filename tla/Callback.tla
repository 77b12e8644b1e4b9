------------------------------ MODULE Callback ------------------------------
(***************************************************************************)
(* The callback receiver (callback/handler.go, callback/verifier.go): the  *)
(* gateway posts each event, signed, until it is answered with a 2xx; the  *)
(* partner's server runs one handler per request: checks, signature, the   *)
(* partner's function, acknowledgement. Copies are lost, repeated, late    *)
(* and damaged on the way, the partner's process crashes and is redeployed *)
(* through a key rotation, and another environment's gateway posts to the  *)
(* same endpoint. A handler is goroutine-local: it shares only the clock   *)
(* and the immutable Verifier of its process with the others.              *)
(*                                                                         *)
(* The gateway is external, as README.md and DESIGN.md describe it.        *)
(***************************************************************************)
EXTENDS Integers, Sequences, FiniteSets

CONSTANTS
    Events,         \* the events the gateway has for this partner
    Stray,          \* an event of another environment
    Handlers,       \* requests that can be served at once
    Windows,        \* the WithHMACTimeWindow values considered, in ticks
    TicksPerMilli,  \* ticks in one millisecond
    Characters,     \* what the texts below are made of
    ClientID,       \* the client id of the account
    Millis,         \* the text of a time, by its milliseconds
    Endpoint,       \* path and query of the endpoint the gateway posts to
    Elsewhere,      \* path and query of the partner's other endpoint
    Body,           \* the JSON text of an event
    Torn,           \* what damage makes of a body
    Base64,         \* base64.RawStdEncoding of a body, external
    MaxTime,        \* bound: the clock, in milliseconds
    MaxWire         \* bound: copies on their way at a time

ASSUME CallbackAssumption ==
    /\ Stray \notin Events
    /\ \A w \in Windows : w \in Nat
    /\ TicksPerMilli \in Nat \ {0} /\ MaxTime \in Nat /\ MaxWire \in Nat

\* the two endpoints differ, damage changes a body, and no two bodies are encoded alike
ASSUME TextAssumption ==
    /\ {"POST", " "} \subseteq Characters
    /\ ClientID \in Seq(Characters) /\ Millis \in [0..MaxTime -> Seq(Characters)]
    /\ Endpoint \in Seq(Characters) /\ Elsewhere \in Seq(Characters) /\ Endpoint # Elsewhere
    /\ \A e \in Events \cup {Stray} : {Body[e], Torn[Body[e]]} \subseteq DOMAIN Base64
    /\ \A e \in Events \cup {Stray} : Torn[Body[e]] # Body[e]
    /\ \A a \in DOMAIN Base64 :
          /\ Base64[a] \in Seq(Characters)
          /\ \A b \in DOMAIN Base64 : Base64[a] = Base64[b] => a = b

VARIABLES
    hmac, window,   \* the Verifier's mode and time window
    configured,     \* Verifier.verifiers of the running process, by their keys
    signing,        \* the key the gateway signs with
    clock,          \* Unix milliseconds
    outbox,         \* the gateway's view of each event: "none", "open" or "acked"
    wire,           \* copies on their way
    pc, msg, flaw,  \* each handler: where it stands, its copy and what befell it
    status,         \* the HTTP status it is about to send
    called,         \* (history) what the partner's function was called with
    applied         \* events for which the function of the endpoint reached returned nil

configVars == <<hmac, window>>
rotationVars == <<configured, signing>>
handlerVars == <<pc, msg, flaw, status>>
partnerVars == <<called, applied>>
vars == <<configVars, rotationVars, clock, outbox, wire, handlerVars, partnerVars>>

\* what can happen to a copy on its way, besides loss and delay
Flaws == {"none", "method", "oversize", "headers", "torn", "misrouted"}

Copy == [event : Events \cup {Stray}, key : {"old", "new", "foreign"}, time : 0..MaxTime]
Statuses == {0, 200, 400, 401, 405, 500}
Calls == [event : Events \cup {Stray}, flaw : Flaws]

NoCopy == [event |-> Stray, key |-> "foreign", time |-> 0]

Init ==
    /\ hmac \in BOOLEAN /\ window \in Windows
    /\ configured = <<"old">> /\ signing = "old"
    /\ clock = 0
    /\ outbox = [e \in Events |-> "none"]
    /\ wire = {}
    /\ pc = [h \in Handlers |-> "idle"]
    /\ msg = [h \in Handlers |-> NoCopy]
    /\ flaw = [h \in Handlers |-> "none"]
    /\ status = [h \in Handlers |-> 0]
    /\ called = {} /\ applied = {}

-----------------------------------------------------------------------------
(* The gateways and the network (external).                                *)

\* a copy joins those on their way; the network may lose any of them
Post(m) == \E w \in SUBSET wire : Cardinality(w) < MaxWire /\ wire' = w \cup {m}

\* the gateway's clock is at most a millisecond off
Stamps == {clock - 1, clock, clock + 1} \cap 0..MaxTime

\* an event is posted, or posted again as long as it is not acknowledged
Send(e, t) ==
    /\ outbox[e] # "acked"
    /\ outbox' = [outbox EXCEPT ![e] = "open"]
    /\ Post([event |-> e, key |-> signing, time |-> t])
    /\ UNCHANGED <<configVars, rotationVars, clock, handlerVars, partnerVars>>

SendStray ==
    /\ Post([event |-> Stray, key |-> "foreign", time |-> clock])
    /\ UNCHANGED <<configVars, rotationVars, clock, outbox, handlerVars, partnerVars>>

Tick ==
    /\ clock < MaxTime
    /\ clock' = clock + 1
    /\ UNCHANGED <<configVars, rotationVars, outbox, wire, handlerVars, partnerVars>>

-----------------------------------------------------------------------------
(* The handler.                                                            *)

Goto(h, l) == pc' = [pc EXCEPT ![h] = l]

Finish_KeepsStatus(h) ==
    /\ Goto(h, "idle")
    /\ msg' = [msg EXCEPT ![h] = NoCopy]
    /\ flaw' = [flaw EXCEPT ![h] = "none"]
    /\ UNCHANGED status

\* the handler returns: its locals are gone
Finish(h) ==
    /\ Goto(h, "idle")
    /\ msg' = [msg EXCEPT ![h] = NoCopy]
    /\ flaw' = [flaw EXCEPT ![h] = "none"]
    /\ status' = [status EXCEPT ![h] = 0]

\* writeAck with an error status, after which the copy is not looked at again
Refuse(h, s) ==
    /\ Goto(h, "reply")
    /\ msg' = [msg EXCEPT ![h] = NoCopy]
    /\ flaw' = [flaw EXCEPT ![h] = "none"]
    /\ status' = [status EXCEPT ![h] = s]

Admit(h, m, f) ==
    /\ Goto(h, "verify")
    /\ msg' = [msg EXCEPT ![h] = m]
    /\ flaw' = [flaw EXCEPT ![h] = f]
    /\ UNCHANGED status

InWindow_Exclusive(t) ==
    LET skewMs == window \div TicksPerMilli
    IN  window = 0 \/ (t < clock + skewMs /\ t > clock - skewMs)

\* verifyHMACTime: no window, or within the whole milliseconds of it
InWindow(t) ==
    LET skewMs == window \div TicksPerMilli
    IN  window = 0 \/ ~(t > clock + skewMs \/ t < clock - skewMs)

\* a copy reaches the server, perhaps not for the last time: method, body
\* limit, headers and, in HMAC mode, the time header are checked
Receive(h, m, f) ==
    /\ pc[h] = "idle"
    /\ m \in wire
    /\ wire' \in {wire, wire \ {m}}
    /\ CASE f = "method"   -> Refuse(h, 405)
         [] f = "oversize" -> Refuse(h, 400)
         [] f = "headers"  -> Refuse(h, 401)
         [] OTHER -> IF hmac /\ ~InWindow(m.time) THEN Refuse(h, 401) ELSE Admit(h, m, f)
    /\ UNCHANGED <<configVars, rotationVars, clock, outbox, partnerVars>>

\* the string to sign: nothing stands between the path and the body
OVOHMACCanonical(clientID, timeMillis, method, pathWithQuery, body) ==
    clientID \o timeMillis \o method \o <<" ">> \o pathWithQuery \o Base64[body]

\* the bytes a signature is over, by the Verifier's mode
Canonical(time, pathWithQuery, body) ==
    IF hmac THEN OVOHMACCanonical(ClientID, Millis[time], <<"POST">>, pathWithQuery, body)
    ELSE body

\* what the handler reads of its copy
RequestURI(h) == IF flaw[h] = "misrouted" THEN Elsewhere ELSE Endpoint
ReadBody(h) == IF flaw[h] = "torn" THEN Torn[Body[msg[h].event]] ELSE Body[msg[h].event]

\* the bytes the handler verifies are those the gateway signed
Covers(h) == Canonical(msg[h].time, RequestURI(h), ReadBody(h))
                = Canonical(msg[h].time, Endpoint, Body[msg[h].event])

Verify_FirstKey(h) == Covers(h) /\ configured[1] = msg[h].key

Verify_ShadowedError(h) == Covers(h) /\ Len(configured) > 0

\* Verifier.Verify: some configured key verifies the signature
Verify(h) == Covers(h) /\ \E i \in 1..Len(configured) : configured[i] = msg[h].key

VerifySignature(h) ==
    /\ pc[h] = "verify"
    /\ IF Verify(h) THEN Goto(h, "call") /\ UNCHANGED <<msg, flaw, status>> ELSE Refuse(h, 401)
    /\ UNCHANGED <<configVars, rotationVars, clock, outbox, wire, partnerVars>>

\* the gateway hung up: the request's context is done, and Verify refuses it
\* with a 401 nobody reads
HungUp(h) ==
    /\ pc[h] = "verify"
    /\ Finish(h)
    /\ UNCHANGED <<configVars, rotationVars, clock, outbox, wire, partnerVars>>

Acknowledge(h) == Goto(h, "reply") /\ status' = [status EXCEPT ![h] = 200]

Invoked(h) == called' = called \cup {[event |-> msg[h].event, flaw |-> flaw[h]]}

\* an event of another endpoint may not fit this one's type
DecodeFails(h) ==
    /\ pc[h] = "call"
    /\ flaw[h] = "misrouted"
    /\ Refuse(h, 400)
    /\ UNCHANGED <<configVars, rotationVars, clock, outbox, wire, partnerVars>>

FnReturnsNil(h) ==
    /\ pc[h] = "call"
    /\ Invoked(h)
    /\ applied' = applied \cup {msg[h].event}
    /\ Acknowledge(h)
    /\ UNCHANGED <<configVars, rotationVars, clock, outbox, wire, msg, flaw>>

FnReturnsError_Acked(h) ==
    /\ pc[h] = "call"
    /\ Invoked(h)
    /\ Acknowledge(h)
    /\ UNCHANGED <<configVars, rotationVars, clock, outbox, wire, msg, flaw, applied>>

FnReturnsError(h) ==
    /\ pc[h] = "call"
    /\ Invoked(h)
    /\ Refuse(h, 500)
    /\ UNCHANGED <<configVars, rotationVars, clock, outbox, wire, applied>>

\* net/http recovers the panic and drops the connection
FnPanics(h) ==
    /\ pc[h] = "call"
    /\ Invoked(h)
    /\ Finish(h)
    /\ UNCHANGED <<configVars, rotationVars, clock, outbox, wire, applied>>

\* the answer is written; the gateway may be gone, or the answer lost
WriteAck(h, arrives) ==
    /\ pc[h] = "reply"
    /\ outbox' = IF arrives /\ status[h] = 200 /\ msg[h].event \in Events
                 THEN [outbox EXCEPT ![msg[h].event] = "acked"] ELSE outbox
    /\ Finish(h)
    /\ UNCHANGED <<configVars, rotationVars, clock, wire, partnerVars>>

-----------------------------------------------------------------------------
(* The partner's process and the key rotation.                             *)

\* the process ends, and its handlers with it; the next one has these keys
Restart(keys) ==
    /\ pc' = [h \in Handlers |-> "idle"]
    /\ msg' = [h \in Handlers |-> NoCopy]
    /\ flaw' = [h \in Handlers |-> "none"]
    /\ status' = [h \in Handlers |-> 0]
    /\ configured' = keys
    /\ UNCHANGED <<configVars, signing, clock, outbox, wire, partnerVars>>

Crash == Restart(configured)

\* the overlap begins: FromCertPEMs or FromHMACSecret with both keys
AddKey ==
    /\ configured = <<"old">>
    /\ Restart(<<"old", "new">>)

SwitchKey ==
    /\ configured = <<"old", "new">> /\ signing = "old"
    /\ signing' = "new"
    /\ UNCHANGED <<configVars, configured, clock, outbox, wire, handlerVars, partnerVars>>

\* the overlap ends once the gateway has switched
DropKey ==
    /\ configured = <<"old", "new">> /\ signing = "new"
    /\ Restart(<<"new">>)

-----------------------------------------------------------------------------

Serve(h) == \/ VerifySignature(h) \/ HungUp(h)
            \/ DecodeFails(h) \/ FnReturnsNil(h) \/ FnReturnsError(h) \/ FnPanics(h)
            \/ \E a \in BOOLEAN : WriteAck(h, a)

Next == \/ \E e \in Events, t \in Stamps : Send(e, t)
        \/ SendStray \/ Tick
        \/ \E h \in Handlers, m \in wire, f \in Flaws : Receive(h, m, f)
        \/ \E h \in Handlers : Serve(h)
        \/ Crash \/ AddKey \/ SwitchKey \/ DropKey

Spec == Init /\ [][Next]_vars

\* an undamaged, timely copy reaches a handler
ReceivesGood(e) ==
    \E h \in Handlers, m \in wire :
        m.event = e /\ m.key = signing /\ m.time = clock /\ Receive(h, m, "none")

SendsGood(e) == (\E h \in Handlers : pc[h] = "idle") /\ Send(e, clock)

\* The server runs its handlers. The gateway does not give an event up, and of
\* its attempts not all are lost, damaged, late, hung up on, cut short by a crash
\* or refused by the partner's function, nor are all acknowledgements lost.
Fairness ==
    /\ \A h \in Handlers : WF_vars(Serve(h))
    /\ \A e \in Events :
          /\ SF_vars(SendsGood(e)) /\ SF_vars(ReceivesGood(e))
          /\ \A h \in Handlers :
                /\ SF_vars(msg[h].event = e /\ Verify(h) /\ VerifySignature(h))
                /\ SF_vars(msg[h].event = e /\ FnReturnsNil(h))
                /\ SF_vars(msg[h].event = e /\ status[h] = 200 /\ WriteAck(h, TRUE))

FairSpec == Spec /\ Fairness

-----------------------------------------------------------------------------
(* Properties.                                                             *)

\* Type correctness of the callback receiver and its environment.
TypeOK ==
    /\ hmac \in BOOLEAN /\ window \in Windows
    /\ configured \in {<<"old">>, <<"old", "new">>, <<"new">>} /\ signing \in {"old", "new"}
    /\ clock \in 0..MaxTime
    /\ outbox \in [Events -> {"none", "open", "acked"}]
    /\ wire \subseteq Copy
    /\ pc \in [Handlers -> {"idle", "verify", "call", "reply"}]
    /\ msg \in [Handlers -> Copy] /\ flaw \in [Handlers -> Flaws]
    /\ status \in [Handlers -> Statuses]
    /\ \A h \in Handlers : pc[h] # "reply" => status[h] = 0
    /\ called \subseteq Calls /\ applied \subseteq Events \cup {Stray}

\* The gateway stops posting an event only after the partner's function has
\* returned nil for it: an error, a panic, a crash or a refusal is never taken
\* for an acknowledgement.
AckedMeansApplied == \A e \in Events : outbox[e] = "acked" => e \in applied

\* with its own body and, where the signature is over the path too, at its own endpoint
AsSigned(f) == f # "torn" /\ (hmac => f # "misrouted")

\* The partner's function sees only events this gateway has issued, and only as
\* they were signed (SECURITY.md: "never invoked on a failed-verify path").
OnlyGenuineEvents ==
    \A c \in called : c.event \in Events /\ outbox[c.event] # "none" /\ AsSigned(c.flaw)

\* Every event is eventually acknowledged, through rotation, crashes, lost and
\* damaged copies, and whatever time window is configured.
EveryEventArrives == \A e \in Events : outbox[e] = "open" ~> outbox[e] = "acked"
=============================================================================
