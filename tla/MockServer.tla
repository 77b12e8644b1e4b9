----------------------------- MODULE MockServer -----------------------------
(***************************************************************************)
(* The mock gateway (mock/server_dispatch.go, mock/transport.go): one      *)
(* goroutine per request runs serveHTTP (spec validation, idempotent       *)
(* replay, scenario dispatch, cache stamp, answer, auto-callback) while    *)
(* the test swaps the scenario and resets the server. Every mutex-guarded  *)
(* section is one step; anything may happen between two of them.           *)
(***************************************************************************)
EXTENDS IdempotencyCache

CONSTANTS
    Handlers,       \* one per request: its serveHTTP goroutine
    Scenarios,      \* the scenarios the test may install
    Faulty,         \* those whose Respond returns an error
    Carriers,       \* those that carry a callback event (autoCallbackCarrier)
    NoKey,          \* a request from which no requestId can be read
    None

ASSUME MockAssumption ==
    /\ Faulty \subseteq Scenarios /\ Carriers \subseteq Scenarios
    /\ NoKey \notin Keys
    /\ Responses = [by : Handlers, scenario : Scenarios]
    /\ None \notin Responses /\ None \notin Scenarios

VARIABLES
    scenario,       \* Transport.scenario
    requests,       \* Transport.requests: the requests recorded since Reset
    pc,             \* where each goroutine stands in serveHTTP
    key,            \* its idemKey
    answer,         \* what its client was sent: a kind and a response
    used,           \* the scenario its RoundTrip or its callback has read
    callback,       \* the scenario whose event its callback carried
    resetting,      \* the test is between the two halves of Server.Reset
    forgotten,      \* (history) keys evicted or reset after they were cached
    raced,          \* (history) keys dispatched again before the first was answered
    settled         \* (history) requests already answered when the cache was last reset

serverVars == <<scenario, requests, pc, key, answer, used, callback, resetting>>
historyVars == <<forgotten, raced, settled>>
vars == <<items, order, serverVars, historyVars>>

Unanswered == [kind |-> "none", resp |-> None]

\* the response a scenario computes for a request; shipped scenarios are
\* stateless, so two responses are the same bytes when their scenario is
Response(h) == [by |-> h, scenario |-> used[h]]

Init ==
    /\ CacheInit
    /\ scenario \in Scenarios
    /\ requests = {}
    /\ pc = [h \in Handlers |-> "idle"]
    /\ key = [h \in Handlers |-> NoKey]
    /\ answer = [h \in Handlers |-> Unanswered]
    /\ used = [h \in Handlers |-> None]
    /\ callback = [h \in Handlers |-> None]
    /\ resetting = FALSE
    /\ forgotten = {} /\ raced = {} /\ settled = {}

-----------------------------------------------------------------------------
(* serveHTTP.                                                              *)

Goto(h, l) == pc' = [pc EXCEPT ![h] = l]
Answer(h, kind, r) == answer' = [answer EXCEPT ![h] = [kind |-> kind, resp |-> r]]

\* what idemKey returns: a key, or NoKey when the body or query names no requestId,
\* or the body is encrypted and cannot be opened
IdemKeys == Keys \cup {NoKey}

\* specValidate, when enabled, answers a request that misses a required field with a 400
SpecRefuses(h) == Goto(h, "done") /\ Answer(h, "rejected", None)

Receive(h, k) ==
    /\ pc[h] = "idle"
    /\ key' = [key EXCEPT ![h] = k]
    /\ SpecRefuses(h) \/ (Goto(h, "lookup") /\ UNCHANGED answer)
    /\ UNCHANGED <<items, order, scenario, requests, used, callback, resetting, historyVars>>

Replay_FallsThrough(h) ==
    /\ pc[h] = "lookup"
    /\ key[h] \in items
    /\ Hit(key[h])
    /\ \E i \in 1..Len(order) : order[i].key = key[h] /\ Answer(h, "replay", order[i].resp)
    /\ Goto(h, "callback")
    /\ UNCHANGED <<scenario, requests, key, used, callback, resetting, historyVars>>

\* a hit is written out by replay and ends the request: no dispatch, no callback
Replay(h) ==
    /\ pc[h] = "lookup"
    /\ key[h] \in items
    /\ Hit(key[h])
    /\ \E i \in 1..Len(order) : order[i].key = key[h] /\ Answer(h, "replay", order[i].resp)
    /\ Goto(h, "done")
    /\ UNCHANGED <<scenario, requests, key, used, callback, resetting, historyVars>>

\* some other request with this key is on its way and not answered yet
InFlight(h) ==
    \E g \in Handlers \ {h} : /\ key[g] = key[h]
                              /\ pc[g] \in {"dispatch", "respond", "store", "write"}
                              /\ answer[g] = Unanswered

Miss(h) ==
    /\ pc[h] = "lookup"
    /\ key[h] \notin items
    /\ Goto(h, "dispatch")
    /\ raced' = IF InFlight(h) THEN raced \cup {key[h]} ELSE raced
    /\ UNCHANGED <<items, order, scenario, requests, key, answer, used, callback, resetting,
                   forgotten, settled>>

\* Transport.RoundTrip: record the request and take the scenario, under the mutex
Dispatch(h) ==
    /\ pc[h] = "dispatch"
    /\ requests' = requests \cup {h}
    /\ used' = [used EXCEPT ![h] = scenario]
    /\ Goto(h, "respond")
    /\ UNCHANGED <<items, order, scenario, key, answer, callback, resetting, historyVars>>

Stamp(h, k) ==
    /\ Put(k, Response(h))
    /\ forgotten' = forgotten \cup (items \ items')

Respond_StampsErrors(h) ==
    /\ pc[h] = "respond"
    /\ IF used[h] \in Faulty
       THEN /\ Goto(h, "done") /\ Answer(h, "error", None)
            /\ IF key[h] = NoKey THEN UNCHANGED <<items, order, forgotten>> ELSE Stamp(h, key[h])
       ELSE Goto(h, "store") /\ UNCHANGED <<items, order, answer, forgotten>>
    /\ UNCHANGED <<scenario, requests, key, used, callback, resetting, raced, settled>>

\* scenario.Respond, outside the mutex: an error is a 500 that is not cached
Respond(h) ==
    /\ pc[h] = "respond"
    /\ IF used[h] \in Faulty
       THEN Goto(h, "done") /\ Answer(h, "error", None)
       ELSE Goto(h, "store") /\ UNCHANGED answer
    /\ UNCHANGED <<items, order, scenario, requests, key, used, callback, resetting, historyVars>>

Store_NoKeyToo(h) ==
    /\ pc[h] = "store"
    /\ Stamp(h, key[h])
    /\ Goto(h, "write")
    /\ UNCHANGED <<scenario, requests, key, answer, used, callback, resetting, raced, settled>>

\* the cache is stamped before the answer is written
Store(h) ==
    /\ pc[h] = "store"
    /\ IF key[h] = NoKey THEN UNCHANGED <<items, order, forgotten>> ELSE Stamp(h, key[h])
    /\ Goto(h, "write")
    /\ UNCHANGED <<scenario, requests, key, answer, used, callback, resetting, raced, settled>>

Write_BeforeStore(h) ==
    /\ pc[h] \in {"store", "write"}
    /\ pc' = IF pc[h] = "write" THEN [pc EXCEPT ![h] = "callback"] ELSE pc
    /\ Answer(h, "fresh", Response(h))
    /\ UNCHANGED <<items, order, scenario, requests, key, used, callback, resetting, historyVars>>

Write(h) ==
    /\ pc[h] = "write"
    /\ Answer(h, "fresh", Response(h))
    /\ Goto(h, "callback")
    /\ UNCHANGED <<items, order, scenario, requests, key, used, callback, resetting, historyVars>>

\* fireAutoCallback reads the scenario again; only a carrier has an event
Snapshot(h) ==
    /\ pc[h] = "callback"
    /\ used' = [used EXCEPT ![h] = scenario]
    /\ Goto(h, IF scenario \in Carriers THEN "fire" ELSE "done")
    /\ UNCHANGED <<items, order, scenario, requests, key, answer, callback, resetting, historyVars>>

\* after the delay the event reaches the partner's handler, whose panic is
\* recovered; signing fails when the request's context is done
Fire(h) ==
    /\ pc[h] = "fire"
    /\ \/ callback' = [callback EXCEPT ![h] = used[h]]
       \/ UNCHANGED callback
    /\ Goto(h, "done")
    /\ UNCHANGED <<items, order, scenario, requests, key, answer, used, resetting, historyVars>>

-----------------------------------------------------------------------------
(* The test.                                                               *)

SetScenario(s) ==
    /\ scenario' = s
    /\ UNCHANGED <<items, order, requests, pc, key, answer, used, callback, resetting, historyVars>>

\* Server.Reset, first half: Transport.Reset
ResetLog ==
    /\ ~resetting
    /\ resetting' = TRUE
    /\ requests' = {}
    /\ UNCHANGED <<items, order, scenario, pc, key, answer, used, callback, historyVars>>

Answered == {h \in Handlers : answer[h] # Unanswered}

\* Server.Reset, second half: idempotencyCache.Reset
ResetCache ==
    /\ resetting
    /\ resetting' = FALSE
    /\ Clear
    /\ forgotten' = forgotten \cup items
    /\ settled' = Answered
    /\ UNCHANGED <<scenario, requests, pc, key, answer, used, callback, raced>>

-----------------------------------------------------------------------------

Serve(h) == \/ Replay(h) \/ Miss(h) \/ Dispatch(h) \/ Respond(h)
            \/ Store(h) \/ Write(h) \/ Snapshot(h) \/ Fire(h)

Next == \/ \E h \in Handlers, k \in IdemKeys : Receive(h, k)
        \/ \E h \in Handlers : Serve(h)
        \/ \E s \in Scenarios : SetScenario(s)
        \/ ResetLog \/ ResetCache

Spec == Init /\ [][Next]_vars

-----------------------------------------------------------------------------
(* Properties.                                                             *)

\* Type correctness of the mock server (server_dispatch.go, transport.go).
TypeOK ==
    /\ items \subseteq Keys /\ order \in Seq(Entry)
    /\ scenario \in Scenarios
    /\ requests \subseteq Handlers
    /\ pc \in [Handlers -> {"idle", "lookup", "dispatch", "respond", "store", "write",
                            "callback", "fire", "done"}]
    /\ key \in [Handlers -> IdemKeys]
    /\ answer \in [Handlers -> [kind : {"none", "rejected", "error", "fresh", "replay"},
                                resp : Responses \cup {None}]]
    /\ used \in [Handlers -> Scenarios \cup {None}]
    /\ callback \in [Handlers -> Scenarios \cup {None}]
    /\ resetting \in BOOLEAN
    /\ forgotten \subseteq Keys /\ raced \subseteq IdemKeys /\ settled \subseteq Handlers

Succeeded == {h \in Handlers : answer[h].kind \in {"fresh", "replay"}}

\* Every replay is the response a request with the same key was, or is about to
\* be, sent: never another key's, never an error's.
ReplaysBelong ==
    \A h \in Handlers : answer[h].kind = "replay" =>
        LET g == answer[h].resp.by
        IN  /\ key[g] = key[h]
            /\ \/ pc[g] = "write" /\ Response(g) = answer[h].resp
               \/ answer[g] = [kind |-> "fresh", resp |-> answer[h].resp]

\* Requests with the same key are answered alike as long as their key was not
\* evicted or reset and none arrived before an earlier one was answered.
DuplicatesAgree ==
    \A g, h \in Succeeded :
        key[g] = key[h] /\ key[g] \notin {NoKey} \cup forgotten \cup raced
        => answer[g].resp = answer[h].resp

\* Under the same conditions the partner hears of a key at most once: a
\* duplicate fires no second callback.
OneCallbackPerKey ==
    \A g, h \in Handlers :
        /\ callback[g] # None /\ callback[h] # None
        /\ key[g] = key[h] /\ key[g] \notin {NoKey} \cup forgotten \cup raced
        => g = h

\* Server.Reset starts the next sub-test clean: no response whose client had
\* been answered by then is in the cache afterwards, however slow its goroutine.
ResetIsolates == \A i \in 1..Len(order) : order[i].resp.by \notin settled

\* "partners replaying in concurrent goroutines see consistent state"
\* (server_dispatch.go), "A duplicate within the cache window returns the
\* original response byte-for-byte" (server_options.go): the same bytes for
\* every request with the key while the key stays in the cache.
DuplicateGetsOriginal ==
    \A g, h \in Succeeded :
        key[g] = key[h] /\ key[g] \notin {NoKey} \cup forgotten
        => answer[g].resp.scenario = answer[h].resp.scenario
=============================================================================
