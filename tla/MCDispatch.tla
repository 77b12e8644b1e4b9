----------------------------- MODULE MCDispatch -----------------------------
(* Dispatch with the default policy's retry set, and one that also retries  *)
(* 429, with and without timeout, backoff and transport retries.            *)
EXTENDS Dispatch

MCStatuses == {200, 400, 429, 501, 503}

MCPolicies == [max : 1..3, pause : BOOLEAN, timeout : BOOLEAN,
               retryTransport : BOOLEAN, retryStatus : {{503}, {429, 503}}]

\* transport.DefaultRetryPolicy as the client is built without options
MCDefaultPolicy == {[max |-> 3, pause |-> TRUE, timeout |-> TRUE,
                     retryTransport |-> TRUE, retryStatus |-> {503}]}
=============================================================================
