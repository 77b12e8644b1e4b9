---------------------------- MODULE MCMockServer ----------------------------
(* The mock server with three requests over two keys and a cache of one     *)
(* entry. `typed` carries a callback event, `plain` does not, the Respond   *)
(* of `faulty` fails. Requests are interchangeable, and so are keys.        *)
EXTENDS MockServer, TLC

CONSTANTS typed, plain, faulty

MCFaulty == {faulty} \cap Scenarios
MCCarriers == {typed}
MCResponses == [by : Handlers, scenario : Scenarios]
MCSymmetry == Permutations(Handlers) \cup Permutations(Keys)
=============================================================================
