----------------------------- MODULE SignedCall -----------------------------
(***************************************************************************)
(* What one call of Client.DoSigned, DoSignedGET or DoEncryptedSigned      *)
(* promises the service above it, whatever its retry loop does: at most    *)
(* limit copies of the signed request leave the client, a success or an    *)
(* HTTP error is reported only when some copy left, and once the call has  *)
(* returned nothing is transmitted any more and the outcome is final.      *)
(***************************************************************************)
EXTENDS Naturals

VARIABLES
    limit,          \* the most attempts a call of this client may make
    copies,         \* copies of the signed request handed to the network
    outcome         \* "pending", then what the call returned

callVars == <<limit, copies, outcome>>

Answered == {"ok", "api"}             \* outcomes that carry an HTTP status
Unanswered == {"transport", "signature", "validation"}

CallInit ==
    /\ limit \in Nat \ {0}
    /\ copies = 0
    /\ outcome = "pending"

Transmitted ==
    /\ outcome = "pending"
    /\ copies < limit
    /\ copies' = copies + 1
    /\ UNCHANGED <<limit, outcome>>

Returned ==
    /\ outcome = "pending"
    /\ outcome' \in Answered \cup Unanswered
    /\ outcome' \in Answered => copies > 0
    /\ UNCHANGED <<limit, copies>>

CallNext == Transmitted \/ Returned

CallSpec == CallInit /\ [][CallNext]_callVars
=============================================================================
