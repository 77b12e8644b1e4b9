------------------------------ MODULE Queries -------------------------------
(***************************************************************************)
(* A client from its options to the requests it sends: New (module         *)
(* Client), then the GET calls of every service, HeartBeat, ListBanks and  *)
(* the encrypted POST, each from its validator through its query builder   *)
(* to the message the gateway receives (module Wire).                      *)
(*                                                                         *)
(* A call runs on its own here; what happens to the message on its way,    *)
(* the retries included, is module Dispatch.                               *)
(***************************************************************************)
EXTENDS Client, Wire

CONSTANTS
    Options,        \* options New may be given
    Inputs,         \* arguments of each call: [call |-> set of records]
    MaxLen,         \* longest requestId and externalReferenceUid, 64
    MaxOptions,     \* bound: options of one client
    MaxExplored     \* bound: options of a client whose calls take arguments

\* what the Go types of the options' arguments, and key files, give: numbers are
\* numbers, and a signer and a key that loads are not the unset ones
ASSUME OptionsAssumption ==
    \A o \in Options :
        /\ o.with \in OptionNames
        /\ o.with \in {"Timeout", "MaxResponseBytes"} => o.arg \in Int
        /\ o.with = "Signer" => DOMAIN o.arg = {"key", "keyID"} /\ o.arg.key # "none"
        /\ o.with = "PrivateKeyPEM" /\ LoadPrivateKeyPEM(o.arg) => o.arg.name # "none"
        /\ o.with = "AtomeCerts" /\ LoadPrivateKeyPEM(o.arg.signPriv)
              => o.arg.signPriv.name # "none"

GatewayKeys == "gateway"        \* the name of the gateway's own encryption key

\* the arguments as their Go types, and the parameters' own enumerations, have them
ASSUME InputsAssumption ==
    /\ \A p \in Inputs.ids : p.rid \in Seq(Characters) /\ p.uid \in Seq(Characters)
    /\ \A p \in Inputs.balance :
          /\ p.rid \in Seq(Characters) /\ p.uid \in Seq(Characters) /\ p.type \in Characters
          /\ p.start \in Int /\ p.count \in Int
    /\ \A p \in Inputs.bills :
          /\ \A text \in {p.uid, p.startMonth, p.endMonth} : text \in Seq(Characters)
          /\ \A list \in {p.status, p.repaymentStatus, p.overdueStatus, p.refundStatus} :
                list \in Seq(Seq(Characters))
    /\ \A p \in Inputs.bill :
          /\ p.billId \in Seq(Characters) /\ p.uid \in Seq(Characters)
          /\ p.start \in Int /\ p.count \in Int
    /\ \A p \in Inputs.transactions :
          /\ \A text \in {p.rid, p.uid, p.startDate, p.endDate} : text \in Seq(Characters)
          /\ p.type \in Characters /\ p.start \in Int /\ p.count \in Int
    /\ \A p \in Inputs.post : p.plain \in Seq(Nat)

\* RSA can wrap every key for the gateway
ASSUME WrapAssumption == \A key \in RandomAESKey : <<key, GatewayKeys>> \in DOMAIN Base64

VARIABLES
    given,          \* the options handed to New
    pc,             \* "options", then "ready" or "failed", "sent" during a call
    client,         \* what New returned
    asked,          \* the query, or the plaintext body, of the call under way
    sent,           \* the request it sent
    outcome         \* how the latest call ended

vars == <<given, pc, client, asked, sent, outcome>>

Nothing == [method |-> "none"]
NotAsked == [query |-> None, plain |-> <<>>]

Init ==
    /\ given = <<>> /\ pc = "options" /\ client = NoClient
    /\ asked = NotAsked /\ sent = Nothing /\ outcome = "none"

AddOption(o) ==
    /\ pc = "options" /\ Len(given) < MaxOptions
    /\ given' = Append(given, o)
    /\ UNCHANGED <<pc, client, asked, sent, outcome>>

Build ==
    /\ pc = "options"
    /\ client' = New(given)
    /\ pc' = IF client'.failed = "yes" THEN "failed" ELSE "ready"
    /\ UNCHANGED <<given, asked, sent, outcome>>

-----------------------------------------------------------------------------
(* Signed requests.                                                        *)

SchemeRawBase64(sig, keyID) == [form |-> "raw", sig |-> sig, keyID |-> "none"]

SchemeAtomeKeyed(sig, keyID) == [form |-> "keyed", sig |-> sig, keyID |-> keyID]

Sign(canonical) == [key |-> client.signer.key, over |-> canonical]

Authorization(canonical) ==
    IF client.authScheme = "raw" THEN SchemeRawBase64(Sign(canonical), client.signer.keyID)
    ELSE SchemeAtomeKeyed(Sign(canonical), client.signer.keyID)

DoSignedGET(path, q) ==
    [method |-> "GET", host |-> client.baseURL, path |-> path,
     query |-> EncodeWireQueryRFC3986(q), auth |-> Authorization(CanonicalQueryFirstValue(q))]

DoEncryptedSigned(path, plain, key) ==
    LET e == Marshal(plain, client.encryptAtomePub, key) IN
    [method |-> "POST", host |-> client.baseURL, path |-> path,
     header |-> e.header, body |-> e.body, auth |-> Authorization(e.body)]

DoSigned(path, body) ==
    [method |-> "POST", host |-> client.baseURL, path |-> path,
     body |-> body, auth |-> Authorization(body)]

Refused == outcome' = "validation" /\ UNCHANGED <<given, pc, client, asked, sent>>

Send(m, a) ==
    /\ sent' = m /\ asked' = a /\ pc' = "sent" /\ outcome' = "none"
    /\ UNCHANGED <<given, client>>

Get(path, accepted, q) ==
    /\ pc = "ready" /\ Len(given) <= MaxExplored
    /\ IF accepted THEN Send(DoSignedGET(path, q), [query |-> q, plain |-> <<>>]) ELSE Refused

-----------------------------------------------------------------------------
(* Query construction.                                                     *)

SetUnlessEmpty(v) == IF v = <<>> THEN <<>> ELSE <<v>>

Digits == <<"0", "1", "2", "3", "4", "5", "6", "7", "8", "9">>

Itoa(n) ==
    LET written[m \in 0..n] ==
            IF m < 10 THEN <<Digits[m + 1]>>
            ELSE Append(written[m \div 10], Digits[(m % 10) + 1])
    IN  written[n]

DefaultStart == 1
DefaultCount == 10
MaxCount == 50

InRange(p) == p.start >= 0 /\ p.count \in 0..MaxCount
Required(v) == v # <<>> /\ Len(v) <= MaxLen

validateQueryParams(p) == Required(p.rid) /\ Required(p.uid)

validateBalanceHistoryParams(p) ==
    /\ Required(p.uid) /\ Len(p.rid) <= MaxLen
    /\ p.type \in {"OVERPAID_CHANGE", "CREDIT_LIMIT_ADJUSTMENT", "TRADE_AVAILABLE_CREDIT_CHANGE"}
    /\ InRange(p)

buildBalanceHistoryQuery(p) ==
    [None EXCEPT !["externalReferenceUid"] = <<p.uid>>, !["type"] = <<<<p.type>>>>,
                 !["requestId"] = SetUnlessEmpty(p.rid),
                 !["start"] = <<Itoa(IF p.start <= 0 THEN DefaultStart ELSE p.start)>>,
                 !["count"] = <<Itoa(IF p.count <= 0 THEN DefaultCount ELSE p.count)>>]

validateBillsParams(p) == p.uid # <<>> /\ p.startMonth # <<>> /\ p.endMonth # <<>>

buildBillsQuery(p) ==
    [None EXCEPT !["externalReferenceUid"] = SetUnlessEmpty(p.uid),
                 !["startMonth"] = SetUnlessEmpty(p.startMonth),
                 !["endMonth"] = SetUnlessEmpty(p.endMonth),
                 !["status"] = p.status, !["repaymentStatus"] = p.repaymentStatus,
                 !["overdueStatus"] = p.overdueStatus, !["refundStatus"] = p.refundStatus]

validateBillDetailParams(p) == p.billId # <<>> /\ p.uid # <<>> /\ InRange(p)

\* start and count are left to the gateway's defaults when they are 0
buildBillDetailQuery(p) ==
    [None EXCEPT !["billId"] = <<p.billId>>, !["externalReferenceUid"] = <<p.uid>>,
                 !["start"] = IF p.start > 0 THEN <<Itoa(p.start)>> ELSE <<>>,
                 !["count"] = IF p.count > 0 THEN <<Itoa(p.count)>> ELSE <<>>]

validateBillsUnpaidParams(p) == p.uid # <<>>

buildBillsUnpaidQuery(p) == [None EXCEPT !["externalReferenceUid"] = SetUnlessEmpty(p.uid)]

validateTransactionsParams(p) ==
    /\ p.uid # <<>> /\ p.startDate # <<>> /\ p.endDate # <<>> /\ p.type # "empty"
    /\ InRange(p)

buildTransactionsQuery(p) ==
    [None EXCEPT !["start"] = <<Itoa(IF p.start <= 0 THEN DefaultStart ELSE p.start)>>,
                 !["count"] = <<Itoa(IF p.count <= 0 THEN DefaultCount ELSE p.count)>>,
                 !["externalReferenceUid"] = SetUnlessEmpty(p.uid),
                 !["transactionType"] = <<<<p.type>>>>,
                 !["startDate"] = SetUnlessEmpty(p.startDate),
                 !["endDate"] = SetUnlessEmpty(p.endDate)]

-----------------------------------------------------------------------------
(* The calls.                                                              *)

ByIds(p) == [None EXCEPT !["requestId"] = <<p.rid>>, !["externalReferenceUid"] = <<p.uid>>]

QueryAuth(p) == Get("/query-auth", validateQueryParams(p), ByIds(p))
QueryCapture(p) == Get("/query-capture", validateQueryParams(p), ByIds(p))
QueryVoidAuth(p) == Get("/query-voidAuth", validateQueryParams(p), ByIds(p))
QueryReAuth(p) == Get("/query-reAuth", validateQueryParams(p), ByIds(p))
QueryRefund(p) == Get("/query-refund", Required(p.rid) /\ Required(p.uid), ByIds(p))
QueryRepayment(p) == Get("/repayment-result", Required(p.rid) /\ Required(p.uid), ByIds(p))
QueryResult(p) == Get("/credit-result", Required(p.uid), 
        [None EXCEPT !["externalReferenceUid"] = <<p.uid>>])
QueryInformationResult(p) ==
    Get("/credit-information-result", Required(p.uid) /\ Required(p.rid), ByIds(p))
BalanceHistory(p) ==
    Get("/query-balance-history", validateBalanceHistoryParams(p), buildBalanceHistoryQuery(p))
Bills(p) == Get("/bills", validateBillsParams(p), buildBillsQuery(p))
BillDetailWithParams(p) ==
    Get("/billDetail", validateBillDetailParams(p), buildBillDetailQuery(p))
BillsUnpaid(p) == Get("/billUnpaid", validateBillsUnpaidParams(p), buildBillsUnpaidQuery(p))
Transactions(p) == Get("/transactions", validateTransactionsParams(p), buildTransactionsQuery(p))
\* any transactionType but the empty one
TransactionDetail(p) ==
    Get("/transactionDetail", p.rid # <<>> /\ p.uid # <<>> /\ p.type # "empty",
        [ByIds(p) EXCEPT !["transactionType"] = <<<<p.type>>>>])

\* HeartBeat, HeartBeatStatus: nothing to ask
HeartBeat == pc = "ready" /\ Send(DoSignedGET("/heart-beat", None), NotAsked)

\* the empty JSON object
ListBanks == pc = "ready" /\ Send(DoSigned("/va/getList", <<"{", "}">>), NotAsked)

EncryptedPaths == {"/query-user-tag", "/credit-information", "/credit-application"}

invokeEncryptedPost(path, p) ==
    /\ pc = "ready" /\ Len(given) <= MaxExplored
    /\ IF client.encryptAtomePub = "none" THEN Refused
       ELSE \E key \in RandomAESKey :
                Send(DoEncryptedSigned(path, p.plain, key),
                     [query |-> None, plain |-> p.plain])

\* a service without a client, or nil parameters
checkConfigured == pc = "ready" /\ Refused

\* a response, a 2xx body that does not decode, or the error of the signed call
Returned(result) ==
    /\ pc = "sent"
    /\ pc' = "ready" /\ outcome' = result /\ sent' = Nothing /\ asked' = NotAsked
    /\ UNCHANGED <<given, client>>

Results == {"response", "unmarshal", "error"}

Next ==
    \/ \E o \in Options : AddOption(o)
    \/ Build
    \/ \E p \in Inputs.ids :
          \/ QueryAuth(p) \/ QueryCapture(p) \/ QueryVoidAuth(p) \/ QueryReAuth(p)
          \/ QueryRefund(p) \/ QueryRepayment(p) \/ QueryInformationResult(p)
          \/ QueryResult(p) \/ BillsUnpaid(p)
    \/ \E p \in Inputs.balance : BalanceHistory(p)
    \/ \E p \in Inputs.bills : Bills(p)
    \/ \E p \in Inputs.bill : BillDetailWithParams(p)
    \/ \E p \in Inputs.transactions : Transactions(p) \/ TransactionDetail(p)
    \/ HeartBeat \/ ListBanks
    \/ \E path \in EncryptedPaths, p \in Inputs.post : invokeEncryptedPost(path, p)
    \/ checkConfigured
    \/ \E result \in Results : Returned(result)

Spec == Init /\ [][Next]_vars

-----------------------------------------------------------------------------
(* Properties.                                                             *)

\* A client exists only with a signer, a positive timeout and response limit, an
\* address, and a retry policy that passes Validate; only such a client sends.
TypeOK ==
    /\ pc \in {"options", "ready", "failed", "sent"}
    /\ pc \in {"ready", "sent"} =>
          /\ client.failed = "no" /\ client.signer # NoSigner /\ client.baseURL # "none"
          /\ client.timeout > 0 /\ client.maxRespBytes > 0 /\ Validate(client.retry)
    /\ (sent # Nothing) = (pc = "sent")

\* the same options in another order p, two that touch the same field as before
Reordered(p) ==
    \A i, j \in 1..Len(given) :
        i < j /\ Touches(given[i]) \cap Touches(given[j]) # {}
        => (CHOOSE k \in 1..Len(given) : p[k] = i) < (CHOOSE k \in 1..Len(given) : p[k] = j)

\* options.go:134-142, :423-426 and environment.go:27-29: WithBaseURL wins over
\* WithEnvironment and WithKeyID works before or after the signer. More generally
\* the order of options that do not name the same field never shows: New gives
\* the same client, or fails, in each.
OrderIrrelevant ==
    pc \in {"ready", "failed"} /\ outcome = "none" =>
        \A p \in Bijection(1..Len(given), 1..Len(given)) :
            Reordered(p) => New([i \in 1..Len(given) |-> given[p[i]]]) = client

\* the argument of the last option with this name among the first n of opts
LastArg(opts, n, with, default) ==
    LET at == {i \in 1..n : opts[i].with = with}
    IN  IF at = {} THEN default ELSE opts[Max(at)].arg

Last1(with, default) == LastArg(given, Len(given), with, default)

\* A message goes to the host of the last WithBaseURL, or else to that of the last
\* WithEnvironment; a keyed Authorization names the last WithKeyID ("including an
\* empty id"), or else the signer's own.
AddressedAsAsked ==
    sent # Nothing =>
        /\ sent.host = Last1("BaseURL", [host |-> BaseURL[Last1("Environment", "prod")]]).host
        /\ sent.auth.form = "keyed" =>
              sent.auth.keyID = Last1("KeyID", Last1("Signer", NoSigner).keyID)

\* What the gateway reads is what was asked. A query arrives with every parameter
\* and every value, and the canonical form built from what arrived (first value of
\* each name, sign/canonical.go:112-135) is the one that was signed; without
\* repeated names it is the query on the wire itself. An encrypted body opens to the
\* plaintext, and what was signed is the ciphertext.
GatewayVerifies ==
    /\ sent # Nothing /\ sent.method = "GET" =>
          LET got == ParseQuery(sent.query) IN
          /\ got = asked.query
          /\ CanonicalQueryFirstValue(got) = sent.auth.sig.over
          /\ CanonicalQuery(asked.query).err = "nil" =>
                CanonicalQuery(asked.query).text = sent.query
    /\ sent # Nothing /\ sent.path \in EncryptedPaths /\ client.encryptAtomePub = GatewayKeys =>
          /\ Unmarshal(sent.header, sent.body, GatewayKeys) = [err |-> "nil", plain |-> asked.plain]
          /\ sent.auth.sig.over = sent.body
=============================================================================
