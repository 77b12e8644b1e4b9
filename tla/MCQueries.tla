----------------------------- MODULE MCQueries ------------------------------
(***************************************************************************)
(* Queries with an option of every kind, accepted and refused, and texts   *)
(* that hold the characters a query gives a meaning to.                    *)
(***************************************************************************)
EXTENDS Queries

Opt(with, arg) == [with |-> with, arg |-> arg]

Pem(block, name) == [block |-> block, alg |-> "RSA", bits |-> 2048, sealed |-> "no", name |-> name]
NoPem == Pem("nil", "none")
Private == Pem("PRIVATE KEY", "partner")
Cert == Pem("CERTIFICATE", "gateway")
Short == [Cert EXCEPT !.bits = 1024]
Sealed == [Private EXCEPT !.sealed = "yes"]
Elliptic == [Private EXCEPT !.alg = "EC"]

Certs(priv, pub, encPriv, encPub) ==
    [signPriv |-> priv, signPub |-> pub, encPriv |-> encPriv, encPub |-> encPub]

URL(scheme, host) == [scheme |-> scheme, host |-> host]

MCOptions ==
    {Opt("HTTPClient", h) : h \in {"nil", "own"}}
    \cup {Opt("BaseURL", u) : u \in {URL("https", "mock"), URL("ftp", "mock"), URL("https", "none")}}
    \cup {Opt("Environment", e) : e \in {"pre", "prod", "other"}}
    \cup {Opt("Timeout", d) : d \in {0, 5}}
    \cup {Opt("Retry", [DefaultRetryPolicy EXCEPT !.attempts = a]) : a \in {0, 1}}
    \cup {Opt("Retry", [DefaultRetryPolicy EXCEPT !.base = 5000])}
    \cup {Opt("UserAgent", "shop")}
    \cup {Opt("Signer", [key |-> k, keyID |-> "own"]) : k \in {"nil", "hsm"}}
    \cup {Opt("PrivateKeyPEM", pem) : pem \in {Private, Sealed, Elliptic}}
    \cup {Opt("AtomePublicKey", [name |-> n, bits |-> 2048]) : n \in {"nil", "gateway"}}
    \cup {Opt("AtomePublicCertPEM", pem) : pem \in {Cert, Short}}
    \cup {Opt("EncryptAtomePublicCertPEM", pem) : pem \in {Cert, Short, [Cert EXCEPT !.name = "stranger"]}}
    \cup {Opt("EncryptPrivateKeyPEM", pem) : pem \in {Private, Sealed}}
    \cup {Opt("AtomeCerts", Certs(Private, Cert, NoPem, Cert)), Opt("AtomeCerts", Certs(NoPem, Cert, Private, Short))}
    \cup {Opt("KeyID", id) : id \in {"none", "k2"}}
    \cup {Opt("AuthorizationScheme", s) : s \in {"nil", "keyed"}}
    \cup {Opt("PartnerID", id) : id \in {"none", "p"}}
    \cup {Opt("MerchantID", "m"), Opt("DebugBodyLogging", "yes"), Opt("MaxResponseBytes", 0), Opt("MaxResponseBytes", 64)}
    \cup {Opt(w, "own") : w \in {"Logger", "Observer", "Clock", "RequestIDGenerator"}}
    \cup {Opt(w, "nil") : w \in {"Logger", "Observer", "Clock", "RequestIDGenerator"}}
    \cup {Opt("nil", "nil")}

\* plain, longer than MaxLen, with a separator, an escape written out, a space, a plus
Texts == {<<>>, <<"u">>, <<"u", "u", "u", "u">>, <<"u", "&", "=">>, <<"%", "2", "6">>,
          <<"u", " ">>, <<"+", "u">>}

MCCharacters == {"u", "m", "A", "B", "x", "y", "z", "2", "6", "empty", "other",
                 "OVERPAID_CHANGE", "PAYMENT"} \cup Reserved

Page == [uid |-> <<"u">>, rid |-> <<>>, start |-> 0, count |-> 0]

Pages == {[Page EXCEPT !.uid = u, !.start = s, !.count = n] :
              u \in Texts, s \in {-1, 0, 12}, n \in {-1, 0, 50, 51}}

Months == {<<>>, <<"m", "/">>}
Statuses == {<<>>, <<<<"B">>>>, <<<<"B">>, <<"A", ",">>>>}

MCInputs ==
    [ids |-> {[rid |-> r, uid |-> u] : r, u \in Texts},
     balance |-> {p @@ [type |-> t] : p \in Pages, t \in {"empty", "other", "OVERPAID_CHANGE"}}
                 \cup {[Page EXCEPT !.rid = r] @@ [type |-> "OVERPAID_CHANGE"] : r \in Texts},
     bills |-> {[uid |-> u, startMonth |-> a, endMonth |-> b, status |-> s, repaymentStatus |-> r,
                 overdueStatus |-> <<>>, refundStatus |-> s] :
                    u \in {<<>>, <<"u">>}, a, b \in Months, s, r \in Statuses}
               \cup {[uid |-> <<"+">>, startMonth |-> <<"m">>, endMonth |-> <<"m">>, status |-> <<>>,
                      repaymentStatus |-> <<>>, overdueStatus |-> s, refundStatus |-> <<>>] :
                         s \in Statuses},
     bill |-> {p @@ [billId |-> b] : p \in Pages, b \in Months},
     transactions |-> {[p EXCEPT !.rid = p.uid] @@ [startDate |-> a, endDate |-> b, type |-> t] :
                           p \in Pages, a, b \in Months, t \in {"empty", "PAYMENT"}},
     post |-> {[plain |-> p] : p \in {<<>>, <<0>>, <<1, 1>>, <<2, 2>>, <<0, 1, 2>>, <<1, 2, 3, 3>>}}]

\* every key for two key pairs; the texts hold the characters that need escaping
MCBase64 ==
    <<<<"A">>, "gateway">> :> <<"x", "+">> @@ <<<<"B">>, "gateway">> :> <<"/", "=">>
    @@ <<<<"A">>, "stranger">> :> <<"y", "=">> @@ <<<<"B">>, "stranger">> :> <<"z", "/">>
=============================================================================
