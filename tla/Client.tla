------------------------------- MODULE Client -------------------------------
(***************************************************************************)
(* What New makes of a list of options (client.go, options.go): every      *)
(* With... function as an operator from a config and its argument to the   *)
(* config it leaves, and finalizeConfig. A config is a record whose field  *)
(* failed says that some option returned an error; New stops there.        *)
(*                                                                         *)
(* "nil" is a nil argument, "none" an unset field. PEM data is a record:   *)
(* its block type, whether it is encrypted (DEK-Info), and the algorithm,  *)
(* size and name of the key inside.                                        *)
(***************************************************************************)
EXTENDS Integers, Sequences

Fail(c) == [c EXCEPT !.failed = "yes"]

Put(c, field, v) == [c EXCEPT ![field] = v]

-----------------------------------------------------------------------------
(* Keys.                                                                   *)

LongEnough(pem) == pem.bits >= 2048         \* MinKeyBits

LoadPrivateKeyPEM(pem) ==
    /\ pem.sealed = "no"
    /\ pem.block \in {"RSA PRIVATE KEY", "PRIVATE KEY"} /\ pem.alg = "RSA"
    /\ LongEnough(pem)

LoadPublicCertPEM(pem) ==
    /\ pem.block \in {"CERTIFICATE", "PUBLIC KEY", "RSA PUBLIC KEY"} /\ pem.alg = "RSA"
    /\ LongEnough(pem)

NewRSA2Signer(pem) == [key |-> pem.name, keyID |-> "none"]

NewRSA2Verifier(pub) == pub.name # "nil" /\ LongEnough(pub)

NoSigner == [key |-> "none", keyID |-> "none"]

-----------------------------------------------------------------------------
(* Options.                                                                *)

DefaultRetryPolicy == [attempts |-> 3, base |-> 250, cap |-> 4000, jitter |-> 20]

defaultConfig ==
    [failed |-> "no", httpClient |-> "default", baseURL |-> "none", environment |-> "prod",
     timeout |-> 30, logger |-> "nop", observer |-> "nop", signer |-> NoSigner,
     verifier |-> "none", keyID |-> "none", keyIDSet |-> "no", authScheme |-> "raw",
     partnerID |-> "none", merchantID |-> "none", retry |-> DefaultRetryPolicy,
     userAgent |-> "none", clock |-> "now", requestIDGen |-> "default",
     maxRespBytes |-> 1048576, debugBodyLog |-> "no",
     encryptAtomePub |-> "none", encryptPriv |-> "none"]

WithHTTPClient(c, h) == IF h = "nil" THEN Fail(c) ELSE Put(c, "httpClient", h)

\* u: scheme, host and trailing slash of the trimmed text; the slash is cut off
WithBaseURL(c, u) ==
    IF u.scheme \in {"http", "https"} /\ u.host # "none"
    THEN Put(c, "baseURL", u.host) ELSE Fail(c)

Environments == {"pre", "prod"}

WithEnvironment_SetsURL(c, env) ==
    IF env \in Environments THEN Put(Put(c, "environment", env), "baseURL", env) ELSE Fail(c)

WithEnvironment(c, env) ==
    IF env \in Environments THEN Put(c, "environment", env) ELSE Fail(c)

WithTimeout(c, d) == IF d <= 0 THEN Fail(c) ELSE Put(c, "timeout", d)

Validate(p) ==
    /\ p.attempts >= 1 /\ p.base >= 0 /\ p.cap >= 0
    /\ p.cap > 0 => p.base <= p.cap
    /\ p.jitter \in 0..100                  \* percent

WithRetry(c, p) == IF Validate(p) THEN Put(c, "retry", p) ELSE Fail(c)

WithUserAgent(c, ua) == Put(c, "userAgent", ua)

WithSigner(c, s) ==
    IF s.key = "nil" \/ c.signer # NoSigner THEN Fail(c) ELSE Put(c, "signer", s)

WithPrivateKeyPEM(c, pem) ==
    IF c.signer # NoSigner \/ ~LoadPrivateKeyPEM(pem) THEN Fail(c)
    ELSE Put(c, "signer", NewRSA2Signer(pem))

WithAtomePublicKey(c, pub) ==
    IF NewRSA2Verifier(pub) THEN Put(c, "verifier", pub.name) ELSE Fail(c)

WithAtomePublicCertPEM(c, pem) ==
    IF LoadPublicCertPEM(pem) THEN Put(c, "verifier", pem.name) ELSE Fail(c)

WithEncryptAtomePublicCertPEM(c, pem) ==
    IF c.encryptAtomePub # "none" \/ ~LoadPublicCertPEM(pem) THEN Fail(c)
    ELSE Put(c, "encryptAtomePub", pem.name)

WithEncryptPrivateKeyPEM(c, pem) ==
    IF c.encryptPriv # "none" \/ ~LoadPrivateKeyPEM(pem) THEN Fail(c)
    ELSE Put(c, "encryptPriv", pem.name)

\* the four options above in this order, each for a source that is not nil
WithAtomeCerts(c, certs) ==
    LET Skips(pem, d) == pem.block = "nil" \/ d.failed = "yes"
        c1 == IF Skips(certs.signPriv, c) THEN c ELSE WithPrivateKeyPEM(c, certs.signPriv)
        c2 == IF Skips(certs.signPub, c1) THEN c1 ELSE WithAtomePublicCertPEM(c1, certs.signPub)
        c3 == IF Skips(certs.encPriv, c2) THEN c2 ELSE WithEncryptPrivateKeyPEM(c2, certs.encPriv)
    IN  IF Skips(certs.encPub, c3) THEN c3 ELSE WithEncryptAtomePublicCertPEM(c3, certs.encPub)

WithKeyID(c, id) == Put(Put(c, "keyID", id), "keyIDSet", "yes")

WithAuthorizationScheme(c, s) == IF s = "nil" THEN Fail(c) ELSE Put(c, "authScheme", s)

WithPartnerID(c, id) == IF id = "none" THEN Fail(c) ELSE Put(c, "partnerID", id)

WithMerchantID(c, id) == Put(c, "merchantID", id)

WithLogger(c, l) == IF l = "nil" THEN Fail(c) ELSE Put(c, "logger", l)

WithObserver(c, o) == IF o = "nil" THEN Fail(c) ELSE Put(c, "observer", o)

WithDebugBodyLogging(c, enable) == Put(c, "debugBodyLog", enable)

WithClock(c, now) == IF now = "nil" THEN Fail(c) ELSE Put(c, "clock", now)

WithRequestIDGenerator(c, fn) == IF fn = "nil" THEN Fail(c) ELSE Put(c, "requestIDGen", fn)

WithMaxResponseBytes_AllowsZero(c, n) == IF n < 0 THEN Fail(c) ELSE Put(c, "maxRespBytes", n)

WithMaxResponseBytes(c, n) == IF n <= 0 THEN Fail(c) ELSE Put(c, "maxRespBytes", n)

-----------------------------------------------------------------------------
(* New.                                                                    *)

\* an option: the function's name and its argument; a nil Option fails
Apply(c, o) ==
    CASE o.with = "HTTPClient"              -> WithHTTPClient(c, o.arg)
      [] o.with = "BaseURL"                 -> WithBaseURL(c, o.arg)
      [] o.with = "Environment"             -> WithEnvironment(c, o.arg)
      [] o.with = "Timeout"                 -> WithTimeout(c, o.arg)
      [] o.with = "Retry"                   -> WithRetry(c, o.arg)
      [] o.with = "UserAgent"               -> WithUserAgent(c, o.arg)
      [] o.with = "Signer"                  -> WithSigner(c, o.arg)
      [] o.with = "PrivateKeyPEM"           -> WithPrivateKeyPEM(c, o.arg)
      [] o.with = "AtomePublicKey"          -> WithAtomePublicKey(c, o.arg)
      [] o.with = "AtomePublicCertPEM"      -> WithAtomePublicCertPEM(c, o.arg)
      [] o.with = "EncryptAtomePublicCertPEM" -> WithEncryptAtomePublicCertPEM(c, o.arg)
      [] o.with = "EncryptPrivateKeyPEM"    -> WithEncryptPrivateKeyPEM(c, o.arg)
      [] o.with = "AtomeCerts"              -> WithAtomeCerts(c, o.arg)
      [] o.with = "KeyID"                   -> WithKeyID(c, o.arg)
      [] o.with = "AuthorizationScheme"     -> WithAuthorizationScheme(c, o.arg)
      [] o.with = "PartnerID"               -> WithPartnerID(c, o.arg)
      [] o.with = "MerchantID"              -> WithMerchantID(c, o.arg)
      [] o.with = "Logger"                  -> WithLogger(c, o.arg)
      [] o.with = "Observer"                -> WithObserver(c, o.arg)
      [] o.with = "DebugBodyLogging"        -> WithDebugBodyLogging(c, o.arg)
      [] o.with = "Clock"                   -> WithClock(c, o.arg)
      [] o.with = "RequestIDGenerator"      -> WithRequestIDGenerator(c, o.arg)
      [] o.with = "MaxResponseBytes"        -> WithMaxResponseBytes(c, o.arg)
      [] o.with = "nil"                     -> Fail(c)

OptionNames ==
    {"HTTPClient", "BaseURL", "Environment", "Timeout", "Retry", "UserAgent", "Signer",
     "PrivateKeyPEM", "AtomePublicKey", "AtomePublicCertPEM", "EncryptAtomePublicCertPEM",
     "EncryptPrivateKeyPEM", "AtomeCerts", "KeyID", "AuthorizationScheme", "PartnerID",
     "MerchantID", "Logger", "Observer", "DebugBodyLogging", "Clock", "RequestIDGenerator",
     "MaxResponseBytes", "nil"}

BaseURL == [pre |-> "pre gateway", prod |-> "prod gateway"]

finalizeConfig_KeepsSignerID(c) ==
    IF c.signer = NoSigner THEN Fail(c)
    ELSE [c EXCEPT !.baseURL = IF c.baseURL = "none" THEN BaseURL[c.environment] ELSE @]

\* retry.MaxAttempts is never 0 here: WithRetry validates. The product and version put
\* before the user agent and the default retry callbacks are left out.
finalizeConfig(c) ==
    IF c.signer = NoSigner THEN Fail(c)
    ELSE [c EXCEPT !.signer.keyID = IF c.keyIDSet = "yes" THEN c.keyID ELSE @,
                   !.baseURL = IF c.baseURL = "none" THEN BaseURL[c.environment] ELSE @]

NoClient == Fail(defaultConfig)

\* the config after each turn of the loop over the options
Configs(opts) ==
    LET cfg[i \in 0..Len(opts)] ==
            IF i = 0 THEN defaultConfig
            ELSE IF cfg[i - 1].failed = "yes" THEN cfg[i - 1]
            ELSE Apply(cfg[i - 1], opts[i])
    IN  cfg

\* the loop, then finalizeConfig; an error leaves no client
New(opts) ==
    LET last == Configs(opts)[Len(opts)]
    IN  IF last.failed = "yes" \/ finalizeConfig(last).failed = "yes" THEN NoClient
        ELSE finalizeConfig(last)

\* the fields an option writes or looks at
Touches(o) ==
    CASE o.with \in {"Signer", "PrivateKeyPEM"}             -> {"signer"}
      [] o.with \in {"AtomePublicKey", "AtomePublicCertPEM"} -> {"verifier"}
      [] o.with = "EncryptAtomePublicCertPEM"               -> {"encryptAtomePub"}
      [] o.with = "EncryptPrivateKeyPEM"                    -> {"encryptPriv"}
      [] o.with = "AtomeCerts" -> {"signer", "verifier", "encryptAtomePub", "encryptPriv"}
      [] OTHER                                              -> {o.with}
=============================================================================
