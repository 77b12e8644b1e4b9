--------------------------- MODULE QueriesProofs ----------------------------
(***************************************************************************)
(* For any options, in any number: a client that New returned is complete, *)
(* what it sends goes where the options say, under the name of the key     *)
(* they say, and the order of options about different things never shows.  *)
(* For any inputs: what the gateway reads of a query or of an encrypted    *)
(* body is what was asked.                                                 *)
(***************************************************************************)
EXTENDS Queries, WireProofs

-----------------------------------------------------------------------------
(* The last option of a name.                                              *)

\* The argument of the last option with a name, one option at a time.
LEMMA LastArgSteps ==
    ASSUME NEW opts, NEW n \in Nat, NEW w, NEW d
    PROVE  LastArg(opts, n + 1, w, d)
             = IF opts[n + 1].with = w THEN opts[n + 1].arg ELSE LastArg(opts, n, w, d)
<1> DEFINE At(m) == {i \in 1..m : opts[i].with = w}
<1>1. CASE opts[n + 1].with = w
  <2>1. n + 1 \in At(n + 1) /\ \A i \in At(n + 1) : n + 1 >= i
    BY <1>1
  <2>2. At(n + 1) \subseteq Nat
    OBVIOUS
  <2> HIDE DEF At
  <2>3. Max(At(n + 1)) \in At(n + 1) /\ \A i \in At(n + 1) : Max(At(n + 1)) >= i
    BY <2>1 DEF Max
  <2>4. Max(At(n + 1)) >= n + 1 /\ n + 1 >= Max(At(n + 1)) /\ Max(At(n + 1)) \in Nat
    BY <2>1, <2>2, <2>3
  <2>5. Max(At(n + 1)) = n + 1 /\ At(n + 1) # {}
    BY <2>1, <2>4
  <2> QED BY <1>1, <2>5 DEF LastArg, At
<1>2. CASE opts[n + 1].with # w
  <2>1. At(n + 1) = At(n)
    BY <1>2
  <2> QED BY <1>2, <2>1 DEF LastArg
<1> QED BY <1>1, <1>2

-----------------------------------------------------------------------------
(* Options.                                                                *)

Fields == DOMAIN defaultConfig

\* What writing a field of a config does.
LEMMA PutWrites ==
    ASSUME NEW c, NEW f \in DOMAIN c, NEW v
    PROVE  /\ DOMAIN Put(c, f, v) = DOMAIN c /\ Put(c, f, v)[f] = v
           /\ \A g \in DOMAIN c : g # f => Put(c, f, v)[g] = c[g]
BY DEF Put

\* The fields of a config.
LEMMA FieldsAre ==
    Fields = {"failed", "httpClient", "baseURL", "environment", "timeout", "logger", "observer",
              "signer", "verifier", "keyID", "keyIDSet", "authScheme", "partnerID", "merchantID",
              "retry", "userAgent", "clock", "requestIDGen", "maxRespBytes", "debugBodyLog",
              "encryptAtomePub", "encryptPriv"}
BY DEF Fields, defaultConfig

\* An option that fails marks the config.
LEMMA FailMarks ==
    ASSUME NEW c, DOMAIN c = Fields
    PROVE  DOMAIN Fail(c) = Fields /\ Fail(c).failed = "yes"
BY FieldsAre DEF Fail

\* a key pair that was loaded
Loaded(s) == s.key # "none" /\ s.keyID = "none" /\ DOMAIN s = {"key", "keyID"}

\* what an option that succeeds may do to the fields that matter for sending
Applied(c, o, d) ==
    /\ d.baseURL = (IF o.with = "BaseURL" THEN o.arg.host ELSE c.baseURL)
    /\ o.with = "BaseURL" => o.arg.host # "none"
    /\ d.environment = (IF o.with = "Environment" THEN o.arg ELSE c.environment)
    /\ o.with = "Environment" => o.arg \in Environments
    /\ d.keyID = (IF o.with = "KeyID" THEN o.arg ELSE c.keyID)
    /\ d.keyIDSet = (IF o.with = "KeyID" THEN "yes" ELSE c.keyIDSet)
    /\ d.timeout = c.timeout \/ (d.timeout \in Int /\ d.timeout > 0)
    /\ d.maxRespBytes = c.maxRespBytes \/ (d.maxRespBytes \in Int /\ d.maxRespBytes > 0)
    /\ d.retry = c.retry \/ Validate(d.retry)
    /\ IF o.with = "Signer" THEN c.signer = NoSigner /\ d.signer = o.arg
       ELSE d.signer = c.signer \/ (c.signer = NoSigner /\ Loaded(d.signer))

\* A step of the loop fails, or applies its option.
Took(c, o, d) ==
    /\ DOMAIN d = Fields
    /\ d.failed = "yes" \/ (d.failed = "no" /\ Applied(c, o, d))

\* nothing that matters for sending changes
Keeps(c, d) ==
    /\ DOMAIN d = Fields
    /\ \/ d.failed = "yes"
       \/ /\ d.failed = "no" /\ d.baseURL = c.baseURL /\ d.environment = c.environment
          /\ d.keyID = c.keyID /\ d.keyIDSet = c.keyIDSet /\ d.timeout = c.timeout
          /\ d.maxRespBytes = c.maxRespBytes /\ d.retry = c.retry /\ d.signer = c.signer

Config(c) == DOMAIN c = Fields /\ c.failed = "no"

\* Writing a field that sending does not depend on.
LEMMA OtherField ==
    ASSUME NEW c, Config(c), NEW v,
           NEW f \in Fields \ {"failed", "baseURL", "environment", "keyID", "keyIDSet", "timeout",
                               "maxRespBytes", "retry", "signer"}
    PROVE  Keeps(c, Put(c, f, v))
<1> DEFINE d == Put(c, f, v)
<1>1. DOMAIN d = Fields /\ \A g \in Fields : g # f => d[g] = c[g]
  BY PutWrites DEF Config
<1> HIDE DEF d
<1>2. Keeps(c, d)
  BY <1>1, FieldsAre DEF Keeps, Config
<1> QED BY <1>2 DEF d

\* options that send nothing elsewhere
Plain(o) == o.with \notin {"BaseURL", "Environment", "KeyID", "Signer"}

\* A change that matters, followed by one that does not.
LEMMA TookThenKept ==
    ASSUME NEW c, NEW o, NEW d, NEW e, Took(c, o, d), d.failed = "no", Keeps(d, e)
    PROVE  Took(c, o, e)
<1>1. CASE e.failed = "yes"
  BY <1>1 DEF Took, Keeps
<1>2. CASE e.failed = "no"
  <2>1. Applied(c, o, d)
    BY DEF Took
  <2>2. Applied(c, o, e)
    BY <1>2, <2>1 DEF Keeps, Applied
  <2> QED BY <1>2, <2>2 DEF Took, Keeps
<1> QED BY <1>1, <1>2 DEF Keeps

\* An option that changes nothing that matters.
LEMMA PlainKept ==
    ASSUME NEW c, Config(c), NEW o, Plain(o), NEW e, Keeps(c, e)
    PROVE  Took(c, o, e)
<1>1. Took(c, o, c)
  BY DEF Took, Applied, Config, Plain
<1> QED BY <1>1, TookThenKept DEF Config

\* The options for the gateway's certificates and the partner's decryption key.
LEMMA KeysKept ==
    ASSUME NEW c, Config(c), NEW pem
    PROVE  /\ Keeps(c, WithAtomePublicCertPEM(c, pem)) /\ Keeps(c, WithAtomePublicKey(c, pem))
           /\ Keeps(c, WithEncryptAtomePublicCertPEM(c, pem))
           /\ Keeps(c, WithEncryptPrivateKeyPEM(c, pem))
<1>1. Keeps(c, Fail(c))
  BY FailMarks DEF Config, Keeps
<1>2. /\ Keeps(c, Put(c, "verifier", pem.name)) /\ Keeps(c, Put(c, "encryptAtomePub", pem.name))
      /\ Keeps(c, Put(c, "encryptPriv", pem.name))
  <2>1. {"verifier", "encryptAtomePub", "encryptPriv"} \subseteq
            Fields \ {"failed", "baseURL", "environment", "keyID", "keyIDSet", "timeout",
                      "maxRespBytes", "retry", "signer"}
    BY FieldsAre
  <2>2. Keeps(c, Put(c, "verifier", pem.name))
    BY <2>1, OtherField
  <2>3. Keeps(c, Put(c, "encryptAtomePub", pem.name))
    BY <2>1, OtherField
  <2>4. Keeps(c, Put(c, "encryptPriv", pem.name))
    BY <2>1, OtherField
  <2> QED BY <2>2, <2>3, <2>4
<1> QED BY <1>1, <1>2 DEF WithAtomePublicCertPEM, WithAtomePublicKey,
                         WithEncryptAtomePublicCertPEM, WithEncryptPrivateKeyPEM

\* A private key: the config has no signer before, and a loaded one after.
LEMMA PrivateKeyTook ==
    ASSUME NEW c, Config(c), NEW o, Plain(o), NEW pem,
           LoadPrivateKeyPEM(pem) => pem.name # "none"
    PROVE  Took(c, o, WithPrivateKeyPEM(c, pem))
<1>1. CASE c.signer # NoSigner \/ ~LoadPrivateKeyPEM(pem)
  BY <1>1, FailMarks DEF WithPrivateKeyPEM, Took, Config
<1>2. CASE c.signer = NoSigner /\ LoadPrivateKeyPEM(pem)
  <2> DEFINE s == NewRSA2Signer(pem)
             d == Put(c, "signer", s)
  <2>1. Loaded(s)
    BY <1>2 DEF Loaded, NewRSA2Signer
  <2> HIDE DEF s
  <2>2. "signer" \in DOMAIN c
    BY FieldsAre DEF Config
  <2>3. DOMAIN d = Fields /\ d.signer = s /\ \A g \in Fields : g # "signer" => d[g] = c[g]
    BY <2>2, PutWrites DEF Config
  <2>4. WithPrivateKeyPEM(c, pem) = d
    BY <1>2 DEF WithPrivateKeyPEM, s
  <2> HIDE DEF d
  <2>5. Took(c, o, d)
    BY <1>2, <2>1, <2>3, FieldsAre DEF Took, Applied, Config, Plain
  <2> QED BY <2>4, <2>5
<1> QED BY <1>1, <1>2

\* WithAtomeCerts: the four of them in turn.
LEMMA CertsTook ==
    ASSUME NEW c, Config(c), NEW o, Plain(o), NEW certs,
           LoadPrivateKeyPEM(certs.signPriv) => certs.signPriv.name # "none"
    PROVE  Took(c, o, WithAtomeCerts(c, certs))
<1> DEFINE Skips(pem, d) == pem.block = "nil" \/ d.failed = "yes"
           c1 == IF Skips(certs.signPriv, c) THEN c ELSE WithPrivateKeyPEM(c, certs.signPriv)
           c2 == IF Skips(certs.signPub, c1) THEN c1 ELSE WithAtomePublicCertPEM(c1, certs.signPub)
           c3 == IF Skips(certs.encPriv, c2) THEN c2 ELSE WithEncryptPrivateKeyPEM(c2, certs.encPriv)
           c4 == IF Skips(certs.encPub, c3) THEN c3
                 ELSE WithEncryptAtomePublicCertPEM(c3, certs.encPub)
<1>0. WithAtomeCerts(c, certs) = c4
  BY DEF WithAtomeCerts
<1>1. Took(c, o, c1)
  <2>1. Took(c, o, WithPrivateKeyPEM(c, certs.signPriv))
    BY PrivateKeyTook
  <2>2. Took(c, o, c)
    BY DEF Took, Applied, Config, Plain
  <2> QED BY <2>1, <2>2
<1> HIDE DEF c1
<1>2. Took(c, o, c2)
  <2>1. CASE c1.failed = "yes"
    BY <1>1, <2>1
  <2>2. CASE c1.failed = "no"
    <3>1. Config(c1)
      BY <1>1, <2>2 DEF Took, Config
    <3>2. Keeps(c1, WithAtomePublicCertPEM(c1, certs.signPub))
      BY <3>1, KeysKept
    <3>3. Took(c, o, WithAtomePublicCertPEM(c1, certs.signPub))
      BY <1>1, <2>2, <3>2, TookThenKept
    <3> QED BY <1>1, <3>3
  <2> QED BY <1>1, <2>1, <2>2 DEF Took
<1> HIDE DEF c2
<1>3. Took(c, o, c3)
  <2>1. CASE c2.failed = "yes"
    BY <1>2, <2>1
  <2>2. CASE c2.failed = "no"
    <3>1. Config(c2)
      BY <1>2, <2>2 DEF Took, Config
    <3>2. Keeps(c2, WithEncryptPrivateKeyPEM(c2, certs.encPriv))
      BY <3>1, KeysKept
    <3>3. Took(c, o, WithEncryptPrivateKeyPEM(c2, certs.encPriv))
      BY <1>2, <2>2, <3>2, TookThenKept
    <3> QED BY <1>2, <3>3
  <2> QED BY <1>2, <2>1, <2>2 DEF Took
<1> HIDE DEF c3
<1>4. Took(c, o, c4)
  <2>1. CASE c3.failed = "yes"
    BY <1>3, <2>1
  <2>2. CASE c3.failed = "no"
    <3>1. Config(c3)
      BY <1>3, <2>2 DEF Took, Config
    <3>2. Keeps(c3, WithEncryptAtomePublicCertPEM(c3, certs.encPub))
      BY <3>1, KeysKept
    <3>3. Took(c, o, WithEncryptAtomePublicCertPEM(c3, certs.encPub))
      BY <1>3, <2>2, <3>2, TookThenKept
    <3> QED BY <1>3, <3>3
  <2> QED BY <1>3, <2>1, <2>2 DEF Took
<1> QED BY <1>0, <1>4

\* An option whose only effect, if any, is on a field sending does not depend on.
LEMMA OthersTook ==
    ASSUME NEW c, Config(c), NEW o, Plain(o), NEW v,
           NEW f \in Fields \ {"failed", "baseURL", "environment", "keyID", "keyIDSet", "timeout",
                               "maxRespBytes", "retry", "signer"},
           NEW d \in {Fail(c), Put(c, f, v)}
    PROVE  Took(c, o, d)
<1>1. Keeps(c, Fail(c))
  BY FailMarks DEF Config, Keeps
<1>2. Keeps(c, Put(c, f, v))
  BY OtherField
<1>3. Keeps(c, d)
  BY <1>1, <1>2
<1> QED BY <1>3, PlainKept

\* Every option fails, or does what its name says and no more.
LEMMA ApplyTook ==
    ASSUME NEW c, Config(c), NEW o \in Options
    PROVE  Took(c, o, Apply(c, o))
<1> DEFINE w == o.with
           a == o.arg
<1>0. /\ w \in OptionNames
      /\ w \in {"Timeout", "MaxResponseBytes"} => a \in Int
      /\ w = "Signer" => DOMAIN a = {"key", "keyID"} /\ a.key # "none"
      /\ w = "PrivateKeyPEM" /\ LoadPrivateKeyPEM(a) => a.name # "none"
      /\ w = "AtomeCerts" /\ LoadPrivateKeyPEM(a.signPriv) => a.signPriv.name # "none"
  BY OptionsAssumption
<1> DEFINE Others == Fields \ {"failed", "baseURL", "environment", "keyID", "keyIDSet", "timeout",
                               "maxRespBytes", "retry", "signer"}
<1>1. /\ "httpClient" \in Others /\ "userAgent" \in Others /\ "authScheme" \in Others
      /\ "partnerID" \in Others /\ "merchantID" \in Others /\ "logger" \in Others
      /\ "observer" \in Others /\ "debugBodyLog" \in Others /\ "clock" \in Others
      /\ "requestIDGen" \in Others
  BY FieldsAre
<1>2. ASSUME NEW f \in Others, Plain(o), Apply(c, o) \in {Fail(c), Put(c, f, a)}
      PROVE  Took(c, o, Apply(c, o))
  BY <1>2, OthersTook
<1>3. Took(c, o, Fail(c))
  BY FailMarks DEF Config, Took
<1>4. ASSUME NEW f \in Fields, NEW v
      PROVE  /\ DOMAIN Put(c, f, v) = Fields /\ Put(c, f, v)[f] = v
             /\ \A g \in Fields : g # f => Put(c, f, v)[g] = c[g]
  BY PutWrites DEF Config
<1> HIDE DEF Others
<1>5. CASE w \in {"HTTPClient", "UserAgent", "AuthorizationScheme", "PartnerID", "MerchantID",
                   "Logger", "Observer", "DebugBodyLogging", "Clock", "RequestIDGenerator"}
  <2>1. Plain(o)
    BY <1>5 DEF Plain
  <2>2. \E f \in Others : Apply(c, o) \in {Fail(c), Put(c, f, a)}
    BY <1>1, <1>5 DEF Apply, WithHTTPClient, WithUserAgent, WithAuthorizationScheme, WithPartnerID,
                      WithMerchantID, WithLogger, WithObserver, WithDebugBodyLogging, WithClock,
                      WithRequestIDGenerator
  <2> QED BY <1>2, <2>1, <2>2
<1>6. CASE w \in {"AtomePublicKey", "AtomePublicCertPEM", "EncryptAtomePublicCertPEM",
                    "EncryptPrivateKeyPEM"}
  <2>1. /\ Apply(c, o) \in {WithAtomePublicKey(c, a), WithAtomePublicCertPEM(c, a),
                            WithEncryptAtomePublicCertPEM(c, a), WithEncryptPrivateKeyPEM(c, a)}
        /\ Plain(o)
    BY <1>6 DEF Apply, Plain
  <2>2. Keeps(c, Apply(c, o))
    BY <2>1, KeysKept
  <2> QED BY <2>1, <2>2, PlainKept
<1>7. CASE w = "PrivateKeyPEM"
  <2>1. Apply(c, o) = WithPrivateKeyPEM(c, a) /\ Plain(o)
    BY <1>7 DEF Apply, Plain
  <2>2. Took(c, o, WithPrivateKeyPEM(c, a))
    BY <1>0, <1>7, <2>1, PrivateKeyTook
  <2> QED BY <2>1, <2>2
<1>8. CASE w = "AtomeCerts"
  <2>1. Apply(c, o) = WithAtomeCerts(c, a) /\ Plain(o)
    BY <1>8 DEF Apply, Plain
  <2>2. Took(c, o, WithAtomeCerts(c, a))
    BY <1>0, <1>8, <2>1, CertsTook
  <2> QED BY <2>1, <2>2
<1>9. CASE w = "nil"
  <2>1. Apply(c, o) = Fail(c)
    BY <1>9 DEF Apply
  <2> QED BY <2>1, <1>3
<1>10. CASE w = "BaseURL"
  <2>1. Apply(c, o) = WithBaseURL(c, a)
    BY <1>10 DEF Apply
  <2>2. CASE a.scheme \in {"http", "https"} /\ a.host # "none"
    <3> DEFINE d == Put(c, "baseURL", a.host)
    <3>1. DOMAIN d = Fields /\ d.baseURL = a.host /\ \A g \in Fields : g # "baseURL" => d[g] = c[g]
      BY <1>4, FieldsAre
    <3> HIDE DEF d
    <3>2. Took(c, o, d)
      BY <1>10, <2>2, <3>1, FieldsAre DEF Took, Applied, Config
    <3> QED BY <2>1, <2>2, <3>2 DEF WithBaseURL, d
  <2> QED BY <2>1, <2>2, <1>3 DEF WithBaseURL
<1>11. CASE w = "Environment"
  <2>1. Apply(c, o) = WithEnvironment(c, a)
    BY <1>11 DEF Apply
  <2>2. CASE a \in Environments
    <3> DEFINE d == Put(c, "environment", a)
    <3>1. DOMAIN d = Fields /\ d.environment = a /\ \A g \in Fields : g # "environment" => d[g] = c[g]
      BY <1>4, FieldsAre
    <3> HIDE DEF d
    <3>2. Took(c, o, d)
      BY <1>11, <2>2, <3>1, FieldsAre DEF Took, Applied, Config
    <3> QED BY <2>1, <2>2, <3>2 DEF WithEnvironment, d
  <2> QED BY <2>1, <2>2, <1>3 DEF WithEnvironment
<1>12. CASE w = "Timeout"
  <2>1. Apply(c, o) = WithTimeout(c, a) /\ a \in Int
    BY <1>0, <1>12 DEF Apply
  <2>2. CASE a > 0
    <3> DEFINE d == Put(c, "timeout", a)
    <3>1. DOMAIN d = Fields /\ d.timeout = a /\ \A g \in Fields : g # "timeout" => d[g] = c[g]
      BY <1>4, FieldsAre
    <3> HIDE DEF d
    <3>2. Took(c, o, d)
      BY <1>12, <2>1, <2>2, <3>1, FieldsAre DEF Took, Applied, Config
    <3> QED BY <2>1, <2>2, <3>2 DEF WithTimeout, d
  <2> QED BY <2>1, <2>2, <1>3 DEF WithTimeout
<1>13. CASE w = "MaxResponseBytes"
  <2>1. Apply(c, o) = WithMaxResponseBytes(c, a) /\ a \in Int
    BY <1>0, <1>13 DEF Apply
  <2>2. CASE a > 0
    <3> DEFINE d == Put(c, "maxRespBytes", a)
    <3>1. DOMAIN d = Fields /\ d.maxRespBytes = a /\ \A g \in Fields : g # "maxRespBytes" => d[g] = c[g]
      BY <1>4, FieldsAre
    <3> HIDE DEF d
    <3>2. Took(c, o, d)
      BY <1>13, <2>1, <2>2, <3>1, FieldsAre DEF Took, Applied, Config
    <3> QED BY <2>1, <2>2, <3>2 DEF WithMaxResponseBytes, d
  <2> QED BY <2>1, <2>2, <1>3 DEF WithMaxResponseBytes
<1>14. CASE w = "Retry"
  <2>1. Apply(c, o) = WithRetry(c, a)
    BY <1>14 DEF Apply
  <2>2. CASE Validate(a)
    <3> DEFINE d == Put(c, "retry", a)
    <3>1. DOMAIN d = Fields /\ d.retry = a /\ \A g \in Fields : g # "retry" => d[g] = c[g]
      BY <1>4, FieldsAre
    <3> HIDE DEF d
    <3>2. Took(c, o, d)
      BY <1>14, <2>2, <3>1, FieldsAre DEF Took, Applied, Config
    <3> QED BY <2>1, <2>2, <3>2 DEF WithRetry, d
  <2> QED BY <2>1, <2>2, <1>3 DEF WithRetry
<1>15. CASE w = "Signer"
  <2>1. Apply(c, o) = WithSigner(c, a)
    BY <1>15 DEF Apply
  <2>2. CASE a.key # "nil" /\ c.signer = NoSigner
    <3> DEFINE d == Put(c, "signer", a)
    <3>1. DOMAIN d = Fields /\ d.signer = a /\ \A g \in Fields : g # "signer" => d[g] = c[g]
      BY <1>4, FieldsAre
    <3> HIDE DEF d
    <3>2. Took(c, o, d)
      BY <1>15, <2>2, <3>1, FieldsAre DEF Took, Applied, Config
    <3> QED BY <2>1, <2>2, <3>2 DEF WithSigner, d
  <2> QED BY <2>1, <2>2, <1>3 DEF WithSigner
<1>16. CASE w = "KeyID"
  <2> DEFINE d == Put(c, "keyID", a)
             e == Put(d, "keyIDSet", "yes")
  <2>1. Apply(c, o) = e
    BY <1>16 DEF Apply, WithKeyID
  <2>2. DOMAIN d = Fields /\ d.keyID = a /\ \A g \in Fields : g # "keyID" => d[g] = c[g]
    BY <1>4, FieldsAre
  <2> HIDE DEF d
  <2>3. DOMAIN e = Fields /\ e.keyIDSet = "yes" /\ \A g \in Fields : g # "keyIDSet" => e[g] = d[g]
    BY <2>2, PutWrites, FieldsAre
  <2> HIDE DEF e
  <2>4. Took(c, o, e)
    BY <1>16, <2>2, <2>3, FieldsAre DEF Took, Applied, Config
  <2> QED BY <2>1, <2>4
<1> HIDE DEF w
<1> QED BY <1>0, <1>5, <1>6, <1>7, <1>8, <1>9, <1>10, <1>11, <1>12, <1>13, <1>14, <1>15, <1>16
    DEF OptionNames

-----------------------------------------------------------------------------
(* The loop over the options.                                              *)

\* g is the loop of New over the first n options
Loop(opts, n, g) ==
    g = [i \in 0..n |-> IF i = 0 THEN defaultConfig
                        ELSE IF g[i - 1].failed = "yes" THEN g[i - 1]
                        ELSE Apply(g[i - 1], opts[i])]

\* Every number of options can be gone through.
LEMMA LoopExists ==
    ASSUME NEW opts
    PROVE  \A n \in Nat : \E g : Loop(opts, n, g)
<1> DEFINE S == {n \in Nat : \E g : Loop(opts, n, g)}
<1>1. 0 \in S
  <2> DEFINE g == [i \in 0..0 |-> defaultConfig]
  <2>1. Loop(opts, 0, g)
    BY DEF Loop
  <2> QED BY <2>1
<1>2. ASSUME NEW n \in Nat, n \in S PROVE n + 1 \in S
  <2>1. PICK g : Loop(opts, n, g)
    BY <1>2
  <2> DEFINE next == IF g[n].failed = "yes" THEN g[n] ELSE Apply(g[n], opts[n + 1])
             h == [i \in 0..(n + 1) |-> IF i = n + 1 THEN next ELSE g[i]]
  <2>2. ASSUME NEW i \in 0..(n + 1)
        PROVE  h[i] = IF i = 0 THEN defaultConfig
                      ELSE IF h[i - 1].failed = "yes" THEN h[i - 1] ELSE Apply(h[i - 1], opts[i])
    <3> HIDE DEF next
    <3>1. CASE i = n + 1
      <4>1. i # 0 /\ i - 1 = n /\ i - 1 \in 0..(n + 1) /\ n # n + 1
        BY <3>1
      <4>2. h[i] = next /\ h[i - 1] = g[n]
        BY <3>1, <4>1
      <4> HIDE DEF h
      <4> QED BY <3>1, <4>1, <4>2 DEF next
    <3>2. CASE i # n + 1
      <4>1. i \in 0..n /\ h[i] = g[i]
        BY <3>2
      <4>2. i # 0 => i - 1 \in 0..n /\ h[i - 1] = g[i - 1]
        BY <3>2
      <4> HIDE DEF h
      <4> QED BY <2>1, <4>1, <4>2 DEF Loop
    <3> QED BY <3>1, <3>2
  <2>3. h = [i \in 0..(n + 1) |-> h[i]]
    OBVIOUS
  <2> HIDE DEF h
  <2>4. Loop(opts, n + 1, h)
    BY <2>2, <2>3 DEF Loop
  <2> QED BY <2>4
<1> HIDE DEF S
<1>3. Nat \subseteq S
  BY <1>1, <1>2, CountingUp
<1> QED BY <1>3 DEF S

\* The configs of the loop, one option at a time.
LEMMA ConfigsAre ==
    ASSUME NEW opts \in Seq(Options)
    PROVE  /\ Configs(opts)[0] = defaultConfig
           /\ \A i \in 1..Len(opts) :
                 Configs(opts)[i] = IF Configs(opts)[i - 1].failed = "yes" THEN Configs(opts)[i - 1]
                                    ELSE Apply(Configs(opts)[i - 1], opts[i])
<1>1. Configs(opts) = CHOOSE g : Loop(opts, Len(opts), g)
  BY DEF Configs, Loop
<1>2. Loop(opts, Len(opts), Configs(opts))
  BY <1>1, LoopExists
<1>3. Len(opts) \in Nat
  OBVIOUS
<1> DEFINE g == Configs(opts)
           n == Len(opts)
<1> HIDE DEF g, n
<1>4. /\ g[0] = defaultConfig
      /\ \A i \in 1..n : g[i] = IF g[i - 1].failed = "yes" THEN g[i - 1] ELSE Apply(g[i - 1], opts[i])
  BY <1>2, <1>3 DEF Loop, g, n
<1> QED BY <1>4 DEF g, n

\* what the config tells of the first n options, if none failed
Follows(opts, n, c) ==
    /\ \A d : LastArg(opts, n, "BaseURL", [host |-> d]).host = IF c.baseURL = "none" THEN d ELSE c.baseURL
    /\ c.environment = LastArg(opts, n, "Environment", "prod") /\ c.environment \in Environments
    /\ \A d : LastArg(opts, n, "KeyID", d) = IF c.keyIDSet = "yes" THEN c.keyID ELSE d
    /\ c.signer.keyID = LastArg(opts, n, "Signer", NoSigner).keyID
    /\ DOMAIN c.signer = {"key", "keyID"} /\ (c.signer = NoSigner \/ c.signer.key # "none")
    /\ c.timeout \in Int /\ c.timeout > 0 /\ c.maxRespBytes \in Int /\ c.maxRespBytes > 0
    /\ Validate(c.retry)

\* The config the loop starts with.
LEMMA DefaultFollows ==
    ASSUME NEW opts
    PROVE  Config(defaultConfig) /\ Follows(opts, 0, defaultConfig)
<1>1. ASSUME NEW w, NEW d PROVE LastArg(opts, 0, w, d) = d
  <2>1. {i \in 1..0 : opts[i].with = w} = {}
    OBVIOUS
  <2> QED BY <2>1 DEF LastArg
<1>2. Validate(DefaultRetryPolicy)
  BY DEF Validate, DefaultRetryPolicy
<1>3. /\ defaultConfig.failed = "no" /\ defaultConfig.baseURL = "none"
      /\ defaultConfig.environment = "prod" /\ defaultConfig.keyIDSet = "no"
      /\ defaultConfig.signer = NoSigner /\ defaultConfig.timeout = 30
      /\ defaultConfig.maxRespBytes = 1048576 /\ defaultConfig.retry = DefaultRetryPolicy
  BY DEF defaultConfig
<1>4. DOMAIN NoSigner = {"key", "keyID"}
  BY DEF NoSigner
<1> QED BY <1>1, <1>2, <1>3, <1>4 DEF Config, Follows, Fields, Environments

\* One more option.
LEMMA StepFollows ==
    ASSUME NEW opts, NEW n \in Nat, opts[n + 1] \in Options, NEW c, Config(c), Follows(opts, n, c),
           NEW d, d = Apply(c, opts[n + 1]), d.failed # "yes"
    PROVE  Config(d) /\ Follows(opts, n + 1, d)
<1> DEFINE o == opts[n + 1]
<1>1. Took(c, o, d)
  BY ApplyTook
<1>2. Config(d) /\ Applied(c, o, d)
  BY <1>1 DEF Took, Config
<1>3. ASSUME NEW w, NEW x
      PROVE  LastArg(opts, n + 1, w, x) = IF o.with = w THEN o.arg ELSE LastArg(opts, n, w, x)
  BY LastArgSteps
<1>4. o.with = "Signer" => DOMAIN o.arg = {"key", "keyID"} /\ o.arg.key # "none"
  BY OptionsAssumption
<1> HIDE DEF o
<1>5. ASSUME NEW x
      PROVE  LastArg(opts, n + 1, "BaseURL", [host |-> x]).host = IF d.baseURL = "none" THEN x ELSE d.baseURL
  <2>1. LastArg(opts, n + 1, "BaseURL", [host |-> x])
            = IF o.with = "BaseURL" THEN o.arg ELSE LastArg(opts, n, "BaseURL", [host |-> x])
    BY <1>3
  <2> QED BY <1>2, <2>1 DEF Follows, Applied
<1>6. d.environment = LastArg(opts, n + 1, "Environment", "prod") /\ d.environment \in Environments
  BY <1>2, <1>3 DEF Follows, Applied
<1>7. ASSUME NEW x
      PROVE  LastArg(opts, n + 1, "KeyID", x) = IF d.keyIDSet = "yes" THEN d.keyID ELSE x
  <2>1. LastArg(opts, n + 1, "KeyID", x) = IF o.with = "KeyID" THEN o.arg ELSE LastArg(opts, n, "KeyID", x)
    BY <1>3
  <2> QED BY <1>2, <2>1 DEF Follows, Applied
<1>8. /\ d.signer.keyID = LastArg(opts, n + 1, "Signer", NoSigner).keyID
      /\ DOMAIN d.signer = {"key", "keyID"} /\ (d.signer = NoSigner \/ d.signer.key # "none")
  <2>1. CASE o.with = "Signer"
    BY <1>2, <1>3, <1>4, <2>1 DEF Applied
  <2>2. CASE o.with # "Signer"
    <3>1. LastArg(opts, n + 1, "Signer", NoSigner) = LastArg(opts, n, "Signer", NoSigner)
      BY <1>3, <2>2
    <3>2. CASE d.signer = c.signer
      BY <3>1, <3>2 DEF Follows
    <3>3. CASE c.signer = NoSigner /\ Loaded(d.signer)
      <4>1. LastArg(opts, n, "Signer", NoSigner).keyID = "none"
        BY <3>3 DEF Follows, NoSigner
      <4> QED BY <3>1, <3>3, <4>1 DEF Loaded
    <3> QED BY <1>2, <2>2, <3>2, <3>3 DEF Applied
  <2> QED BY <2>1, <2>2
<1>9. /\ d.timeout \in Int /\ d.timeout > 0 /\ d.maxRespBytes \in Int /\ d.maxRespBytes > 0
      /\ Validate(d.retry)
  BY <1>2 DEF Follows, Applied
<1> QED BY <1>2, <1>5, <1>6, <1>7, <1>8, <1>9 DEF Follows

\* what New gives for the options
Made(opts, c) ==
    /\ c.failed = "no" /\ c.signer # NoSigner /\ c.baseURL # "none"
    /\ c.timeout > 0 /\ c.maxRespBytes > 0 /\ Validate(c.retry)
    /\ c.baseURL = LastArg(opts, Len(opts), "BaseURL",
                          [host |-> BaseURL[LastArg(opts, Len(opts), "Environment", "prod")]]).host
    /\ c.signer.keyID = LastArg(opts, Len(opts), "KeyID",
                               LastArg(opts, Len(opts), "Signer", NoSigner).keyID)

\* finalizeConfig completes what the loop left.
LEMMA Finalized ==
    ASSUME NEW opts, NEW c, Config(c), Follows(opts, Len(opts), c),
           finalizeConfig(c).failed # "yes"
    PROVE  Made(opts, finalizeConfig(c))
<1> DEFINE id == IF c.keyIDSet = "yes" THEN c.keyID ELSE c.signer.keyID
           url == IF c.baseURL = "none" THEN BaseURL[c.environment] ELSE c.baseURL
           e == finalizeConfig(c)
<1>1. c.signer # NoSigner
  BY FailMarks DEF finalizeConfig, Config
<1>2. e = [c EXCEPT !.signer.keyID = id, !.baseURL = url]
  BY <1>1 DEF finalizeConfig
<1>3. /\ e.failed = "no" /\ e.baseURL = url /\ e.signer = [c.signer EXCEPT !.keyID = id]
      /\ e.timeout = c.timeout /\ e.maxRespBytes = c.maxRespBytes /\ e.retry = c.retry
  <2> HIDE DEF id, url, e
  <2> QED BY <1>2, FieldsAre DEF Config
<1> HIDE DEF e
<1>4. e.signer.keyID = id /\ e.signer # NoSigner
  <2> HIDE DEF id
  <2>1. DOMAIN c.signer = {"key", "keyID"} /\ c.signer.key # "none"
    BY <1>1 DEF Follows
  <2>2. e.signer.keyID = id /\ e.signer.key = c.signer.key
    BY <1>3, <2>1
  <2>3. NoSigner.key = "none"
    BY DEF NoSigner
  <2> QED BY <2>1, <2>2, <2>3
<1>5. e.baseURL # "none"
  <2>1. c.environment \in Environments
    BY DEF Follows
  <2>2. BaseURL.pre = "pre gateway" /\ BaseURL.prod = "prod gateway"
    BY DEF BaseURL
  <2>3. BaseURL[c.environment] # "none"
    BY <2>1, <2>2 DEF Environments
  <2> QED BY <1>3, <2>3
<1>6. e.timeout > 0 /\ e.maxRespBytes > 0 /\ Validate(e.retry)
  BY <1>3 DEF Follows
<1>7. e.baseURL = LastArg(opts, Len(opts), "BaseURL",
                          [host |-> BaseURL[LastArg(opts, Len(opts), "Environment", "prod")]]).host
  BY <1>3 DEF Follows
<1>8. id = LastArg(opts, Len(opts), "KeyID", LastArg(opts, Len(opts), "Signer", NoSigner).keyID)
  BY DEF Follows
<1>9. Made(opts, e)
  BY <1>3, <1>4, <1>5, <1>6, <1>7, <1>8 DEF Made
<1> QED BY <1>9 DEF e

\* New fails, or makes a client as the options ask.
LEMMA NewMakes ==
    ASSUME NEW opts \in Seq(Options)
    PROVE  New(opts).failed = "yes" \/ Made(opts, New(opts))
<1> DEFINE g == Configs(opts)
           n == Len(opts)
           S == {i \in Nat : i <= n => g[i].failed = "yes" \/ (Config(g[i]) /\ Follows(opts, i, g[i]))}
<1>0. n \in Nat /\ \A i \in 1..n : opts[i] \in Options
  OBVIOUS
<1>1. /\ g[0] = defaultConfig
      /\ \A i \in 1..n : g[i] = IF g[i - 1].failed = "yes" THEN g[i - 1] ELSE Apply(g[i - 1], opts[i])
  BY ConfigsAre
<1> HIDE DEF g, n
<1>2. 0 \in S
  BY <1>1, DefaultFollows
<1>3. ASSUME NEW i \in Nat, i \in S PROVE i + 1 \in S
  <2> SUFFICES ASSUME i + 1 <= n, g[i + 1].failed # "yes"
               PROVE  Config(g[i + 1]) /\ Follows(opts, i + 1, g[i + 1])
    OBVIOUS
  <2>1. i + 1 \in 1..n /\ (i + 1) - 1 = i /\ i <= n
    BY <1>0
  <2>2. g[i + 1] = IF g[i].failed = "yes" THEN g[i] ELSE Apply(g[i], opts[i + 1])
    BY <1>1, <2>1
  <2>3. g[i].failed # "yes" /\ g[i + 1] = Apply(g[i], opts[i + 1])
    BY <2>2
  <2>4. Config(g[i]) /\ Follows(opts, i, g[i])
    BY <1>3, <2>1, <2>3
  <2>5. opts[i + 1] \in Options
    BY <1>0, <2>1
  <2> QED BY <2>3, <2>4, <2>5, StepFollows
<1>4. n \in S
  <2> HIDE DEF S
  <2> QED BY <1>0, <1>2, <1>3, CountingUp
<1>5. g[n].failed = "yes" \/ (Config(g[n]) /\ Follows(opts, n, g[n]))
  BY <1>0, <1>4
<1>6. New(opts) = IF g[n].failed = "yes" \/ finalizeConfig(g[n]).failed = "yes" THEN NoClient
                  ELSE finalizeConfig(g[n])
  BY DEF New, g, n
<1>7. NoClient.failed = "yes"
  BY FailMarks DEF NoClient, Fields
<1>8. CASE g[n].failed # "yes" /\ finalizeConfig(g[n]).failed # "yes"
  <2>1. Config(g[n]) /\ Follows(opts, Len(opts), g[n])
    BY <1>5, <1>8 DEF n
  <2>2. Made(opts, finalizeConfig(g[n]))
    BY <1>8, <2>1, Finalized
  <2> QED BY <1>6, <1>8, <2>2
<1> QED BY <1>6, <1>7, <1>8

-----------------------------------------------------------------------------
(* The order of the options.                                               *)

Whole(c) == c = [f \in Fields |-> c[f]]

Settings == Fields \ {"failed"}

\* c1 and d1 come of one change to the fields F of c and of d
Alike(F, c, d, c1, d1) ==
    /\ Whole(c1) /\ Whole(d1)
    /\ \/ c1.failed = "yes" /\ d1.failed = "yes"
       \/ /\ c1.failed = "no" /\ d1.failed = "no"
          /\ \A f \in Settings : f \in F => c1[f] = d1[f]
          /\ \A f \in Settings : f \notin F => c1[f] = c[f] /\ d1[f] = d[f]

\* c and d are configs that the fields F do not tell apart
Agree(F, c, d) ==
    /\ Whole(c) /\ Whole(d) /\ c.failed = "no" /\ d.failed = "no"
    /\ \A f \in Settings : f \in F => c[f] = d[f]

\* An option that writes one field, or fails, in both.
LEMMA AlikeWrite ==
    ASSUME NEW F, NEW c, NEW d, Agree(F, c, d), NEW f \in Settings, f \in F, NEW v, NEW c1, NEW d1,
           (c1 = Fail(c) /\ d1 = Fail(d)) \/ (c1 = Put(c, f, v) /\ d1 = Put(d, f, v))
    PROVE  Alike(F, c, d, c1, d1)
<1>0. DOMAIN c = Fields /\ DOMAIN d = Fields /\ f \in Fields /\ "failed" \in Fields /\ f # "failed"
  BY FieldsAre DEF Agree, Whole, Settings
<1>1. CASE c1 = Fail(c) /\ d1 = Fail(d)
  <2>1. c1.failed = "yes" /\ d1.failed = "yes"
    BY <1>0, <1>1, FailMarks
  <2>2. Whole(c1) /\ Whole(d1)
    BY <1>0, <1>1 DEF Fail, Whole
  <2> QED BY <2>1, <2>2 DEF Alike
<1>2. CASE c1 = Put(c, f, v) /\ d1 = Put(d, f, v)
  <2>1. /\ c1[f] = v /\ \A g \in Fields : g # f => c1[g] = c[g]
        /\ d1[f] = v /\ \A g \in Fields : g # f => d1[g] = d[g]
    BY <1>0, <1>2, PutWrites
  <2>2. Whole(c1) /\ Whole(d1)
    BY <1>0, <1>2 DEF Put, Whole
  <2>3. c1.failed = "no" /\ d1.failed = "no"
    BY <1>0, <2>1 DEF Agree
  <2>4. ASSUME NEW g \in Settings, g \in F PROVE c1[g] = d1[g]
    BY <2>1, <2>4 DEF Agree, Settings
  <2>5. ASSUME NEW g \in Settings, g \notin F PROVE c1[g] = c[g] /\ d1[g] = d[g]
    BY <2>1, <2>5 DEF Settings
  <2> QED BY <2>2, <2>3, <2>4, <2>5 DEF Alike
<1> QED BY <1>1, <1>2

\* Two changes in a row.
LEMMA AlikeTwice ==
    ASSUME NEW F, NEW c, NEW d, NEW c1, NEW d1, NEW c2, NEW d2,
           Alike(F, c, d, c1, d1), Agree(F, c1, d1) => Alike(F, c1, d1, c2, d2),
           c1.failed = "yes" => c2 = c1 /\ d2 = d1
    PROVE  Alike(F, c, d, c2, d2)
<1>1. CASE c1.failed = "yes"
  BY <1>1
<1>2. CASE c1.failed # "yes"
  <2>1. Agree(F, c1, d1)
    BY <1>2 DEF Alike, Agree
  <2>2. Alike(F, c1, d1, c2, d2)
    BY <2>1
  <2> QED BY <1>2, <2>2 DEF Alike
<1> QED BY <1>1, <1>2

\* the field an entry of Touches stands for
Entry ==
    [httpClient |-> "HTTPClient", baseURL |-> "BaseURL", environment |-> "Environment",
     timeout |-> "Timeout", logger |-> "Logger", observer |-> "Observer", signer |-> "signer",
     verifier |-> "verifier", keyID |-> "KeyID", keyIDSet |-> "KeyID",
     authScheme |-> "AuthorizationScheme", partnerID |-> "PartnerID",
     merchantID |-> "MerchantID", retry |-> "Retry", userAgent |-> "UserAgent",
     clock |-> "Clock", requestIDGen |-> "RequestIDGenerator",
     maxRespBytes |-> "MaxResponseBytes", debugBodyLog |-> "DebugBodyLogging",
     encryptAtomePub |-> "encryptAtomePub", encryptPriv |-> "encryptPriv"]

Touched(o) == {f \in Settings : Entry[f] \in Touches(o)}

\* What the entries stand for.
LEMMA EntriesAre ==
    /\ Entry.httpClient = "HTTPClient" /\ Entry.baseURL = "BaseURL"
    /\ Entry.environment = "Environment" /\ Entry.timeout = "Timeout" /\ Entry.logger = "Logger"
    /\ Entry.observer = "Observer" /\ Entry.signer = "signer" /\ Entry.verifier = "verifier"
    /\ Entry.keyID = "KeyID" /\ Entry.keyIDSet = "KeyID"
    /\ Entry.authScheme = "AuthorizationScheme" /\ Entry.partnerID = "PartnerID"
    /\ Entry.merchantID = "MerchantID" /\ Entry.retry = "Retry" /\ Entry.userAgent = "UserAgent"
    /\ Entry.clock = "Clock" /\ Entry.requestIDGen = "RequestIDGenerator"
    /\ Entry.maxRespBytes = "MaxResponseBytes" /\ Entry.debugBodyLog = "DebugBodyLogging"
    /\ Entry.encryptAtomePub = "encryptAtomePub" /\ Entry.encryptPriv = "encryptPriv"
BY DEF Entry

\* a change of the field f to v, or a failure, in both
Both(c, d, f, v, c1, d1) ==
    \/ c1 = Fail(c) /\ d1 = Fail(d)
    \/ c1 = Put(c, f, v) /\ d1 = Put(d, f, v)

\* The four options of WithAtomeCerts, and an option like them.
LEMMA KeysAlike ==
    ASSUME NEW F, NEW c, NEW d, Agree(F, c, d), NEW pem
    PROVE  /\ "signer" \in F => Alike(F, c, d, WithPrivateKeyPEM(c, pem), WithPrivateKeyPEM(d, pem))
           /\ "verifier" \in F =>
                 Alike(F, c, d, WithAtomePublicCertPEM(c, pem), WithAtomePublicCertPEM(d, pem))
           /\ "encryptPriv" \in F =>
                 Alike(F, c, d, WithEncryptPrivateKeyPEM(c, pem), WithEncryptPrivateKeyPEM(d, pem))
           /\ "encryptAtomePub" \in F =>
                 Alike(F, c, d, WithEncryptAtomePublicCertPEM(c, pem),
                       WithEncryptAtomePublicCertPEM(d, pem))
<1>0. {"signer", "verifier", "encryptPriv", "encryptAtomePub"} \subseteq Settings
  BY FieldsAre DEF Settings
<1>1. ASSUME "signer" \in F
      PROVE  Alike(F, c, d, WithPrivateKeyPEM(c, pem), WithPrivateKeyPEM(d, pem))
  <2>1. c.signer = d.signer
    BY <1>0, <1>1 DEF Agree
  <2>2. Both(c, d, "signer", NewRSA2Signer(pem), WithPrivateKeyPEM(c, pem), WithPrivateKeyPEM(d, pem))
    BY <2>1 DEF Both, WithPrivateKeyPEM
  <2> QED BY <1>0, <1>1, <2>2, AlikeWrite DEF Both
<1>2. ASSUME "verifier" \in F
      PROVE  Alike(F, c, d, WithAtomePublicCertPEM(c, pem), WithAtomePublicCertPEM(d, pem))
  <2>1. Both(c, d, "verifier", pem.name, WithAtomePublicCertPEM(c, pem), WithAtomePublicCertPEM(d, pem))
    BY DEF Both, WithAtomePublicCertPEM
  <2> QED BY <1>0, <1>2, <2>1, AlikeWrite DEF Both
<1>3. ASSUME "encryptPriv" \in F
      PROVE  Alike(F, c, d, WithEncryptPrivateKeyPEM(c, pem), WithEncryptPrivateKeyPEM(d, pem))
  <2>1. c.encryptPriv = d.encryptPriv
    BY <1>0, <1>3 DEF Agree
  <2>2. Both(c, d, "encryptPriv", pem.name, WithEncryptPrivateKeyPEM(c, pem),
             WithEncryptPrivateKeyPEM(d, pem))
    BY <2>1 DEF Both, WithEncryptPrivateKeyPEM
  <2> QED BY <1>0, <1>3, <2>2, AlikeWrite DEF Both
<1>4. ASSUME "encryptAtomePub" \in F
      PROVE  Alike(F, c, d, WithEncryptAtomePublicCertPEM(c, pem), WithEncryptAtomePublicCertPEM(d, pem))
  <2>1. c.encryptAtomePub = d.encryptAtomePub
    BY <1>0, <1>4 DEF Agree
  <2>2. Both(c, d, "encryptAtomePub", pem.name, WithEncryptAtomePublicCertPEM(c, pem),
             WithEncryptAtomePublicCertPEM(d, pem))
    BY <2>1 DEF Both, WithEncryptAtomePublicCertPEM
  <2> QED BY <1>0, <1>4, <2>2, AlikeWrite DEF Both
<1> QED BY <1>1, <1>2, <1>3, <1>4

\* ... and all of them in turn.
LEMMA CertsAlike ==
    ASSUME NEW F, NEW c, NEW d, Agree(F, c, d), NEW certs,
           {"signer", "verifier", "encryptPriv", "encryptAtomePub"} \subseteq F
    PROVE  Alike(F, c, d, WithAtomeCerts(c, certs), WithAtomeCerts(d, certs))
<1> DEFINE Skips(pem, x) == pem.block = "nil" \/ x.failed = "yes"
           A1(x) == IF Skips(certs.signPriv, x) THEN x ELSE WithPrivateKeyPEM(x, certs.signPriv)
           A2(x) == IF Skips(certs.signPub, x) THEN x ELSE WithAtomePublicCertPEM(x, certs.signPub)
           A3(x) == IF Skips(certs.encPriv, x) THEN x ELSE WithEncryptPrivateKeyPEM(x, certs.encPriv)
           A4(x) == IF Skips(certs.encPub, x) THEN x ELSE WithEncryptAtomePublicCertPEM(x, certs.encPub)
<1>0. \A x : WithAtomeCerts(x, certs) = A4(A3(A2(A1(x))))
  BY DEF WithAtomeCerts
<1>1. ASSUME NEW x, NEW y, Agree(F, x, y)
      PROVE  /\ Alike(F, x, y, A1(x), A1(y)) /\ Alike(F, x, y, A2(x), A2(y))
             /\ Alike(F, x, y, A3(x), A3(y)) /\ Alike(F, x, y, A4(x), A4(y))
  <2>1. Alike(F, x, y, x, y) /\ x.failed = "no" /\ y.failed = "no"
    BY <1>1 DEF Agree, Alike
  <2>2. Alike(F, x, y, WithPrivateKeyPEM(x, certs.signPriv), WithPrivateKeyPEM(y, certs.signPriv))
    BY <1>1, KeysAlike
  <2>3. Alike(F, x, y, WithAtomePublicCertPEM(x, certs.signPub), WithAtomePublicCertPEM(y, certs.signPub))
    BY <1>1, KeysAlike
  <2>4. Alike(F, x, y, WithEncryptPrivateKeyPEM(x, certs.encPriv), WithEncryptPrivateKeyPEM(y, certs.encPriv))
    BY <1>1, KeysAlike
  <2>5. Alike(F, x, y, WithEncryptAtomePublicCertPEM(x, certs.encPub),
              WithEncryptAtomePublicCertPEM(y, certs.encPub))
    BY <1>1, KeysAlike
  <2> QED BY <2>1, <2>2, <2>3, <2>4, <2>5
<1>2. ASSUME NEW x, x.failed = "yes" PROVE A2(x) = x /\ A3(x) = x /\ A4(x) = x
  BY <1>2
<1>3. ASSUME NEW x, NEW y, Alike(F, c, d, x, y)
      PROVE  /\ Alike(F, c, d, A2(x), A2(y)) /\ Alike(F, c, d, A3(x), A3(y))
             /\ Alike(F, c, d, A4(x), A4(y))
  <2>1. x.failed = "yes" => y.failed = "yes"
    BY <1>3 DEF Alike
  <2>2. x.failed = "yes" => A2(x) = x /\ A2(y) = y /\ A3(x) = x /\ A3(y) = y /\ A4(x) = x /\ A4(y) = y
    BY <1>2, <2>1
  <2>3. Agree(F, x, y) => /\ Alike(F, x, y, A2(x), A2(y)) /\ Alike(F, x, y, A3(x), A3(y))
                          /\ Alike(F, x, y, A4(x), A4(y))
    BY <1>1
  <2> HIDE DEF A2, A3, A4
  <2>4. Alike(F, c, d, A2(x), A2(y))
    BY <1>3, <2>2, <2>3, AlikeTwice
  <2>5. Alike(F, c, d, A3(x), A3(y))
    BY <1>3, <2>2, <2>3, AlikeTwice
  <2>6. Alike(F, c, d, A4(x), A4(y))
    BY <1>3, <2>2, <2>3, AlikeTwice
  <2> QED BY <2>4, <2>5, <2>6
<1> HIDE DEF A1, A2, A3, A4
<1>4. Alike(F, c, d, A1(c), A1(d))
  BY <1>1
<1>5. Alike(F, c, d, A2(A1(c)), A2(A1(d)))
  BY <1>3, <1>4
<1>6. Alike(F, c, d, A3(A2(A1(c))), A3(A2(A1(d))))
  BY <1>3, <1>5
<1>7. Alike(F, c, d, A4(A3(A2(A1(c)))), A4(A3(A2(A1(d)))))
  BY <1>3, <1>6
<1> QED BY <1>0, <1>7

\* An option looks at, and changes, no field but those it touches.
LEMMA ApplyAlike ==
    ASSUME NEW o, o.with \in OptionNames, NEW c, NEW d, Agree(Touched(o), c, d)
    PROVE  Alike(Touched(o), c, d, Apply(c, o), Apply(d, o))
<1> DEFINE a == o.arg
           w == o.with
<1>1. ASSUME NEW f \in Settings, Entry[f] \in Touches(o), NEW v, Both(c, d, f, v, Apply(c, o), Apply(d, o))
      PROVE  Alike(Touched(o), c, d, Apply(c, o), Apply(d, o))
  <2>1. f \in Touched(o)
    BY <1>1 DEF Touched
  <2> QED BY <1>1, <2>1, AlikeWrite DEF Both
<1>2. ASSUME NEW f \in Settings, Entry[f] \in Touches(o) PROVE c[f] = d[f]
  BY <1>2 DEF Agree, Touched
<1>3. CASE w = "HTTPClient"
  <2>1. "httpClient" \in Settings /\ Entry["httpClient"] \in Touches(o)
    BY <1>3, EntriesAre, FieldsAre DEF Touches, Settings
  <2>2. Both(c, d, "httpClient", a, Apply(c, o), Apply(d, o))
    BY <1>3 DEF Both, Apply, WithHTTPClient
  <2> QED BY <1>1, <2>1, <2>2
<1>4. CASE w = "UserAgent"
  <2>1. "userAgent" \in Settings /\ Entry["userAgent"] \in Touches(o)
    BY <1>4, EntriesAre, FieldsAre DEF Touches, Settings
  <2>2. Both(c, d, "userAgent", a, Apply(c, o), Apply(d, o))
    BY <1>4 DEF Both, Apply, WithUserAgent
  <2> QED BY <1>1, <2>1, <2>2
<1>5. CASE w = "AuthorizationScheme"
  <2>1. "authScheme" \in Settings /\ Entry["authScheme"] \in Touches(o)
    BY <1>5, EntriesAre, FieldsAre DEF Touches, Settings
  <2>2. Both(c, d, "authScheme", a, Apply(c, o), Apply(d, o))
    BY <1>5 DEF Both, Apply, WithAuthorizationScheme
  <2> QED BY <1>1, <2>1, <2>2
<1>6. CASE w = "PartnerID"
  <2>1. "partnerID" \in Settings /\ Entry["partnerID"] \in Touches(o)
    BY <1>6, EntriesAre, FieldsAre DEF Touches, Settings
  <2>2. Both(c, d, "partnerID", a, Apply(c, o), Apply(d, o))
    BY <1>6 DEF Both, Apply, WithPartnerID
  <2> QED BY <1>1, <2>1, <2>2
<1>7. CASE w = "MerchantID"
  <2>1. "merchantID" \in Settings /\ Entry["merchantID"] \in Touches(o)
    BY <1>7, EntriesAre, FieldsAre DEF Touches, Settings
  <2>2. Both(c, d, "merchantID", a, Apply(c, o), Apply(d, o))
    BY <1>7 DEF Both, Apply, WithMerchantID
  <2> QED BY <1>1, <2>1, <2>2
<1>8. CASE w = "Logger"
  <2>1. "logger" \in Settings /\ Entry["logger"] \in Touches(o)
    BY <1>8, EntriesAre, FieldsAre DEF Touches, Settings
  <2>2. Both(c, d, "logger", a, Apply(c, o), Apply(d, o))
    BY <1>8 DEF Both, Apply, WithLogger
  <2> QED BY <1>1, <2>1, <2>2
<1>9. CASE w = "Observer"
  <2>1. "observer" \in Settings /\ Entry["observer"] \in Touches(o)
    BY <1>9, EntriesAre, FieldsAre DEF Touches, Settings
  <2>2. Both(c, d, "observer", a, Apply(c, o), Apply(d, o))
    BY <1>9 DEF Both, Apply, WithObserver
  <2> QED BY <1>1, <2>1, <2>2
<1>10. CASE w = "DebugBodyLogging"
  <2>1. "debugBodyLog" \in Settings /\ Entry["debugBodyLog"] \in Touches(o)
    BY <1>10, EntriesAre, FieldsAre DEF Touches, Settings
  <2>2. Both(c, d, "debugBodyLog", a, Apply(c, o), Apply(d, o))
    BY <1>10 DEF Both, Apply, WithDebugBodyLogging
  <2> QED BY <1>1, <2>1, <2>2
<1>11. CASE w = "Clock"
  <2>1. "clock" \in Settings /\ Entry["clock"] \in Touches(o)
    BY <1>11, EntriesAre, FieldsAre DEF Touches, Settings
  <2>2. Both(c, d, "clock", a, Apply(c, o), Apply(d, o))
    BY <1>11 DEF Both, Apply, WithClock
  <2> QED BY <1>1, <2>1, <2>2
<1>12. CASE w = "RequestIDGenerator"
  <2>1. "requestIDGen" \in Settings /\ Entry["requestIDGen"] \in Touches(o)
    BY <1>12, EntriesAre, FieldsAre DEF Touches, Settings
  <2>2. Both(c, d, "requestIDGen", a, Apply(c, o), Apply(d, o))
    BY <1>12 DEF Both, Apply, WithRequestIDGenerator
  <2> QED BY <1>1, <2>1, <2>2
<1>13. CASE w = "BaseURL"
  <2>1. "baseURL" \in Settings /\ Entry["baseURL"] \in Touches(o)
    BY <1>13, EntriesAre, FieldsAre DEF Touches, Settings
  <2>2. Both(c, d, "baseURL", a.host, Apply(c, o), Apply(d, o))
    BY <1>13 DEF Both, Apply, WithBaseURL
  <2> QED BY <1>1, <2>1, <2>2
<1>14. CASE w = "Environment"
  <2>1. "environment" \in Settings /\ Entry["environment"] \in Touches(o)
    BY <1>14, EntriesAre, FieldsAre DEF Touches, Settings
  <2>2. Both(c, d, "environment", a, Apply(c, o), Apply(d, o))
    BY <1>14 DEF Both, Apply, WithEnvironment
  <2> QED BY <1>1, <2>1, <2>2
<1>15. CASE w = "Timeout"
  <2>1. "timeout" \in Settings /\ Entry["timeout"] \in Touches(o)
    BY <1>15, EntriesAre, FieldsAre DEF Touches, Settings
  <2>2. Both(c, d, "timeout", a, Apply(c, o), Apply(d, o))
    BY <1>15 DEF Both, Apply, WithTimeout
  <2> QED BY <1>1, <2>1, <2>2
<1>16. CASE w = "MaxResponseBytes"
  <2>1. "maxRespBytes" \in Settings /\ Entry["maxRespBytes"] \in Touches(o)
    BY <1>16, EntriesAre, FieldsAre DEF Touches, Settings
  <2>2. Both(c, d, "maxRespBytes", a, Apply(c, o), Apply(d, o))
    BY <1>16 DEF Both, Apply, WithMaxResponseBytes
  <2> QED BY <1>1, <2>1, <2>2
<1>17. CASE w = "Retry"
  <2>1. "retry" \in Settings /\ Entry["retry"] \in Touches(o)
    BY <1>17, EntriesAre, FieldsAre DEF Touches, Settings
  <2>2. Both(c, d, "retry", a, Apply(c, o), Apply(d, o))
    BY <1>17 DEF Both, Apply, WithRetry
  <2> QED BY <1>1, <2>1, <2>2
<1>18. CASE w = "AtomePublicKey"
  <2>1. "verifier" \in Settings /\ Entry["verifier"] \in Touches(o)
    BY <1>18, EntriesAre, FieldsAre DEF Touches, Settings
  <2>2. Both(c, d, "verifier", a.name, Apply(c, o), Apply(d, o))
    BY <1>18 DEF Both, Apply, WithAtomePublicKey
  <2> QED BY <1>1, <2>1, <2>2
<1>19. CASE w = "AtomePublicCertPEM"
  <2>1. "verifier" \in Settings /\ Entry["verifier"] \in Touches(o)
    BY <1>19, EntriesAre, FieldsAre DEF Touches, Settings
  <2>2. Both(c, d, "verifier", a.name, Apply(c, o), Apply(d, o))
    BY <1>19 DEF Both, Apply, WithAtomePublicCertPEM
  <2> QED BY <1>1, <2>1, <2>2
<1>20. CASE w = "Signer"
  <2>1. "signer" \in Settings /\ Entry["signer"] \in Touches(o)
    BY <1>20, EntriesAre, FieldsAre DEF Touches, Settings
  <2>2. c.signer = d.signer
    BY <1>2, <2>1
  <2>3. Both(c, d, "signer", a, Apply(c, o), Apply(d, o))
    BY <1>20, <2>2 DEF Both, Apply, WithSigner
  <2> QED BY <1>1, <2>1, <2>3
<1>21. CASE w = "PrivateKeyPEM"
  <2>1. "signer" \in Settings /\ Entry["signer"] \in Touches(o)
    BY <1>21, EntriesAre, FieldsAre DEF Touches, Settings
  <2>2. c.signer = d.signer
    BY <1>2, <2>1
  <2>3. Both(c, d, "signer", NewRSA2Signer(a), Apply(c, o), Apply(d, o))
    BY <1>21, <2>2 DEF Both, Apply, WithPrivateKeyPEM
  <2> QED BY <1>1, <2>1, <2>3
<1>22. CASE w = "EncryptAtomePublicCertPEM"
  <2>1. "encryptAtomePub" \in Settings /\ Entry["encryptAtomePub"] \in Touches(o)
    BY <1>22, EntriesAre, FieldsAre DEF Touches, Settings
  <2>2. c.encryptAtomePub = d.encryptAtomePub
    BY <1>2, <2>1
  <2>3. Both(c, d, "encryptAtomePub", a.name, Apply(c, o), Apply(d, o))
    BY <1>22, <2>2 DEF Both, Apply, WithEncryptAtomePublicCertPEM
  <2> QED BY <1>1, <2>1, <2>3
<1>23. CASE w = "EncryptPrivateKeyPEM"
  <2>1. "encryptPriv" \in Settings /\ Entry["encryptPriv"] \in Touches(o)
    BY <1>23, EntriesAre, FieldsAre DEF Touches, Settings
  <2>2. c.encryptPriv = d.encryptPriv
    BY <1>2, <2>1
  <2>3. Both(c, d, "encryptPriv", a.name, Apply(c, o), Apply(d, o))
    BY <1>23, <2>2 DEF Both, Apply, WithEncryptPrivateKeyPEM
  <2> QED BY <1>1, <2>1, <2>3
<1>24. CASE w = "AtomeCerts"
  <2>1. {"signer", "verifier", "encryptPriv", "encryptAtomePub"} \subseteq Touched(o)
    BY <1>24, EntriesAre, FieldsAre DEF Touched, Touches, Settings
  <2>2. Apply(c, o) = WithAtomeCerts(c, a) /\ Apply(d, o) = WithAtomeCerts(d, a)
    BY <1>24 DEF Apply
  <2>3. Alike(Touched(o), c, d, WithAtomeCerts(c, a), WithAtomeCerts(d, a))
    BY <2>1, CertsAlike
  <2> QED BY <2>2, <2>3
<1>25. CASE w = "nil"
  <2>1. Apply(c, o) = Fail(c) /\ Apply(d, o) = Fail(d)
    BY <1>25 DEF Apply
  <2>2. DOMAIN c = Fields /\ DOMAIN d = Fields
    BY DEF Agree, Whole
  <2>3. Whole(Fail(c)) /\ Whole(Fail(d))
    BY <2>2 DEF Whole, Fail
  <2>4. Fail(c).failed = "yes" /\ Fail(d).failed = "yes"
    BY <2>2, FailMarks
  <2> QED BY <2>1, <2>3, <2>4 DEF Alike
<1>26. CASE w = "KeyID"
  <2> DEFINE c1 == Put(c, "keyID", a)
             d1 == Put(d, "keyID", a)
             c2 == Put(c1, "keyIDSet", "yes")
             d2 == Put(d1, "keyIDSet", "yes")
  <2>1. Apply(c, o) = c2 /\ Apply(d, o) = d2
    BY <1>26 DEF Apply, WithKeyID
  <2>2. {"keyID", "keyIDSet"} \subseteq Touched(o) /\ {"keyID", "keyIDSet"} \subseteq Settings
    BY <1>26, EntriesAre, FieldsAre DEF Touched, Touches, Settings
  <2>3. Alike(Touched(o), c, d, c1, d1)
    BY <2>2, AlikeWrite
  <2>4. c1.failed = "no"
    <3>1. "failed" \in Fields /\ "keyID" \in Fields /\ DOMAIN c = Fields
      BY FieldsAre DEF Agree, Whole
    <3>2. c1.failed = c.failed
      BY <3>1, PutWrites
    <3> QED BY <3>2 DEF Agree
  <2> HIDE DEF c1, d1
  <2>5. Agree(Touched(o), c1, d1) => Alike(Touched(o), c1, d1, c2, d2)
    BY <2>2, AlikeWrite
  <2> HIDE DEF c2, d2
  <2>6. Alike(Touched(o), c, d, c2, d2)
    BY <2>3, <2>4, <2>5, AlikeTwice
  <2> QED BY <2>1, <2>6
<1> HIDE DEF w
<1> QED BY <1>3, <1>4, <1>5, <1>6, <1>7, <1>8, <1>9, <1>10, <1>11, <1>12, <1>13, <1>14, <1>15,
           <1>16, <1>17, <1>18, <1>19, <1>20, <1>21, <1>22, <1>23, <1>24, <1>25, <1>26
    DEF OptionNames, w

\* a loop that did not fail
Ran(s, n) == \A i \in 0..n : Configs(s)[i].failed = "no" /\ Whole(Configs(s)[i])

\* A loop that has not failed at its end never did, and its configs are whole.
LEMMA RanAll ==
    ASSUME NEW s \in Seq(Options)
    PROVE  /\ Configs(s)[Len(s)].failed = "yes" \/ Ran(s, Len(s))
           /\ Ran(s, Len(s)) => Configs(s)[Len(s)].failed = "no"
<1> DEFINE g == Configs(s)
           n == Len(s)
           S == {i \in Nat : i <= n => g[i].failed = "yes"
                                       \/ \A j \in 0..i : g[j].failed = "no" /\ Whole(g[j])}
<1>0. n \in Nat /\ \A i \in 1..n : s[i] \in Options
  OBVIOUS
<1>1. /\ g[0] = defaultConfig
      /\ \A i \in 1..n : g[i] = IF g[i - 1].failed = "yes" THEN g[i - 1] ELSE Apply(g[i - 1], s[i])
  BY ConfigsAre
<1> HIDE DEF g, n
<1>2. 0 \in S
  <2>1. defaultConfig.failed = "no" /\ Whole(defaultConfig)
    BY DEF defaultConfig, Whole, Fields
  <2> QED BY <1>1, <2>1
<1>3. ASSUME NEW i \in Nat, i \in S PROVE i + 1 \in S
  <2> SUFFICES ASSUME i + 1 <= n, g[i + 1].failed # "yes"
               PROVE  \A j \in 0..(i + 1) : g[j].failed = "no" /\ Whole(g[j])
    OBVIOUS
  <2>1. i + 1 \in 1..n /\ (i + 1) - 1 = i /\ i <= n
    BY <1>0
  <2>2. g[i + 1] = IF g[i].failed = "yes" THEN g[i] ELSE Apply(g[i], s[i + 1])
    BY <1>1, <2>1
  <2>3. g[i].failed # "yes" /\ g[i + 1] = Apply(g[i], s[i + 1])
    BY <2>2
  <2>4. \A j \in 0..i : g[j].failed = "no" /\ Whole(g[j])
    BY <1>3, <2>1, <2>3
  <2>5. s[i + 1].with \in OptionNames
    BY <1>0, <2>1, OptionsAssumption
  <2>6. Agree(Touched(s[i + 1]), g[i], g[i])
    BY <2>4 DEF Agree
  <2>7. Alike(Touched(s[i + 1]), g[i], g[i], g[i + 1], g[i + 1])
    BY <2>3, <2>5, <2>6, ApplyAlike
  <2>8. g[i + 1].failed = "no" /\ Whole(g[i + 1])
    BY <2>7 DEF Alike
  <2> QED BY <2>4, <2>8
<1>4. n \in S
  <2> HIDE DEF S
  <2> QED BY <1>0, <1>2, <1>3, CountingUp
<1>5. g[n].failed = "yes" \/ \A j \in 0..n : g[j].failed = "no" /\ Whole(g[j])
  BY <1>0, <1>4
<1>6. n \in 0..n
  BY <1>0
<1> QED BY <1>5, <1>6 DEF Ran, g, n

\* One turn of a loop that did not fail.
LEMMA Turn ==
    ASSUME NEW s \in Seq(Options), Ran(s, Len(s)), NEW i \in 1..Len(s)
    PROVE  /\ Configs(s)[i] = Apply(Configs(s)[i - 1], s[i])
           /\ \A f \in Settings : f \notin Touched(s[i]) => Configs(s)[i][f] = Configs(s)[i - 1][f]
<1> DEFINE g == Configs(s)
<1>0. i - 1 \in 0..Len(s) /\ i \in 0..Len(s)
  OBVIOUS
<1>1. /\ g[i - 1].failed = "no" /\ Whole(g[i - 1]) /\ g[i].failed = "no"
  BY <1>0 DEF Ran
<1>2. g[i] = Apply(g[i - 1], s[i])
  BY <1>1, ConfigsAre
<1> HIDE DEF g
<1>3. s[i].with \in OptionNames
  BY OptionsAssumption
<1>4. Agree(Touched(s[i]), g[i - 1], g[i - 1])
  BY <1>1 DEF Agree
<1>5. Alike(Touched(s[i]), g[i - 1], g[i - 1], g[i], g[i])
  BY <1>2, <1>3, <1>4, ApplyAlike
<1> QED BY <1>1, <1>2, <1>5 DEF Alike, g

\* A field stays as it is while no option touches it.
LEMMA Untouched ==
    ASSUME NEW s \in Seq(Options), Ran(s, Len(s)), NEW f \in Settings, NEW a \in 0..Len(s)
    PROVE  \A b \in a..Len(s) : (\A i \in (a + 1)..b : f \notin Touched(s[i]))
                                => Configs(s)[b][f] = Configs(s)[a][f]
<1> DEFINE g == Configs(s)
           n == Len(s)
           S == {m \in Nat : a + m <= n /\ (\A i \in (a + 1)..(a + m) : f \notin Touched(s[i]))
                              => g[a + m][f] = g[a][f]}
<1>0. n \in Nat /\ a \in Nat
  OBVIOUS
<1>1. \A i \in 1..n : f \notin Touched(s[i]) => g[i][f] = g[i - 1][f]
  BY Turn
<1> HIDE DEF g, n
<1>2. 0 \in S
  BY <1>0
<1>3. ASSUME NEW m \in Nat, m \in S PROVE m + 1 \in S
  <2> SUFFICES ASSUME a + (m + 1) <= n, \A i \in (a + 1)..(a + (m + 1)) : f \notin Touched(s[i])
               PROVE  g[a + (m + 1)][f] = g[a][f]
    OBVIOUS
  <2>1. a + m <= n /\ \A i \in (a + 1)..(a + m) : f \notin Touched(s[i])
    BY <1>0
  <2>2. g[a + m][f] = g[a][f]
    BY <1>3, <2>1
  <2>3. a + (m + 1) \in 1..n /\ (a + (m + 1)) - 1 = a + m /\ a + (m + 1) \in (a + 1)..(a + (m + 1))
    BY <1>0
  <2>4. g[a + (m + 1)][f] = g[(a + (m + 1)) - 1][f]
    BY <1>1, <2>3
  <2> QED BY <2>2, <2>3, <2>4
<1>4. ASSUME NEW b \in a..n, \A i \in (a + 1)..b : f \notin Touched(s[i]) PROVE g[b][f] = g[a][f]
  <2>1. b - a \in Nat /\ a + (b - a) = b
    BY <1>0
  <2>2. b - a \in S
    <3> HIDE DEF S
    <3> QED BY <1>2, <1>3, <2>1, CountingUp
  <2> QED BY <1>0, <1>4, <2>1, <2>2
<1> QED BY <1>4 DEF g, n

\* t is s in another order: p says where an option of t stands in s, q the
\* other way round, and options that touch a common field keep their order
Arranged(s, t, p, q) ==
    LET N == 1..Len(s) IN
    /\ Len(t) = Len(s) /\ p \in [N -> N] /\ q \in [N -> N]
    /\ \A i \in N : p[q[i]] = i /\ q[p[i]] = i /\ t[i] = s[p[i]]
    /\ \A i, j \in N : i < j /\ Touched(s[i]) \cap Touched(s[j]) # {} => q[i] < q[j]

\* the first j options of s and the first k of t have the same ones that touch f
Level(s, q, f, j, k) == \A i \in 1..Len(s) : f \in Touched(s[i]) => (i <= j <=> q[i] <= k)

\* Where the loops over s and t have met the same options that touch a field,
\* the field is the same in both.
LEMMA SameFields ==
    ASSUME NEW s \in Seq(Options), NEW t \in Seq(Options), NEW p, NEW q, Arranged(s, t, p, q),
           Ran(s, Len(s))
    PROVE  /\ Ran(t, Len(t))
           /\ \A f \in Settings : Configs(t)[Len(t)][f] = Configs(s)[Len(s)][f]
<1> DEFINE g == Configs(s)
           h == Configs(t)
           n == Len(s)
           S == {k \in Nat : k <= n =>
                    /\ h[k].failed = "no" /\ Whole(h[k])
                    /\ \A f \in Settings, j \in 0..n : Level(s, q, f, j, k) => h[k][f] = g[j][f]}
<1>0. /\ n \in Nat /\ Len(t) = n /\ p \in [1..n -> 1..n] /\ q \in [1..n -> 1..n]
      /\ \A i \in 1..n : p[q[i]] = i /\ q[p[i]] = i /\ t[i] = s[p[i]]
      /\ \A i, j \in 1..n : i < j /\ Touched(s[i]) \cap Touched(s[j]) # {} => q[i] < q[j]
      /\ \A i \in 1..n : s[i] \in Options
  <2>1. n \in Nat /\ \A i \in 1..n : s[i] \in Options
    OBVIOUS
  <2>2. /\ Len(t) = n /\ p \in [1..n -> 1..n] /\ q \in [1..n -> 1..n]
        /\ \A i \in 1..n : p[q[i]] = i /\ q[p[i]] = i /\ t[i] = s[p[i]]
    BY Zenon DEF Arranged
  <2>3. \A i, j \in 1..n : i < j /\ Touched(s[i]) \cap Touched(s[j]) # {} => q[i] < q[j]
    BY Zenon DEF Arranged
  <2> QED BY <2>1, <2>2, <2>3
<1>1. /\ h[0] = defaultConfig
      /\ \A k \in 1..n : h[k] = IF h[k - 1].failed = "yes" THEN h[k - 1] ELSE Apply(h[k - 1], t[k])
  BY <1>0, ConfigsAre
<1>2. g[0] = defaultConfig /\ \A i \in 0..n : g[i].failed = "no" /\ Whole(g[i])
  BY ConfigsAre DEF Ran
<1>3. \A i \in 1..n : g[i] = Apply(g[i - 1], s[i])
  BY Turn
<1>4. \A f \in Settings, a \in 0..n : \A b \in a..n :
          (\A i \in (a + 1)..b : f \notin Touched(s[i])) => g[b][f] = g[a][f]
  BY Untouched
<1>5. \A f, j, k : Level(s, q, f, j, k) <=> \A i \in 1..n : f \in Touched(s[i]) => (i <= j <=> q[i] <= k)
  BY DEF Level
<1> HIDE DEF g, h, n
<1>6. 0 \in S
  <2>0. 0 \in 0..n
    BY <1>0
  <2>1. h[0] = g[0] /\ g[0].failed = "no" /\ Whole(g[0])
    BY <1>1, <1>2, <2>0
  <2>2. ASSUME NEW f \in Settings, NEW j \in 0..n, Level(s, q, f, j, 0) PROVE h[0][f] = g[j][f]
    <3>1. ASSUME NEW i \in 1..j PROVE f \notin Touched(s[i])
      <4>1. i \in 1..n /\ i <= j /\ q[i] \in 1..n
        BY <1>0
      <4>2. ~(q[i] <= 0)
        BY <1>0, <4>1
      <4> QED BY <1>5, <2>2, <4>1, <4>2
    <3>2. 0 + 1 = 1 /\ j \in 0..n /\ 0 \in 0..n
      BY <1>0
    <3>3. g[j][f] = g[0][f]
      BY <1>4, <3>1, <3>2
    <3> QED BY <1>1, <1>2, <3>3
  <2> QED BY <2>1, <2>2
<1>7. ASSUME NEW k \in Nat, k \in S PROVE k + 1 \in S
  <2> SUFFICES ASSUME k + 1 <= n
               PROVE  /\ h[k + 1].failed = "no" /\ Whole(h[k + 1])
                      /\ \A f \in Settings, j \in 0..n :
                            Level(s, q, f, j, k + 1) => h[k + 1][f] = g[j][f]
    OBVIOUS
  <2>1. k + 1 \in 1..n /\ (k + 1) - 1 = k /\ k <= n
    BY <1>0
  <2>2. /\ h[k].failed = "no" /\ Whole(h[k])
        /\ \A f \in Settings, j \in 0..n : Level(s, q, f, j, k) => h[k][f] = g[j][f]
    BY <1>7, <2>1
  <2> DEFINE J == p[k + 1]
             o == s[J]
             F == Touched(o)
  <2>3. J \in 1..n /\ q[J] = k + 1 /\ t[k + 1] = o /\ J - 1 \in 0..n /\ o.with \in OptionNames
    <3>1. J \in 1..n /\ q[J] = k + 1 /\ t[k + 1] = o
      BY <1>0, <2>1
    <3> HIDE DEF J
    <3>2. J - 1 \in 0..n
      BY <1>0, <3>1
    <3>3. o \in Options
      BY <1>0, <3>1
    <3> QED BY <3>1, <3>2, <3>3, OptionsAssumption
  <2>4. h[k + 1] = Apply(h[k], o)
    BY <1>1, <2>1, <2>2, <2>3
  <2>5. g[J] = Apply(g[J - 1], o) /\ g[J - 1].failed = "no" /\ Whole(g[J - 1]) /\ g[J].failed = "no"
    BY <1>2, <1>3, <2>3
  <2> HIDE DEF J
  <2>6. ASSUME NEW f \in Settings, f \in F PROVE h[k][f] = g[J - 1][f]
    <3>1. ASSUME NEW i \in 1..n, f \in Touched(s[i]) PROVE i <= J - 1 <=> q[i] <= k
      <4>0. q[i] \in 1..n /\ p[q[i]] = i
        BY <1>0
      <4>1. Touched(s[i]) \cap Touched(s[J]) # {}
        BY <2>6, <3>1
      <4>2. CASE i < J
        <5>1. q[i] < q[J]
          BY <1>0, <2>3, <4>1, <4>2
        <5> QED BY <1>0, <2>1, <2>3, <4>0, <4>2, <5>1
      <4>3. CASE i = J
        BY <1>0, <2>1, <2>3, <4>3
      <4>4. CASE i > J
        <5>1. q[J] < q[i]
          BY <1>0, <2>3, <4>1, <4>4
        <5> QED BY <1>0, <2>1, <2>3, <4>0, <4>4, <5>1
      <4> QED BY <1>0, <2>3, <4>2, <4>3, <4>4
    <3>2. Level(s, q, f, J - 1, k)
      BY <1>5, <3>1
    <3> QED BY <2>2, <2>3, <3>2
  <2>7. Agree(F, h[k], g[J - 1])
    BY <2>2, <2>5, <2>6 DEF Agree
  <2>8. Alike(F, h[k], g[J - 1], h[k + 1], g[J])
    BY <2>3, <2>4, <2>5, <2>7, ApplyAlike
  <2>9. h[k + 1].failed = "no" /\ Whole(h[k + 1])
    BY <2>5, <2>8 DEF Alike
  <2>10. ASSUME NEW f \in Settings, NEW j \in 0..n, Level(s, q, f, j, k + 1)
         PROVE  h[k + 1][f] = g[j][f]
    <3>1. CASE f \notin F
      <4>1. ASSUME NEW i \in 1..n, f \in Touched(s[i]) PROVE i <= j <=> q[i] <= k
        <5>1. i # J /\ q[i] \in 1..n /\ p[q[i]] = i
          BY <1>0, <3>1, <4>1
        <5>2. q[i] # k + 1
          BY <5>1 DEF J
        <5>3. i <= j <=> q[i] <= k + 1
          BY <1>5, <2>10, <4>1
        <5>4. q[i] \in Nat
          BY <1>0, <5>1
        <5>5. q[i] <= k + 1 <=> q[i] <= k
          BY <5>2, <5>4
        <5> QED BY <5>3, <5>5
      <4>2. Level(s, q, f, j, k)
        BY <1>5, <4>1
      <4>3. h[k + 1][f] = h[k][f]
        BY <2>9, <2>8, <3>1 DEF Alike
      <4> QED BY <2>2, <4>2, <4>3
    <3>2. CASE f \in F
      <4>1. h[k + 1][f] = g[J][f]
        BY <2>9, <2>8, <3>2 DEF Alike
      <4>2. J <= j /\ J \in 0..n /\ j \in J..n
        <5>1. J <= j <=> q[J] <= k + 1
          BY <1>5, <2>3, <2>10, <3>2
        <5> QED BY <1>0, <2>3, <5>1
      <4>3. ASSUME NEW i \in (J + 1)..j PROVE f \notin Touched(s[i])
        <5> SUFFICES ASSUME f \in Touched(s[i]) PROVE FALSE
          OBVIOUS
        <5>1. i \in 1..n /\ J < i /\ i <= j
          BY <1>0, <2>3, <4>2
        <5>2. Touched(s[J]) \cap Touched(s[i]) # {}
          BY <3>2
        <5>3. q[J] < q[i]
          BY <1>0, <2>3, <5>1, <5>2
        <5>4. q[i] <= k + 1
          BY <1>5, <2>10, <5>1
        <5>5. q[i] \in 1..n
          BY <1>0, <5>1
        <5> QED BY <1>0, <2>3, <5>3, <5>4, <5>5
      <4>4. g[j][f] = g[J][f]
        BY <1>4, <4>2, <4>3
      <4> QED BY <4>1, <4>4
    <3> QED BY <3>1, <3>2
  <2> QED BY <2>9, <2>10
<1>8. \A k \in 0..n : k \in S
  <2> HIDE DEF S
  <2>1. Nat \subseteq S
    BY <1>6, <1>7, CountingUp
  <2> QED BY <1>0, <2>1
<1>9. \A k \in 0..n : h[k].failed = "no" /\ Whole(h[k])
  BY <1>0, <1>8
<1>10. ASSUME NEW f \in Settings PROVE h[n][f] = g[n][f]
  <2>1. Level(s, q, f, n, n)
    <3>1. \A i \in 1..n : i <= n /\ q[i] <= n
      BY <1>0
    <3> QED BY <1>5, <3>1
  <2>2. n \in 0..n /\ n \in Nat /\ n \in S /\ n <= n
    BY <1>0, <1>8
  <2> QED BY <2>1, <2>2
<1> QED BY <1>0, <1>9, <1>10 DEF Ran, g, h, n

\* New gives the same for another order of the options, if those that touch a
\* common field keep theirs.
LEMMA OrderDoesNotShow ==
    ASSUME NEW s \in Seq(Options), NEW p \in Bijection(1..Len(s), 1..Len(s)),
           \A i, j \in 1..Len(s) :
               i < j /\ Touches(s[i]) \cap Touches(s[j]) # {}
               => (CHOOSE k \in 1..Len(s) : p[k] = i) < (CHOOSE k \in 1..Len(s) : p[k] = j)
    PROVE  New([i \in 1..Len(s) |-> s[p[i]]]) = New(s)
<1> DEFINE n == Len(s)
           N == 1..n
           t == [i \in N |-> s[p[i]]]
           q == [i \in N |-> CHOOSE k \in N : p[k] = i]
<1>0. n \in Nat /\ \A i \in N : s[i] \in Options
  OBVIOUS
<1>1. /\ p \in [N -> N] /\ \A i \in N : \E k \in N : p[k] = i
      /\ \A i, j \in N : p[i] = p[j] => i = j
  BY DEF Bijection, Injection, Surjection, IsInjective
<1>2. \A i \in N : q[i] \in N /\ p[q[i]] = i
  BY <1>1
<1>3. q \in [N -> N]
  BY <1>2
<1>4. ASSUME NEW i \in N, NEW j \in N, i < j, Touches(s[i]) \cap Touches(s[j]) # {}
      PROVE  q[i] < q[j]
  <2>1. q[i] = (CHOOSE k \in N : p[k] = i) /\ q[j] = (CHOOSE k \in N : p[k] = j)
    OBVIOUS
  <2>2. (CHOOSE k \in N : p[k] = i) < (CHOOSE k \in N : p[k] = j)
    BY <1>4
  <2> HIDE DEF q
  <2> QED BY <2>1, <2>2
<1> HIDE DEF q
<1>5. \A k \in N : q[p[k]] = k
  <2> SUFFICES ASSUME NEW k \in N PROVE q[p[k]] = k
    OBVIOUS
  <2>1. p[k] \in N
    BY <1>1
  <2>2. q[p[k]] \in N /\ p[q[p[k]]] = p[k]
    BY <1>2, <2>1
  <2> QED BY <1>1, <2>2
<1>6. \A i, j \in N : i < j /\ Touched(s[i]) \cap Touched(s[j]) # {} => q[i] < q[j]
  <2>1. \A i, j \in N : Touched(s[i]) \cap Touched(s[j]) # {} => Touches(s[i]) \cap Touches(s[j]) # {}
    BY DEF Touched
  <2> QED BY <1>4, <2>1
<1>7. /\ t \in Seq(Options) /\ Len(t) = n /\ \A k \in N : t[k] = s[p[k]]
  BY <1>0, <1>1
<1> HIDE DEF t
<1>8. \A i \in N : s[i] = t[q[i]]
  BY <1>2, <1>7
<1>9. \A a, b \in N : a < b /\ Touched(t[a]) \cap Touched(t[b]) # {} => p[a] < p[b]
  <2> SUFFICES ASSUME NEW a \in N, NEW b \in N, a < b, Touched(t[a]) \cap Touched(t[b]) # {}
               PROVE  p[a] < p[b]
    OBVIOUS
  <2>0. a # b
    BY <1>0
  <2>1. p[a] \in N /\ p[b] \in N /\ p[a] # p[b]
    BY <1>1, <2>0
  <2>2. Touched(s[p[b]]) \cap Touched(s[p[a]]) # {}
    BY <1>7
  <2>3. p[b] < p[a] => q[p[b]] < q[p[a]]
    BY <1>6, <2>1, <2>2
  <2>4. q[p[b]] = b /\ q[p[a]] = a
    BY <1>5
  <2> QED BY <1>0, <2>1, <2>3, <2>4
<1>10. Arranged(s, t, p, q)
  BY <1>1, <1>2, <1>3, <1>5, <1>6, <1>7 DEF Arranged
<1>11. Arranged(t, s, q, p)
  BY <1>1, <1>2, <1>3, <1>5, <1>7, <1>8, <1>9 DEF Arranged
<1> HIDE DEF n, N
<1>12. CASE Ran(s, Len(s))
  <2>1. Ran(t, Len(t)) /\ \A f \in Settings : Configs(t)[n][f] = Configs(s)[n][f]
    BY <1>7, <1>10, <1>12, SameFields DEF n
  <2>2. n \in 0..n
    BY <1>0
  <2> DEFINE c == Configs(s)[n]
             d == Configs(t)[n]
  <2>3. c.failed = "no" /\ d.failed = "no" /\ Whole(c) /\ Whole(d)
    BY <1>7, <1>12, <2>1, <2>2 DEF Ran, n
  <2> HIDE DEF c, d
  <2>4. \A f \in Fields : c[f] = d[f]
    BY <2>1, <2>3 DEF Settings, c, d
  <2>5. c = d
    BY <2>3, <2>4 DEF Whole
  <2> QED BY <1>7, <2>5 DEF New, c, d, n, t, N
<1>13. CASE ~Ran(s, Len(s))
  <2>1. ~Ran(t, Len(t))
    BY <1>7, <1>11, <1>13, SameFields
  <2>2. Configs(s)[Len(s)].failed = "yes"
    BY <1>13, RanAll
  <2>3. Configs(t)[Len(t)].failed = "yes"
    BY <1>7, <2>1, RanAll
  <2>4. New(s) = NoClient /\ New(t) = NoClient
    BY <2>2, <2>3 DEF New
  <2> QED BY <2>4 DEF t, n, N
<1> QED BY <1>12, <1>13

-----------------------------------------------------------------------------
(* What is asked.                                                          *)

DigitSet == {Digits[i] : i \in 1..10}

\* the characters of a query's texts, written-out numbers included
Chars == Characters \cup DigitSet

\* w is the recursion of Itoa up to n
Writing(n, w) ==
    w = [m \in 0..n |-> IF m < 10 THEN <<Digits[m + 1]>>
                        ELSE Append(w[m \div 10], Digits[(m % 10) + 1])]

\* Every number can be written.
LEMMA WritingExists == \A n \in Nat : \E w : Writing(n, w)
<1> DEFINE S == {n \in Nat : \E w : Writing(n, w)}
<1>1. 0 \in S
  <2> DEFINE w == [m \in 0..0 |-> <<Digits[m + 1]>>]
  <2>1. ASSUME NEW m \in 0..0 PROVE m < 10
    OBVIOUS
  <2>2. Writing(0, w)
    BY <2>1 DEF Writing
  <2> QED BY <2>2
<1>2. ASSUME NEW n \in Nat, n \in S PROVE n + 1 \in S
  <2>1. PICK w : Writing(n, w)
    BY <1>2
  <2> DEFINE last == IF n + 1 < 10 THEN <<Digits[(n + 1) + 1]>>
                     ELSE Append(w[(n + 1) \div 10], Digits[((n + 1) % 10) + 1])
             v == [m \in 0..(n + 1) |-> IF m = n + 1 THEN last ELSE w[m]]
  <2>2. ASSUME NEW m \in 0..(n + 1), ~(m < 10) PROVE m \div 10 \in 0..n /\ m \div 10 # n + 1 /\ m \div 10 < m
    <3>1. m \in Nat /\ m >= 10
      BY <2>2
    <3>2. m \div 10 \in Int /\ m \div 10 >= 0 /\ m \div 10 < m
      BY <3>1
    <3> QED BY <3>1, <3>2
  <2>3. ASSUME NEW m \in 0..(n + 1)
        PROVE  v[m] = IF m < 10 THEN <<Digits[m + 1]>> ELSE Append(v[m \div 10], Digits[(m % 10) + 1])
    <3> HIDE DEF last
    <3>1. ~(m < 10) => v[m \div 10] = w[m \div 10]
      <4>1. ~(m < 10) => m \div 10 \in 0..n /\ m \div 10 # n + 1 /\ m \div 10 \in 0..(n + 1)
        BY <2>2
      <4> QED BY <4>1
    <3>2. CASE m = n + 1
      <4>1. v[m] = last
        BY <3>2
      <4> HIDE DEF v
      <4> QED BY <3>1, <3>2, <4>1 DEF last
    <3>3. CASE m # n + 1
      <4>1. v[m] = w[m] /\ m \in 0..n
        BY <3>3
      <4>2. w[m] = IF m < 10 THEN <<Digits[m + 1]>> ELSE Append(w[m \div 10], Digits[(m % 10) + 1])
        BY <2>1, <4>1 DEF Writing
      <4> HIDE DEF v
      <4> QED BY <3>1, <4>1, <4>2
    <3> QED BY <3>2, <3>3
  <2>4. v = [m \in 0..(n + 1) |-> v[m]]
    OBVIOUS
  <2> HIDE DEF v
  <2>5. Writing(n + 1, v)
    BY <2>3, <2>4 DEF Writing
  <2> QED BY <2>5
<1> HIDE DEF S
<1>3. Nat \subseteq S
  BY <1>1, <1>2, CountingUp
<1> QED BY <1>3 DEF S

\* A number is written with digits.
LEMMA ItoaGives ==
    ASSUME NEW n \in Nat
    PROVE  Itoa(n) \in Seq(Chars)
<1> DEFINE w == CHOOSE w : Writing(n, w)
<1>1. Itoa(n) = w[n]
  BY DEF Itoa, Writing
<1>2. Writing(n, w)
  BY WritingExists
<1> HIDE DEF w
<1>3. ASSUME NEW d \in 0..9 PROVE Digits[d + 1] \in Chars
  BY DEF Chars, DigitSet
<1> DEFINE S == {m \in Nat : \A k \in 0..m : k <= n => w[k] \in Seq(Chars)}
<1>4. ASSUME NEW m \in 0..n, \A k \in 0..n : k < m => w[k] \in Seq(Chars)
      PROVE  w[m] \in Seq(Chars)
  <2>1. w[m] = IF m < 10 THEN <<Digits[m + 1]>> ELSE Append(w[m \div 10], Digits[(m % 10) + 1])
    BY <1>2 DEF Writing
  <2>2. CASE m < 10
    <3>1. Digits[m + 1] \in Chars
      BY <1>3, <2>2
    <3> HIDE DEF Chars
    <3> QED BY <2>1, <2>2, <3>1
  <2>3. CASE ~(m < 10)
    <3>1. m \in Nat /\ m >= 10
      BY <2>3
    <3>2. m \div 10 \in Int /\ m \div 10 >= 0 /\ m \div 10 < m
      BY <3>1
    <3>3. m % 10 \in 0..9
      BY <3>1
    <3>4. Digits[(m % 10) + 1] \in Chars
      BY <1>3, <3>3
    <3>5. m \div 10 \in 0..n /\ m \div 10 < m
      BY <3>1, <3>2
    <3>6. w[m \div 10] \in Seq(Chars)
      BY <1>4, <3>5
    <3> QED BY <2>1, <2>3, <3>4, <3>6
  <2> QED BY <2>2, <2>3
<1>5. 0 \in S
  <2>1. w[0] \in Seq(Chars)
    BY <1>4
  <2> QED BY <2>1
<1>6. ASSUME NEW m \in Nat, m \in S PROVE m + 1 \in S
  <2>1. m + 1 <= n => w[m + 1] \in Seq(Chars)
    BY <1>4, <1>6
  <2> QED BY <1>6, <2>1
<1> HIDE DEF S
<1>7. Nat \subseteq S
  BY <1>5, <1>6, CountingUp
<1>8. w[n] \in Seq(Chars)
  <2>1. n \in S /\ n \in 0..n
    BY <1>7
  <2> QED BY <2>1 DEF S
<1> QED BY <1>1, <1>8

\* The names the calls use.
LEMMA NamesUsed ==
    {"billId", "count", "endDate", "endMonth", "externalReferenceUid", "overdueStatus", "refundStatus",
     "repaymentStatus", "requestId", "start", "startDate", "startMonth", "status", "transactionType",
     "type"} \subseteq Names
<1>1. \A i \in 1..15 : KeyOrder[i] \in Names
  BY NamesAre
<1>2. /\ KeyOrder[1] = "billId" /\ KeyOrder[2] = "count" /\ KeyOrder[3] = "endDate"
      /\ KeyOrder[4] = "endMonth" /\ KeyOrder[5] = "externalReferenceUid" /\ KeyOrder[6] = "overdueStatus"
      /\ KeyOrder[7] = "refundStatus" /\ KeyOrder[8] = "repaymentStatus" /\ KeyOrder[9] = "requestId"
      /\ KeyOrder[10] = "start" /\ KeyOrder[11] = "startDate" /\ KeyOrder[12] = "startMonth"
      /\ KeyOrder[13] = "status" /\ KeyOrder[14] = "transactionType" /\ KeyOrder[15] = "type"
  BY DEF KeyOrder
<1> QED BY <1>1, <1>2

\* Texts and lists of texts as a query's values.
LEMMA TextsIn ==
    /\ \A v \in Seq(Characters) : v \in Seq(Chars)
    /\ \A vs \in Seq(Seq(Characters)) : vs \in Seq(Seq(Chars))
    /\ \A v \in Seq(Chars) : <<v>> \in Seq(Seq(Chars))
    /\ \A v \in Seq(Characters) : SetUnlessEmpty(v) \in Seq(Seq(Chars))
    /\ \A c \in Characters : <<<<c>>>> \in Seq(Seq(Chars))
    /\ <<>> \in Seq(Seq(Chars))
<1>1. \A v \in Seq(Characters) : v \in Seq(Chars)
  BY DEF Chars
<1>2. ASSUME NEW vs \in Seq(Seq(Characters)) PROVE vs \in Seq(Seq(Chars))
  BY <1>1
<1> DEFINE X == Seq(Chars)
<1> HIDE DEF X
<1>3. \A v \in X : <<v>> \in Seq(X)
  OBVIOUS
<1>4. <<>> \in Seq(X)
  OBVIOUS
<1>5. \A v \in Seq(Characters) : SetUnlessEmpty(v) \in Seq(X)
  BY <1>1, <1>3, <1>4 DEF SetUnlessEmpty, X
<1>6. ASSUME NEW c \in Characters PROVE <<<<c>>>> \in Seq(X)
  <2>1. <<c>> \in X
    BY DEF X, Chars
  <2> QED BY <1>3, <2>1
<1> QED BY <1>1, <1>2, <1>3, <1>4, <1>5, <1>6 DEF X

\* A query stays one when a name is given other values.
LEMMA SetsValues ==
    ASSUME NEW q \in Values(Chars), NEW k \in Names, NEW vs \in Seq(Seq(Chars))
    PROVE  [q EXCEPT ![k] = vs] \in Values(Chars)
BY DEF Values

\* Nothing asked is a query.
LEMMA NoneIn == None \in Values(Chars)
BY TextsIn DEF None, Values

\* Every call by identifiers asks a query.
LEMMA IdsAsk ==
    ASSUME NEW p, p.rid \in Seq(Characters), p.uid \in Seq(Characters)
    PROVE  /\ ByIds(p) \in Values(Chars)
           /\ [None EXCEPT !["externalReferenceUid"] = <<p.uid>>] \in Values(Chars)
           /\ buildBillsUnpaidQuery(p) \in Values(Chars)
           /\ p.type \in Characters => [ByIds(p) EXCEPT !["transactionType"] = <<<<p.type>>>>] \in Values(Chars)
<1>1. <<p.rid>> \in Seq(Seq(Chars)) /\ <<p.uid>> \in Seq(Seq(Chars)) /\ SetUnlessEmpty(p.uid) \in Seq(Seq(Chars))
  BY TextsIn
<1>2. ByIds(p) \in Values(Chars)
  BY <1>1, NoneIn, NamesUsed DEF ByIds, Values
<1>3. [None EXCEPT !["externalReferenceUid"] = <<p.uid>>] \in Values(Chars)
  BY <1>1, NoneIn, NamesUsed, SetsValues
<1>4. buildBillsUnpaidQuery(p) \in Values(Chars)
  BY <1>1, NoneIn, NamesUsed, SetsValues DEF buildBillsUnpaidQuery
<1>5. p.type \in Characters => [ByIds(p) EXCEPT !["transactionType"] = <<<<p.type>>>>] \in Values(Chars)
  BY <1>2, TextsIn, NamesUsed, SetsValues
<1> QED BY <1>2, <1>3, <1>4, <1>5

\* Positions and sizes of a page, as text.
LEMMA NumbersIn ==
    ASSUME NEW n \in Int
    PROVE  /\ <<Itoa(IF n <= 0 THEN DefaultStart ELSE n)>> \in Seq(Seq(Chars))
           /\ <<Itoa(IF n <= 0 THEN DefaultCount ELSE n)>> \in Seq(Seq(Chars))
           /\ (IF n > 0 THEN <<Itoa(n)>> ELSE <<>>) \in Seq(Seq(Chars))
<1>1. (IF n <= 0 THEN DefaultStart ELSE n) \in Nat /\ (IF n <= 0 THEN DefaultCount ELSE n) \in Nat
  BY DEF DefaultStart, DefaultCount
<1>2. /\ Itoa(IF n <= 0 THEN DefaultStart ELSE n) \in Seq(Chars)
      /\ Itoa(IF n <= 0 THEN DefaultCount ELSE n) \in Seq(Chars)
      /\ n > 0 => Itoa(n) \in Seq(Chars)
  BY <1>1, ItoaGives
<1> QED BY <1>2, TextsIn

\* Every call with a page or a list asks a query.
LEMMA ListsAsk ==
    /\ \A p \in Inputs.balance : buildBalanceHistoryQuery(p) \in Values(Chars)
    /\ \A p \in Inputs.bills : buildBillsQuery(p) \in Values(Chars)
    /\ \A p \in Inputs.bill : buildBillDetailQuery(p) \in Values(Chars)
    /\ \A p \in Inputs.transactions : buildTransactionsQuery(p) \in Values(Chars)
<1> DEFINE V == Seq(Seq(Chars))
<1> HIDE DEF V
<1>1. ASSUME NEW p \in Inputs.balance PROVE buildBalanceHistoryQuery(p) \in Values(Chars)
  <2>1. /\ <<p.uid>> \in V /\ <<<<p.type>>>> \in V /\ SetUnlessEmpty(p.rid) \in V
        /\ <<Itoa(IF p.start <= 0 THEN DefaultStart ELSE p.start)>> \in V
        /\ <<Itoa(IF p.count <= 0 THEN DefaultCount ELSE p.count)>> \in V
    BY InputsAssumption, TextsIn, NumbersIn DEF V
  <2> QED BY <2>1, NoneIn, NamesUsed DEF buildBalanceHistoryQuery, Values, V
<1>2. ASSUME NEW p \in Inputs.bills PROVE buildBillsQuery(p) \in Values(Chars)
  <2>1. /\ SetUnlessEmpty(p.uid) \in V /\ SetUnlessEmpty(p.startMonth) \in V
        /\ SetUnlessEmpty(p.endMonth) \in V /\ p.status \in V /\ p.repaymentStatus \in V
        /\ p.overdueStatus \in V /\ p.refundStatus \in V
    BY InputsAssumption, TextsIn DEF V
  <2> QED BY <2>1, NoneIn, NamesUsed DEF buildBillsQuery, Values, V
<1>3. ASSUME NEW p \in Inputs.bill PROVE buildBillDetailQuery(p) \in Values(Chars)
  <2>1. /\ <<p.billId>> \in V /\ <<p.uid>> \in V
        /\ (IF p.start > 0 THEN <<Itoa(p.start)>> ELSE <<>>) \in V
        /\ (IF p.count > 0 THEN <<Itoa(p.count)>> ELSE <<>>) \in V
    BY InputsAssumption, TextsIn, NumbersIn DEF V
  <2> QED BY <2>1, NoneIn, NamesUsed DEF buildBillDetailQuery, Values, V
<1>4. ASSUME NEW p \in Inputs.transactions PROVE buildTransactionsQuery(p) \in Values(Chars)
  <2>1. /\ <<<<p.type>>>> \in V /\ SetUnlessEmpty(p.uid) \in V
        /\ SetUnlessEmpty(p.startDate) \in V /\ SetUnlessEmpty(p.endDate) \in V
        /\ <<Itoa(IF p.start <= 0 THEN DefaultStart ELSE p.start)>> \in V
        /\ <<Itoa(IF p.count <= 0 THEN DefaultCount ELSE p.count)>> \in V
    BY InputsAssumption, TextsIn, NumbersIn DEF V
  <2> QED BY <2>1, NoneIn, NamesUsed DEF buildTransactionsQuery, Values, V
<1> QED BY <1>1, <1>2, <1>3, <1>4

-----------------------------------------------------------------------------
(* The client and what it sends.                                           *)

\* what was sent goes to the client's address, under the name of its key
Addressed == sent.host = client.baseURL /\ (sent.auth.form = "keyed" => sent.auth.keyID = client.signer.keyID)

\* m is what was asked in a, written for the gateway: a query and its canonical
\* form, or nothing, or a plaintext closed for the key pair pub
WrittenFor(pub, a, m) ==
    \/ /\ m.method = "GET" /\ m.path \notin EncryptedPaths /\ a.query \in Values(Chars)
       /\ m.query = EncodeWireQueryRFC3986(a.query)
       /\ m.auth.sig.over = CanonicalQueryFirstValue(a.query)
    \/ m.method = "POST" /\ m.path \notin EncryptedPaths
    \/ /\ m.method = "POST" /\ a.plain \in Seq(Nat) /\ m.auth.sig.over = m.body
       /\ \E key \in RandomAESKey : /\ m.header = Marshal(a.plain, pub, key).header
                                     /\ m.body = Marshal(a.plain, pub, key).body

IInv ==
    /\ pc \in {"options", "ready", "failed", "sent"} /\ given \in Seq(Options)
    /\ pc \in {"ready", "sent"} => Made(given, client)
    /\ pc # "options" => client = New(given)
    /\ (sent # Nothing) = (pc = "sent")
    /\ pc = "sent" => Addressed /\ WrittenFor(client.encryptAtomePub, asked, sent)

\* Every signed request goes to the client's address, under the name of its key.
LEMMA RequestsAddressed ==
    ASSUME NEW m, (\E path, q : m = DoSignedGET(path, q))
                  \/ (\E path, body : m = DoSigned(path, body))
                  \/ (\E path, plain, key : m = DoEncryptedSigned(path, plain, key))
    PROVE  /\ m # Nothing /\ m.host = client.baseURL
           /\ m.auth.form = "keyed" => m.auth.keyID = client.signer.keyID
<1>1. ASSUME NEW over
      PROVE  Authorization(over).form = "keyed" => Authorization(over).keyID = client.signer.keyID
  BY DEF Authorization, SchemeRawBase64, SchemeAtomeKeyed
<1>2. Nothing.method = "none"
  BY DEF Nothing
<1>3. m.method \in {"GET", "POST"} /\ m.host = client.baseURL /\ \E over : m.auth = Authorization(over)
  BY DEF DoSignedGET, DoSigned, DoEncryptedSigned
<1> QED BY <1>1, <1>2, <1>3

\* What was signed, in whichever form it is sent.
LEMMA SignedOver ==
    ASSUME NEW over
    PROVE  Authorization(over).sig.over = over
BY DEF Authorization, SchemeRawBase64, SchemeAtomeKeyed, Sign

\* Every signed request is what it was asked for.
LEMMA RequestsWritten ==
    /\ \A path, q, a :
          path \notin EncryptedPaths /\ q \in Values(Chars) /\ a.query = q
          => WrittenFor(client.encryptAtomePub, a, DoSignedGET(path, q))
    /\ \A path, body, a :
          path \notin EncryptedPaths => WrittenFor(client.encryptAtomePub, a, DoSigned(path, body))
    /\ \A path, a : \A plain \in Seq(Nat), key \in RandomAESKey :
          a.plain = plain
          => WrittenFor(client.encryptAtomePub, a, DoEncryptedSigned(path, plain, key))
<1>1. ASSUME NEW path, NEW q, NEW a, path \notin EncryptedPaths, q \in Values(Chars), a.query = q
      PROVE  WrittenFor(client.encryptAtomePub, a, DoSignedGET(path, q))
  <2> DEFINE m == DoSignedGET(path, q)
  <2>1. /\ m.method = "GET" /\ m.path = path /\ m.query = EncodeWireQueryRFC3986(q)
        /\ m.auth = Authorization(CanonicalQueryFirstValue(q))
    BY DEF DoSignedGET
  <2> HIDE DEF m
  <2>2. m.auth.sig.over = CanonicalQueryFirstValue(q)
    BY <2>1, SignedOver
  <2>3. WrittenFor(client.encryptAtomePub, a, m)
    BY <1>1, <2>1, <2>2 DEF WrittenFor
  <2> QED BY <2>3 DEF m
<1>2. ASSUME NEW path, NEW body, NEW a, path \notin EncryptedPaths
      PROVE  WrittenFor(client.encryptAtomePub, a, DoSigned(path, body))
  <2>1. DoSigned(path, body).method = "POST" /\ DoSigned(path, body).path = path
    BY DEF DoSigned
  <2> QED BY <1>2, <2>1 DEF WrittenFor
<1>3. ASSUME NEW path, NEW plain \in Seq(Nat), NEW key \in RandomAESKey, NEW a, a.plain = plain
      PROVE  WrittenFor(client.encryptAtomePub, a, DoEncryptedSigned(path, plain, key))
  <2> DEFINE m == DoEncryptedSigned(path, plain, key)
             e == Marshal(plain, client.encryptAtomePub, key)
  <2>1. m.method = "POST" /\ m.header = e.header /\ m.body = e.body /\ m.auth = Authorization(e.body)
    BY DEF DoEncryptedSigned
  <2> HIDE DEF m, e
  <2>2. m.auth.sig.over = m.body
    BY <2>1, SignedOver
  <2>3. WrittenFor(client.encryptAtomePub, a, m)
    BY <1>3, <2>1, <2>2 DEF WrittenFor, e
  <2> QED BY <2>3 DEF m
<1> QED BY <1>1, <1>2, <1>3

\* what a step that sends does
Sends ==
    /\ pc = "ready" /\ pc' = "sent" /\ UNCHANGED <<given, client>>
    /\ \/ \E path, q : sent' = DoSignedGET(path, q)
       \/ \E path, body : sent' = DoSigned(path, body)
       \/ \E path, plain, key : sent' = DoEncryptedSigned(path, plain, key)
    /\ WrittenFor(client.encryptAtomePub, asked', sent')

\* A step adds an option, builds the client, sends, refuses, or returns.
LEMMA Steps ==
    ASSUME Next
    PROVE  \/ \E o \in Options : AddOption(o)
           \/ Build
           \/ Sends
           \/ Refused
           \/ \E result \in Results : Returned(result)
<1>1. ASSUME NEW path, NEW accepted, NEW q, Get(path, accepted, q),
             path \notin EncryptedPaths, q \in Values(Chars)
      PROVE  Sends \/ Refused
  <2>1. CASE accepted
    <3> DEFINE a == [query |-> q, plain |-> <<>>]
    <3>1. sent' = DoSignedGET(path, q) /\ asked' = a /\ a.query = q
      BY <1>1, <2>1 DEF Get, Send
    <3> HIDE DEF a
    <3>2. WrittenFor(client.encryptAtomePub, a, DoSignedGET(path, q))
      BY <1>1, <3>1, RequestsWritten
    <3>3. pc = "ready" /\ pc' = "sent" /\ UNCHANGED <<given, client>>
      BY <1>1, <2>1 DEF Get, Send
    <3> QED BY <3>1, <3>2, <3>3 DEF Sends
  <2>2. CASE ~accepted
    BY <1>1, <2>2 DEF Get
  <2> QED BY <2>1, <2>2
<1>2. ASSUME NEW p \in Inputs.ids,
             \/ QueryAuth(p) \/ QueryCapture(p) \/ QueryVoidAuth(p) \/ QueryReAuth(p)
             \/ QueryRefund(p) \/ QueryRepayment(p) \/ QueryInformationResult(p)
             \/ QueryResult(p) \/ BillsUnpaid(p)
      PROVE  Sends \/ Refused
  <2>1. /\ ByIds(p) \in Values(Chars) /\ buildBillsUnpaidQuery(p) \in Values(Chars)
        /\ [None EXCEPT !["externalReferenceUid"] = <<p.uid>>] \in Values(Chars)
    BY InputsAssumption, IdsAsk
  <2>2. {"/query-auth", "/query-capture", "/query-voidAuth", "/query-reAuth", "/query-refund",
         "/repayment-result", "/credit-result", "/credit-information-result", "/billUnpaid"}
          \cap EncryptedPaths = {}
    BY DEF EncryptedPaths
  <2> QED BY <1>1, <1>2, <2>1, <2>2
          DEF QueryAuth, QueryCapture, QueryVoidAuth, QueryReAuth, QueryRefund, QueryRepayment,
              QueryInformationResult, QueryResult, BillsUnpaid
<1>3. ASSUME NEW p, \/ p \in Inputs.balance /\ BalanceHistory(p)
                    \/ p \in Inputs.bills /\ Bills(p)
                    \/ p \in Inputs.bill /\ BillDetailWithParams(p)
                    \/ p \in Inputs.transactions /\ (Transactions(p) \/ TransactionDetail(p))
      PROVE  Sends \/ Refused
  <2>1. p \in Inputs.transactions => [ByIds(p) EXCEPT !["transactionType"] = <<<<p.type>>>>] \in Values(Chars)
    BY InputsAssumption, IdsAsk
  <2>2. {"/query-balance-history", "/bills", "/billDetail", "/transactions", "/transactionDetail"}
          \cap EncryptedPaths = {}
    BY DEF EncryptedPaths
  <2> QED BY <1>1, <1>3, <2>1, <2>2, ListsAsk
          DEF BalanceHistory, Bills, BillDetailWithParams, Transactions, TransactionDetail
<1>4. CASE HeartBeat
  <2>1. sent' = DoSignedGET("/heart-beat", None) /\ asked' = NotAsked /\ NotAsked.query = None
    BY <1>4 DEF HeartBeat, Send, NotAsked
  <2>2. WrittenFor(client.encryptAtomePub, NotAsked, DoSignedGET("/heart-beat", None))
    BY <2>1, NoneIn, RequestsWritten DEF EncryptedPaths
  <2>3. pc = "ready" /\ pc' = "sent" /\ UNCHANGED <<given, client>>
    BY <1>4 DEF HeartBeat, Send
  <2> QED BY <2>1, <2>2, <2>3 DEF Sends
<1>5. CASE ListBanks
  <2>1. sent' = DoSigned("/va/getList", <<"{", "}">>) /\ asked' = NotAsked
    BY <1>5 DEF ListBanks, Send
  <2>2. WrittenFor(client.encryptAtomePub, NotAsked, DoSigned("/va/getList", <<"{", "}">>))
    BY RequestsWritten DEF EncryptedPaths
  <2>3. pc = "ready" /\ pc' = "sent" /\ UNCHANGED <<given, client>>
    BY <1>5 DEF ListBanks, Send
  <2> QED BY <2>1, <2>2, <2>3 DEF Sends
<1>6. ASSUME NEW path, NEW p \in Inputs.post, invokeEncryptedPost(path, p)
      PROVE  Sends \/ Refused
  <2>1. CASE client.encryptAtomePub = "none"
    BY <1>6, <2>1 DEF invokeEncryptedPost
  <2>2. CASE client.encryptAtomePub # "none"
    <3> DEFINE a == [query |-> None, plain |-> p.plain]
    <3>1. PICK key \in RandomAESKey : Send(DoEncryptedSigned(path, p.plain, key), a)
      BY <1>6, <2>2 DEF invokeEncryptedPost
    <3>2. a.plain = p.plain /\ p.plain \in Seq(Nat)
      BY InputsAssumption
    <3> HIDE DEF a
    <3>3. WrittenFor(client.encryptAtomePub, a, DoEncryptedSigned(path, p.plain, key))
      BY <3>2, RequestsWritten
    <3>4. /\ sent' = DoEncryptedSigned(path, p.plain, key) /\ asked' = a
          /\ pc = "ready" /\ pc' = "sent" /\ UNCHANGED <<given, client>>
      BY <1>6, <3>1 DEF invokeEncryptedPost, Send
    <3> QED BY <3>3, <3>4 DEF Sends
  <2> QED BY <2>1, <2>2
<1>7. checkConfigured => Refused
  BY DEF checkConfigured
<1> QED BY <1>2, <1>3, <1>4, <1>5, <1>6, <1>7 DEF Next

\* The invariant holds before the first option is given.
LEMMA InitInv == Init => IInv
BY DEF Init, IInv

\* Every step keeps it.
LEMMA NextInv == IInv /\ [Next]_vars => IInv'
<1> SUFFICES ASSUME IInv, [Next]_vars PROVE IInv'
  OBVIOUS
<1>1. CASE UNCHANGED vars
  BY <1>1 DEF vars, IInv, Addressed
<1>2. ASSUME NEW o \in Options, AddOption(o) PROVE IInv'
  BY <1>2 DEF AddOption, IInv
<1>3. CASE Build
  <2>1. New(given).failed = "yes" \/ Made(given, New(given))
    BY NewMakes DEF IInv
  <2>2. client' = New(given) /\ given' = given /\ sent' = sent /\ sent = Nothing
    BY <1>3 DEF Build, IInv
  <2>3. CASE client'.failed = "yes"
    BY <1>3, <2>2, <2>3 DEF Build, IInv
  <2>4. CASE client'.failed # "yes"
    BY <1>3, <2>1, <2>2, <2>4 DEF Build, IInv
  <2> QED BY <2>3, <2>4
<1>4. CASE Sends
  <2>1. Addressed' /\ sent' # Nothing
    BY <1>4, RequestsAddressed DEF Sends, Addressed
  <2>2. WrittenFor(client'.encryptAtomePub, asked', sent')
    BY <1>4 DEF Sends
  <2> QED BY <1>4, <2>1, <2>2 DEF Sends, IInv
<1>5. CASE Refused
  BY <1>5 DEF Refused, IInv, Addressed
<1>6. ASSUME NEW result \in Results, Returned(result) PROVE IInv'
  BY <1>6 DEF Returned, IInv
<1> QED BY <1>1, <1>2, <1>3, <1>4, <1>5, <1>6, Steps

\* For any options: a client exists only complete, and only such a client sends
\* (New and finalizeConfig in client.go).
THEOREM ClientsAreComplete == Spec => []TypeOK
<1>1. IInv => TypeOK
  BY DEF IInv, TypeOK, Made
<1> QED BY <1>1, InitInv, NextInv, PTL DEF Spec

\* For any options, in any number and order: what is sent goes to the host of the
\* last WithBaseURL, or else of the last WithEnvironment, and a keyed
\* Authorization names the last WithKeyID, or else the signer's own identifier.
THEOREM MessagesAreAddressedAsAsked == Spec => []AddressedAsAsked
<1>1. IInv => AddressedAsAsked
  BY DEF IInv, AddressedAsAsked, Addressed, Made, Last1
<1> QED BY <1>1, InitInv, NextInv, PTL DEF Spec

\* For any options: New makes the same client, or fails, whatever the order of
\* options that do not touch a common field (the loop of New in client.go).
THEOREM OptionOrderIsIrrelevant == Spec => []OrderIrrelevant
<1>1. IInv => OrderIrrelevant
  <2> SUFFICES ASSUME IInv, pc \in {"ready", "failed"},
                      NEW p \in Bijection(1..Len(given), 1..Len(given)), Reordered(p)
               PROVE  New([i \in 1..Len(given) |-> given[p[i]]]) = client
    BY DEF OrderIrrelevant
  <2>1. given \in Seq(Options) /\ client = New(given)
    BY DEF IInv
  <2>2. New([i \in 1..Len(given) |-> given[p[i]]]) = New(given)
    BY <2>1, OrderDoesNotShow DEF Reordered
  <2> QED BY <2>1, <2>2
<1> QED BY <1>1, InitInv, NextInv, PTL DEF Spec

\* For any options, inputs of any length and number, and any random keys: the
\* gateway reads every query as it was asked and finds the canonical form signed,
\* which is the query on the wire when no name is repeated; an encrypted body opens
\* to its plaintext, and what was signed is the ciphertext (DoSignedGET and
\* DoEncryptedSigned in doer.go).
THEOREM GatewayReadsWhatWasAsked == Spec => []GatewayVerifies
<1>1. IInv => GatewayVerifies
  <2> SUFFICES ASSUME IInv, sent # Nothing PROVE GatewayVerifies
    BY DEF GatewayVerifies
  <2>1. WrittenFor(client.encryptAtomePub, asked, sent)
    BY DEF IInv
  <2>2. ASSUME sent.method = "GET"
        PROVE  /\ ParseQuery(sent.query) = asked.query
               /\ CanonicalQueryFirstValue(ParseQuery(sent.query)) = sent.auth.sig.over
               /\ CanonicalQuery(asked.query).err = "nil" => CanonicalQuery(asked.query).text = sent.query
    <3>1. /\ asked.query \in Values(Chars) /\ sent.query = EncodeWireQueryRFC3986(asked.query)
          /\ sent.auth.sig.over = CanonicalQueryFirstValue(asked.query)
      BY <2>1, <2>2 DEF WrittenFor
    <3>2. ParseQuery(sent.query) = asked.query
      BY <3>1, QueriesAreReadBack
    <3>3. CanonicalQuery(asked.query).err = "nil" => CanonicalQuery(asked.query).text = sent.query
      BY <3>1, SingleValuesAreCanonical
    <3> QED BY <3>1, <3>2, <3>3
  <2>3. ASSUME sent.path \in EncryptedPaths, client.encryptAtomePub = GatewayKeys
        PROVE  /\ Unmarshal(sent.header, sent.body, GatewayKeys) = [err |-> "nil", plain |-> asked.plain]
               /\ sent.auth.sig.over = sent.body
    <3>1. /\ asked.plain \in Seq(Nat) /\ sent.auth.sig.over = sent.body
          /\ \E key \in RandomAESKey : /\ sent.header = Marshal(asked.plain, GatewayKeys, key).header
                                       /\ sent.body = Marshal(asked.plain, GatewayKeys, key).body
      BY <2>1, <2>3 DEF WrittenFor
    <3>2. PICK key \in RandomAESKey : /\ sent.header = Marshal(asked.plain, GatewayKeys, key).header
                                      /\ sent.body = Marshal(asked.plain, GatewayKeys, key).body
      BY <3>1
    <3>3. <<key, GatewayKeys>> \in DOMAIN Base64
      BY WrapAssumption
    <3>4. Unmarshal(sent.header, sent.body, GatewayKeys) = [err |-> "nil", plain |-> asked.plain]
      BY <3>1, <3>2, <3>3, EncryptedBodiesOpen
    <3> QED BY <3>1, <3>4
  <2> QED BY <2>2, <2>3 DEF GatewayVerifies
<1> QED BY <1>1, InitInv, NextInv, PTL DEF Spec
=============================================================================
