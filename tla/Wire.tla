-------------------------------- MODULE Wire --------------------------------
(***************************************************************************)
(* How a call is written for the gateway, and how it is read there: the    *)
(* canonical query and the query on the wire (sign/canonical.go), and the  *)
(* hybrid encryption of a body with its header (encrypt/).                 *)
(*                                                                         *)
(* A text is a sequence of characters; the name of a query parameter needs *)
(* no escaping and is one symbol. url.Values gives every name a sequence   *)
(* of texts, empty where the name was not set. AES, RSA and base64 are     *)
(* taken as perfect: a block or a key opens with the key it was closed     *)
(* with and with no other.                                                 *)
(***************************************************************************)
EXTENDS Integers, Sequences, SequencesExt

CONSTANTS
    Characters,         \* what a text may be made of
    BlockSize,          \* bytes of an AES block, 16
    AESKeyLen,          \* characters of an AES key, 32
    Base64              \* the base64 text of <<key, RSA key pair it is wrapped for>>

ASSUME BlockAssumption == BlockSize \in Nat \ {0} /\ AESKeyLen \in Nat

\* a wrapped key is a text of some length, and no two are written alike
ASSUME Base64Assumption ==
    \A a \in DOMAIN Base64 :
        /\ Base64[a] \in Seq(Characters) /\ Base64[a] # <<>>
        /\ \A b \in DOMAIN Base64 : Base64[a] = Base64[b] => a = b

\* the names of all query parameters, as sort.Strings orders them
KeyOrder == <<"billId", "count", "endDate", "endMonth", "externalReferenceUid",
              "overdueStatus", "refundStatus", "repaymentStatus", "requestId", "start",
              "startDate", "startMonth", "status", "transactionType", "type">>

Names == {KeyOrder[i] : i \in 1..Len(KeyOrder)}

None == [k \in Names |-> <<>>]                     \* no query parameters

Reserved == {"&", "=", "%", " ", "+", "/", ","}

isUnreserved_Plus(c) == c \notin Reserved \ {"+"}

isUnreserved(c) == c \notin Reserved

upperhex == [c \in Reserved |-> CASE c = "&" -> <<"2", "6">> [] c = "=" -> <<"3", "D">>
                                  [] c = "%" -> <<"2", "5">> [] c = " " -> <<"2", "0">>
                                  [] c = "+" -> <<"2", "B">> [] c = "/" -> <<"2", "F">>
                                  [] c = "," -> <<"2", "C">>]

rfc3986Escape(text) ==
    FlattenSeq([i \in 1..Len(text) |-> IF isUnreserved(text[i]) THEN <<text[i]>>
                                   ELSE <<"%">> \o upperhex[text[i]]])

-----------------------------------------------------------------------------
(* Queries.                                                                *)

Pair(k, text) == <<k, "=">> \o rfc3986Escape(text)

\* the keys in order, and a pair for each value of a key
SortedPairs(q) ==
    LET PairsOf(k) == [i \in 1..Len(q[k]) |-> Pair(k, q[k][i])]
    IN  FlattenSeq([i \in 1..Len(KeyOrder) |-> PairsOf(KeyOrder[i])])

JoinPairs(pairs) ==
    FlattenSeq([i \in 1..Len(pairs) |-> IF i = 1 THEN pairs[i] ELSE <<"&">> \o pairs[i]])

FirstValues(q) == [k \in Names |-> IF q[k] = <<>> THEN <<>> ELSE <<q[k][1]>>]

CanonicalQueryFirstValue(q) == JoinPairs(SortedPairs(FirstValues(q)))

\* the strict form: a parameter with several values is an error
CanonicalQuery(q) ==
    IF \E k \in Names : Len(q[k]) > 1
    THEN [err |-> "MultiValueQueryError", text |-> <<>>]
    ELSE [err |-> "nil", text |-> JoinPairs(SortedPairs(FirstValues(q)))]

EncodeWireQueryRFC3986(q) == JoinPairs(SortedPairs(q))

-----------------------------------------------------------------------------
(* Reading it back, as the gateway does.                                   *)

PutCharacter(parts, c, sep) ==
    IF c = sep THEN Append(parts, <<>>) ELSE [parts EXCEPT ![Len(parts)] = Append(@, c)]

Split(s, sep) ==
    LET parts[i \in 0..Len(s)] ==
            IF i = 0 THEN <<<<>>>> ELSE PutCharacter(parts[i - 1], s[i], sep)
    IN  parts[Len(s)]

IsEscape(a, b) == \E x \in Reserved : upperhex[x] = <<a, b>>

\* percent-decoding of a form value, where a bare "+" stands for a space: what was
\* decoded, and what is held of an escape that has begun; one that cannot be read
\* stays held. The escapes considered are those of reserved characters.
ReadCharacter(r, c) ==
    CASE Len(r.held) = 3 -> r
      [] Len(r.held) = 2 /\ ~IsEscape(r.held[2], c) -> [out |-> r.out, held |-> Append(r.held, c)]
      [] Len(r.held) = 2 /\ IsEscape(r.held[2], c) ->
            [out |-> Append(r.out, CHOOSE x \in Reserved : upperhex[x] = <<r.held[2], c>>),
             held |-> <<>>]
      [] Len(r.held) = 1 -> [out |-> r.out, held |-> <<"%", c>>]
      [] Len(r.held) = 0 /\ c = "%" -> [out |-> r.out, held |-> <<"%">>]
      [] Len(r.held) = 0 /\ c # "%" ->
            [out |-> Append(r.out, IF c = "+" THEN " " ELSE c), held |-> <<>>]

ReadAll(s) ==
    LET read[i \in 0..Len(s)] ==
            IF i = 0 THEN [out |-> <<>>, held |-> <<>>] ELSE ReadCharacter(read[i - 1], s[i])
    IN  read[Len(s)]

Unescape(s) == ReadAll(s).out

UnescapeFails(s) == ReadAll(s).held # <<>>

\* strings.Cut at the first "="
Cut(part) ==
    LET at == Min({i \in 1..Len(part) : part[i] = "="} \cup {Len(part) + 1}) IN
    [key |-> SubSeq(part, 1, at - 1), value |-> SubSeq(part, at + 1, Len(part))]

\* one more value for the part's name; an empty part is passed over
AddPart(q, part) ==
    IF part = <<>> THEN q
    ELSE LET kv == Cut(part) IN [q EXCEPT ![kv.key[1]] = Append(@, Unescape(kv.value))]

ParseQuery(wire) ==
    LET parts == Split(wire, "&")
        values[i \in 0..Len(parts)] ==
            IF i = 0 THEN None ELSE AddPart(values[i - 1], parts[i])
    IN  values[Len(parts)]

-----------------------------------------------------------------------------
(* Encrypted bodies.                                                       *)

pkcs5Pad(in) ==
    LET n == BlockSize - (Len(in) % BlockSize) IN in \o [i \in 1..n |-> n]

Bad == [err |-> "error", plain |-> <<>>]

pkcs5Unpad(in) ==
    LET n == in[Len(in)] IN
    IF /\ Len(in) # 0 /\ Len(in) % BlockSize = 0
       /\ n # 0 /\ n <= BlockSize
       /\ \A i \in Len(in) - n + 1..Len(in) : in[i] = n
    THEN [err |-> "nil", plain |-> SubSeq(in, 1, Len(in) - n)]
    ELSE Bad

EncryptBody(plain, key) == [key |-> key, blocks |-> pkcs5Pad(plain)]

DecryptBody(b64, key) ==
    IF Len(b64.blocks) = 0 \/ Len(b64.blocks) % BlockSize # 0 \/ key # b64.key THEN Bad
    ELSE pkcs5Unpad(b64.blocks)

Letters == {"A", "B"}                       \* 'A'..'Z'

ValidateAESKey(key) == Len(key) = AESKeyLen /\ \A i \in DOMAIN key : key[i] \in Letters

\* rejection sampling: any key of letters, each as likely as the next
RandomAESKey == [1..AESKeyLen -> Letters]

WrapAESKey(key, atomePub) == Base64[<<key, atomePub>>]

\* <<>> where the key pair is not the one the text was closed for
UnwrapAESKey(text, priv) ==
    LET keys == {pair \in DOMAIN Base64 : pair[2] = priv /\ Base64[pair] = text} IN
    IF keys = {} THEN <<>> ELSE (CHOOSE pair \in keys : TRUE)[1]

\* url.QueryEscape, which differs from rfc3986Escape on a space only: base64 has none
BuildEncryptHeader(text) == <<"symmetricKey", "=">> \o rfc3986Escape(text)

\* strings.TrimSpace
TrimSpace(text) ==
    LET kept == {i \in 1..Len(text) : text[i] # " "} IN
    IF kept = {} THEN <<>> ELSE SubSeq(text, Min(kept), Max(kept))

KeyOf(part) == TrimSpace(Cut(part).key)
ValueOf(part) == TrimSpace(Cut(part).value)

\* no "=", an empty key, or a value that cannot be unescaped
Malformed(part) ==
    \/ \A i \in 1..Len(part) : part[i] # "="
    \/ KeyOf(part) = <<>>
    \/ UnescapeFails(ValueOf(part))

\* blank parts are passed over, of parts with one key the last counts; an error where
\* a part is malformed or none is left
ParseEncryptHeader(header) ==
    LET parts == Split(header, ",")
        trimmed == [i \in 1..Len(parts) |-> TrimSpace(parts[i])]
        given == {i \in 1..Len(parts) : trimmed[i] # <<>>}
        LastOf(k) == trimmed[Max({i \in given : KeyOf(trimmed[i]) = k})]
    IN  IF given = {} \/ \E i \in given : Malformed(trimmed[i])
        THEN [err |-> "error", kv |-> <<>>]
        ELSE [err |-> "nil",
              kv |-> [k \in {KeyOf(trimmed[i]) : i \in given} |-> Unescape(ValueOf(LastOf(k)))]]

\* <<>>, an error, where the field is missing or blank
SymmetricKeyFrom(kv) ==
    IF <<"symmetricKey">> \in DOMAIN kv THEN kv[<<"symmetricKey">>] ELSE <<>>

Marshal(plain, atomePub, key) ==
    [header |-> BuildEncryptHeader(WrapAESKey(key, atomePub)), body |-> EncryptBody(plain, key)]

Unmarshal(header, body, priv) ==
    LET parsed == ParseEncryptHeader(header)
        wrapped == SymmetricKeyFrom(parsed.kv)
        key == UnwrapAESKey(wrapped, priv)
    IN  IF parsed.err # "nil" \/ wrapped = <<>> \/ ~ValidateAESKey(key) THEN Bad
        ELSE DecryptBody(body, key)
=============================================================================
