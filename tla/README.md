# A TLA+ verification of atome-fin-go-sdk

The repository is a Go client for the Atome payment gateway: it signs a request,
sends it over HTTP with retries, decodes the answer, polls an order to its end,
receives signed callbacks, and ships a mock gateway for partners' tests. This
directory holds TLA+ models of the parts that carry state and can be hard to get
right, the TLC runs that check them on small instances, and TLAPS proofs of the
most important results. `PROJECT.json` lists components, runs, mutants, the map
from definitions to source lines, findings, hazards and theorems. Paths below are
relative to `src/atomefin/`.

## 1. Inventory

| component | state | operations | what is hard | modelled in |
|---|---|---|---|---|
| signed call (`doer.go`, `errors.go`) | none between calls; within one: loop counter, context, timeout, classified error | `DoSigned`, `DoSignedGET`, `DoEncryptedSigned`, `signAndDispatch`, `dispatchAttempt`, `readAndClose` | cancellation and deadlines at any step, lost requests and bodies, what may be repeated | `Dispatch`, contract in `SignedCall` |
| retry policy (`transport/retry.go`) | immutable | `RetryStatus`, `RetryTransport`, `Backoff`, `Sleep` | timer racing the context | `Dispatch` |
| polling (`payment/payment.go`, wrappers in `payment`, `refund`, `repayment`) | round, delay, last response, the request struct's `RequestID` | `pollUntilTerminal`, four `...PollUntilTerminal` wrappers | re-submission of a POST, late copies, MaxWait against a late answer | `Poll` |
| mock server (`mock/server_dispatch.go`, `mock/transport.go`) | scenario, request log, replay cache | `serveHTTP`, `RoundTrip`, `SetScenario`, `Reset`, auto-callback | one goroutine per request, several critical sections per request | `MockServer` |
| replay cache (`mock/server_options.go`) | map and linked list | `Get`, `Put`, `Reset` | two structures kept in step, eviction | `IdempotencyCache`, `CacheHistory` |
| mock scenarios (`mock/scenarios*.go`) | `Sequence` has a position | `Respond`, callback events | the shape of each event | abstracted in `MockServer` |
| callback receiver (`callback/`) | configured verifiers; nothing per event | HTTP handlers, `Verify`, HMAC time window | key rotation, redelivery, acknowledging before the partner's function succeeded | `Callback` |
| mock callback firing (`mock/callback.go`) | none | `FireCallback` helpers | matches the receiver's checks | not modelled |
| submissions (`payment/`, `refund/`, `repayment/`, the POSTs of `credit/`, `virtualaccount/`) | the caller's request struct, into which `RequestID` and `PeriodType` are written | 14 service methods, 4 poll wrappers, their validators | an unlocked struct read in several steps, sums that wrap, stages of one order that must agree | `Requests`, `Services` |
| queries (`payment/query.go`, `bill/`, `transaction/`, the GETs of `credit/`, `refund/`, `repayment/`, `heartbeat.go`, `ListBanks`) | none | validate, build a query, one signed GET or POST | a query signed in one form and sent in another | `Queries`, `Wire` |
| transaction listing (`transaction/`) | position, rows collected | `TransactionsAll`, `Transactions`, `TransactionDetail` | rows that move between two pages, when to stop | `Paging` |
| client construction (`client.go`, `options.go`, `environment.go`) | configuration | options in order, then `finalizeConfig` | order of options | `Client`, run by `Queries` |
| signing, encryption (`sign/`, `encrypt/`) | keys | `Sign`, `Verify`, `Marshal`, `Unmarshal` | canonical and wire forms, escaping, padding, whose key | `Wire` (forms), `Client` (key rules); succeed-or-fail in `Dispatch` |
| observability (`transport/logging.go`, `slog.go`) | none | observer callbacks, redaction | a retry that is not reported | `retried` in `Dispatch`; the rest is formatting |
| spec loader, qa tooling (`internal/spec`, `qa/`) | none | test support | - | not modelled |

Interaction: a service validates and calls the signed call; the poll loop calls a
service once per round under its own context; the gateway (external, or the mock
server) answers and later posts a signed callback to the receiver in the partner's
process. Several goroutines share state in two places: the mock server, which locks it,
and a request struct that a partner hands to two calls at once, which nothing locks. The
client is immutable after construction.

What makes each part correct, in a sentence:

- signed call: it repeats only what may be repeated, reports truthfully why it
  stopped, stops promptly when told to, and ends;
- polling: however often it re-submits, there is one order, and what it reports
  about that order is true;
- submissions: what is sent is what was validated, under the identifier the struct shows
  afterwards; an order accepted at one stage is not refused at the next;
- queries and construction: the gateway reads what was asked and can verify it, and the
  order in which options are written does not matter;
- mock server: a duplicate behaves as at a real gateway (same answer, no second
  callback) and `Reset` separates sub-tests;
- callback receiver: an event is acknowledged only after it was applied, only genuine
  events are applied, and a key rotation loses none;
- transaction listing: no row that was there is missed, none is repeated unless rows
  were inserted, and the walk ends.

## 2. Modules

### SignedCall and Dispatch: one signed call

`Dispatch` follows one call through `pc`:
`entry` (argument checks, encryption), `sign` (the one signature, made before the
loop and reused), then per attempt `attempt` (`dispatchAttempt` up to `Do`), `do`
(inside `Do`, nothing on the wire), `wait` (a copy is out), `read` (headers are in,
body is being read), `doError`/`readError`/`answered` (outcome to be classified) and
`sleep`. Between any two steps the caller's context may be cancelled or reach its
deadline (`ctx`) and the attempt's own timeout may fire (`expired`). The three
classification actions are the three branches of `dispatchAttempt` that decide
whether the loop goes on; each re-reads `ctx` at that moment, as the code does. The
network is free to lose a request, an answer or a body. Answers carry a status and
the part of the envelope `APIError.Temporary` looks at.

`SignedCall` is the abstract contract: at most `limit` copies leave, an HTTP outcome
needs a copy, nothing happens after the return. `Dispatch` is shown to implement it
(`limit <- policy.max, outcome <- result.kind`), and `Poll` uses a call only through it.

### Poll: polling an order to its end

`pc` walks through `pollUntilTerminal`: `top` (the context check), `calling` (the
service's call), `answered`/`failed` (the judgement), `sleep`, `stopping`
(`pollError`), `returned`. `Start` is the wrapper, which mints an empty `RequestID`
into the caller's struct; the caller may poll again with the same struct. The call
in flight transmits up to `MaxAttempts` copies; a copy is lost, or reaches the gateway
at any later time, during another round or after the poll returned. The gateway is
external, modelled from what the SDK assumes of it: one order per `requestId`, an
order that never changes once it ended, repeated requests answered with the order's
state. Delays are kept as numbers to compare with the documented formula; time
itself is not counted. `NextDelay` follows `payment.go:317` in steps: `Nearest` rounds to a
float value (of two equally near, either), `Product` is the rounded product of the rounded
delay, `Duration` drops the fraction and, for a value that is no int64, gives the least or
the greatest one: Go leaves that to the build. A delay that turned negative is no wait
(`sleepWithCtx`), and the loop runs without pauses until `MaxWait`. The set of float values
is a constant; a multiplier is a number of units of `1/Grain`. A NaN multiplier is left out
(`NaN < 1` is false, so `withDefaults` lets it pass), an infinite one behaves as any whose
products are no int64.

### IdempotencyCache, CacheHistory and MockServer

`IdempotencyCache` has the map's key set and the list from front to back; `Hit`,
`Overwrite`, `Insert`, `Clear` are the bodies of `Get`, `Put` and `Reset`, each under
one mutex and so one step. `CacheHistory` adds the sequence of uses since the last
`Reset` and says what the cache should hold in terms of that history alone.

`MockServer` runs one `serveHTTP` per request (`Handlers`). Each critical section and
each externally visible effect is one step: lookup, `RoundTrip` under the transport's
mutex, `Respond` outside it, cache stamp, write, scenario snapshot for the callback,
firing. The test swaps scenarios and calls `Server.Reset`, whose two halves are two
steps. What `specValidate` and `idemKey` decide is a choice made on arrival. Three
history variables (`forgotten`, `raced`, `settled`) only serve the properties.

### Callback: the receiver

The gateway (external) keeps each event in `outbox` and posts signed copies of it until it
sees a 2xx; a gateway of another environment posts to the same address. Copies in `wire`
are lost, received more than once, late, and damaged in one of the ways the handler tells
apart (`Flaws`: wrong method, too large, headers missing, bytes changed, wrong endpoint).
What a signature is over is put together as the handler does: the body (RSA2), or client id,
time, method, path and base64 of the body joined as in `sign/hmac.go:43-53`, where no
delimiter separates path and body. `Covers` compares that text for what was received with
the one for what was signed. A copy has one flaw at a time: path and body are not changed
together.
A handler goes through `idle`, `verify`, `call`, `reply`: `Receive` is `handle` up to the
signature (method, body, headers, HMAC time window), `VerifySignature` tries every
configured key, then the event is decoded and the partner's function is called, which
returns nil, returns an error or panics; `WriteAck` sends the status, which may get lost.
`AddKey`, `SwitchKey`, `DropKey` are a key rotation in the documented order, each change
of keys a redeployment that ends what is in flight; `Crash` does so at any time. The time
window is kept in ticks finer than the millisecond it is truncated to. `called` and
`applied` record what the partner's function was called with and what it accepted.

### Paging: TransactionsAll

`pc` is `top` (context and validation), `call`, `page` (the answer is on its way),
`returned`. The ledger is external: it is cut into pages by position, and rows may be
inserted anywhere, also between a page's being cut and its being taken. An inserted row is
the one value `New`: the properties do not tell inserted rows apart. `base` is the set of
rows the walk set out to collect. The caller sees no difference between the results `ok`
and `noData` (an envelope without data breaks out of the loop without an error); the model
keeps them apart, since nothing can be promised of the second. Rows are not removed.

### Requests and Services: submitting an order

`Requests` has the client-side validators as predicates under their Go names; a request of
any type is one record, `Fields(op)` the fields of its type and `Hidden(op)` those tagged
`json:"-"`, which `MarshalSigning` leaves out (`RequestID` and `PeriodType` of plan and precheck are
never sent, `Sessionid` travels as a header). Texts are "empty", "ok" or "long"; amounts are
integers of `-HalfRange..HalfRange-1` that wrap as `int64` does.

`Services` runs any number of goroutines (`Callers`) on the partner's structs (`heap`), each
through `read` (is `RequestID` empty), `mint` (`NewRequestID`), `check` (the validator),
`marshal`, `send`, `sent`, `done`. These are separate steps because nothing locks the struct.
A step reads or writes one struct in one piece: Go promises less for a data race, and the
properties exempt a struct that two calls used at once (`overlapped`) exactly where the
outcome depends on it. The precheck validator writes the inferred `PeriodType` back
(`InferPeriod`). A poll wrapper looks at `RequestID` once more than its first submission,
and each round goes through the service method from its first line. `Edit` is the partner
rewriting a field of a struct no call is working on. `asked`, `stale`, `overlapped` are
history, and so is `rest` of a message: the hidden fields of the struct when the body was
written. The signed call is taken at its contract: it transmits or not, answers or not.

### Client, Wire and Queries: from options to the message at the gateway

`Client` has each `With...` option as an operator from a configuration to the one it leaves,
its refusals included, then `finalizeConfig` and `New`. `Wire` has the strict canonical query, the
first-value canonical query that `DoSignedGET` signs, the query on the wire, escaping,
PKCS padding, the key header (whose parser skips blank parts, trims, and refuses parts without
`=`, empty keys, bad escapes and a header without pairs) and the envelope, and
the same read back by a gateway (`ParseQuery`, `Unmarshal`). A query gives each name a sequence of
texts, the empty one where `url.Values` has no entry. Character escaping is modelled
for the characters a query gives a meaning to; RSA, AES and base64 are perfect.

`Queries` composes the two: options are collected one by one, `Build` is `New`, then every GET
of every service, `HeartBeat`, `ListBanks` and the three encrypted POSTs run from validator
through query builder to the message (`sent`), beside what was asked (`asked`).

## 3. Runs

| run | states | shows |
|---|---|---|
| `dispatch` | 307,762 | for 48 configurations (up to three attempts; with and without pause, timeout and transport retries; two retry sets): `RetryableMeansExhausted`, `FinalAnswersStand`, `AtMostOneDeadStart`, `RetriesAreObserved`, the liveness property `CallReturns` and the refinement `CallContract` |
| `dispatch_temporary` | violation | a temporary `APIError` reaches the caller after one attempt, against the comment of `APIError.Temporary` |
| `cache` | 180,193 | every order of up to six uses of three keys at capacity two: `IndexAgrees`, `KeepsMostRecent` (it is an LRU cache), `ReplaysLastPut` |
| `mock_server` | 837,512 | three concurrent requests, two keys, capacity one, scenario swaps and resets: `ReplaysBelong`, `DuplicatesAgree`, `OneCallbackPerKey`, `ResetIsolates` |
| `mock_duplicate` | violation | two duplicates that arrive together both miss and are answered differently |
| `poll` | 647,646 | two polls, four copies, three option sets: `OneOrder`, `OutcomeHolds`, `StopsWithLastResponse`, `BackoffIsGeometric`, `PollReturns` |
| `poll_cap` | violation | an `InitialDelay` above `MaxDelay` is waited in full |
| `callback` | 1,076,691 | two handlers through a rotation, crashes, lost, repeated, late and damaged copies, both signature modes: `AckedMeansApplied`, `OnlyGenuineEvents` |
| `callback_delivery` | 25,382 | one handler, the same environment under fairness: `EveryEventArrives`, for RSA2 and HMAC, without a window and with one that truncates to zero milliseconds |
| `paging` | 173,042 | ledgers of up to four rows growing to six, pages of one to three rows, unset and too large parameters: `WalkIsComplete`, `CalmWalkIsExact`, `WalkEnds` |
| `services` | 775,236 | two goroutines on one struct of each of 14 types, an edit, two calls, polls of two rounds: `EchoedIdIsTransmitted`, `SentIsAccepted`, `AcceptedIsExact`, `StagesAgree`, `VerdictFollowsStruct` |
| `client` | 307,591 | every list of up to three of 49 options, and every call with accepted and refused arguments: `OrderIrrelevant`, `AddressedAsAsked`, `GatewayVerifies` |

Each property of a passing run has a mutant: a definition ending in a suffix such as
`_NoCap` or `_OffByOne`, standing before the definition it mutates, which breaks the
property under the run's own configuration.

### Bounds, and why they are enough

- `dispatch`: one to three attempts give a first, a middle and a last one; the loop
  has no other memory. The statuses are a success, a final 4xx, one that only some
  policies retry, a 5xx outside and one inside the default retry set. The proofs lift
  both bounds.
- `cache`: capacity two has a front that is not the back; a third key forces
  evictions; six uses allow fill, refresh, evict, re-insert and overwrite. The proofs
  lift the bounds.
- `mock_server`: three requests allow two duplicates and one other key that evicts, or
  a duplicate after a race; capacity one evicts at once. Requests and keys are
  interchangeable and used symmetrically (safety properties only). The proofs lift the bounds.
- `poll`: `MaxCopies = 4` allows both copies of one round to be late, a second round and a
  second poll. `MaxCalls = 2` is the first repetition with the same struct. A round in
  which no copy may leave any more can still fail or be aborted, so no behaviour is cut
  off, and every wait up to the cap is reached. Floats have significands of three bits
  (`Grain = 4`, `Exact = 8`) and durations six bits, so that four rounds meet a whole multiplier, a
  fractional one whose product lies between two floats (3 * 1.25 becomes 3 or 4), and products
  beyond the largest duration. The proofs lift the bounds, for safety.

- `callback`: two handlers can hold two copies of one event, or an event and a stray one;
  two copies on their way and a clock of two values allow a late copy of an older key.
  The windows are "none" and half a millisecond. The texts share one alphabet and one path
  begins with the other, so that nothing but the whole canonical tells them apart. Handlers are interchangeable and used
  symmetrically. `callback_delivery` has one handler and one copy on its way (a new one may
  replace it), since liveness and symmetry do not go together; a handler shares nothing with the others but the verifier and the clock. The
  proofs lift all these bounds.
- `paging`: six rows and pages of one to three give empty, short, full and exactly full
  last pages, before and after insertions; `Counts` has an unset, a valid and a too large
  value. The proofs lift the bounds. `WalkEnds` needs `MaxRows`: a ledger that grows as fast
  as it is read is never read to its end, until the caller's context ends.

- `services`: one struct, since calls on different structs share nothing but the generator of
  identifiers; two goroutines are what a race needs, two calls allow a second use of the
  struct, two rounds the first re-submission. The drafts stand on both sides of each
  minimum (19999/20000, 3), at the largest sum that fits and at one that wraps;
  `Choices` puts each field once outside what its validator wants. `HalfRange = 32768` is the
  smallest power of two that leaves room for 20000. Callers are interchangeable. The proofs
  lift all these bounds.
- `client`: three options are a pair that conflicts and a third between or around them; calls
  with arguments are explored for clients of up to two options (`MaxExplored`), which is
  enough for each choice of signer together with each option that shows in a message.
  `MaxLen = 3` stands for 64: texts of no, few, exactly three and four characters. `BlockSize
  = 3` gives bodies that end before, at and after a block, and that end like a padding. The
  proofs lift all these bounds.

### Fairness

- `Dispatch`: weak fairness of the calling goroutine (`Client`), of the attempt's armed
  timer (`AttemptExpires`), and of `Abort`: `net/http` returns from `Do` or a body read
  once the request's context is done. Nothing is assumed of the network, the gateway or
  the caller. `CallReturns` is stated only for calls with a timeout or whose context ends:
  without either a stalled gateway may hold a call for ever.
- `Poll`: weak fairness of the loop, of the `MaxWait` timer (`context.WithTimeout` is
  always armed) and of `CallAborted`, a call whose context is done returns, which is
  `CallReturns` of `Dispatch`.
- `Callback`: the server runs its handlers (weak fairness of `Serve`). The gateway does not
  give an event up; of the attempts for an event that are possible infinitely often some
  arrives whole and in time, is not hung up on or cut short by a crash, finds the partner's
  function willing, and its answer is read (strong fairness of exactly these steps, per
  event). Crashes and losses are otherwise unlimited. This is the least under which delivery
  can be asked for at all; the SDK's part, what it does with such an attempt at any stage of
  a rotation, is what the run checks.
- `Paging`: weak fairness of the walking goroutine, whose calls return (`CallReturns`).
- `MockServer`, the cache, `Services` and `Queries`: safety only, no fairness.

`CHECK_DEADLOCK` is off in `services`, where a partner may stop calling and editing, and in
`client`, where a failed `New` is the end. It stays on in the other runs: a finished call and
a finished caller stutter through an explicit action (`Done`, `Finished`), the mock server can
always be reset and the receiver's process can always crash.

## 4. Proofs

`DispatchProofs` proves, for every set of policies and statuses satisfying
`PoliciesAreValid` (what `RetryPolicy.Validate` and the client's defaults give:
at least one attempt) and `StatusesAreHTTP`:

- `TypeCorrect`: `Spec => []TypeOK`, with the bounds `attempt <= MaxAttempts` and
  `copies <= attempt`;
- `ExhaustionIsReported`, `FinalAnswersAreFinal`, `CancellationIsPrompt`,
  `RetriesAreReported`: the safety invariants of run `dispatch`;
- `CallImplementsContract`: `Spec => CallContract`, the refinement of `SignedCall`.

The invariants are not inductive alone. `IInv` adds where the loop counter stands at
each `pc` (`AttemptRange`: at `sleep` an attempt is left), that an attempt that has not
transmitted leaves room for its copy (`CopiesPerAttempt`, which bounds the copies), that
an error of `Do` comes without a reply (`DoErrorHasNoReply`, without which a status of an
earlier attempt could be taken for this one's), that the result is set by the returning
step (`ResultOnReturn`), that an attempt begun on a dead context cannot transmit or be
repeated (`DeadStartEnds`: this is why there is at most one), and that a sleeping attempt
was reported (`SleepIsObserved`). Each action has one step for the types and one for the
rest; the refinement maps `Transmit` to `Transmitted`, the returning steps to `Returned`
and every other step to a stutter.

The first half of `MockProofs` is about the replay cache alone. It proves `CacheStaysInStep`: `CacheSpec => []IndexAgrees` for every key set,
response set and positive capacity (`CapIsPositive`, which `newIdempotencyCache`
ensures). `CacheInv` is the type invariant with `IndexAgrees`, which is inductive with it;
the lemmas `HitKeeps`, `OverwriteKeeps`, `InsertKeeps` speak of one operation each, so that
proofs about the mock server can cite them. Against the history of uses (`CacheHistory`) it
proves `CacheReplaysLastPut` and `CacheKeepsMostRecent`. `HInv` adds that every used key has a
last use and every kept key a last Put (`LastInv`: the maxima the properties speak of exist),
and that the list is sorted by last use, while what was evicted is older than everything that
stayed, and the cache is full once anything was evicted (`RecencyInv`). A use writes the
largest number of the history, so the key moved to the front keeps the list sorted
(`StaysSorted`), and the entry at the back is the oldest one (`EvictsOldest`).

Its second half proves the invariants of run `mock_server` for any number of requests, keys and
scenarios and any capacity (`MockAssumption`: a response is made of its request and its
scenario): `MockTypeOK`, `MockReplaysBelong`, `MockDuplicatesAgree`, `MockOneCallbackPerKey`,
`MockResetIsolates`. It rests on the cache lemmas: `MockServer` uses the cache as a data
structure, and only two facts of it are needed, that an entry after a step was there before or
is the one just stored, and that a key that leaves it goes to `forgotten`. The invariant says
where a goroutine stands and what its client was sent (`StageInv`), that entries and replays
belong to their key (`BelongInv`), that a stored response is in the cache or its key was
forgotten (`StampInv`), and that a key neither forgotten nor raced for has one request that went
past the lookup (`OwnerInv`, from which both statements about duplicates follow). `ResetIsolates`
needs that the requests a Reset found answered stay answered (`SettledInv`): a goroutine stores
before it answers, so an answered one never stores again. (The module also has the history variable `uses` of
`CacheHistory`, which the server's specification does not mention.)

`CallbackProofs` proves, for any events, handlers, windows, copies and crashes
(`CallbackAssumption`: the stray event is not one of the gateway's, windows are natural
numbers) and any texts (`TextAssumption`: the endpoints differ, damage changes a body, no two
bodies have one base64 text), `AcknowledgedEventsAreApplied`, `OnlyVerifiedEventsAreCalled` and type
correctness. The invariant adds that every copy not signed with a foreign key was
issued (`CopiesAreIssued`), that what stands before the call is covered by a signature of
the gateway (`CallsAreVerified`; no stage of the rotation configures a foreign key). That a torn
body or a missed endpoint shows in the canonical text is `CoveredIsAsSigned`: texts joined
without a delimiter still differ where they differ in one part only. The invariant adds too that
a 200 about to be sent belongs to an applied event (`AcksAreEarned`).

`PagingProofs` proves `WalksAreComplete` and `CalmWalksAreExact` for every ledger, start,
page size and sequence of insertions (`PagingAssumption`), and type correctness. The invariant says that the walk
stands as many rows beyond its start as it has collected (`WalkPosition`), and that every row
counted on is collected, in the page in hand, or ahead (`NothingIsBehind`). Once a page was
cut, "ahead" means beyond that page, that the page is full, and that a total sent with it
exceeds what the walk will have then: this is why neither of the two stopping rules stops
early. Insertions only move rows away from the start.

`ServicesProofs` proves, for any goroutines, structs, drafts, choices, edits, calls and rounds
and any integer width:

- `SentRequestsAreAccepted`: what is sent comes from a struct that passes its validator as it was
  marshalled, the fields that stay out of the body and the tenor it was held to included,
  though validation and marshalling are separate steps on a struct others write to;
- `AcceptedSumsAreExact`: one or two positive amounts whose wrapped sum equals the total have
  that sum. `SumIsExact` is the arithmetic: two amounts of the range that overflow wrap
  to a negative sum, and the total is positive. Three amounts can sum past the whole
  range and come back positive, so the statement stops at two;
- `LaterStagesAccept`: the stages of one order agree (`StagesFollow` compares the validators).

The assumptions say that a draft has the fields of its type and that amounts fit their Go
type (`DraftsAssumption`, `ChoicesAssumption`, `HalfRangeAssumption`). The inductive
invariant `IInv` follows a request on its way: types (`TInv`), a call works on a struct of its
operation and only orders are polled (`CInv`), two calls on one struct are noticed (`OInv`),
what was validated still passes at marshalling (`MInv`), at sending (`SInv`) and on the wire
(`WInv`). `MInv` is what needs an argument: between validation and marshalling another call may
mint an identifier (only on a struct in `overlapped`) or infer a tenor (`InferredIsAccepted`:
a precheck that passed still passes after `InferPeriod`).

Its second half proves `EchoedIdsAreTransmitted` on top of that. `EInv` adds that calls are numbered
apart (`NInv`), that a message belongs to the call of its number (`BelongInv`), that a second
worker on its struct was noticed (`AloneInv`), that a body carries the struct's identifier
(`BodyInv`), and that it stays there: a later round finds it and does not mint (`KeptInv`, which
holds because a request without an identifier is never accepted where it is part of the body).
It also proves type correctness (`ServicesTypesHold`) and the action property
`VerdictsFollowStructs`. The latter needs `AInv`: what a struct holds, apart from identifier and
tenor, is something the partner wrote, and the tenor of a precheck that was not edited since is
the one the partner asked for or the one inferred from it (`Asked`). Inferring twice is the same
as inferring once (`InferredIsAsked`, `SameVerdict`), so the order of two prechecks on one
struct does not show.

`PollProofs` proves the invariants of run `poll` for any options, defaults, polls, attempts and
copies (`PollAssumption`: options are durations, of any sign, and the defaults that
`withDefaults` fills in are positive) and any set of float values that holds the whole
numbers up to `Exact` (`FloatAssumption`): `PollTypeOK`, `PollOneOrder`, `PollOutcomeHolds`,
`PollStopsWithLastResponse`, `PollBackoffIsGeometric`. The invariant says that one identifier
is minted and every copy, late ones included, carries it (`IdInv`); that every response still
held anywhere, in hand, remembered, or in a delayed reply, is true of the order, which is
stable because a settled order never changes (`TruthInv`); which of the remembered responses is
the latest (`SeenInv`); that a round that went on has sent a copy, which bounds the rounds
(`RoundInv`); and that the delay stands between the geometric ones of the two neighbouring whole
multipliers (`DelayInv`). The last needs that rounding to a nearest float does not cross a whole
number up to `Exact`, that dropping the fraction stays above the lower product, that multiplying
a capped delay by a multiplier of at least 1 stays at the cap, and that the powers of a number
satisfy their recursion.

`WireProofs` is about `Wire` alone: what is written for the gateway is read there as it was meant.

- `EscapedTextIsReadBack`: `Unescape` undoes `rfc3986Escape` for every text over any characters.
  The escapes are told apart by their two digits (`upperhex` is injective on the reserved
  characters), and no escape leaves a bare plus or a separator behind;
- `QueriesAreReadBack`: `ParseQuery` gives back every query that `EncodeWireQueryRFC3986` wrote, with
  every value of every name in its order. Splitting finds the joined pairs again because no pair has
  an ampersand in it (`ParsedAsJoined`), cutting at the first equals sign finds name and value, and
  collecting the pairs by name undoes their arrangement by sorted names (`SortedPairsGroup`);
- `SingleValuesAreCanonical`: where `CanonicalQuery` accepts, its text is the query on the wire;
- `PaddingComesOff`: the padding of an encrypted body is whole blocks and comes off again, for
  every block size (`BlockAssumption`: not 0) and every plaintext;
- `EncryptedBodiesOpen`: `Unmarshal` opens what `Marshal` closed, for every plaintext and random key,
  with the key pair it was closed for. It needs that the wrapped key is a text, not an empty one, and that no
  two are written alike (`Base64Assumption`); that its header has one part, which
  trimming leaves alone and the parser finds well-formed, whatever characters the base64 text has, is
  proved.

`QueriesProofs` proves, for any options in any number (`OptionsAssumption`: numbers are numbers,
a signer and a key that loads are not the unset ones):

- `ClientsAreComplete` and `MessagesAreAddressedAsAsked`. `Took` says what one option does to the
  fields sending depends on (`ApplyTook`, by cases over all options), `Follows` what the config
  tells of the options so far (an unset address is told from a set one, a chosen key identifier,
  the empty one included, from none), and `Made` what `finalizeConfig` leaves;
- `OptionOrderIsIrrelevant`. An option looks at and changes no fields but those it touches
  (`ApplyAlike`). Two loops over differently arranged options are compared field by field:
  where both have met the same options that touch a field, the field is the same in both
  (`SameFields`), and at the end they have met all of them. If the first loop fails so does the
  second: otherwise the comparison, with the roles exchanged, would show that it does not;
- `GatewayReadsWhatWasAsked`: `Spec => []GatewayVerifies`, for inputs of any length and number. That a
  message was written from what was asked is part of the inductive invariant (`WrittenFor`: the query
  and its first-value canonical form, or a plaintext closed for the client's key pair with a
  random key). Every query builder gives each name a sequence of texts (the lemmas on what is asked,
  with `Itoa` for every natural number), so the theorems of `WireProofs` apply to it. Assumed are the
  types of the inputs (`InputsAssumption`: texts are texts, dates and numbers are what their
  parameters take) and that every random key can be wrapped (`WrapAssumption`).

The installed provers cannot instantiate an induction principle for a predicate. `PollProofs` and
`WireProofs` state it for a set instead (`Induction`, `CountingUp`, from the well-foundedness
of `<` on the natural numbers; `ByAppending` is the same for sequences). With it they prove that the
recursive functions `Power`, `Configs`, `Itoa` and the loops of `Wire` exist and satisfy their
equations (`PowerIsPower`, `ConfigsAre`, the lemmas named `...Steps`), and what they compute. The loops
are recursive functions rather than folds for this reason: a fold takes an operator as its argument,
which the provers cannot take apart.

On the instances of their runs TLC finds no violation of these inductive invariants either.

Only model-checked: the liveness properties (`CallReturns`, `PollReturns`,
`EveryEventArrives`, `WalkEnds`), which are out of the prover's reach. Every invariant, the action
property and the refinement that a passing run checks are also proved.

## 5. Findings

The three violation runs are three sentences of the repository that the code does not keep;
`PROJECT.json` quotes each. `TemporaryMeansExhausted` is about a comment in `errors.go`,
`DuplicateGetsOriginal` about comments of the mock server, `EveryWaitIsCapped` about
`PollOptions.MaxDelay`. For each a passing run shows what does hold in its place:
`RetryableMeansExhausted` (exhaustion follows from a retryable *status*), `DuplicatesAgree`
(duplicates agree unless they race or the entry is gone), and `BackoffIsGeometric` (only the
first wait escapes the cap).

Other differences met while modelling. No run is about them; the models follow the code:

- A precheck writes the inferred tenor into `PeriodType` (`payment/precheck.go:133-135`). A
  partner who then edits the sub-order's tenor is judged by the old one. `VerdictFollowsStruct`
  is stated for structs not edited after such a write (`stale`).
- Three or more sub-orders whose sum wraps can pass for a small positive total.
- An order authorised with a tenor above 3, without a merchant name, or with a uid above 64
  characters may be refused by the capture or reAuth validator: `validateAuthRequest` does not
  ask what they ask. `StagesAgree` names these conditions.
- The mock server's automatic callback uses the scenario installed when it fires
  (`mock/server_dispatch.go:235`), while `mock/server_options.go:115-116` speaks of the
  matching event: a scenario swapped between answer and callback changes the event.
- The comment of `New` asks for `WithEnvironment` or `WithBaseURL`; without either the client
  addresses production.
- `WithAtomeCerts` says that empty fields are skipped; the code tests for nil, so an empty
  non-nil slice is an error.
- In `finalizeConfig` the branch for `MaxAttempts == 0` is not reachable: `WithRetry` refuses it
  and the default is 3.
- A product of delay and multiplier beyond int64 (`payment/payment.go:317`) converts to the least
  duration on some builds: it passes under the cap and the loop polls without pauses until
  `MaxWait`. It takes delays of centuries or a multiplier as large.
- `doer.go:117-122` and `payment/query.go:27-29` say that the query on the wire is the signed one, byte
  for byte, and name `CanonicalQuery`; since `doer.go:149-155` that holds for parameters with one value:
  the signature is over the first value of each, the wire has all.
- A plan or precheck mints a `RequestID` that is never transmitted (`payment/plan.go:18`,
  `payment/precheck.go:26`); `EchoedIdIsTransmitted` is about the bodies that have one.
- `Server.Reset` clears the request log and the cache in two steps. `ResetIsolates` is about the
  cache; a request that arrives between the steps stays in the log.
- The HMAC canonical joins path and body without a delimiter. `OnlyGenuineEvents` is about copies
  damaged in one way at a time, for which the signature tells.
- The jitter of `Backoff` is added after the cap, so a pause may exceed `Cap`.

## 6. What is not modelled

Cryptography, PEM and JSON syntax, canonical JSON bytes, header assembly, logging and
redaction text, the length of jittered pauses, and the structs of responses are data
without control. Not modelled as components:

- mock client and callback firing (`mock/client.go`, `mock/callback.go`): test doubles that wire
  a client to the transport of `MockServer` and post one signed event; what the event's sender
  and receiver do is in `Callback`. The shapes of the typed scenarios' bodies are data here,
  so the enveloped callback bodies of three of them stay a hazard without a property;
- the specification loader (`internal/spec`) and the qa harnesses (`qa/`): they compare bodies
  with an OpenAPI file by reflection, keep no protocol state and run in tests only.

Go's memory model is abstracted: a race on a request struct is an interleaving of whole-field
reads and writes, and no property promises anything of the field raced on.

## 7. Plan

1. **Typed scenarios**: the events the mock scenarios send against what the receiver's handlers
   decode, if bodies get a shape.

## 8. Running

    tlc -workers 2 -config MCDispatch.cfg MCDispatch
    tlapm DispatchProofs.tla

and likewise for the other rows of `PROJECT.json` and for `CallbackProofs`, `MockProofs`,
`PagingProofs`, `PollProofs`, `QueriesProofs`, `ServicesProofs` and `WireProofs`.
