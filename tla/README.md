# TLA+ specifications of cf_http

This directory models the HTTP server component of the Caerus framework
(`cf_http`) and its middlewares: TLA+ modules translated from the Go source,
TLC instances that check them, and TLAPS proofs, for every value of the
constants, of every safety property that a passing run checks. `PROJECT.json`
lists components, runs, theorems, the source lines behind each definition, and
the findings.

- [1. Inventory](#1-inventory)
- [2. The modules and the code](#2-the-modules-and-the-code)
- [3. Runs: what is checked and what it shows](#3-runs-what-is-checked-and-what-it-shows)
- [4. Bounds](#4-bounds)
- [5. Fairness](#5-fairness)
- [6. Proofs](#6-proofs)
- [7. Where the code and its documentation disagree](#7-where-the-code-and-its-documentation-disagree)
- [8. What is not modelled](#8-what-is-not-modelled)
- [9. Plan](#9-plan)

## 1. Inventory

| Component | State it keeps | Operations | Talks to | What is hard | What makes it correct |
|---|---|---|---|---|---|
| Server lifecycle (`server.go`) | flags `initialized`, `running`, `listening`, `restartRequested`; `runCancel`, bound address, counters | `Init`, `SetHandler`, `Run`, `Health`, `Shutdown`, `OnConfigReload` | framework core, net/http, one goroutine per listener | any goroutine may call any of them; the lock is released between the steps of `Run` | one `Run` at a time; every way out of `Run` leaves nothing open; readiness follows serving; a restart request is neither lost nor invented |
| Drain and gauge (`server.go`) | connections of net/http, the gauge, the hijack and timeout counters | `Shutdown`/`Close` of `http.Server`, `connState` | net/http callbacks, clients | the deadline races the last answers; hijacked connections; several runs share a gauge | a clean return means that requests were answered; the gauge is exact; the drain ends |
| Configuration and reload (`config.go`) | settings, `restartRequired`, `metricsEnabled` | apply at `Init`, compare at reload | configuration component | partial files over defaults, lossy conversions, sequences of reloads | the server runs what the file says, or says that it does not |
| Bind list (`bind.go`) | - | parse, listen on all, compare | net | the second of several listeners fails | all or nothing |
| Request metrics (`metrics.go`) | three meters with a lock each, an atomic gauge | record, scrape | every request, the observability component | a scrape interleaves with requests | scrapes are consistent, monotone and miss nobody |
| Middleware chain (`middleware.go`) | a `statusRecorder` per layer, `tooLarge`, `inFlight` | `RequestLog`, `Recover`, `Metrics`, `MaxBodyBytes`, `RequestID` | handlers, error writers | panics unwind through layers; each has its own idea of "committed" | one answer per request, the handler's if it gave one; observers record what the client got |
| Compression (`security.go`) | `gzipResponseWriter` | `WriteHeader`, `Write`, `Flush`, `Hijack`, `Close` | handler, net/http, compress/gzip | the head is delayed until the size is known | body intact, under a head that describes it |
| GraphQL telemetry (`graphql/metrics.go`) | the replaced `r.Body`, the context's operation name | `Metrics`, `Middleware`, `StartOperation`/`End`, `RecordResolver` | meters, handler | reads ahead on a body that others read later | body restored, work and labels bounded, labels honest |
| Health wait (`server.go:469-546`) | none; the other components' health | `waitForHealthProviders` | every component of the framework | servers that wait for each other; answers that are old when the round ends | a verdict says what its round saw; the wait ends with its context |
| CSRF (`security.go`) | none but a browser's cookie | `CSRF`, `CSRFTokenFrom` | browsers with several tabs | responses with new tokens overtake each other; a live host list | a form is refused only if its token was overtaken; reloading helps |
| CORS, security headers (`security.go`) | none | middlewares, `Validate` | browsers, caches | what a cache reuses for another origin | no grant reaches an origin it was not made for |
| Client address (`clientip.go`) | none | pure functions over headers | mesh ingress | each hop adds to a chain that the client began | the client is who the first ingress saw |
| Failures, problem documents (`errors.go`, `problem/`) | none | constructors, writers | error writers of the above | a map shared between copies | head and document agree; building one problem changes no other |
| Examples, docs | - | - | - | - | - |

**How they interact.** `Run` serves `handler`, which is the chain of
middlewares around the program's own handler; the chain samples into the meters
of the same `Server`; net/http calls `connState` for every connection;
the configuration component calls `OnConfigReload` from its own goroutine; the
framework calls `Init`, `Run`, `Shutdown`, and `/readyz` and `/metrics` call
`Health` and `Metrics` at any time. Everything shared is behind `c.mu`, a
meter's lock, or an atomic.

**Hard behaviours** are listed line by line under `hazards` in `PROJECT.json`,
with the properties that watch each of them, or a note on why none does yet.

## 2. The modules and the code

Operators whose names begin with `Variant` are single plausible bugs: each
stands directly before the definition it would replace, no next-state relation
uses it, and each property of a passing run has one that it rejects (see
`mutants` in `PROJECT.json`). They document what the property is good for.

### ServerLifecycle, ServingPromise, ServerRefinement

`ServerLifecycle` has the fields of `Server` as variables under their Go names,
and for every call of `Run` a program counter `pc`, its snapshot of the binds,
its listeners, its Serve goroutines and its outcome. One critical section of
`c.mu`, one atomic operation, one call into net/http or one channel receive is
one step. `OnConfigReload` is three steps: the critical section that compares
and captures `runCancel`, the call of the captured function, the counter. The
deferred function of `Run` is two: `RunCleanup` and `RunUnlock`.

| Action | Code |
|---|---|
| `InitServer`, `SetHandler`, `Shutdown` | the methods of the same name, one critical section each |
| `RunEnter`, `RunRefused` | first critical section of `Run`, `server.go:341-371` |
| `RunFwCheck`, `RunFwList`, `RunWaiting` | `waitForHealthProviders`, with its two unlocked reads of `c.fw` |
| `ListenOpen`, `ListenFail`, `ListenDone` | `listenAll` and what follows it |
| `RunBound`, `RunAnnounce` | bound address and start counter; `listening.Store(true)`, the goroutines |
| `ServeBegin`, `ServeClosed`, `ServeFails` | net/http's `Serve`, as `Run` uses it |
| `SelectServeEnded`, `SelectCancelled`, `StopServing`, `RunDraining`, `CollectOne`, ... | the `select`, its two branches, `drainServe` |
| `ReloadLocked`, `ReloadCancel`, `ReloadCount` | `OnConfigReload` |

`ServingPromise` says what the server promises to its surroundings with five
variables: who holds the server, which addresses are wanted and open, and
whether it is announced. `ServerRefinement` maps the detailed state to it, and
`ImplementsPromise` states that every step of every goroutine is one of the
promise's steps or none. `ServerLifecycleProofs` holds the proofs (section 6).

### GracefulDrain

The second half of `Run` seen from the connections. `conn` is net/http's
state of each one, `owner` the call of `Run` that accepted it. `Drained`,
`DrainTimesOut` and `ServeFails` are the three ways out of `Run`
(`server.go:440-465`); `ConnState` is `connState`. net/http's own transitions
(accepting, starting and ending requests, closing idle connections in
`Shutdown`) are external. `cut` is a history variable: connections that the
server closed under a request.

### ServerSettings

Configuration field by field, a whole handler per step. `Accepted` is the
validator of the source, which looks at a file as it is spelled and, comparing
in floating point, takes in the first number of seconds that overflows; `Read`
is the conversion to a `time.Duration`, which truncates and, past
`MaxDuration`, gives `Overflowed`; `Valid` is `validateActiveSettings`, which
looks at what came out. `Positive` are the fields that must not be zero.
`Applied` is `applyConfig`; `Changed` is `serverSettingsChanged`; `OnConfigReload` compares and switches
metrics, and changes no setting. `applied` is a history variable: the fields that
any `Init` was given, which its `Server` keeps when a later file omits them. The
module leaves the interleaving with `Run` to `ServerLifecycle`.

### RequestMeter

Requests pass `Metrics` and `graphql.Metrics`, sample into meters under one
lock each, and leave the gauge in a deferred function; a scrape (`Metrics()`)
reads the fields, the gauge and each meter in steps of its own. `Listed` are the
names that the options have `graphql.Metrics` count; for the others
`RecordOperation` samples nothing. `recovers` says whether `Recover` stands
between the two middlewares, as `docs/examples.md:171-176` wires it. If so,
`Panic` unwinds `graphql.Metrics` only: `Metrics` gets its call back and records
what `Recover` answered, and the operation sample alone is lost. If not, because `Recover`
stands around both or is missing, both samples are. Three history variables say
what a scrape has to account for: `entered`, the requests when it reads the gauge;
`recovered`, whose panic `Recover` took; and `unoperated`, how many of the HTTP
samples it reads belong to no operation, by the options or by such a panic.

### MiddlewareStack

One request through `Chain(...)(handler)`. `chain` is the order of the layers,
`rec[i]` the `statusRecorder` of layer `i`. A call on the writer passes the
recorders from the inside out, `Reached` is how far a `WriteHeader` gets; a
panic unwinds layer by layer, where `LeaveLog`, `LeaveMetrics`, `LeaveLimit`
and `LeaveRecover` do what the code does after its call of `next` or defers.
A `MaxBodyBytes` outside of an observer answers without it: it refuses a declared
length before the observer is entered, and a hidden one after the observer has
looked (`middleware.go:236-241`). `ObserversTellTheTruth` leaves these two orders
out, observer by observer.
`unnoticed` is a history variable: the handler flushed before it sent a head, or
sent an informational one, and the recorders' idea of "committed" is no longer
the client's. The properties say what holds as long as they agree.

### GzipWriter

One handler behind `Compression`, with the fields of `gzipResponseWriter` under
their Go names. Every method holds `w.mu` throughout, so a method is a step.
`wire` is what net/http has sent, in units with their encoding; what the
`gzip.Writer` holds back until it is flushed is nondeterministic
(`GzipWrite`). The handler keeps to the contract of `http.ResponseWriter`:
it sets headers and calls `WriteHeader` at most once, before its first output.
A handler that does not is outside of what the module says. A header that is
not set has the value `"none"`; `own` says that the handler has set an encoding of
its own. `broken` means that gzip has rejected the level, which costs the whole body:
the head is out, and what is in `buf`, though `Write` answered nil for it, is never
written. `BodyIntact` says so, rather than that the body arrives. Of a panic before
the head went out, `StatusDelivered` says nothing (section 7).

### OperationPeek

`graphql.Metrics` around `graphql.Middleware` around a handler. A body is a
sequence of tokens that is either complete or breaks off; `rBody` is what a
reader would get from `r.Body` at this time. `Peek` and `ReadFull` are
`peekRequestBody` and `readFullRequestBody` with what they leave behind,
`NameFromPeek` is `operationNameFromPeek` with its two ways of looking for a
name: a parse if the body is complete, where the last of several members of that
name counts, else the first match of a pattern at any depth. `Having` are the
positions of the keys that are looked for.

### HealthGate

`waitForHealthProviders` provider by provider, for several servers of one
framework: `Check` asks one component, `EndRound` and `Verdict` conclude a
round, `Tick` and `WaitDone` are the `select`. Of `Run` there is only what moves
a server's own `Health`: `Bind` and `Close`. `Flap` changes the other
components at any time, `Expire` and `Cancel` end `waitCtx`, and the first of
the two is its error. `sound` is a history variable: who last answered a server
without an error. `ServerLifecycle` takes the outcome of this wait as given.

### CsrfTokens

The `CSRF` middleware, which keeps nothing, between several tabs of one browser
with one cookie jar. A handler call is one step (`ServePage`, `ServeForm`), the
way of a response to its tab another (`ShowPage`), so responses overtake each
other. `HasToken` and `TokenFrom` are `csrfEnsureToken` and `CSRFTokenFrom`;
`Answer` lists the checks of an unsafe method in their order. The comparison of
an `Origin` or `Referer` with the list is a verdict per tab. `overtaken` is a
history variable: the jar has changed since this tab asked for its page.

### ClientAddress

`clientip.go` as operators under their Go names, and the way of one request: a
client that sets the headers as it likes, an ingress that either decides on the
address or appends to the chain, proxies behind it, and processes that call
each other and pass the address on. `came` is a history variable: everybody
the request has come from.

### BindList, CorsHeaders, ProblemValues, EdgeChecks

Pure operators, without variables. `BindList` is how a value of a configuration
file becomes a list of addresses and is written again; `CorsHeaders` is the
answer of the `CORS` middleware, with what a browser grants and a cache reuses
for it; `ProblemValues` has problem documents as records over a heap of maps,
because copies of a Go struct share its map. Each states its promises as
operators over its inputs; `EdgeProofs` proves some of them. `EdgeChecks` compares the
definitions with loops that follow the code statement by statement, and checks
every promise over all small inputs, as assumptions that TLC evaluates.

## 3. Runs: what is checked and what it shows

Passing runs:

| Run | Instance | Shows |
|---|---|---|
| `lifecycle_refines` | 2 calls of `Run`, 1 reload, 2 addresses, health wait | one `Run` at a time, its cancel function published; a restart request survives until the `Run` it meant decides, answers only that `Run`, and cancels no other; nothing leaks; readiness exactly while serving; and the lifecycle implements `ServingPromise` |
| `lifecycle_liveness` | 1 call, 1 reload, health wait | a cancelled, failed or reloaded `Run` returns |
| `drain` | 3 connections, 2 runs | graceful means answered; the gauge is exact over all runs; a drain ends though a handler may not |
| `settings_reload` | 3 fields, 5 values, 2 reloads | without the restart flag nothing has drifted but fields that were given once and are omitted now; no alarm without a difference; with values that truncate, coincide or overflow |
| `meter_scrape` | 2 requests, 2 scrapes | no request falls between gauge and counter; operations cover HTTP requests, but for untracked ones and panics that `Recover` took in between |
| `stack_orders` | all orders of the four layers, all orders of the three without the limit, and three short chains | one answer, the intended one; panics are answered, oversize is refused, observers record the truth, the gauge settles |
| `gzip_body` | 6 units around a threshold of 3 | every unit arrives, or none if the level is rejected; the head describes the body; the status is delivered if the head was out before a panic; gzip exactly when promised, of bodies that the handler has not encoded; a flush delivers |
| `peek_names` | bodies of up to 4 tokens, 16 configurations | body restored through both readers, work bounded, whole bodies name themselves |
| `health_gate` | 2 servers and 2 other components, any server gated | a gated server opens after all other servers; a verdict is what its last round saw; a context that is done ends the wait; healthy components open the gate |
| `csrf_tabs` | 2 tabs, one of them silent about its origin, 3 modes | a token is refused only if it was overtaken; a settled token stays; a tab that reloads gets its forms through again and again |
| `client_address` | a client's own headers, 2 kinds of ingress, 3 hops | every process sees a public client, whatever it sent; nobody is taken for the client that the request did not come from; and, at its start, all of `EdgeChecks` |

One more run, `immediate_reload`, ends in a violation: it checks a statement of
the repository's documentation and comments on a small instance (section 7).

`TypeOK` is an invariant of no run: it is proved of every module.

Some of the properties hold by a margin that is worth knowing. `RequestSurvives`
holds because `restartRequested` is reset in the same critical section that
publishes `runCancel`; a reset a few lines later loses requests
(`VariantLateReset`). `RetrySucceeds` holds because an empty cookie is no
token for `csrfEnsureToken` (`VariantEmptyIsToken`). `NoRequestUnseen` holds because the gauge is read
before the HTTP meter and left after sampling. `OnlyDroppedFieldsDrift` names the
one way in which a server drifts silently: a later file omits a field that an
earlier one gave (a comparison that forgets the timeouts, `VariantIgnoresTimeouts`, adds others).

## 4. Bounds

Every bound is a CONSTANT or a small set in an `MC` module. Calls of `Run` and
`OnConfigReload` are made at most once per member of `Runs` and `Reloads`.

- **Two calls of `Run`** suffice for every property about the handover: each
  relates at most two of them. One reload may hold the cancel function of a
  `Run` that is over while the other serves; for more of them the same
  properties are proved. Two addresses, one of them loopback, so that the second
  may fail after the first was opened, and `pickBoundAddr` has a choice.
  Symmetry of the two calls is used in `lifecycle_refines`, which has no liveness property.
- **Three connections, two runs:** one per way of ending, over a restart.
- **A file and two reloads** in `settings_reload`: away, and elsewhere or back. Any
  file may give or omit any field.
  Of five values one converts to zero, two to the same `Duration`, one
  overflows though the validator takes it, and one is refused.
- **Two requests, two scrapes:** a request may complete between any two reads of
  either scrape. Three names: the empty one and another that are counted as
  operations, and one that is not. Two statuses, one of no class, and the 500 of
  `Recover`.
- **Every order of the layers** in `MiddlewareStack`: no layer stands twice.
- **One informational status, two final ones and two writes** per handler in
  `MiddlewareStack`; a third changes nothing in a recorder.
- **Six units around a threshold of three** in `GzipWriter`: below, at, and past
  it, in any split.
- **Bodies of an object and three members, windows of 1, 2, 3 and all:** names
  before, at and after the end of the window, twice, nested and empty.
- **Two servers around two other components** in `HealthGate`: a server that is
  asked first and one that is asked late, and components that change before
  and after they were asked. Any of the servers waits.
- **Two tabs** in `CsrfTokens`: the race for the first cookie needs two, and one
  of them sends no origin. The cookie is lost twice, to nothing or to an empty
  value, and the random source fails twice: often enough to hit a tab again
  while it retries.
- **Chains of two addresses from the client, three hops** in `ClientAddress`: an
  own address of the client on either side of junk or of a trusted one, then a
  proxy, a call and another proxy. Its theorems have no bound.
- **Lists of up to three** in `EdgeChecks`, four for forwarded chains: a first, a
  last and one between.

The deadlock check is off for `GracefulDrain`, where all calls of `Run` may be
over, and for `ClientAddress`, where a request arrives and no hop is left. In the
lifecycle `Shutdown` and `SetHandler` are always enabled; that `Run` itself
cannot hang is what `RunReturns` is for.

## 5. Fairness

`ServerLifecycle.Fairness` is weak fairness of each `Run`'s own steps, of each
Serve goroutine once told to stop, and of a reload that has captured a cancel
function: the Go scheduler runs every goroutine that can go on. `RunWaiting`
and `RunDraining` always have an outcome because timers bound both waits
(`server.go:451`, the context of `waitForHealthProviders`). Nothing obliges a
caller to call or cancel, or a listener to fail. `GracefulDrain` assumes only
that the deadline's timer fires and that `Shutdown` polls it: no fairness of
handlers or clients.

`HealthGate.FairSpec` has each `Run`'s own steps in the wait, and no fairness of
deadlines, cancels or components: `WaitEnds` asks what happens after a context
is done, `HealthyGateOpens` what happens once all are healthy to stay.
`CsrfTokens.FairSpec` lets every tab go on: handlers return, and a user who is
refused loads the page again and submits it. `RetrySucceeds` is about such a
user. The other modules have safety properties only.

## 6. Proofs

`ServerLifecycleProofs` proves for any sets of calls, addresses and
configurations, from `LifecycleAssumption` alone:

- `TypeCorrect`: `Spec => []TypeOK`;
- `RunCancelIsPublished` and, from it, `RunIsExclusive`. The induction needs
  `CancelOfABody`: `runCancel` is nil or belongs to a call that is past the
  guard. Then `running` cannot be false under an active call, and two active
  calls would both be `runCancel`;
- `RunLeaksNothing`. `NothingLeaks` speaks of the last three places of `Run`; the
  strengthening `ServeTracksListeners` says for every place which Serve goroutine
  stands for which listener. That all values were received then implies that no
  listener is left;
- `ReadinessFollowsServing`, from the same exclusion: the deferred function
  that clears `listening` belongs to the only active call;
- `NoRequestIsLost` and `NoRequestIsInvented`, from `RequestHasReload`: a flag
  that is set under an active call was set by a reload that captured it;
- `NoOtherRunIsCancelled`. A cancel function that a reload has captured stays
  captured (`CapturesStay`), so that what it cancels is what it captured, though
  another `Run` may be active by then.

Each argument has a lemma about the frame (what a step of call `i` leaves alone
of call `j`) and one case per action.

It also proves `PromiseIsKept`: `Spec => ImplementsPromise`.
Its invariant `PInv` collects what is proved above and adds `Prepared`: nothing
is shut down before it serves, there is something to serve, and a drain shuts it
down. From `PInv` follows `Seen`: with call `i` past the guard, the
promise's variables are `i`'s own (`SeenHolds`); without one they are at rest.
Then `RunEnter` is the promise's `Admit`, `RunUnlock` its `GiveBack`, a refused
call its `Refuse`; a step within `Run` recedes, withdraws, opens one address or
announces (`WithinRun`, `WithinServe`, `WithinIsKept`); and every other step
leaves the mapped variables alone (`OtherStepsAreOutside`, `OutsideStutters`).

`ServerSettingsProofs` proves from `SettingsAssumption`: `TypeCorrect`;
`SettingsStay` (no reload moves a setting of an initialized server);
`NoAlarmIsFalse`; and `DriftIsDropped`, for files that give or omit whatever they
like. Its invariant adds `Kept`: a field that no `Init` was ever given has its
default. So after an `Init` (`InitDrift`), and after a reload that reports no change
(`ReloadDrift`), a field that the file gives is what the file says, and one that it
omits is the default unless it is in `applied`. For those the stronger
`NoSilentDrift` is false (section 7).

`HealthGateProofs` proves from `HealthGateAssumption`, for any number and order of
components: `TypeCorrect`, `WaitingServersOpenLast` and `VerdictsFitTheirRound`. The
invariant `Gate` relates the loop to the answers: a server that was heard sound has been
listening, and every provider before `next` has failed in this round or was heard
sound. A round without a failure then means that all other servers have been
listening. `RoundIsKept` says that what the loop has written down is of this round:
failures of places it has passed only, and a whole round behind every verdict.

`GracefulDrainProofs` proves from `DrainAssumption`, for any connections and any
number of runs: `TypeCorrect`, `DrainIsGraceful` and `GaugeCountsConnections`. The
invariant `DrainInv` has three parts: `Shape`, the types; `Counters`, which says
of which connections the gauge and the hijack counter are the number, whether
their run is over or not; and `Graceful`, that only a failed listener cuts
requests off, and that nothing of the run is left behind a nil result. `CountedMove` is
the lemma about counting: what one connection's step from one state to another
does to the two numbers.

`GzipWriterProofs` proves, from `GzipAssumption` and `NoneIsNoHead`, for any threshold, any statuses
and bodies of any length, `BodyArrives`, `HeadFitsBody`, `StatusArrives`, `CompressionIsAsPromised`,
`FlushesDeliver` and `TypeCorrect`. The invariant `WriterInv` says that the writer
is in one of four states: it holds the body back (`Buffering`), or has sent the
head and passes the body on as it is (`Plain`) or through gzip (`Gzipped`), or gzip
has rejected the level after the head was sent (`Rejected`, where all units are in
`buf` and stay there). In each it says which units are on the wire, in the `gzip.Writer` and in `buf`: consecutive ones
(`Consecutive`), shown in one encoding (`Shown`). There is one lemma for each
method in each state it can be called in.

`MiddlewareStackProofs` proves from `StackAssumption` and `NoneIsNoRecord`, for
every order of the layers, any statuses and any number of writes, all properties
of `stack_orders` (`OneAnswerOnly`, `IntendedArrives`, `PanicsAreAnswered`,
`OversizeIsRefused`, `ObserversAreTruthful`, `GaugeComesBack`) and `TypeCorrect`. The
invariant `StackInv` says where the request is and what cannot have happened by then
(`Phases`), that the gauge is one exactly within `Metrics` (`GaugeFollows`), that
`Recover` is never passed by a panic (`RecoverCatches`) and an observer not without a
look (`Looked`). Its core is `Answers`: as long as the recorders notice what is
sent, the response is the handler's own, one 413, one 500, or the connection is
hijacked; and every recorder that a call must still come back through holds what
the client has got. For `TypeCorrect`, `OneErrorAtMost` says why no recorder counts more
than the handler's writes and one error.

`TelemetryProofs` proves, from `MeterAssumption`, for any requests, routes, names and
number of scrapes: `NoneIsOverlooked`, `OperationsKeepUp` and `TypeCorrect` of
`RequestMeter`. A meter is a function from keys to counts, and what the
properties compare are sums over all keys; `SumOfOneMore`, by induction on the number
of keys, says that a sample adds one to the sum, so that the samples
of a meter are the requests which have come past it (`SamplesAreRequests`). Since
meters only grow, what a scrape has yet to read is no less than when it
began (`ScrapeKeepsUp`). For `OperationsKeepUp` it is said of the HTTP samples that each is
of a request with an operation sample, or outside of `Listed`, or in `recovered`
(`SampledAreShown`); no assumption is made on where `Recover` stands or on what
is listed.
The same module proves, from `PeekAssumption`, for any bodies, names and options of `OperationPeek`,
`PeeksAreUndone`, `PeeksStayInWindow`, `WholeBodiesNameThemselves` and
`PeekTypeCorrect`. `LeftToRead` says what is left to read at each stage, and
`NamedByItself` that a body which the window covers, be it to the last token
(`WindowCovers`), has given every name so far.

`EdgeProofs` proves from `AddressAssumption`, for any addresses, chains
and numbers of hops of `ClientAddress`: `TypeCorrect`, `ClientIsSeenByAll` and
`OnlyTravellersAreResolved`. The invariant
`Carried` says that either the header names the public client or the chain ends
in it, followed by trusted addresses only (`EndsAfter`): whatever the client sent
itself lies to the left of where the walk stops. `Travelled` says that the peer,
and every address that an ingress or a process has put into the headers, has been on
the request's way.
For `CsrfTokens` it proves, from `CsrfAssumption` and for any number of tabs, `FormsKeepTheirToken`, `TokensAreNotRotated`
and `CsrfTypeCorrect`. The invariant `CsrfInv` says that a new cookie is only on its way
to a tab that has sent none (`SetCookieOnTheWay`), and that until something overtakes it
a tab's page, and the cookie it sends, are those of the jar (`PageFitsJar`).
Of the operators it proves, from no assumption: a bind list is read as it was
written (`WrittenIsReadAgain`), names no address twice (`NoListenerFailsOnAnother`), and
equals the respelled ones (`RespelledIsNoChange`) and no other (`NoChangeIsRespelled`); a
cached CORS answer grants nothing the middleware would not (`CachedGrantsAreFresh`),
and with a validated list only listed origins get cookies
(`OnlyListedGetCookies`); a first extension changes no other problem document
(`FirstExtensionIsPrivate`), a later one those which share the map and no other
(`SharersSeeExtensions`, `ExtensionsStayInTheirMap`), and head and document agree
(`HeadMatches`).

Two proof modules extend two components each. Therefore `CsrfTokens` has a `CsrfInit`,
`CsrfNext`, `CsrfSpec`, `csrfVars` and `CsrfTypeOK`, and `OperationPeek` a `PeekInit` and
so on, where the other modules have plain names.

Only model-checked: liveness (`RunReturns`, `ImmediateReloadEndsRun`, `DrainEnds`,
`WaitEnds`, `HealthyGateOpens`, `RetrySucceeds`), which the prover does not reach; and
in `EdgeChecks` the agreement of operators with loops, which would need an induction
for each loop, and how JSON and YAML differ and a `Failure` is told.

## 7. Where the code and its documentation disagree

The run that violates its property; `PROJECT.json` quotes the lines.

| Run | What happens |
|---|---|
| `immediate_reload` | an immediate reload during start-up makes `Run` return `context.Canceled` or nil, not `ErrServerRestartRequired` |

Further statements of the documentation are written down in the modules, in
their last section or behind a constant, and are no run of their own. TLC
refutes each within seconds on the instance named here; those of `EdgeChecks`
stand there as assumptions that the case exists.

| Statement | Instance | What happens |
|---|---|---|
| `HealthyHasLiveListener` (`docs/wiring-and-health.md:124-125`) | `lifecycle_liveness` | `Health` answers nil between a Serve failure and the deferred function (`server.go:441-448`, `374`), with no listener left |
| `UncommittedPanicIs500` (`docs/errors.md:202-204`) | `gzip_body` | behind `Compression`, a panic before the head went out is answered 200, or with the status and the part of a body that the handler had left in `buf`: the deferred `Close` commits first (`security.go:616`, `700-707`) |
| `EncodedBodyIsLeftAlone` (`security.go:598`) | `gzip_body` | a body that the handler has encoded itself is gzipped again and its `Content-Encoding` overwritten (`security.go:682`); the check runs before the handler |
| `ClientGetsIntended` without `Noticed` | `stack_orders` | an informational status commits the recorder, and the handler's real status is dropped (`middleware.go:351-357`) |
| `NothingWrittenOverACommittedResponse` (`middleware.go:188`) | `Chains <- ExampleChain` | a `Flush` commits the response unseen by the recorders (`middleware.go:385-389`), and `Recover` appends its error to it |
| `EachRequestIsLogged` (`middleware.go:107`) | `Chains <- WiringChain` | `RequestLog` inside of `Recover`, as the documentation wires it: a panicking request is not logged |
| `NoSilentDrift` (`docs/reload.md:18-21`) | `settings_reload` | a reload that drops a field counts as no change (`config.go:191`), though a restart would return to the default |
| `RequiredRestartStarts` (`config.go:250`, `docs/reload.md:38-42`) | `settings_reload` | a restart can be asked for by a file that a new process refuses: a positive time that truncates to zero, or one that overflows |
| `FlagMeansRestartNeeded` (`metrics.go:156`) | `settings_reload` | the restart flag stays up when the file is put back (`config.go:178`) |
| `TimeoutClosesConnections` (`docs/long-lived-connections.md:191`) | `drain` | connections that outlive the drain are not closed: `Run` returns without `Close` (`server.go:455-460`) |
| `NoHijackedConnectionSurvives` (`docs/long-lived-connections.md:178`) | `drain` | hijacked connections are nobody's when the server shuts down |
| `PrefixIsRestored` (`graphql/metrics.go:126`) | `peek_names` | a read that fails within the window loses the bytes before it (`graphql/metrics.go:358-361`); a failed full read leaves an empty body without the error |
| `LabelIsHonest` (`docs/graphql-metrics.md:26-28`) | `peek_names` | in a cut window an `operationName` inside of `variables` becomes the label (`graphql/metrics.go:328`) |
| `ContextNameIsUsed` (`docs/graphql-metrics.md:173-175`) | `peek_names` | `graphql.Metrics` does not ask `OperationNameFrom` |
| `BindSeesAllHealthy` (`docs/wiring-and-health.md:131`) | `health_gate` | a provider that answered early in the round may have failed when the server binds |
| `EnvoyElsePeer` (`README.md:278-279`) | `client_address` | without a parseable `X-Envoy-External-Address` the client is taken from `X-Forwarded-For` before the peer (`clientip.go:37-39`) |
| `NoLostGrant` (`security.go:118`) | `EdgeChecks!GrantsMayBeLost` | `Vary` is added after the early return (`security.go:113-116`): a cache may answer an allowed origin with what it has from a request without one |
| `OthersKeep` for a map that exists (`problem/problem.go:118`) | `EdgeChecks!OnlySharersChange` | `WithExtension` on a copy writes to the map that the original shares |
| JSON and YAML read alike (`bind.go:17-34`, `49-64`) | `EdgeChecks!EncodingsDifferInOneValue` | the empty scalar is no list in YAML and an error in JSON |

Two more concern `GzipWriter`. A body of exactly `MinSize` is gzipped
(`security.go:668`), as the comments on `WriteHeader` and `MinSize` say
(`security.go:573`, `637-640`); `README.md:265` says "above `MinSize`".
`CompressedExactlyWhenPromised` takes the comments' side. And a level outside of gzip's range is
found out after the head was sent (`security.go:690-693`): the client gets
`Content-Encoding: gzip` with an empty body, while the `Write`s that only filled
`buf` were answered nil. No documentation promises anything there; `BodyIntact` states what happens.

## 8. What is not modelled

- **Logging**, the subscription of the logger, wording, JSON and header formatting:
  no property is about them.
- **NaN and infinities** in a file, which the validators refuse outright, and the
  rounding of floating point other than at the bound.
- **Security headers, request IDs**: assignments that depend on options or one
  header alone; nothing that a sequence of steps could break.
- **The text of addresses and origins**: ports, blanks and IPv6 zones of client
  addresses, the parsing of `Origin` and `Referer`, the syntax of bind entries
  beyond their form. `ExposedHeaders` of CORS.
- **Members of a problem document** other than the status, the request's ID and
  the extensions; the named constructors.
- **External code**: net/http, compress/gzip, the framework core, the
  configuration and observability components, modelled from how this
  repository uses them and marked external.
- **What follows a hijack** on the hijacked connection.
- **Data races**: everything shared is behind a lock or an atomic, except the two
  reads of `c.fw` in `waitForHealthProviders`, which are steps of their own.
- **Examples and documentation** are read, for how the parts are wired.

## 9. Plan

Done, in this order: `ServerLifecycle` with its refinement and proofs;
`GzipWriter`; `MiddlewareStack`; `ServerSettings` with its proofs and the numeric
edges of the validators; `RequestMeter`; `GracefulDrain`; `OperationPeek`;
`HealthGate` and `ClientAddress` with their proofs; `CsrfTokens`; `BindList`,
`CorsHeaders`, `ProblemValues` with theirs, and `EdgeChecks`; the proof of the
refinement; the proofs of all safety properties of the remaining modules and of
every `TypeOK`.

What would add most from here:

1. Composition: `GzipWriter` inside of `MiddlewareStack`'s recorders, and
   `GracefulDrain` as the implementation of the lifecycle's `RunDraining`.
2. Theorems: the loops of `EdgeChecks` against the definitions they stand for.
