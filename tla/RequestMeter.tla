----------------------------- MODULE RequestMeter -----------------------------
(****************************************************************************)
(* The meters of a Server (metrics.go, server.go, graphql/metrics.go) and   *)
(* the scrapes that read them while requests go on: the in-flight gauge, an *)
(* atomic counter of its own, and the http, operations and resolvers        *)
(* meters, each behind its own lock.                                        *)
(*                                                                          *)
(* A request passes Metrics and, inside of it, graphql.Metrics, which       *)
(* tracks the operations of its options and drops the others; the engine    *)
(* may record one resolver.  Recover stands between the two, as             *)
(* docs/examples.md:171-176 wires it, or around both, as                    *)
(* docs/wiring-and-health.md:52-54 has it, or nowhere.  A key is a route or *)
(* an operation name, normalised; "app" samples have keys of their own and  *)
(* are not told apart.  Durations are left out: sumNs moves with count.     *)
(*                                                                          *)
(* Listed are the names that the options have graphql.Metrics count.        *)
(*                                                                          *)
(* Bounds.  Each of Requests happens once; the scraper makes MaxScrapes.    *)
(****************************************************************************)
EXTENDS Integers, FiniteSets, FiniteSetsExt

CONSTANTS Requests, Names, Listed, Codes, MaxScrapes

ASSUME MeterAssumption ==
    /\ IsFiniteSet(Requests) /\ IsFiniteSet(Names)
    /\ Listed \subseteq Names
    /\ Codes \subseteq Nat
    /\ MaxScrapes \in Nat

VARIABLES
    pc,        \* a request's progress through the middlewares
    name,      \* its route pattern and operation name, "" if it has none
    code,      \* the status its recorders hold
    recovers,  \* whether Recover stands inside of Metrics
    recovered, \* history: the requests whose panic it took
    inside,    \* the requests between Add(1) and the deferred Add(-1)
    inFlight,
    total,     \* meter -> key -> status class -> samples
    count,     \* meter -> key -> duration observations
    enabled,   \* metricsEnabled
    scraper,   \* "idle" or what Metrics() reads next
    seen,      \* what the scrape under way has read
    entered,   \* history: how many requests it must account for
    unoperated,\* history: how many of those it read are in no operation
    scrapes

requestVars == <<pc, name, code, recovers, recovered, inside, inFlight>>
meterVars == <<total, count>>
scrapeVars == <<scraper, seen, entered, unoperated, scrapes>>
vars == <<requestVars, meterVars, enabled, scrapeVars>>

Meters == {"http", "operations", "resolvers"}
Classes == {"1xx", "2xx", "3xx", "4xx", "5xx", "unknown"}

Named(n) == IF n = "" THEN "unknown" ELSE n
Keys == {Named(n) : n \in Names}

(* statusClass *)
StatusClass(c) ==
    CASE c < 100 \/ c > 599 -> "unknown"
      [] c \in 100..199 -> "1xx"
      [] c \in 200..299 -> "2xx"
      [] c \in 300..399 -> "3xx"
      [] c \in 400..499 -> "4xx"
      [] c \in 500..599 -> "5xx"

Totals == [Meters -> [Keys -> [Classes -> Nat]]]
Observations == [Meters -> [Keys -> Nat]]
NoTotals == [m \in Meters |-> [k \in Keys |-> [c \in Classes |-> 0]]]
NoObservations == [m \in Meters |-> [k \in Keys |-> 0]]
NothingSeen == [inFlight |-> 0, total |-> NoTotals, count |-> NoObservations]

Running == {"entered", "resolved"}
Counted == {"operated", "sampled"}

TypeOK ==
    /\ pc \in [Requests -> {"new", "panicked", "recovered"} \cup Running \cup Counted]
    /\ name \in [Requests -> Names] /\ code \in [Requests -> Codes \cup {500}]
    /\ recovers \in BOOLEAN
    /\ {recovered, inside} \subseteq SUBSET Requests
    /\ inFlight \in 0..Cardinality(Requests)
    /\ total \in Totals /\ count \in Observations
    /\ enabled \in BOOLEAN
    /\ scraper \in {"idle", "fields", "inFlight"} \cup Meters
    /\ seen \in [inFlight : Int, total : Totals, count : Observations]
    /\ {entered, unoperated} \subseteq Nat
    /\ scrapes \in 0..MaxScrapes

Init ==
    /\ pc = [r \in Requests |-> "new"]
    /\ name \in [Requests -> Names] /\ code \in [Requests -> Codes]
    /\ recovers \in BOOLEAN /\ recovered = {}
    /\ inside = {} /\ inFlight = 0
    /\ total = NoTotals /\ count = NoObservations
    /\ enabled = TRUE
    /\ scraper = "idle" /\ seen = NothingSeen
    /\ entered = 0 /\ unoperated = 0 /\ scrapes = 0

-----------------------------------------------------------------------------
(* The classes of a key after one more sample of class c.                   *)
OneMore(classes, c) == [classes EXCEPT ![c] = @ + 1]

(* recordHTTP and recordMeter, each under the lock of its meter.            *)
Sample(m, r) ==
    LET k == Named(name[r]) IN
    /\ total' = [total EXCEPT ![m][k] = OneMore(@, StatusClass(code[r]))]
    /\ count' = [count EXCEPT ![m][k] = @ + 1]

Step(r, from, to) ==
    /\ pc[r] \in from
    /\ pc' = [pc EXCEPT ![r] = to]
    /\ UNCHANGED <<name, recovers, enabled, scrapeVars>>

(* A step that no panic ends. *)
Proceeds(r, from, to) == Step(r, from, to) /\ UNCHANGED <<code, recovered>>

Enter(r) ==
    /\ Proceeds(r, {"new"}, "entered")
    /\ inside' = inside \cup {r} /\ inFlight' = inFlight + 1
    /\ UNCHANGED meterVars

RecordResolver(r) ==
    /\ Proceeds(r, {"entered"}, "resolved")
    /\ Sample("resolvers", r)
    /\ UNCHANGED <<inside, inFlight>>

VariantTracksNamedOnly(r) ==
    /\ Proceeds(r, Running, "operated")
    /\ IF name[r] \in Listed \ {""} THEN Sample("operations", r) ELSE UNCHANGED meterVars
    /\ UNCHANGED <<inside, inFlight>>

(* The handler has returned to graphql.Metrics, which counts it if its      *)
(* options track the name.                                                  *)
RecordOperation(r) ==
    /\ Proceeds(r, Running, "operated")
    /\ IF name[r] \in Listed THEN Sample("operations", r) ELSE UNCHANGED meterVars
    /\ UNCHANGED <<inside, inFlight>>

RecordHTTP(r) ==
    /\ Proceeds(r, {"operated", "recovered"}, "sampled")
    /\ Sample("http", r)
    /\ UNCHANGED <<inside, inFlight>>

(* A panic of the handler unwinds graphql.Metrics.  A Recover inside of     *)
(* Metrics answers 500, unless the handler has answered, and returns to     *)
(* Metrics; otherwise the panic unwinds Metrics as well.                    *)
Panic(r) ==
    /\ \/ /\ recovers
          /\ Step(r, Running, "recovered")
          /\ recovered' = recovered \cup {r}
          /\ \E c \in {code[r], 500} : code' = [code EXCEPT ![r] = c]
       \/ /\ ~recovers
          /\ Proceeds(r, Running, "panicked")
    /\ UNCHANGED <<meterVars, inside, inFlight>>

VariantLeavesEarly(r) == pc[r] \in Counted \cup {"panicked", "recovered"}
MayLeave(r) == pc[r] \in {"sampled", "panicked"}

(* The deferred Add(-1). *)
AfterLeave == inFlight - 1

Leave(r) ==
    /\ r \in inside /\ MayLeave(r)
    /\ inside' = inside \ {r} /\ inFlight' = AfterLeave
    /\ UNCHANGED <<pc, name, code, recovers, recovered, meterVars, enabled, scrapeVars>>

(* OnConfigReload: metrics_enabled is live. *)
Switch ==
    /\ enabled' = ~enabled
    /\ UNCHANGED <<requestVars, meterVars, scrapeVars>>

-----------------------------------------------------------------------------
(* Metrics(), the scrape.  The fields come first, under the server's lock,  *)
(* then the gauge, then one meter after the other.                          *)

Reads(from, to) ==
    /\ scraper = from /\ scraper' = to
    /\ UNCHANGED <<requestVars, meterVars, enabled>>

ScrapeBegins ==
    /\ scrapes < MaxScrapes
    /\ \/ enabled /\ Reads("idle", "inFlight")
       \/ ~enabled /\ Reads("idle", "idle")
    /\ seen' = NothingSeen
    /\ scrapes' = scrapes + 1
    /\ UNCHANGED <<entered, unoperated>>

(* Whom the scrape has to show: all that entered, but for panics that left. *)
Accountable ==
    {r \in Requests : pc[r] # "new" /\ ~(pc[r] = "panicked" /\ r \notin inside)}

ScrapeInFlight ==
    /\ Reads("inFlight", "http")
    /\ seen' = [seen EXCEPT !.inFlight = inFlight]
    /\ entered' = Cardinality(Accountable)
    /\ UNCHANGED <<unoperated, scrapes>>

SeenAfter(m) == [seen EXCEPT !.total[m] = total[m], !.count[m] = count[m]]

(* Whom Metrics counts and graphql.Metrics does not: operations outside of  *)
(* its options, and panics that were recovered between the two.             *)
Unoperated ==
    {r \in Requests : pc[r] = "sampled" /\ (name[r] \notin Listed \/ r \in recovered)}

ScrapeHTTP ==
    /\ Reads("http", "operations")
    /\ seen' = SeenAfter("http")
    /\ unoperated' = Cardinality(Unoperated)
    /\ UNCHANGED <<entered, scrapes>>

ScrapeOperations ==
    /\ Reads("operations", "resolvers")
    /\ seen' = SeenAfter("operations")
    /\ UNCHANGED <<entered, unoperated, scrapes>>

ScrapeResolvers ==
    /\ Reads("resolvers", "idle")
    /\ seen' = SeenAfter("resolvers")
    /\ UNCHANGED <<entered, unoperated, scrapes>>

Next ==
    \/ \E r \in Requests :
          \/ Enter(r) \/ RecordResolver(r) \/ RecordOperation(r) \/ RecordHTTP(r)
          \/ Panic(r) \/ Leave(r)
    \/ Switch
    \/ ScrapeBegins \/ ScrapeInFlight
    \/ ScrapeHTTP \/ ScrapeOperations \/ ScrapeResolvers

Spec == Init /\ [][Next]_vars

-----------------------------------------------------------------------------
(* Properties.                                                              *)

SumOver(f) == MapThenSumSet(LAMBDA x : f[x], DOMAIN f)
Samples(counts, m) == SumOver(counts[m])

(* No request falls between the gauge and the counters: whoever had entered *)
(* when the scrape read the gauge is in it, or in the totals it reads next. *)
NoRequestUnseen ==
    scraper \in {"operations", "resolvers"} =>
        seen.inFlight + Samples(seen.count, "http") >= entered

(* docs/examples.md:158-159, 182-183: what is not in the list emits no      *)
(* operation sample, and the HTTP metrics still count it.  Nobody else is   *)
(* missing: a request that a scrape shows in http_requests_total is shown   *)
(* as an operation, unless its operation is not tracked or Recover took its *)
(* panic between the two middlewares, whatever is recorded meanwhile.       *)
OperationsCoverRequests ==
    scraper = "resolvers" =>
        Samples(seen.count, "operations") + unoperated >= Samples(seen.count, "http")
=============================================================================
