--------------------------- MODULE MiddlewareStack ---------------------------
(****************************************************************************)
(* One request on its way through Chain(...)(handler): Metrics, RequestLog, *)
(* Recover and MaxBodyBytes in some order (middleware.go), each but the     *)
(* handler with a statusRecorder of its own, net/http outside of them all.  *)
(*                                                                          *)
(* chain[1] is the outermost layer; "at" layers have been entered.  A call  *)
(* on the ResponseWriter that layer m hands on passes the recorders         *)
(* m, m-1, ..., 1 before it reaches net/http.  A panic unwinds layer by     *)
(* layer and only deferred code runs.                                       *)
(*                                                                          *)
(* A request is one of: "small"; "declared", whose Content-Length is over   *)
(* the limit; "hidden", over the limit without saying so.  A Write is one   *)
(* unit of body, its author told apart: "handler" or "error" (ErrorWriter). *)
(*                                                                          *)
(* Bounds.  MaxWrites bounds the handler's Writes; Informational holds the  *)
(* 1xx statuses it may send ahead of the real one.                          *)
(****************************************************************************)
EXTENDS Integers, Sequences

CONSTANTS Chains, Codes, Informational, MaxWrites, None

LayerKinds == {"metrics", "log", "recover", "limit"}

ASSUME StackAssumption ==
    /\ Chains \subseteq Seq(LayerKinds)
    /\ \A c \in Chains : \A i, j \in 1..Len(c) : c[i] = c[j] => i = j
    /\ Codes \subseteq 200..599 /\ {200, 413, 500} \cap Codes = {200}
    /\ Informational \subseteq (100..199) \ {101}
    /\ MaxWrites \in Nat
    /\ None \notin Nat

VARIABLES
    chain, request,
    mode,         \* "entering", "handling", "returning", "panicking",
                  \* "done" or "aborted"
    at,           \* how many layers have been entered and not left
    rec,          \* rec[i]: the statusRecorder of layer i
    tooLarge,     \* MaxBodyBytes' tooLarge
    inFlight, counted, logged,
    head, body, hijacked,    \* what the client has got
    intended, writes, panicked, \* the status the handler fixed first, its
                                \* Writes, whether it panicked
    unnoticed     \* it sent something that recorders do not take for what it is

clientVars == <<head, body, hijacked>>
handlerVars == <<intended, writes, panicked, unnoticed>>
observerVars == <<inFlight, counted, logged>>
vars == <<chain, request, mode, at, rec, tooLarge, observerVars, clientVars,
          handlerVars>>

N == Len(chain)
Has(layer) == \E i \in 1..N : chain[i] = layer
Status == Codes \cup Informational \cup {200, 413, 500}
Recorder == [status : Status, committed : BOOLEAN, written : 0..(MaxWrites + 1)]
Record == [status : Status, written : 0..(MaxWrites + 1)]

ASSUME NoneIsNoRecord == None \notin [status : Nat, written : Nat]

TypeOK ==
    /\ chain \in Chains
    /\ request \in {"small", "declared", "hidden"}
    /\ mode \in {"entering", "handling", "returning", "panicking", "done", "aborted"}
    /\ at \in 0..N
    /\ rec \in [1..N -> Recorder]
    /\ {tooLarge, hijacked, panicked, unnoticed} \subseteq BOOLEAN
    /\ inFlight \in 0..1
    /\ counted \in Status \cup {None} /\ logged \in Record \cup {None}
    /\ head \in (Status \ Informational) \cup {None}
    /\ body \in Seq({"handler", "error"})
    /\ intended \in Codes \cup {None}
    /\ writes \in 0..MaxWrites

Init ==
    /\ chain \in Chains
    /\ request \in {"small", "declared", "hidden"}
    /\ mode = "entering" /\ at = 0
    /\ rec = [i \in 1..N |-> [status |-> 200, committed |-> FALSE, written |-> 0]]
    /\ tooLarge = FALSE
    /\ inFlight = 0 /\ counted = None /\ logged = None
    /\ head = None /\ body = <<>> /\ hijacked = FALSE
    /\ intended = None /\ writes = 0 /\ panicked = FALSE /\ unnoticed = FALSE

-----------------------------------------------------------------------------
(* statusRecorder.  A call on the writer of layer m, seen by all recorders  *)
(* and the client.                                                          *)

(* WriteHeader stops at the first recorder that is committed already. *)
Reached(m) == {i \in 1..m : \A j \in i..m : ~rec[j].committed}

RecorderWriteHeader(m, code) ==
    [i \in 1..N |-> IF i \in Reached(m)
                    THEN [rec[i] EXCEPT !.status = code, !.committed = TRUE]
                    ELSE rec[i]]

(* written counts what net/http took: nothing once it is hijacked. *)
Taken == IF hijacked THEN 0 ELSE 1
VariantStaysUncommitted(m, r) ==
    [i \in 1..N |-> IF i \in 1..m THEN [r[i] EXCEPT !.written = @ + Taken]
                    ELSE r[i]]
RecorderWrite(m, r) ==
    [i \in 1..N |-> IF i \in 1..m
                    THEN [r[i] EXCEPT !.committed = TRUE, !.written = @ + Taken]
                    ELSE r[i]]

(* net/http keeps the first status that is not informational, and takes 200 *)
(* for one when the body, a Flush or the end of the request comes first.    *)
HeadAfterWriteHeader(m, code) ==
    IF Reached(m) = 1..m /\ head = None /\ code \notin Informational
    THEN code ELSE head
OrOK(status) == IF status = None THEN 200 ELSE status

(* ErrorWriter on the writer of layer m: WriteHeader, then the error body.  *)
WriteError(m, code) ==
    /\ rec' = RecorderWrite(m, RecorderWriteHeader(m, code))
    /\ IF hijacked THEN UNCHANGED <<head, body>>
       ELSE /\ head' = OrOK(HeadAfterWriteHeader(m, code))
            /\ body' = Append(body, "error")
    /\ UNCHANGED hijacked

-----------------------------------------------------------------------------
(* The way in.                                                              *)

(* MaxBodyBytes answers a declared oversize itself; all others call on. *)
EnterLimit ==
    /\ mode = "entering" /\ at < N
    /\ chain[at + 1] = "limit" /\ request = "declared"
    /\ WriteError(at, 413)
    /\ mode' = "returning"
    /\ UNCHANGED <<chain, request, at, tooLarge, observerVars, handlerVars>>

Enter ==
    /\ mode = "entering" /\ at < N
    /\ ~(chain[at + 1] = "limit" /\ request = "declared")
    /\ at' = at + 1
    /\ inFlight' = IF chain[at + 1] = "metrics" THEN inFlight + 1 ELSE inFlight
    /\ UNCHANGED <<chain, request, mode, rec, tooLarge, counted, logged,
                   clientVars, handlerVars>>

EnterHandler ==
    /\ mode = "entering" /\ at = N
    /\ mode' = "handling"
    /\ UNCHANGED <<chain, request, at, rec, tooLarge, observerVars, clientVars,
                   handlerVars>>

-----------------------------------------------------------------------------
(* The handler, on the writer of the innermost layer.                       *)

WriteHeader(code) ==
    /\ mode = "handling" /\ ~hijacked /\ intended = None
    /\ intended' = IF code \in Informational THEN None ELSE code
    /\ rec' = RecorderWriteHeader(N, code)
    /\ head' = HeadAfterWriteHeader(N, code)
    /\ unnoticed' = (unnoticed \/ code \in Informational)
    /\ UNCHANGED <<chain, request, mode, at, tooLarge, observerVars, body,
                   hijacked, writes, panicked>>

Write ==
    /\ mode = "handling" /\ ~hijacked /\ writes < MaxWrites
    /\ writes' = writes + 1
    /\ intended' = OrOK(intended)
    /\ rec' = RecorderWrite(N, rec)
    /\ head' = OrOK(head)
    /\ body' = Append(body, "handler")
    /\ UNCHANGED <<chain, request, mode, at, tooLarge, observerVars, hijacked,
                   panicked, unnoticed>>

(* Flush passes the recorders without a trace. *)
Flush ==
    /\ mode = "handling" /\ ~hijacked
    /\ intended' = OrOK(intended)
    /\ unnoticed' = (unnoticed \/ head = None)
    /\ head' = OrOK(head)
    /\ UNCHANGED <<chain, request, mode, at, rec, tooLarge, observerVars, body,
                   hijacked, writes, panicked>>

(* So does Hijack; net/http refuses every later call on the writer. *)
Hijack ==
    /\ mode = "handling" /\ ~hijacked
    /\ hijacked' = TRUE
    /\ UNCHANGED <<chain, request, mode, at, rec, tooLarge, observerVars, head,
                   body, handlerVars>>

(* The handler reads the body to its end, or to the limit. *)
ReadBody ==
    /\ mode = "handling" /\ ~hijacked
    /\ tooLarge' = (tooLarge \/ (Has("limit") /\ request = "hidden"))
    /\ UNCHANGED <<chain, request, mode, at, rec, observerVars, clientVars,
                   handlerVars>>

HandlerReturns ==
    /\ mode = "handling"
    /\ mode' = "returning"
    /\ UNCHANGED <<chain, request, at, rec, tooLarge, observerVars, clientVars,
                   handlerVars>>

HandlerPanics ==
    /\ mode = "handling"
    /\ mode' = "panicking" /\ panicked' = TRUE
    /\ UNCHANGED <<chain, request, at, rec, tooLarge, observerVars, clientVars,
                   intended, writes, unnoticed>>

-----------------------------------------------------------------------------
(* The way out, layer by layer.                                             *)

Leave(layer) ==
    /\ mode \in {"returning", "panicking"}
    /\ at > 0 /\ chain[at] = layer
    /\ at' = at - 1
    /\ UNCHANGED <<chain, request, handlerVars>>

LeaveLog ==
    /\ Leave("log")
    /\ logged' = IF mode = "returning"
                 THEN [status |-> rec[at].status, written |-> rec[at].written]
                 ELSE logged
    /\ UNCHANGED <<mode, rec, tooLarge, inFlight, counted, clientVars>>

VariantNotDeferred == IF mode = "returning" THEN inFlight - 1 ELSE inFlight
InFlightAfter == inFlight - 1

(* The decrement of inFlight is deferred, the sample is not. *)
LeaveMetrics ==
    /\ Leave("metrics")
    /\ inFlight' = InFlightAfter
    /\ counted' = IF mode = "returning" THEN rec[at].status ELSE counted
    /\ UNCHANGED <<mode, rec, tooLarge, logged, clientVars>>

VariantOnlyUncommitted == ~rec[at].committed
AnswersTooLarge == tooLarge /\ ~rec[at].committed

(* The 413 goes through this layer's own recorder. *)
LeaveLimit ==
    /\ Leave("limit")
    /\ IF mode = "returning" /\ AnswersTooLarge
       THEN WriteError(at, 413)
       ELSE UNCHANGED <<rec, clientVars>>
    /\ UNCHANGED <<mode, tooLarge, observerVars>>

VariantAlways500 == TRUE
Answers500 == ~rec[at].committed

VariantPanicsOn == mode
AfterRecover == "returning"

(* The 500 goes to the writer that Recover was given, around its recorder.  *)
LeaveRecover ==
    /\ Leave("recover")
    /\ IF mode = "panicking" /\ Answers500
       THEN WriteError(at - 1, 500)
       ELSE UNCHANGED <<rec, clientVars>>
    /\ mode' = AfterRecover
    /\ UNCHANGED <<tooLarge, observerVars>>

(* net/http completes the response, or aborts the connection on a panic. *)
Finish ==
    /\ at = 0
    /\ \/ mode = "returning" /\ mode' = "done"
       \/ mode = "panicking" /\ mode' = "aborted"
    /\ head' = IF mode = "returning" /\ ~hijacked THEN OrOK(head) ELSE head
    /\ UNCHANGED <<chain, request, at, rec, tooLarge, observerVars, body, hijacked,
                   handlerVars>>

Finished == mode \in {"done", "aborted"} /\ UNCHANGED vars

Next ==
    \/ EnterLimit \/ Enter \/ EnterHandler
    \/ \E code \in Codes \cup Informational : WriteHeader(code)
    \/ Write \/ Flush \/ Hijack \/ ReadBody \/ HandlerReturns \/ HandlerPanics
    \/ LeaveLog \/ LeaveMetrics \/ LeaveLimit \/ LeaveRecover
    \/ Finish \/ Finished

Spec == Init /\ [][Next]_vars

-----------------------------------------------------------------------------
(* Properties.  Observed reads a finished response that was not hijacked,   *)
(* Noticed leaves out handlers that Flush before they send a head, or send  *)
(* an informational one: the recorders take the first for nothing and the   *)
(* second for the final head.                                               *)

Observed == mode = "done" /\ ~hijacked
Noticed == ~unnoticed
Before(a, b) == \E i, j \in 1..N : i < j /\ chain[i] = a /\ chain[j] = b

(* A client gets the handler's response or one error, never a mixture: the  *)
(* errors that Recover and MaxBodyBytes write come alone and with their own *)
(* status, whichever of the two stands outside.                             *)
OneAnswer ==
    Noticed => \A k \in 1..Len(body) :
        body[k] = "error" => Len(body) = 1 /\ head \in {413, 500}

(* The handler's status and body reach the client through all recorders,    *)
(* whether or not it then panics.                                           *)
ClientGetsIntended ==
    Observed /\ Noticed /\ intended # None => head = intended /\ Len(body) = writes

(* With Recover in the chain no connection is aborted by a panic, and a     *)
(* panic before any output is answered with a 500 (docs/errors.md:202-204). *)
PanicAnswered ==
    Has("recover") =>
        /\ mode # "aborted"
        /\ Observed /\ Noticed /\ panicked /\ intended = None => head = 500

(* 413 is the answer to exactly the oversize requests that nothing else has *)
(* answered (middleware.go:236-241).                                        *)
OversizeRefused ==
    Observed /\ Noticed => ((head = 413) <=>
        /\ Has("limit") /\ intended = None /\ ~panicked
        /\ request = "declared" \/ tooLarge)

(* What RequestLog and Metrics record is what the client got, at whichever  *)
(* depth they stand, and standing outside of Recover they record every      *)
(* request, panics included.  Only a MaxBodyBytes outside of them answers   *)
(* without them, before they are entered or after they have looked.         *)
ObserversTellTheTruth ==
    Observed /\ Noticed =>
        /\ ~Before("limit", "log") =>
              /\ logged # None => logged = [status |-> head, written |-> Len(body)]
              /\ Before("log", "recover") => logged # None
        /\ ~Before("limit", "metrics") =>
              /\ counted # None => counted = head
              /\ Before("metrics", "recover") => counted # None

(* http_requests_in_flight comes back to zero on every way out, an aborting *)
(* panic included.                                                          *)
InFlightSettles == mode \in {"done", "aborted"} => inFlight = 0

(* middleware.go:107: "RequestLog logs each request". *)
EachRequestIsLogged == Observed /\ Has("log") => logged # None

(* middleware.go:188: Recover "only writes an error response if the         *)
(* response has not been committed yet".                                    *)
NothingWrittenOverACommittedResponse ==
    [][head # None /\ body' # body => body' = Append(body, "handler")]_vars
=============================================================================
