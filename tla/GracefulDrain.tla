---------------------------- MODULE GracefulDrain ----------------------------
(****************************************************************************)
(* The connections of a Server while Run serves, drains and returns, and    *)
(* the gauge that connState keeps of them (server.go).  ServerLifecycle     *)
(* takes a drain for one wait; here the connections it waits for are told   *)
(* apart, and those that a Run leaves behind live on into the next.         *)
(*                                                                          *)
(* A connection is "new", "active" while a handler runs, "idle" between     *)
(* requests, "closing" once the server has closed its socket and net/http   *)
(* has not said so yet, "closed", or "hijacked".  owner is the Run that     *)
(* accepted it.                                                             *)
(*                                                                          *)
(* Bounds.  Each of Conns is accepted once; MaxRuns calls of Run.           *)
(****************************************************************************)
EXTENDS Integers, FiniteSets

CONSTANTS Conns, MaxRuns

ASSUME DrainAssumption == IsFiniteSet(Conns) /\ MaxRuns \in Nat \ {0}

VARIABLES
    mode,         \* of Run: "serving", "draining" or "returned"
    run,          \* how many calls of Run there have been
    conn, owner,
    expired,      \* whether shutdownCtx is past its deadline
    result,       \* what Run returned: "none" while it has not; "nil" also
                  \* stands for ErrServerRestartRequired, "serve" for the
                  \* error of a listener or nil after it
    cut,          \* connections that a server closed under a request
    connections, hijacks, drainTimeouts

runVars == <<mode, run, expired, result>>
vars == <<runVars, conn, owner, cut, connections, hijacks, drainTimeouts>>

Open == {"new", "active", "idle"}
Results == {"none", "nil", "deadline", "listener", "serve"}

TypeOK ==
    /\ mode \in {"serving", "draining", "returned"}
    /\ run \in 1..MaxRuns
    /\ conn \in [Conns -> Open \cup {"none", "closing", "closed", "hijacked"}]
    /\ owner \in [Conns -> 0..MaxRuns]
    /\ expired \in BOOLEAN
    /\ result \in Results
    /\ cut \subseteq Conns
    /\ connections \in 0..Cardinality(Conns)
    /\ hijacks \in 0..Cardinality(Conns)
    /\ drainTimeouts \in 0..run

Init ==
    /\ mode = "serving" /\ run = 1 /\ expired = FALSE /\ result = "none"
    /\ conn = [c \in Conns |-> "none"] /\ owner = [c \in Conns |-> 0]
    /\ cut = {}
    /\ connections = 0 /\ hijacks = 0 /\ drainTimeouts = 0

Own == {c \in Conns : owner[c] = run /\ conn[c] \in Open}

-----------------------------------------------------------------------------
(* connState, on the states in which net/http calls it.                     *)

VariantHijackKeeps(state) == IF state = "hijacked" THEN 0 ELSE -1
Released(state) == -1

ConnState(state) ==
    /\ connections' = IF state = "new" THEN connections + 1
                      ELSE connections + Released(state)
    /\ hijacks' = IF state = "hijacked" THEN hijacks + 1 ELSE hijacks

Moves(c, from, to) ==
    /\ conn[c] \in from
    /\ conn' = [conn EXCEPT ![c] = to]
    /\ UNCHANGED <<runVars, cut, drainTimeouts>>

(* Shutdown closes the listeners before all else. *)
Accept(c) ==
    /\ mode = "serving"
    /\ Moves(c, {"none"}, "new")
    /\ owner' = [owner EXCEPT ![c] = run]
    /\ ConnState("new")

StartRequest(c) ==
    /\ Moves(c, {"new", "idle"}, "active")
    /\ UNCHANGED <<owner, connections, hijacks>>

(* Keep-alive ends with the server that is shutting down. *)
EndRequest(c) ==
    /\ UNCHANGED owner
    /\ \/ /\ mode = "serving" /\ owner[c] = run
          /\ Moves(c, {"active"}, "idle")
          /\ UNCHANGED <<connections, hijacks>>
       \/ Moves(c, {"active"}, "closed") /\ ConnState("closed")

Hijack(c) ==
    /\ Moves(c, {"active"}, "hijacked")
    /\ ConnState("hijacked")
    /\ UNCHANGED owner

(* The client goes away, or the socket that the server closed is noticed. *)
Closed(c) ==
    /\ Moves(c, {"new", "idle", "closing"}, "closed")
    /\ ConnState("closed")
    /\ UNCHANGED owner

-----------------------------------------------------------------------------
(* Run.                                                                     *)

(* The sockets that go when the drain begins: none, Shutdown waits.         *)
VariantCloseOnCancel == Own
ClosedAtOnce == {}

BeginDrain ==
    /\ mode = "serving"
    /\ mode' = "draining"
    /\ conn' = [c \in Conns |-> IF c \in ClosedAtOnce THEN "closing" ELSE conn[c]]
    /\ cut' = cut \cup {c \in ClosedAtOnce : conn[c] = "active"}
    /\ UNCHANGED <<run, owner, expired, result, connections, hijacks, drainTimeouts>>

(* A round of Shutdown's poll closes what is idle. *)
CloseIdle(c) ==
    /\ mode = "draining" /\ c \in Own
    /\ Moves(c, {"new", "idle"}, "closing")
    /\ UNCHANGED <<owner, connections, hijacks>>

DeadlinePasses ==
    /\ mode = "draining" /\ ~expired
    /\ expired' = TRUE
    /\ UNCHANGED <<mode, run, conn, owner, result, cut, connections, hijacks,
                   drainTimeouts>>

TimeoutsAfter(how) ==
    IF how = "deadline" \/ (how = "listener" /\ expired)
    THEN drainTimeouts + 1 ELSE drainTimeouts

RunReturns(how) ==
    /\ mode' = "returned" /\ result' = how
    /\ UNCHANGED <<run, owner, expired, connections, hijacks>>

Quiescent == Own = {}

(* Shutdown has waited for all; closing a listener may have failed. *)
Drained(how) ==
    /\ mode = "draining" /\ Quiescent
    /\ drainTimeouts' = TimeoutsAfter(how)
    /\ RunReturns(how)
    /\ UNCHANGED <<conn, cut>>

(* Shutdown gives up and leaves the connections as they are. *)
VariantWaitsForAll == mode = "draining" /\ expired /\ Quiescent
GivesUp == mode = "draining" /\ expired

DrainTimesOut ==
    /\ GivesUp
    /\ drainTimeouts' = TimeoutsAfter("deadline")
    /\ RunReturns("deadline")
    /\ UNCHANGED <<conn, cut>>

(* Serve fails by itself: Run closes every connection and returns. *)
ServeFails ==
    /\ mode = "serving"
    /\ conn' = [c \in Conns |-> IF c \in Own THEN "closing" ELSE conn[c]]
    /\ cut' = cut \cup {c \in Own : conn[c] = "active"}
    /\ RunReturns("serve")
    /\ UNCHANGED drainTimeouts

RunAgain ==
    /\ mode = "returned" /\ run < MaxRuns
    /\ mode' = "serving" /\ run' = run + 1
    /\ expired' = FALSE /\ result' = "none" /\ cut' = {}
    /\ UNCHANGED <<conn, owner, connections, hijacks, drainTimeouts>>

Next ==
    \/ \E c \in Conns :
          Accept(c) \/ StartRequest(c) \/ EndRequest(c) \/ Hijack(c) \/ Closed(c)
          \/ CloseIdle(c)
    \/ BeginDrain \/ DeadlinePasses
    \/ \E how \in {"nil", "listener"} : Drained(how)
    \/ DrainTimesOut \/ ServeFails \/ RunAgain

(* The deadline is a timer, and Shutdown polls it.  No fairness of handlers *)
(* or clients: a request may run for ever.                                  *)
Fairness == WF_vars(DeadlinePasses) /\ WF_vars(DrainTimesOut)

Spec == Init /\ [][Next]_vars /\ Fairness

-----------------------------------------------------------------------------
(* Properties.                                                              *)

(* README.md:8: the drain is graceful.  A Run whose context is cancelled    *)
(* cuts no request of its own, and one that returns without an error has    *)
(* seen all of its requests answered.                                       *)
GracefulMeansAnswered ==
    /\ mode = "draining" \/ result \in {"nil", "deadline", "listener"} => cut = {}
    /\ result = "nil" => Own = {}

(* metrics.go:122-124: http_connections_active counts what net/http owns,   *)
(* over all calls of Run, and each connection leaves it once, whichever way *)
(* it goes.                                                                 *)
GaugeIsExact ==
    /\ connections = Cardinality({c \in Conns : conn[c] \in Open \cup {"closing"}})
    /\ hijacks = Cardinality({c \in Conns : conn[c] = "hijacked"})

(* A handler that never ends does not keep Run from returning.              *)
DrainEnds == mode = "draining" ~> mode = "returned"

(* docs/long-lived-connections.md:191: "If connections don't close within   *)
(* the timeout, they are forcibly closed".                                  *)
TimeoutClosesConnections == result = "deadline" => Own = {}

(* docs/long-lived-connections.md:178: a WebSocket's connection "will be    *)
(* closed when the client disconnects or the server shuts down".            *)
NoHijackedConnectionSurvives ==
    mode = "returned" => \A c \in Conns : owner[c] = run => conn[c] # "hijacked"
=============================================================================
