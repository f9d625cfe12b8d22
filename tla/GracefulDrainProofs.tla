-------------------------- MODULE GracefulDrainProofs --------------------------
(****************************************************************************)
(* That a graceful drain answers its requests and that the gauge counts     *)
(* what net/http owns, for any connections and any number of runs.          *)
(****************************************************************************)
EXTENDS GracefulDrain, FiniteSetTheorems, TLAPS

ConnStates == Open \cup {"none", "closing", "closed", "hijacked"}

(* The connections that the two numbers count. *)
Held(f) == {c \in Conns : f[c] \in Open \cup {"closing"}}
TakenOver(f) == {c \in Conns : f[c] = "hijacked"}

(* One connection that changes its state changes either set by itself.      *)
LEMMA OneMoves ==
    ASSUME NEW f \in [Conns -> ConnStates], NEW c \in Conns, NEW to \in ConnStates
    PROVE  LET g == [f EXCEPT ![c] = to] IN
           /\ Held(g) = IF to \in Open \cup {"closing"} THEN Held(f) \cup {c}
                                                        ELSE Held(f) \ {c}
           /\ TakenOver(g) = IF to = "hijacked" THEN TakenOver(f) \cup {c}
                                                ELSE TakenOver(f) \ {c}
BY DEF Held, TakenOver

LEMMA SetsAreFinite ==
    ASSUME NEW f
    PROVE  /\ IsFiniteSet(Held(f)) /\ Cardinality(Held(f)) \in 0..Cardinality(Conns)
           /\ IsFiniteSet(TakenOver(f))
           /\ Cardinality(TakenOver(f)) \in 0..Cardinality(Conns)
<1>1. Held(f) \in SUBSET Conns /\ TakenOver(f) \in SUBSET Conns
  BY DEF Held, TakenOver
<1>2. IsFiniteSet(Conns) /\ Cardinality(Conns) \in Nat
  BY DrainAssumption, FS_CardinalityType
<1>3. /\ IsFiniteSet(Held(f)) /\ Cardinality(Held(f)) <= Cardinality(Conns)
      /\ IsFiniteSet(TakenOver(f)) /\ Cardinality(TakenOver(f)) <= Cardinality(Conns)
  BY <1>1, <1>2, FS_Subset
<1>4. Cardinality(Held(f)) \in Nat /\ Cardinality(TakenOver(f)) \in Nat
  BY <1>3, FS_CardinalityType
<1> QED
  BY <1>2, <1>3, <1>4

(* The numbers against the sets. *)
Counted(f, held, taken) ==
    held = Cardinality(Held(f)) /\ taken = Cardinality(TakenOver(f))

LEMMA CountedMove ==
    ASSUME NEW f \in [Conns -> ConnStates], NEW c \in Conns, NEW to \in ConnStates,
           NEW held, NEW taken, Counted(f, held, taken), f[c] # "hijacked",
           NEW g, g = [f EXCEPT ![c] = to]
    PROVE  /\ f[c] \in Open \cup {"closing"} /\ to \in Open \cup {"closing"}
                => Counted(g, held, taken)
           /\ f[c] = "none" /\ to \in Open => Counted(g, held + 1, taken)
           /\ f[c] \in Open \cup {"closing"} /\ to = "closed"
                => Counted(g, held - 1, taken)
           /\ f[c] \in Open \cup {"closing"} /\ to = "hijacked"
                => Counted(g, held - 1, taken + 1)
<1>1. /\ c \in Held(f) <=> f[c] \in Open \cup {"closing"}
      /\ c \notin TakenOver(f)
  BY DEF Held, TakenOver
<1>2. /\ Held(g) = IF to \in Open \cup {"closing"} THEN Held(f) \cup {c}
                                                   ELSE Held(f) \ {c}
      /\ TakenOver(g) = IF to = "hijacked" THEN TakenOver(f) \cup {c}
                                           ELSE TakenOver(f) \ {c}
  BY OneMoves
<1>3. IsFiniteSet(Held(f)) /\ IsFiniteSet(TakenOver(f))
  BY SetsAreFinite
<1>4. /\ Cardinality(Held(f) \cup {c}) =
           IF c \in Held(f) THEN Cardinality(Held(f)) ELSE Cardinality(Held(f)) + 1
      /\ Cardinality(TakenOver(f) \cup {c}) = Cardinality(TakenOver(f)) + 1
  BY <1>1, <1>3, FS_AddElement
<1>5. /\ Cardinality(Held(f) \ {c}) =
           IF c \in Held(f) THEN Cardinality(Held(f)) - 1 ELSE Cardinality(Held(f))
      /\ TakenOver(f) \ {c} = TakenOver(f)
  BY <1>1, <1>3, FS_RemoveElement
<1>6. "none" \notin Open /\ "closed" \notin Open /\ "hijacked" \notin Open
  BY DEF Open
<1> QED
  BY <1>1, <1>2, <1>4, <1>5, <1>6 DEF Counted

-----------------------------------------------------------------------------
(* The counters are counts, and a Run that has not returned has not timed   *)
(* out, ...                                                                 *)
Counters ==
    /\ Counted(conn, connections, hijacks)
    /\ drainTimeouts \in Nat
    /\ drainTimeouts <= IF mode = "returned" THEN run ELSE run - 1

(* ... and only a failing listener cuts a request.                          *)
Graceful ==
    /\ mode = "returned" <=> result # "none"
    /\ result # "serve" => cut = {}
    /\ result \in {"nil", "listener"} => Own = {}

Shape ==
    /\ mode \in {"serving", "draining", "returned"}
    /\ run \in 1..MaxRuns
    /\ conn \in [Conns -> ConnStates]
    /\ owner \in [Conns -> 0..MaxRuns]
    /\ expired \in BOOLEAN
    /\ result \in Results
    /\ cut \subseteq Conns

DrainInv == Shape /\ Counters /\ Graceful

(* What a connection does by itself, or in the hands of Shutdown, brings no *)
(* connection to a Run that does not accept.                                *)
LEMMA ConnectionStep ==
    ASSUME DrainInv, NEW c \in Conns, NEW from, NEW to \in ConnStates,
           Moves(c, from, to), UNCHANGED owner,
           from \subseteq Open \cup {"closing"},
           to \in Open => from \subseteq Open,
           Counted(conn', connections', hijacks')
    PROVE  DrainInv'
<1> USE DEF DrainInv, Moves, runVars
<1>1. Shape'
  BY DEF Shape
<1>2. Counters'
  BY DEF Counters
<1>3. Own' \subseteq Own
  BY DEF Own, Shape
<1>4. Graceful'
  BY <1>3 DEF Graceful
<1> QED
  BY <1>1, <1>2, <1>4

LEMMA DrainStep ==
    ASSUME DrainInv, [Next]_vars
    PROVE  DrainInv'
<1> USE DrainAssumption
<1>1. /\ conn \in [Conns -> ConnStates] /\ Counted(conn, connections, hijacks)
      /\ {"new", "active", "idle", "closing", "closed", "hijacked"} \subseteq ConnStates
      /\ Open = {"new", "active", "idle"}
  BY DEF DrainInv, Shape, Counters, ConnStates, Open
<1>2. ASSUME NEW c \in Conns, Accept(c) PROVE DrainInv'
  <2>1. Counted(conn', connections', hijacks')
    BY <1>1, <1>2, CountedMove DEF Accept, Moves, ConnState
  <2> QED
    BY <1>1, <1>2, <2>1
       DEF DrainInv, Accept, Moves, runVars, Shape, Counters, Graceful
<1>3. ASSUME NEW c \in Conns, StartRequest(c) PROVE DrainInv'
  <2>1. Counted(conn', connections', hijacks')
    BY <1>1, <1>3, CountedMove DEF StartRequest, Moves
  <2> QED
    BY <1>1, <1>3, <2>1, ConnectionStep DEF StartRequest
<1>4. ASSUME NEW c \in Conns, EndRequest(c) PROVE DrainInv'
  <2>1. CASE Moves(c, {"active"}, "idle") /\ UNCHANGED <<connections, hijacks>>
    <3>1. Counted(conn', connections', hijacks')
      BY <1>1, <2>1, CountedMove DEF Moves
    <3> QED
      BY <1>1, <1>4, <2>1, <3>1, ConnectionStep DEF EndRequest
  <2>2. CASE Moves(c, {"active"}, "closed") /\ ConnState("closed")
    <3>1. Counted(conn', connections', hijacks')
      BY <1>1, <2>2, CountedMove DEF Moves, ConnState, Released
    <3> QED
      BY <1>1, <1>4, <2>2, <3>1, ConnectionStep DEF EndRequest
  <2> QED
    BY <1>4, <2>1, <2>2 DEF EndRequest
<1>5. ASSUME NEW c \in Conns, Hijack(c) PROVE DrainInv'
  <2>1. Counted(conn', connections', hijacks')
    BY <1>1, <1>5, CountedMove DEF Hijack, Moves, ConnState, Released
  <2> QED
    BY <1>1, <1>5, <2>1, ConnectionStep DEF Hijack
<1>6. ASSUME NEW c \in Conns, Closed(c) PROVE DrainInv'
  <2>1. Counted(conn', connections', hijacks')
    BY <1>1, <1>6, CountedMove DEF Closed, Moves, ConnState, Released
  <2> QED
    BY <1>1, <1>6, <2>1, ConnectionStep DEF Closed
<1>7. ASSUME NEW c \in Conns, CloseIdle(c) PROVE DrainInv'
  <2>1. Counted(conn', connections', hijacks')
    BY <1>1, <1>7, CountedMove DEF CloseIdle, Moves
  <2> QED
    BY <1>1, <1>7, <2>1, ConnectionStep DEF CloseIdle
<1>8. CASE BeginDrain
  <2>1. conn' = conn /\ cut' = cut
    BY <1>1, <1>8 DEF BeginDrain, ClosedAtOnce
  <2> QED
    BY <1>8, <2>1 DEF BeginDrain, DrainInv, Shape, Counters, Graceful, Own
<1>9. CASE DeadlinePasses
  BY <1>9 DEF DeadlinePasses, DrainInv, Shape, Counters, Graceful, Own
<1>10. ASSUME NEW how \in {"nil", "listener"}, Drained(how) PROVE DrainInv'
  BY <1>10 DEF Drained, RunReturns, Quiescent, TimeoutsAfter,
               DrainInv, Shape, Counters, Graceful, Own, Results
<1>11. CASE DrainTimesOut
  BY <1>11 DEF DrainTimesOut, RunReturns, GivesUp, TimeoutsAfter,
               DrainInv, Shape, Counters, Graceful, Own, Results
<1>12. CASE ServeFails
  <2>1. conn' \in [Conns -> ConnStates] /\ Held(conn') = Held(conn)
        /\ TakenOver(conn') = TakenOver(conn)
    BY <1>1, <1>12 DEF ServeFails, Held, TakenOver, Own
  <2>2. Counters'
    BY <1>12, <2>1 DEF ServeFails, RunReturns, DrainInv, Shape, Counters, Counted
  <2>3. Shape' /\ Graceful'
    BY <1>12, <2>1 DEF ServeFails, RunReturns, DrainInv, Shape, Graceful, Own, Results
  <2> QED
    BY <2>2, <2>3 DEF DrainInv
<1>13. CASE RunAgain
  <2>1. Shape'
    <3>1. run' \in 1..MaxRuns
      BY <1>13 DEF RunAgain, DrainInv, Shape
    <3>2. expired' \in BOOLEAN
      BY <1>13 DEF RunAgain
    <3> QED
      BY <1>13, <3>1, <3>2 DEF RunAgain, DrainInv, Shape, Results
  <2>2. Counters'
    BY <1>13 DEF RunAgain, DrainInv, Shape, Counters, Counted
  <2>3. Graceful'
    BY <1>13 DEF RunAgain, Graceful
  <2> QED
    BY <2>1, <2>2, <2>3 DEF DrainInv
<1>14. CASE UNCHANGED vars
  BY <1>14 DEF vars, runVars, DrainInv, Shape, Counters, Graceful, Own
<1> QED
  BY <1>2, <1>3, <1>4, <1>5, <1>6, <1>7, <1>8, <1>9, <1>10, <1>11, <1>12, <1>13,
     <1>14 DEF Next

LEMMA DrainInvariant == Spec => []DrainInv
<1>1. Init => DrainInv
  <2> SUFFICES ASSUME Init PROVE DrainInv
    OBVIOUS
  <2>1. Held(conn) = {} /\ TakenOver(conn) = {}
    BY DEF Init, Held, TakenOver, Open
  <2>2. Counters
    BY <2>1, FS_EmptySet DEF Init, Counters, Counted
  <2>3. Shape
    <3>1. run \in 1..MaxRuns /\ owner \in [Conns -> 0..MaxRuns]
      BY DrainAssumption DEF Init
    <3>2. expired \in BOOLEAN
      BY DEF Init
    <3> QED
      BY <3>1, <3>2 DEF Init, Shape, ConnStates, Results
  <2>4. Graceful
    BY DEF Init, Graceful
  <2> QED
    BY <2>2, <2>3, <2>4 DEF DrainInv
<1>2. DrainInv /\ [Next]_vars => DrainInv'
  BY DrainStep
<1> QED
  BY <1>1, <1>2, PTL DEF Spec

(* The counters are within the bounds that TypeOK gives them.               *)
THEOREM TypeCorrect == Spec => []TypeOK
<1>1. DrainInv => TypeOK
  <2> SUFFICES ASSUME DrainInv PROVE TypeOK
    OBVIOUS
  <2>1. connections \in 0..Cardinality(Conns) /\ hijacks \in 0..Cardinality(Conns)
    BY SetsAreFinite DEF DrainInv, Counters, Counted
  <2>2. drainTimeouts \in 0..run
    BY DrainAssumption DEF DrainInv, Counters, Shape
  <2> QED
    BY <2>1, <2>2 DEF DrainInv, Shape, TypeOK, ConnStates
<1> QED
  BY <1>1, DrainInvariant, PTL

(* A Run that is cancelled cuts no request, and one that returns without an *)
(* error leaves none behind: server.go:417-447.                             *)
THEOREM DrainIsGraceful == Spec => []GracefulMeansAnswered
<1>1. DrainInv => GracefulMeansAnswered
  BY DEF DrainInv, Shape, Graceful, GracefulMeansAnswered
<1> QED
  BY <1>1, DrainInvariant, PTL

(* http_connections_active is the number of connections that net/http owns, *)
(* and every connection leaves it once: metrics.go:122-124.                 *)
THEOREM GaugeCountsConnections == Spec => []GaugeIsExact
<1>1. DrainInv => GaugeIsExact
  BY DEF DrainInv, Counters, Counted, Held, TakenOver, GaugeIsExact
<1> QED
  BY <1>1, DrainInvariant, PTL
=============================================================================
