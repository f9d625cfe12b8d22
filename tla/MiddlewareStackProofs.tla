------------------------- MODULE MiddlewareStackProofs -------------------------
(****************************************************************************)
(* That every request gets one answer, the intended one, and that the       *)
(* observers tell the truth about it, in every order of the layers.         *)
(*                                                                          *)
(* As long as the recorders notice what is sent, a response is the          *)
(* handler's own, MaxBodyBytes' 413, Recover's 500, or the connection has   *)
(* been hijacked; and all recorders that a call still has to come back      *)
(* through hold the same, which is what the client has got.                 *)
(****************************************************************************)
EXTENDS MiddlewareStack, SequenceTheorems, TLAPS

(* The layer has been entered and not left. *)
Within(layer) == \E i \in 1..at : chain[i] = layer

Over == mode \in {"returning", "done"}

Typed ==
    /\ chain \in Chains
    /\ request \in {"small", "declared", "hidden"}
    /\ mode \in {"entering", "handling", "returning", "panicking", "done", "aborted"}
    /\ at \in 0..N
    /\ rec \in [1..N -> [status : Nat, committed : BOOLEAN, written : Nat]]
    /\ tooLarge \in BOOLEAN /\ hijacked \in BOOLEAN
    /\ panicked \in BOOLEAN /\ unnoticed \in BOOLEAN
    /\ head \in Nat \cup {None} /\ intended \in Codes \cup {None}
    /\ body \in Seq({"handler", "error"}) /\ writes \in Nat

(* Where the request is, and what cannot have happened by then. *)
Phases ==
    /\ mode = "entering" =>
          /\ ~hijacked /\ ~tooLarge /\ head = None /\ intended = None
          /\ Within("limit") => request # "declared"
    /\ mode \in {"entering", "handling"} =>
          ~panicked /\ logged = None /\ counted = None
    /\ mode = "handling" => at = N
    /\ mode \in {"panicking", "aborted"} => panicked /\ logged = None /\ counted = None
    /\ mode \in {"done", "aborted"} => at = 0
    /\ tooLarge => Has("limit") /\ request = "hidden"

GaugeFollows == inFlight = IF Within("metrics") THEN 1 ELSE 0

RecoverCatches ==
    Has("recover") => mode # "aborted" /\ (mode = "panicking" => Within("recover"))

(* A layer that looks on its way out has looked once it is left, unless the *)
(* request did not come as far or a panic passes.                           *)
Looked(layer, seen) ==
    /\ seen # None => Over /\ ~Within(layer) /\ Has(layer)
    /\ Over /\ Before(layer, "recover") /\ ~Before("limit", layer) =>
          seen # None \/ Within(layer)

HandlersOwn ==
    /\ ~hijacked
    /\ head = IF mode = "done" THEN OrOK(intended) ELSE intended
    /\ body \in Seq({"handler"}) /\ Len(body) = writes
    /\ \A i \in 1..N :
          /\ rec[i].status = OrOK(intended) /\ rec[i].written = writes
          /\ rec[i].committed <=> intended # None
    /\ writes # 0 => intended # None
    /\ mode # "entering" /\ Has("limit") => request # "declared"
    /\ Over => /\ panicked => intended # None
               /\ tooLarge /\ intended = None => Within("limit")

ErrorAnswer(code) ==
    /\ Over /\ ~hijacked /\ intended = None
    /\ head = code /\ body = <<"error">>
    /\ \A i \in 1..at : rec[i].status = code /\ rec[i].committed /\ rec[i].written = 1

TooLargeAnswer ==
    ErrorAnswer(413) /\ Has("limit") /\ ~panicked /\ (request = "declared" \/ tooLarge)

PanicAnswer == ErrorAnswer(500) /\ panicked

Upgraded == hijacked /\ mode # "entering" /\ body \in Seq({"handler"})

Answers == Noticed => HandlersOwn \/ TooLargeAnswer \/ PanicAnswer \/ Upgraded

Truth ==
    Noticed /\ ~hijacked =>
        /\ logged # None /\ ~Before("limit", "log") =>
              logged = [status |-> OrOK(head), written |-> Len(body)]
        /\ counted # None /\ ~Before("limit", "metrics") => counted = OrOK(head)

StackInv ==
    /\ Typed /\ Phases /\ GaugeFollows /\ RecoverCatches
    /\ Looked("log", logged) /\ Looked("metrics", counted)
    /\ Answers /\ Truth

-----------------------------------------------------------------------------
(* The chain, and moving along it.                                          *)

LEMMA ChainFacts ==
    ASSUME Typed
    PROVE  /\ N \in Nat /\ at \in Nat /\ at <= N
           /\ \A i, j \in 1..N : chain[i] = chain[j] => i = j
           /\ \A i \in 1..N : chain[i] \in LayerKinds
<1>1. chain \in Chains /\ chain \in Seq(LayerKinds)
  BY StackAssumption DEF Typed
<1>2. N \in Nat /\ \A i \in 1..N : chain[i] \in LayerKinds
  BY <1>1, LenProperties, ElementOfSeq DEF N
<1>3. \A i, j \in 1..N : chain[i] = chain[j] => i = j
  BY <1>1, StackAssumption DEF N
<1> QED
  BY <1>2, <1>3 DEF Typed

LEMMA GoIn ==
    ASSUME Typed, at < N, at' = at + 1, UNCHANGED chain
    PROVE  /\ at' \in 0..N' /\ N' = N
           /\ \A layer : Within(layer)' <=> Within(layer) \/ chain[at + 1] = layer
           /\ \A layer : chain[at + 1] = layer => ~Within(layer)
<1>1. N' = N /\ at' \in 0..N'
  BY ChainFacts DEF N
<1>2. \A i : i \in 1..at' <=> i \in 1..at \/ i = at + 1
  BY ChainFacts
<1>3. at + 1 \in 1..N /\ \A i \in 1..at : i \in 1..N /\ i # at + 1
  BY ChainFacts
<1> QED
  BY <1>1, <1>2, <1>3, ChainFacts DEF Within

LEMMA GoOut ==
    ASSUME Typed, at > 0, at' = at - 1, UNCHANGED chain
    PROVE  /\ at' \in 0..N' /\ N' = N /\ at \in 1..N
           /\ \A layer : Within(layer) <=> Within(layer)' \/ chain[at] = layer
           /\ \A layer : chain[at] = layer => ~Within(layer)'
           /\ \A i \in 1..at' : i \in 1..at /\ i \in 1..N
<1>1. N' = N /\ at' \in 0..N' /\ at \in 1..N
  BY ChainFacts DEF N
<1>2. \A i : i \in 1..at <=> i \in 1..at' \/ i = at
  BY ChainFacts
<1>3. \A i \in 1..at' : i \in 1..at /\ i \in 1..N /\ i # at
  BY ChainFacts
<1> QED
  BY <1>1, <1>2, <1>3, ChainFacts DEF Within

LEMMA OnThePath ==
    ASSUME Typed
    PROVE  /\ \A layer : Within(layer) => Has(layer)
           /\ at = N => \A layer : Has(layer) => Within(layer)
           /\ at = 0 => \A layer : ~Within(layer)
BY ChainFacts DEF Within, Has

-----------------------------------------------------------------------------
(* What the recorders and the client make of a call.                        *)

Recorders == [1..N -> [status : Nat, committed : BOOLEAN, written : Nat]]

LEMMA StatusFacts ==
    /\ Codes \subseteq Nat /\ Informational \subseteq Nat
    /\ {200, 413, 500} \cap Informational = {}
    /\ {413, 500} \cap Codes = {}
    /\ Codes \cap Informational = {} /\ None \notin Nat
BY StackAssumption

LEMMA WriteHeaderFacts ==
    ASSUME Typed, NEW m \in 0..N, NEW code \in Nat
    PROVE  LET r == RecorderWriteHeader(m, code) IN
           /\ r \in Recorders
           /\ \A i \in 1..N : r[i].written = rec[i].written
           /\ \A i \in 1..N : ~(i \in Reached(m)) => r[i] = rec[i]
           /\ (\A i \in 1..m : ~rec[i].committed) =>
                 /\ Reached(m) = 1..m
                 /\ \A i \in 1..m : r[i].status = code /\ r[i].committed
<1> DEFINE r == RecorderWriteHeader(m, code)
           R == [status : Nat, committed : BOOLEAN, written : Nat]
           w(i) == [rec[i] EXCEPT !.status = code, !.committed = TRUE]
<1>1. \A i \in 1..N :
         w(i) \in R /\ w(i).status = code /\ w(i).committed /\ w(i).written = rec[i].written
  BY DEF Typed
<1>2. \A i \in 1..N : r[i] = IF i \in Reached(m) THEN w(i) ELSE rec[i]
  BY DEF RecorderWriteHeader
<1>3. \A i \in 1..N : rec[i] \in R
  BY DEF Typed
<1> HIDE DEF w, R
<1>4. \A i \in 1..N : r[i] \in R
  BY <1>1, <1>2, <1>3
<1>5. r \in [1..N -> R]
  BY <1>4 DEF RecorderWriteHeader
<1>6. ASSUME \A i \in 1..m : ~rec[i].committed
      PROVE  /\ Reached(m) = 1..m
             /\ \A i \in 1..m : r[i].status = code /\ r[i].committed
  <2>1. m \in Nat /\ 1..m \subseteq 1..N
    BY ChainFacts
  <2>2. \A i \in 1..m : \A j \in i..m : j \in 1..m
    BY <2>1
  <2>3. Reached(m) = 1..m
    BY <1>6, <2>2 DEF Reached
  <2>4. ASSUME NEW i \in 1..m PROVE r[i].status = code /\ r[i].committed
    <3>1. i \in 1..N /\ r[i] = w(i)
      BY <1>2, <2>1, <2>3
    <3> QED
      BY <1>1, <3>1
  <2> QED
    BY <2>3, <2>4
<1>7. \A i \in 1..N : r[i].written = rec[i].written
  BY <1>1, <1>2
<1> QED
  BY <1>2, <1>5, <1>6, <1>7 DEF R, Recorders

LEMMA WriteFacts ==
    ASSUME Typed, NEW m \in 0..N, NEW r \in Recorders
    PROVE  LET q == RecorderWrite(m, r) IN
           /\ q \in Recorders
           /\ \A i \in 1..m :
                 q[i].status = r[i].status /\ q[i].committed
                 /\ q[i].written = r[i].written + Taken
<1> DEFINE q == RecorderWrite(m, r)
           R == [status : Nat, committed : BOOLEAN, written : Nat]
           w(i) == [r[i] EXCEPT !.committed = TRUE, !.written = @ + Taken]
<1>1. Taken \in Nat
  BY DEF Taken
<1>2. \A i \in 1..N :
         /\ w(i) \in R /\ w(i).status = r[i].status /\ w(i).committed
         /\ w(i).written = r[i].written + Taken
  <2> SUFFICES ASSUME NEW i \in 1..N
               PROVE  /\ w(i) \in R /\ w(i).status = r[i].status /\ w(i).committed
                      /\ w(i).written = r[i].written + Taken
    OBVIOUS
  <2>1. r[i] \in R /\ r[i].status \in Nat /\ r[i].written + Taken \in Nat
    BY <1>1 DEF Recorders
  <2>2. w(i).status = r[i].status
    BY <2>1
  <2>3. w(i).written = r[i].written + Taken
    BY <2>1
  <2>4. w(i).committed
    BY <2>1
  <2>5. w(i) \in R
    BY <2>1
  <2> QED
    BY <2>2, <2>3, <2>4, <2>5
<1>3. \A i \in 1..N : q[i] = IF i \in 1..m THEN w(i) ELSE r[i]
  BY DEF RecorderWrite
<1>4. \A i \in 1..N : r[i] \in R
  BY DEF Recorders
<1> HIDE DEF w, R
<1>5. \A i \in 1..N : q[i] \in R
  BY <1>2, <1>3, <1>4
<1>6. q \in [1..N -> R]
  BY <1>5 DEF RecorderWrite
<1>7. \A i \in 1..m : i \in 1..N
  BY ChainFacts
<1> QED
  BY <1>2, <1>3, <1>6, <1>7 DEF R, Recorders

LEMMA ErrorFacts ==
    ASSUME Typed, NEW m \in 0..N, NEW code \in {413, 500}, WriteError(m, code)
    PROVE  /\ rec' \in Recorders /\ hijacked' = hijacked
           /\ head' \in Nat \cup {None} /\ body' \in Seq({"handler", "error"})
           /\ hijacked => UNCHANGED <<head, body>>
           /\ ~hijacked /\ head = None /\ (\A i \in 1..m : ~rec[i].committed) =>
                 /\ head' = code /\ body' = Append(body, "error")
                 /\ \A i \in 1..m : /\ rec'[i].status = code /\ rec'[i].committed
                                     /\ rec'[i].written = rec[i].written + 1
<1> DEFINE r == RecorderWriteHeader(m, code)
<1>1. /\ r \in Recorders
      /\ \A i \in 1..N : r[i].written = rec[i].written
      /\ (\A i \in 1..m : ~rec[i].committed) =>
            Reached(m) = 1..m /\ \A i \in 1..m : r[i].status = code
  BY WriteHeaderFacts
<1> HIDE DEF r
<1>2. /\ RecorderWrite(m, r) \in Recorders
      /\ \A i \in 1..m :
            /\ RecorderWrite(m, r)[i].status = r[i].status
            /\ RecorderWrite(m, r)[i].committed
            /\ RecorderWrite(m, r)[i].written = r[i].written + Taken
  BY <1>1, WriteFacts
<1>3. /\ rec' = RecorderWrite(m, r) /\ hijacked' = hijacked
      /\ hijacked => UNCHANGED <<head, body>>
      /\ ~hijacked => /\ head' = OrOK(HeadAfterWriteHeader(m, code))
                      /\ body' = Append(body, "error")
  BY DEF WriteError, r, Typed
<1>4. HeadAfterWriteHeader(m, code) \in Nat \cup {None}
  BY StatusFacts DEF HeadAfterWriteHeader, Typed
<1>5. head' \in Nat \cup {None} /\ body' \in Seq({"handler", "error"})
  <2>1. CASE hijacked
    BY <1>3, <2>1 DEF Typed
  <2>2. CASE ~hijacked
    <3>1. head' \in Nat \cup {None}
      BY <1>3, <1>4, <2>2 DEF OrOK
    <3>2. Append(body, "error") \in Seq({"handler", "error"})
      BY AppendProperties DEF Typed
    <3> QED
      BY <1>3, <2>2, <3>1, <3>2
  <2> QED
    BY <2>1, <2>2
<1>6. ASSUME ~hijacked, head = None, \A i \in 1..m : ~rec[i].committed
      PROVE  /\ head' = code /\ body' = Append(body, "error")
             /\ \A i \in 1..m : /\ rec'[i].status = code /\ rec'[i].committed
                                 /\ rec'[i].written = rec[i].written + 1
  <2>1. head' = code
    BY <1>1, <1>3, <1>6, StatusFacts DEF HeadAfterWriteHeader, OrOK
  <2>2. 1..m \subseteq 1..N /\ Taken = 1
    BY <1>6, ChainFacts DEF Taken
  <2> QED
    BY <1>1, <1>2, <1>3, <1>6, <2>1, <2>2
<1> QED
  BY <1>2, <1>3, <1>5, <1>6

-----------------------------------------------------------------------------
(* Where the request is.                                                    *)

LEMMA TypedStep ==
    ASSUME Typed, [Next]_vars
    PROVE  Typed'
<1> USE DEF observerVars, clientVars, handlerVars
<1>1. /\ N \in Nat /\ at \in 0..N /\ 413 \in Nat /\ 500 \in Nat
      /\ rec \in Recorders
  BY ChainFacts DEF Typed, Recorders
<1>2. CASE EnterLimit
  <2>1. /\ rec' \in Recorders /\ hijacked' = hijacked
        /\ head' \in Nat \cup {None} /\ body' \in Seq({"handler", "error"})
    BY <1>1, <1>2, ErrorFacts DEF EnterLimit
  <2> QED
    BY <1>2, <2>1 DEF EnterLimit, Typed, Recorders, N
<1>3. CASE Enter
  <2>1. at' \in 0..N' /\ N' = N
    BY <1>3, GoIn DEF Enter
  <2> QED
    BY <1>3, <2>1 DEF Enter, Typed
<1>4. CASE EnterHandler
  BY <1>4 DEF EnterHandler, Typed, N
<1>5. ASSUME NEW code \in Codes \cup Informational, WriteHeader(code)
      PROVE  Typed'
  <2>1. code \in Nat
    BY StatusFacts
  <2>2. rec' \in Recorders
    BY <1>1, <1>5, <2>1, WriteHeaderFacts DEF WriteHeader
  <2>3. head' \in Nat \cup {None}
    BY <1>5, <2>1 DEF WriteHeader, HeadAfterWriteHeader, Typed
  <2>4. intended' \in Codes \cup {None}
    BY <1>5 DEF WriteHeader
  <2>5. unnoticed' \in BOOLEAN
    BY <1>5 DEF WriteHeader
  <2> QED
    BY <1>5, <2>2, <2>3, <2>4, <2>5 DEF WriteHeader, Typed, Recorders, N
<1>6. CASE Write
  <2>1. rec' \in Recorders
    <3>1. N \in 0..N
      BY <1>1
    <3>2. RecorderWrite(N, rec) \in Recorders
      BY <1>1, <3>1, WriteFacts
    <3> QED
      BY <1>6, <3>2 DEF Write
  <2>2. head' \in Nat \cup {None} /\ intended' \in Codes \cup {None}
    BY <1>6, StackAssumption DEF Write, OrOK, Typed
  <2>3. body' \in Seq({"handler", "error"})
    BY <1>6, AppendProperties DEF Write, Typed
  <2>4. writes' \in Nat
    BY <1>6 DEF Write, Typed
  <2> QED
    BY <1>6, <2>1, <2>2, <2>3, <2>4 DEF Write, Typed, Recorders, N
<1>7. CASE Flush
  <2>1. head' \in Nat \cup {None} /\ intended' \in Codes \cup {None}
    BY <1>7, StackAssumption DEF Flush, OrOK, Typed
  <2>2. unnoticed' \in BOOLEAN
    BY <1>7 DEF Flush
  <2> QED
    BY <1>7, <2>1, <2>2 DEF Flush, Typed, N
<1>8. CASE Hijack
  BY <1>8 DEF Hijack, Typed, N
<1>9. CASE ReadBody
  <2>1. tooLarge' \in BOOLEAN
    BY <1>9 DEF ReadBody
  <2> QED
    BY <1>9, <2>1 DEF ReadBody, Typed, N
<1>10. CASE HandlerReturns \/ HandlerPanics
  BY <1>10 DEF HandlerReturns, HandlerPanics, Typed, N
<1>11. CASE LeaveLog
  <2>1. at' \in 0..N' /\ N' = N
    BY <1>11, GoOut DEF LeaveLog, Leave
  <2> QED
    BY <1>11, <2>1 DEF LeaveLog, Leave, Typed
<1>12. CASE LeaveMetrics
  <2>1. at' \in 0..N' /\ N' = N
    BY <1>12, GoOut DEF LeaveMetrics, Leave
  <2> QED
    BY <1>12, <2>1 DEF LeaveMetrics, Leave, Typed
<1>13. CASE LeaveLimit
  <2>1. at' \in 0..N' /\ N' = N
    BY <1>13, GoOut DEF LeaveLimit, Leave
  <2>2. /\ rec' \in Recorders /\ hijacked' = hijacked
        /\ head' \in Nat \cup {None} /\ body' \in Seq({"handler", "error"})
    <3>1. CASE WriteError(at, 413)
      BY <1>1, <3>1, ErrorFacts
    <3>2. CASE UNCHANGED <<rec, clientVars>>
      BY <1>1, <3>2 DEF Typed
    <3> QED
      BY <1>13, <3>1, <3>2 DEF LeaveLimit
  <2> QED
    BY <1>13, <2>1, <2>2 DEF LeaveLimit, Leave, Typed, Recorders
<1>14. CASE LeaveRecover
  <2>1. at' \in 0..N' /\ N' = N /\ at - 1 \in 0..N
    BY <1>14, GoOut DEF LeaveRecover, Leave
  <2>2. /\ rec' \in Recorders /\ hijacked' = hijacked
        /\ head' \in Nat \cup {None} /\ body' \in Seq({"handler", "error"})
    <3>1. CASE WriteError(at - 1, 500)
      BY <1>1, <2>1, <3>1, ErrorFacts
    <3>2. CASE UNCHANGED <<rec, clientVars>>
      BY <1>1, <3>2 DEF Typed
    <3> QED
      BY <1>14, <3>1, <3>2 DEF LeaveRecover
  <2> QED
    BY <1>14, <2>1, <2>2 DEF LeaveRecover, Leave, AfterRecover, Typed, Recorders
<1>15. CASE Finish
  <2>1. head' \in Nat \cup {None}
    BY <1>15 DEF Finish, OrOK, Typed
  <2> QED
    BY <1>15, <2>1 DEF Finish, Typed, N
<1>16. CASE UNCHANGED vars
  BY <1>16 DEF vars, Typed, N
<1> QED
  BY <1>2, <1>3, <1>4, <1>5, <1>6, <1>7, <1>8, <1>9, <1>10, <1>11, <1>12, <1>13,
     <1>14, <1>15, <1>16 DEF Next, Finished

(* Each action, seen from where the request goes: into a layer, out of one, *)
(* to and from the handler, or nowhere.                                     *)
GoesOut ==
    /\ mode \in {"returning", "panicking"} /\ at > 0 /\ at' = at - 1
    /\ UNCHANGED <<chain, request, handlerVars, tooLarge, hijacked>>
    /\ mode' = IF chain[at] = "recover" THEN "returning" ELSE mode
    /\ inFlight' = IF chain[at] = "metrics" THEN inFlight - 1 ELSE inFlight
    /\ logged' = IF chain[at] = "log" /\ mode = "returning"
                 THEN [status |-> rec[at].status, written |-> rec[at].written]
                 ELSE logged
    /\ counted' = IF chain[at] = "metrics" /\ mode = "returning"
                  THEN rec[at].status ELSE counted

LEMMA LeavesGoOut ==
    ASSUME Typed, LeaveLog \/ LeaveMetrics \/ LeaveLimit \/ LeaveRecover
    PROVE  GoesOut
<1> USE DEF observerVars, clientVars, handlerVars, Leave, GoesOut
<1>1. CASE LeaveLog
  BY <1>1 DEF LeaveLog
<1>2. CASE LeaveMetrics
  BY <1>2 DEF LeaveMetrics, InFlightAfter
<1>3. CASE LeaveLimit
  <2>1. hijacked' = hijacked
    BY <1>3 DEF LeaveLimit, WriteError
  <2> QED
    BY <1>3, <2>1 DEF LeaveLimit
<1>4. CASE LeaveRecover
  <2>1. hijacked' = hijacked
    BY <1>4 DEF LeaveRecover, WriteError
  <2> QED
    BY <1>4, <2>1 DEF LeaveRecover, AfterRecover
<1> QED
  BY <1>1, <1>2, <1>3, <1>4

Handling ==
    /\ mode = "handling"
    /\ \/ mode' \in {"handling", "returning"} /\ UNCHANGED panicked
       \/ mode' = "panicking" /\ panicked'
    /\ tooLarge' => tooLarge \/ (Has("limit") /\ request = "hidden")
    /\ UNCHANGED <<chain, request, at, observerVars>>

HandlerStep ==
    \/ \E code \in Codes \cup Informational : WriteHeader(code)
    \/ Write \/ Flush \/ Hijack \/ ReadBody \/ HandlerReturns \/ HandlerPanics

LEMMA HandlerIsHandling ==
    ASSUME HandlerStep
    PROVE  Handling
<1> USE DEF Handling, clientVars, handlerVars, observerVars
<1>1. ASSUME NEW code \in Codes \cup Informational, WriteHeader(code) PROVE Handling
  BY <1>1 DEF WriteHeader
<1>2. CASE Write
  BY <1>2 DEF Write
<1>3. CASE Flush
  BY <1>3 DEF Flush
<1>4. CASE Hijack
  BY <1>4 DEF Hijack
<1>5. CASE ReadBody
  BY <1>5 DEF ReadBody
<1>6. CASE HandlerReturns
  BY <1>6 DEF HandlerReturns
<1>7. CASE HandlerPanics
  BY <1>7 DEF HandlerPanics
<1> QED
  BY <1>1, <1>2, <1>3, <1>4, <1>5, <1>6, <1>7 DEF HandlerStep

Place ==
    /\ Phases /\ GaugeFollows /\ RecoverCatches
    /\ Looked("log", logged) /\ Looked("metrics", counted)

LEMMA HandlingKeepsPlace ==
    ASSUME Typed, Place, Handling
    PROVE  Place'
<1> USE DEF Handling, observerVars
<1>1. /\ at' = N /\ at = N /\ UNCHANGED chain
      /\ \A layer : (Within(layer)' <=> Within(layer)) /\ (Has(layer)' <=> Has(layer))
      /\ \A layer : Has(layer) => Within(layer)
  BY OnThePath DEF Place, Phases, Within, Has, N
<1>2. Phases'
  BY <1>1 DEF Place, Phases, N
<1>3. GaugeFollows'
  BY <1>1 DEF Place, GaugeFollows
<1>4. RecoverCatches'
  BY <1>1 DEF RecoverCatches
<1>5. logged' = None /\ counted' = None
  BY DEF Place, Phases
<1>6. /\ Before("log", "recover")' => Within("log")'
      /\ Before("metrics", "recover")' => Within("metrics")'
  BY <1>1 DEF Before, Has
<1>7. Looked("log", logged)' /\ Looked("metrics", counted)'
  BY <1>5, <1>6 DEF Looked
<1> QED
  BY <1>2, <1>3, <1>4, <1>7 DEF Place

(* A layer that is left looks, or is not one that does. *)
LEMMA LookedOut ==
    ASSUME Typed, Place, GoesOut, NEW layer \in {"log", "metrics"},
           NEW seen, NEW next, Looked(layer, seen),
           chain[at] = layer /\ mode = "returning" => next # None,
           chain[at] # layer \/ mode # "returning" => next = seen
    PROVE  /\ next # None => Over' /\ ~Within(layer)' /\ Has(layer)'
           /\ (Over /\ Before(layer, "recover") /\ ~Before("limit", layer))' =>
                 next # None \/ Within(layer)'
<1> USE DEF GoesOut
<1>1. /\ at \in 1..N /\ N' = N
      /\ \A l : Within(l) <=> Within(l)' \/ chain[at] = l
      /\ \A l : chain[at] = l => ~Within(l)'
      /\ \A l : Has(l)' <=> Has(l)
      /\ \A l, k : Before(l, k)' <=> Before(l, k)
  BY GoOut DEF Has, Before
<1>2. ASSUME next # None PROVE Over' /\ ~Within(layer)' /\ Has(layer)'
  <2>1. CASE chain[at] = layer /\ mode = "returning"
    <3>1. Has(layer)
      BY <1>1, <2>1 DEF Has
    <3> QED
      BY <1>1, <2>1, <3>1 DEF Over
  <2>2. CASE ~(chain[at] = layer /\ mode = "returning")
    <3>1. Over /\ ~Within(layer) /\ Has(layer)
      BY <1>2, <2>2 DEF Looked
    <3> QED
      BY <1>1, <3>1 DEF Over
  <2> QED
    BY <2>1, <2>2
<1>3. ASSUME Over', Before(layer, "recover"), ~Before("limit", layer),
             ~Within(layer)'
      PROVE  next # None
  <2>1. CASE mode = "panicking"
    <3>1. chain[at] = "recover"
      BY <1>3, <2>1 DEF Over
    <3>2. PICK i, j \in 1..N : i < j /\ chain[i] = layer /\ chain[j] = "recover"
      BY <1>3 DEF Before
    <3>3. j = at
      BY <1>1, <3>1, <3>2, ChainFacts
    <3>4. i \in 1..at'
      BY <1>1, <3>2, <3>3, ChainFacts
    <3>5. Within(layer)'
      BY <3>2, <3>4 DEF Within
    <3> QED
      BY <1>3, <3>5
  <2>2. CASE mode = "returning" /\ chain[at] = layer
    BY <2>2
  <2>3. CASE mode = "returning" /\ chain[at] # layer
    <3>1. ~Within(layer) /\ Over
      BY <1>1, <1>3, <2>3 DEF Over
    <3> QED
      BY <1>3, <2>3, <3>1 DEF Looked
  <2> QED
    BY <2>1, <2>2, <2>3
<1> QED
  BY <1>1, <1>2, <1>3

LEMMA GoingOutKeepsPlace ==
    ASSUME Typed, Place, GoesOut
    PROVE  Place'
<1> USE DEF GoesOut
<1>1. /\ at \in 1..N /\ N' = N
      /\ \A l : Within(l) <=> Within(l)' \/ chain[at] = l
      /\ \A l : chain[at] = l => ~Within(l)'
      /\ \A l : Has(l)' <=> Has(l)
  BY GoOut DEF Has
<1>2. mode \in {"returning", "panicking"} /\ mode' \in {"returning", "panicking"}
      /\ (mode' = "panicking" => mode = "panicking" /\ chain[at] # "recover")
  OBVIOUS
<1>3. GaugeFollows'
  <2>1. CASE chain[at] = "metrics"
    <3>1. Within("metrics") /\ ~Within("metrics")'
      BY <1>1, <2>1
    <3> QED
      BY <2>1, <3>1 DEF Place, GaugeFollows
  <2>2. CASE chain[at] # "metrics"
    <3>1. Within("metrics") <=> Within("metrics")'
      BY <1>1, <2>2
    <3> QED
      BY <2>2, <3>1 DEF Place, GaugeFollows
  <2> QED
    BY <2>1, <2>2
<1>4. RecoverCatches'
  BY <1>1, <1>2 DEF Place, RecoverCatches
<1>5. Phases'
  <2>1. mode' = "panicking" => panicked' /\ logged' = None /\ counted' = None
    BY <1>2 DEF Place, Phases, handlerVars
  <2>2. tooLarge' => Has("limit")' /\ request' = "hidden"
    BY <1>1 DEF Place, Phases
  <2> QED
    BY <1>2, <2>1, <2>2 DEF Phases
<1>6. Looked("log", logged)'
  <2>1. [status |-> rec[at].status, written |-> rec[at].written] # None
    BY <1>1, NoneIsNoRecord DEF Typed
  <2>2. /\ chain[at] = "log" /\ mode = "returning" => logged' # None
        /\ chain[at] # "log" \/ mode # "returning" => logged' = logged
    BY <2>1
  <2>3. /\ logged' # None => Over' /\ ~Within("log")' /\ Has("log")'
        /\ (Over /\ Before("log", "recover") /\ ~Before("limit", "log"))' =>
              logged' # None \/ Within("log")'
    <3> HIDE DEF GoesOut
    <3>1. Looked("log", logged) /\ "log" \in {"log", "metrics"}
      BY DEF Place
    <3> DEFINE next == logged'
    <3>2. /\ chain[at] = "log" /\ mode = "returning" => next # None
          /\ chain[at] # "log" \/ mode # "returning" => next = logged
      BY <2>2
    <3> HIDE DEF next
    <3>3. /\ next # None => Over' /\ ~Within("log")' /\ Has("log")'
          /\ (Over /\ Before("log", "recover") /\ ~Before("limit", "log"))' =>
                next # None \/ Within("log")'
      BY <3>1, <3>2, LookedOut
    <3> QED
      BY <3>3 DEF next
  <2> QED
    BY <2>3 DEF Looked
<1>7. Looked("metrics", counted)'
  <2>1. rec[at].status # None
    BY <1>1, StatusFacts DEF Typed
  <2>2. /\ chain[at] = "metrics" /\ mode = "returning" => counted' # None
        /\ chain[at] # "metrics" \/ mode # "returning" => counted' = counted
    BY <2>1
  <2>3. /\ counted' # None => Over' /\ ~Within("metrics")' /\ Has("metrics")'
        /\ (Over /\ Before("metrics", "recover") /\ ~Before("limit", "metrics"))' =>
              counted' # None \/ Within("metrics")'
    <3> HIDE DEF GoesOut
    <3>1. Looked("metrics", counted) /\ "metrics" \in {"log", "metrics"}
      BY DEF Place
    <3> QED
      BY <2>2, <3>1, LookedOut
  <2> QED
    BY <2>3 DEF Looked
<1> QED
  BY <1>3, <1>4, <1>5, <1>6, <1>7 DEF Place

LEMMA EnterKeepsPlace ==
    ASSUME Typed, Place, Enter
    PROVE  Place'
<1> USE DEF Enter, clientVars, handlerVars
<1>1. /\ at < N /\ at' = at + 1 /\ at + 1 \in 1..N /\ N' = N
      /\ \A l : Within(l)' <=> Within(l) \/ chain[at + 1] = l
      /\ \A l : chain[at + 1] = l => ~Within(l)
      /\ \A l : Has(l)' <=> Has(l)
  BY GoIn, ChainFacts DEF Has
<1>2. GaugeFollows'
  <2>1. CASE chain[at + 1] = "metrics"
    <3>1. Within("metrics")' /\ ~Within("metrics")
      BY <1>1, <2>1
    <3> QED
      BY <2>1, <3>1 DEF Place, GaugeFollows
  <2>2. CASE chain[at + 1] # "metrics"
    <3>1. Within("metrics") <=> Within("metrics")'
      BY <1>1, <2>2
    <3> QED
      BY <2>2, <3>1 DEF Place, GaugeFollows
  <2> QED
    BY <2>1, <2>2
<1>3. RecoverCatches'
  BY <1>1 DEF RecoverCatches
<1>4. Phases'
  <2>1. Within("limit")' => request' # "declared"
    BY <1>1 DEF Place, Phases
  <2> QED
    BY <1>1, <2>1 DEF Place, Phases
<1>5. Looked("log", logged)' /\ Looked("metrics", counted)'
  BY DEF Place, Phases, Looked, Over
<1> QED
  BY <1>2, <1>3, <1>4, <1>5 DEF Place

LEMMA RefusalKeepsPlace ==
    ASSUME Typed, Place, EnterLimit
    PROVE  Place'
<1>1. /\ mode = "entering" /\ mode' = "returning" /\ at < N /\ chain[at + 1] = "limit"
      /\ UNCHANGED <<chain, request, at, tooLarge, observerVars, handlerVars>>
      /\ N' = N
  BY DEF EnterLimit, N
<1>2. \A l : (Within(l)' <=> Within(l)) /\ (Has(l)' <=> Has(l))
  BY <1>1 DEF Within, Has
<1>3. GaugeFollows' /\ RecoverCatches'
  BY <1>1, <1>2 DEF Place, GaugeFollows, RecoverCatches, observerVars
<1>4. logged' = None /\ counted' = None /\ ~tooLarge'
  BY <1>1 DEF Place, Phases, observerVars
<1>5. Phases'
  BY <1>1, <1>4 DEF Phases
<1>6. ASSUME NEW l, l # "limit", Before(l, "recover")', ~Before("limit", l)'
      PROVE  Within(l)'
  <2>1. PICK i \in 1..N : chain[i] = l
    BY <1>1, <1>6 DEF Before
  <2>2. ~(at + 1 < i) /\ i # at + 1
    BY <1>1, <1>6, <2>1, ChainFacts DEF Before
  <2>3. i \in 1..at
    BY <1>1, <2>2, ChainFacts
  <2>4. Within(l)
    BY <2>1, <2>3 DEF Within
  <2> QED
    BY <1>2, <2>4
<1>7. Looked("log", logged)' /\ Looked("metrics", counted)'
  BY <1>4, <1>6 DEF Looked
<1> QED
  BY <1>3, <1>5, <1>7 DEF Place

LEMMA ArrivalKeepsPlace ==
    ASSUME Typed, Place, EnterHandler
    PROVE  Place'
<1> USE DEF EnterHandler, observerVars, clientVars, handlerVars
<1>1. \A l : (Within(l)' <=> Within(l)) /\ (Has(l)' <=> Has(l))
  BY DEF Within, Has, N
<1>2. GaugeFollows' /\ RecoverCatches'
  BY <1>1 DEF Place, GaugeFollows, RecoverCatches
<1>3. Phases'
  BY DEF Place, Phases, N
<1>4. Looked("log", logged)' /\ Looked("metrics", counted)'
  BY DEF Place, Phases, Looked, Over
<1> QED
  BY <1>2, <1>3, <1>4 DEF Place

LEMMA FinishKeepsPlace ==
    ASSUME Typed, Place, Finish
    PROVE  Place'
<1>1. /\ at = 0
      /\ \/ mode = "returning" /\ mode' = "done"
         \/ mode = "panicking" /\ mode' = "aborted"
      /\ UNCHANGED <<chain, request, at, rec, tooLarge, inFlight, counted, logged,
                     body, hijacked, intended, writes, panicked, unnoticed>>
  BY DEF Finish, observerVars, handlerVars
<1>2. \A l : (Within(l)' <=> Within(l)) /\ (Has(l)' <=> Has(l)) /\ ~Within(l)
  BY <1>1, OnThePath DEF Within, Has, N
<1>3. GaugeFollows' /\ RecoverCatches'
  BY <1>1, <1>2 DEF Place, GaugeFollows, RecoverCatches
<1>4. Phases'
  BY <1>1, <1>2 DEF Place, Phases
<1>5. \A l, k : Before(l, k)' <=> Before(l, k)
  BY <1>1 DEF Before, N
<1>6. Over' => Over
  BY <1>1 DEF Over
<1>7. Over => Over'
  BY <1>1 DEF Over
<1>8. Looked("log", logged)'
  BY <1>1, <1>2, <1>5, <1>6, <1>7 DEF Place, Looked
<1>9. Looked("metrics", counted)'
  BY <1>1, <1>2, <1>5, <1>6, <1>7 DEF Place, Looked
<1> QED
  BY <1>3, <1>4, <1>8, <1>9 DEF Place

LEMMA PlaceStep ==
    ASSUME Typed, Place, [Next]_vars
    PROVE  Place'
<1>1. CASE EnterLimit \/ Enter \/ EnterHandler
  BY <1>1, RefusalKeepsPlace, EnterKeepsPlace, ArrivalKeepsPlace
<1>2. CASE HandlerStep
  BY <1>2, HandlerIsHandling, HandlingKeepsPlace
<1>3. CASE LeaveLog \/ LeaveMetrics \/ LeaveLimit \/ LeaveRecover
  BY <1>3, LeavesGoOut, GoingOutKeepsPlace
<1>4. CASE Finish
  BY <1>4, FinishKeepsPlace
<1>5. CASE UNCHANGED vars
  BY <1>5 DEF vars, observerVars, clientVars, handlerVars, Place, Phases, GaugeFollows,
              RecoverCatches, Looked, Over, Within, Has, Before, N
<1> QED
  BY <1>1, <1>2, <1>3, <1>4, <1>5 DEF Next, HandlerStep, Finished

-----------------------------------------------------------------------------
(* What the client gets.                                                    *)

LEMMA OneMoreUnit ==
    ASSUME NEW s \in Seq({"handler"})
    PROVE  Append(s, "handler") \in Seq({"handler"}) /\ Len(Append(s, "handler")) = Len(s) + 1
BY AppendProperties

LEMMA OrOKFacts ==
    \A status : OrOK(status) # None /\ OrOK(OrOK(status)) = OrOK(status)
                /\ (status # None => OrOK(status) = status)
<1>1. 200 # None
  BY StatusFacts
<1> QED
  BY <1>1 DEF OrOK

LEMMA HandlersAnswer ==
    ASSUME Typed, Place, Answers, HandlerStep
    PROVE  Answers'
<1> SUFFICES ASSUME Noticed' PROVE (HandlersOwn \/ Upgraded)'
  BY DEF Answers
<1>1. Handling
  BY HandlerIsHandling
<1>2. /\ mode = "handling" /\ mode' \notin {"entering", "done"} /\ N' = N /\ N \in 0..N
      /\ UNCHANGED <<chain, request, at>> /\ Noticed
  <2>1. unnoticed => unnoticed'
    BY DEF HandlerStep, WriteHeader, Write, Flush, Hijack, ReadBody, HandlerReturns,
           HandlerPanics, clientVars, handlerVars
  <2> QED
    BY <1>1, <2>1, ChainFacts DEF Handling, Noticed, N
<1>3. /\ Over' => /\ panicked' => intended' # None
                  /\ tooLarge' /\ intended' = None => Within("limit")'
      /\ Has("limit")' <=> Has("limit")
  <2>1. ~panicked /\ (mode' # "panicking" => ~panicked')
    BY <1>1, <1>2 DEF Handling, Place, Phases
  <2>2. tooLarge' => Has("limit")
    BY <1>1 DEF Handling, Place, Phases
  <2>3. /\ at = N /\ Has("limit") => Within("limit")
        /\ Within("limit")' <=> Within("limit")
        /\ Has("limit")' <=> Has("limit")
    BY <1>2, OnThePath DEF Place, Phases, Within, Has
  <2>4. Over' => mode' # "panicking"
    BY DEF Over
  <2> QED
    BY <1>2, <2>1, <2>2, <2>3, <2>4 DEF Place, Phases
<1>4. HandlersOwn \/ Upgraded
  BY <1>2 DEF Answers, TooLargeAnswer, PanicAnswer, ErrorAnswer, Over
<1>5. ASSUME NEW code \in Codes \cup Informational, WriteHeader(code)
      PROVE  (HandlersOwn \/ Upgraded)'
  <2>1. HandlersOwn /\ intended = None /\ intended' = code /\ code \in Codes
        /\ code \in Nat /\ code # None /\ UNCHANGED <<body, hijacked, writes>>
        /\ code \notin Informational
    <3>1. /\ ~hijacked /\ intended = None /\ code \notin Informational
          /\ intended' = code /\ UNCHANGED <<body, hijacked, writes>>
      BY <1>5 DEF WriteHeader, Noticed
    <3>2. code \in Codes /\ code \in Nat /\ code # None
      BY <3>1, StatusFacts
    <3> QED
      BY <1>4, <3>1, <3>2 DEF Upgraded
  <2>2. \A i \in 1..N : ~rec[i].committed /\ rec[i].written = writes
    BY <2>1 DEF HandlersOwn
  <2>3. /\ Reached(N) = 1..N
        /\ \A i \in 1..N : rec'[i].status = code /\ rec'[i].committed
                          /\ rec'[i].written = writes
    BY <1>2, <1>5, <2>1, <2>2, WriteHeaderFacts DEF WriteHeader
  <2>4. head = None
    BY <1>2, <2>1 DEF HandlersOwn
  <2>5. head' = code
    BY <1>5, <2>1, <2>3, <2>4 DEF WriteHeader, HeadAfterWriteHeader
  <2> QED
    BY <1>2, <1>3, <2>1, <2>3, <2>5 DEF HandlersOwn, OrOK
<1>6. CASE Write
  <2>1. HandlersOwn /\ UNCHANGED hijacked /\ Taken = 1
    BY <1>4, <1>6 DEF Upgraded, Write, Taken
  <2>2. rec' = RecorderWrite(N, rec) /\ rec \in Recorders
    BY <1>6 DEF Write, Typed, Recorders
  <2>3. \A i \in 1..N : rec'[i].status = rec[i].status /\ rec'[i].committed
                      /\ rec'[i].written = rec[i].written + 1
    BY <1>2, <2>1, <2>2, WriteFacts
  <2>4. /\ intended' = OrOK(intended) /\ head' = OrOK(head)
        /\ intended' # None /\ OrOK(intended') = OrOK(intended)
    BY <1>6, OrOKFacts DEF Write
  <2>5. body' \in Seq({"handler"}) /\ Len(body') = writes' /\ writes' = writes + 1
    BY <1>6, <2>1, OneMoreUnit DEF Write, HandlersOwn
  <2>6. head' = intended'
    BY <1>2, <2>1, <2>4 DEF HandlersOwn
  <2> QED
    BY <1>2, <1>3, <2>1, <2>3, <2>4, <2>5, <2>6 DEF HandlersOwn
<1>7. CASE Flush
  <2>1. HandlersOwn /\ UNCHANGED <<rec, body, hijacked, writes>> /\ head # None
    BY <1>4, <1>7 DEF Upgraded, Flush, Noticed
  <2>2. UNCHANGED <<head, intended>>
    BY <1>2, <1>7, <2>1 DEF Flush, OrOK, HandlersOwn
  <2> QED
    BY <1>2, <1>3, <2>1, <2>2 DEF HandlersOwn
<1>8. CASE Hijack
  BY <1>2, <1>4, <1>8 DEF Hijack, Upgraded, HandlersOwn
<1>9. CASE ReadBody \/ HandlerReturns \/ HandlerPanics
  <2>1. UNCHANGED <<rec, head, body, hijacked, intended, writes>>
    BY <1>9 DEF ReadBody, HandlerReturns, HandlerPanics, clientVars, handlerVars
  <2>2. CASE HandlersOwn
    BY <1>2, <1>3, <2>1, <2>2 DEF HandlersOwn
  <2>3. CASE Upgraded
    BY <1>2, <2>1, <2>3 DEF Upgraded
  <2> QED
    BY <1>4, <2>2, <2>3
<1> QED
  BY <1>5, <1>6, <1>7, <1>8, <1>9 DEF HandlerStep

(* An error is written only over nothing, and then stands alone. *)
LEMMA ErrorStandsAlone ==
    ASSUME Typed, HandlersOwn, mode # "done", intended = None,
           NEW m \in 0..N, NEW code \in {413, 500}, WriteError(m, code),
           mode' = "returning", UNCHANGED intended, 1..at' \subseteq 1..m
    PROVE  ErrorAnswer(code)'
<1>1. head = None /\ writes = 0 /\ ~hijacked
  BY DEF HandlersOwn
<1>2. body = <<>>
  BY <1>1, EmptySeq DEF HandlersOwn
<1>3. \A i \in 1..m : ~rec[i].committed /\ rec[i].written = 0
  <2>1. \A i \in 1..m : i \in 1..N
    BY ChainFacts
  <2> QED
    BY <1>1, <2>1 DEF HandlersOwn
<1>4. /\ hijacked' = hijacked /\ head' = code /\ body' = Append(body, "error")
      /\ \A i \in 1..m : /\ rec'[i].status = code /\ rec'[i].committed
                          /\ rec'[i].written = rec[i].written + 1
  BY <1>1, <1>3, ErrorFacts
<1>5. body' = <<"error">>
  BY <1>2, <1>4
<1>6. \A i \in 1..m : rec'[i].written = 1
  BY <1>3, <1>4
<1>7. \A i \in 1..at' :
        rec'[i].status = code /\ rec'[i].committed /\ rec'[i].written = 1
  BY <1>4, <1>6
<1> QED
  BY <1>1, <1>4, <1>5, <1>7 DEF ErrorAnswer, Over

LEMMA EnteringAnswers ==
    ASSUME Typed, Place, Answers, EnterLimit \/ Enter \/ EnterHandler
    PROVE  Answers'
<1> SUFFICES ASSUME Noticed' PROVE (HandlersOwn \/ TooLargeAnswer)'
  BY DEF Answers
<1>1. mode = "entering" /\ UNCHANGED <<chain, request, tooLarge>> /\ N' = N
      /\ UNCHANGED <<intended, writes, panicked, unnoticed>>
  BY DEF EnterLimit, Enter, EnterHandler, handlerVars, N
<1>2. HandlersOwn /\ intended = None /\ ~panicked /\ Noticed
  BY <1>1 DEF Answers, TooLargeAnswer, PanicAnswer, ErrorAnswer, Upgraded, Over, Place,
              Phases, Noticed
<1>3. Has("limit")' <=> Has("limit")
  BY <1>1 DEF Has
<1>4. CASE EnterLimit
  <2>1. at < N /\ chain[at + 1] = "limit" /\ request = "declared" /\ WriteError(at, 413)
        /\ mode' = "returning" /\ at' = at
    BY <1>4 DEF EnterLimit
  <2>2. ErrorAnswer(413)'
    BY <1>1, <1>2, <2>1, ErrorStandsAlone, ChainFacts
  <2>3. Has("limit")'
    BY <1>3, <2>1, ChainFacts DEF Has
  <2> QED
    BY <1>1, <1>2, <2>1, <2>2, <2>3 DEF TooLargeAnswer
<1>5. CASE Enter
  <2>1. UNCHANGED <<rec, head, body, hijacked>> /\ mode' = "entering"
    BY <1>1, <1>5 DEF Enter, clientVars
  <2> QED
    BY <1>1, <1>2, <2>1 DEF HandlersOwn, Over
<1>6. CASE EnterHandler
  <2>1. UNCHANGED <<rec, head, body, hijacked>> /\ mode' = "handling" /\ at = N
    BY <1>6 DEF EnterHandler, clientVars
  <2>2. Has("limit") => request # "declared"
    BY <1>1, <2>1, OnThePath DEF Place, Phases
  <2> QED
    BY <1>1, <1>2, <1>3, <2>1, <2>2 DEF HandlersOwn, Over
<1> QED
  BY <1>4, <1>5, <1>6

LEMMA RecordersAgree ==
    ASSUME Typed, Answers, Noticed, ~hijacked, mode \in {"returning", "panicking"}, at > 0
    PROVE  rec[at].status = OrOK(head) /\ rec[at].written = Len(body)
<1>1. at \in 1..at /\ at \in 1..N
  BY ChainFacts
<1>2. CASE HandlersOwn
  BY <1>1, <1>2 DEF HandlersOwn
<1>3. ASSUME NEW code \in {413, 500}, ErrorAnswer(code)
      PROVE  rec[at].status = OrOK(head) /\ rec[at].written = Len(body)
  <2>1. Len(<<"error">>) = 1 /\ code # None
    BY StatusFacts
  <2> QED
    BY <1>1, <1>3, <2>1 DEF ErrorAnswer, OrOK
<1> QED
  BY <1>2, <1>3 DEF Answers, TooLargeAnswer, PanicAnswer, Upgraded

(* A layer that writes nothing on its way out leaves the answer as it is. *)
LEMMA SilentLeaveAnswers ==
    ASSUME Typed, Place, Answers, GoesOut, UNCHANGED <<rec, head, body>>,
           chain[at] = "limit" /\ mode = "returning" => ~AnswersTooLarge,
           chain[at] = "recover" /\ mode = "panicking" => ~Answers500
    PROVE  Answers'
<1> SUFFICES ASSUME Noticed'
             PROVE (HandlersOwn \/ TooLargeAnswer \/ PanicAnswer \/ Upgraded)'
  BY DEF Answers
<1>1. /\ UNCHANGED <<chain, request, tooLarge, hijacked, rec, head, body>>
      /\ UNCHANGED <<intended, writes, panicked, unnoticed>>
      /\ mode \in {"returning", "panicking"} /\ mode' \in {"returning", "panicking"}
      /\ mode = "returning" => mode' = "returning"
      /\ mode' # mode => chain[at] = "recover"
      /\ at > 0 /\ at' = at - 1
  BY DEF GoesOut, handlerVars
<1>2. /\ at \in 1..N /\ N' = N
      /\ \A l : Within(l) <=> Within(l)' \/ chain[at] = l
      /\ \A i \in 1..at' : i \in 1..at
      /\ \A l : Has(l)' <=> Has(l)
  BY <1>1, GoOut DEF Has
<1>3. CASE HandlersOwn
  <2>1. /\ head' = intended' /\ (rec[at].committed <=> intended # None)
    BY <1>1, <1>2, <1>3 DEF HandlersOwn
  <2>2. ASSUME Over', panicked' PROVE intended' # None
    <3>1. CASE mode = "returning"
      BY <1>1, <1>3, <2>2, <3>1 DEF HandlersOwn, Over
    <3>2. CASE mode = "panicking"
      <4>1. chain[at] = "recover"
        BY <1>1, <2>2, <3>2 DEF Over
      <4> QED
        BY <1>1, <2>1, <3>2, <4>1 DEF Answers500
    <3> QED
      BY <1>1, <3>1, <3>2
  <2>3. ASSUME Over', tooLarge', intended' = None PROVE Within("limit")'
    <3>1. mode = "returning"
      <4>1. mode = "panicking" => panicked'
        BY <1>1 DEF Place, Phases
      <4> QED
        BY <1>1, <2>2, <2>3, <4>1
    <3>2. Within("limit")
      BY <1>1, <1>3, <2>3, <3>1 DEF HandlersOwn, Over
    <3>3. chain[at] # "limit"
      BY <1>1, <2>1, <2>3, <3>1 DEF AnswersTooLarge
    <3> QED
      BY <1>2, <3>2, <3>3
  <2>4. mode' # "done" /\ mode' # "entering" /\ mode # "entering"
    BY <1>1
  <2> QED
    BY <1>1, <1>2, <1>3, <2>1, <2>2, <2>3, <2>4 DEF HandlersOwn
<1>4. ASSUME NEW code, ErrorAnswer(code) PROVE ErrorAnswer(code)'
  BY <1>1, <1>2, <1>4 DEF ErrorAnswer, Over
<1>5. CASE Upgraded
  BY <1>1, <1>5 DEF Upgraded
<1>6. CASE TooLargeAnswer
  BY <1>1, <1>2, <1>4, <1>6 DEF TooLargeAnswer
<1>7. CASE PanicAnswer
  BY <1>1, <1>4, <1>7 DEF PanicAnswer
<1> QED
  BY <1>1, <1>3, <1>5, <1>6, <1>7 DEF Answers, Noticed

LEMMA LeavingAnswers ==
    ASSUME Typed, Place, Answers, LeaveLog \/ LeaveMetrics \/ LeaveLimit \/ LeaveRecover
    PROVE  Answers'
<1>1. GoesOut
  BY LeavesGoOut
<1>2. /\ UNCHANGED <<chain, request, tooLarge, hijacked>>
      /\ UNCHANGED <<intended, writes, panicked, unnoticed>>
      /\ mode \in {"returning", "panicking"} /\ at > 0 /\ at' = at - 1
  BY <1>1 DEF GoesOut, handlerVars
<1>3. /\ at \in 1..N /\ \A l : Has(l)' <=> Has(l)
  BY <1>2, GoOut DEF Has, N
<1>4. Noticed => /\ (HandlersOwn /\ intended = None) \/ Upgraded
                    \/ rec[at].committed
  <2>1. at \in 1..at
    BY <1>3, ChainFacts
  <2> QED
    BY <1>3, <2>1 DEF Answers, HandlersOwn, TooLargeAnswer, PanicAnswer, ErrorAnswer
<1>5. ASSUME NEW m \in 0..N, NEW code \in {413, 500}, WriteError(m, code), Upgraded
      PROVE  Upgraded'
  <2>1. body' = body
    BY <1>5, ErrorFacts DEF Upgraded
  <2>2. mode' # "entering"
    BY <1>1 DEF GoesOut
  <2> QED
    BY <1>2, <1>5, <2>1, <2>2 DEF Upgraded
<1>6. CASE LeaveLog \/ LeaveMetrics
  <2>1. UNCHANGED <<rec, head, body>> /\ chain[at] \notin {"limit", "recover"}
    BY <1>6 DEF LeaveLog, LeaveMetrics, Leave, clientVars
  <2> QED
    BY <1>1, <2>1, SilentLeaveAnswers
<1>7. CASE LeaveLimit
  <2>1. chain[at] = "limit"
    BY <1>7 DEF LeaveLimit, Leave
  <2>2. CASE mode = "returning" /\ AnswersTooLarge
    <3> SUFFICES ASSUME Noticed' PROVE (TooLargeAnswer \/ Upgraded)'
      BY DEF Answers
    <3>1. WriteError(at, 413) /\ mode' = "returning" /\ tooLarge /\ ~rec[at].committed
      BY <1>7, <2>2 DEF LeaveLimit, AnswersTooLarge
    <3>2. CASE Upgraded
      BY <1>3, <1>5, <3>1, <3>2, ChainFacts
    <3>3. CASE HandlersOwn /\ intended = None
      <4>1. ~panicked /\ Has("limit")
        BY <1>3, <2>1, <2>2, <3>3 DEF HandlersOwn, Over, Has
      <4>2. ErrorAnswer(413)'
        <5>1. 1..at' \subseteq 1..at /\ at \in 0..N
          BY <1>2, <1>3, ChainFacts
        <5> QED
          BY <1>2, <2>2, <3>1, <3>3, <5>1, ErrorStandsAlone
      <4> QED
        BY <1>2, <1>3, <3>1, <4>1, <4>2 DEF TooLargeAnswer
    <3> QED
      BY <1>2, <1>4, <3>1, <3>2, <3>3 DEF Noticed
  <2>3. CASE ~(mode = "returning" /\ AnswersTooLarge)
    <3>1. UNCHANGED <<rec, head, body>>
      BY <1>7, <2>3 DEF LeaveLimit, clientVars
    <3> QED
      BY <1>1, <2>1, <2>3, <3>1, SilentLeaveAnswers
  <2> QED
    BY <2>2, <2>3
<1>8. CASE LeaveRecover
  <2>1. chain[at] = "recover" /\ mode' = "returning"
    BY <1>8 DEF LeaveRecover, Leave, AfterRecover
  <2>2. CASE mode = "panicking" /\ Answers500
    <3> SUFFICES ASSUME Noticed' PROVE (PanicAnswer \/ Upgraded)'
      BY DEF Answers
    <3>1. WriteError(at - 1, 500) /\ ~rec[at].committed /\ at - 1 \in 0..N
      BY <1>3, <1>8, <2>2, ChainFacts DEF LeaveRecover, Answers500
    <3>2. CASE Upgraded
      BY <1>5, <3>1, <3>2
    <3>3. CASE HandlersOwn /\ intended = None
      <4>1. ErrorAnswer(500)'
        BY <1>2, <2>1, <2>2, <3>1, <3>3, ErrorStandsAlone
      <4>2. panicked'
        BY <1>2, <2>2 DEF Place, Phases
      <4> QED
        BY <4>1, <4>2 DEF PanicAnswer
    <3> QED
      BY <1>2, <1>4, <3>1, <3>2, <3>3 DEF Noticed
  <2>3. CASE ~(mode = "panicking" /\ Answers500)
    <3>1. UNCHANGED <<rec, head, body>>
      BY <1>8, <2>3 DEF LeaveRecover, clientVars
    <3> QED
      BY <1>1, <2>1, <2>3, <3>1, SilentLeaveAnswers
  <2> QED
    BY <2>2, <2>3
<1> QED
  BY <1>6, <1>7, <1>8

LEMMA FinishAnswers ==
    ASSUME Typed, Place, Answers, Finish
    PROVE  Answers'
<1> SUFFICES ASSUME Noticed'
             PROVE (HandlersOwn \/ TooLargeAnswer \/ PanicAnswer \/ Upgraded)'
  BY DEF Answers
<1>1. /\ at = 0 /\ N' = N
      /\ \/ mode = "returning" /\ mode' = "done"
         \/ mode = "panicking" /\ mode' = "aborted"
      /\ UNCHANGED <<chain, request, at, rec, tooLarge, body, hijacked, intended,
                     writes, panicked, unnoticed>>
      /\ head' = IF mode = "returning" /\ ~hijacked THEN OrOK(head) ELSE head
  BY DEF Finish, handlerVars, N
<1>2. \A l : (Within(l)' <=> Within(l)) /\ (Has(l)' <=> Has(l))
  BY <1>1 DEF Within, Has
<1>3. CASE HandlersOwn
  <2>1. head' = IF mode' = "done" THEN OrOK(intended') ELSE intended'
    BY <1>1, <1>3 DEF HandlersOwn
  <2>2. Over' => Over /\ mode' # "entering" /\ mode # "entering"
    BY <1>1 DEF Over
  <2>3. /\ ~hijacked'
        /\ body' \in Seq({"handler"}) /\ Len(body') = writes'
        /\ writes' # 0 => intended' # None
        /\ mode' # "entering" /\ Has("limit")' => request' # "declared"
    BY <1>1, <1>2, <1>3 DEF HandlersOwn
  <2>4. \A i \in 1..N' :
          /\ rec'[i].status = OrOK(intended') /\ rec'[i].written = writes'
          /\ rec'[i].committed <=> intended' # None
    BY <1>1, <1>3 DEF HandlersOwn
  <2>5. Over' => /\ panicked' => intended' # None
                 /\ tooLarge' /\ intended' = None => Within("limit")'
    BY <1>1, <1>2, <1>3, <2>2 DEF HandlersOwn
  <2> QED
    BY <2>1, <2>3, <2>4, <2>5 DEF HandlersOwn
<1>4. ASSUME NEW code \in {413, 500}, ErrorAnswer(code) PROVE ErrorAnswer(code)'
  <2>1. OrOK(code) = code
    BY StatusFacts, OrOKFacts
  <2> QED
    BY <1>1, <1>4, <2>1 DEF ErrorAnswer, Over
<1>5. CASE Upgraded
  BY <1>1, <1>5 DEF Upgraded
<1>6. CASE TooLargeAnswer
  BY <1>1, <1>2, <1>4, <1>6 DEF TooLargeAnswer
<1>7. CASE PanicAnswer
  BY <1>1, <1>4, <1>7 DEF PanicAnswer
<1> QED
  BY <1>1, <1>3, <1>5, <1>6, <1>7 DEF Answers, Noticed

LEMMA AnswersStep ==
    ASSUME Typed, Place, Answers, [Next]_vars
    PROVE  Answers'
<1>1. CASE EnterLimit \/ Enter \/ EnterHandler
  BY <1>1, EnteringAnswers
<1>2. CASE HandlerStep
  BY <1>2, HandlersAnswer
<1>3. CASE LeaveLog \/ LeaveMetrics \/ LeaveLimit \/ LeaveRecover
  BY <1>3, LeavingAnswers
<1>4. CASE Finish
  BY <1>4, FinishAnswers
<1>5. CASE UNCHANGED vars
  BY <1>5 DEF vars, clientVars, handlerVars, Answers, Noticed, HandlersOwn, TooLargeAnswer,
              PanicAnswer, ErrorAnswer, Upgraded, Over, Within, Has, N
<1> QED
  BY <1>1, <1>2, <1>3, <1>4, <1>5 DEF Next, HandlerStep, Finished

(* Whoever looks sees what the client has got, and nobody changes it but a  *)
(* MaxBodyBytes further out.                                                *)
LEMMA TruthStep ==
    ASSUME Typed, Place, Answers, Truth, [Next]_vars
    PROVE  Truth'
<1> SUFFICES ASSUME Noticed', ~hijacked'
             PROVE  /\ (logged # None /\ ~Before("limit", "log") =>
                          logged = [status |-> OrOK(head), written |-> Len(body)])'
                    /\ (counted # None /\ ~Before("limit", "metrics") =>
                          counted = OrOK(head))'
  BY DEF Truth
<1>1. CASE EnterLimit \/ Enter \/ EnterHandler \/ HandlerStep
  <2>1. UNCHANGED <<logged, counted>> /\ mode \in {"entering", "handling"}
    BY <1>1, HandlerIsHandling
       DEF EnterLimit, Enter, EnterHandler, Handling, observerVars
  <2> QED
    BY <2>1 DEF Place, Phases
<1>2. CASE LeaveLog \/ LeaveMetrics \/ LeaveLimit \/ LeaveRecover
  <2>1. GoesOut
    BY <1>2, LeavesGoOut
  <2>2. /\ Noticed /\ ~hijacked /\ at > 0 /\ mode \in {"returning", "panicking"}
        /\ at \in 1..N /\ at <= N /\ at \in Nat /\ N' = N
        /\ \A l, k : Before(l, k)' <=> Before(l, k)
    BY <2>1, GoOut DEF GoesOut, handlerVars, Noticed, Before
  <2>3. CASE UNCHANGED <<head, body>>
    <3>1. /\ logged # None /\ ~Before("limit", "log") =>
               logged = [status |-> OrOK(head), written |-> Len(body)]
          /\ counted # None /\ ~Before("limit", "metrics") => counted = OrOK(head)
      BY <2>2 DEF Truth
    <3>2. rec[at].status = OrOK(head) /\ rec[at].written = Len(body)
      BY <2>2, RecordersAgree
    <3>3. /\ logged' = logged \/ logged' = [status |-> OrOK(head), written |-> Len(body)]
          /\ counted' = counted \/ counted' = OrOK(head)
      BY <2>1, <3>2 DEF GoesOut
    <3> QED
      BY <2>2, <2>3, <3>1, <3>3
  <2>4. CASE ~UNCHANGED <<head, body>>
    <3>1. \/ LeaveLimit /\ mode = "returning"
          \/ LeaveRecover /\ mode = "panicking"
      BY <1>2, <2>4 DEF LeaveLog, LeaveMetrics, LeaveLimit, LeaveRecover, clientVars
    <3>2. CASE LeaveLimit
      <4>1. chain[at] = "limit" /\ UNCHANGED <<logged, counted>>
        BY <3>2 DEF LeaveLimit, Leave, observerVars
      <4>2. \A l : ~Within(l) /\ Has(l) /\ l # "limit" => Before("limit", l)
        <5> SUFFICES ASSUME NEW l, ~Within(l), Has(l), l # "limit"
                     PROVE  Before("limit", l)
          OBVIOUS
        <5>1. PICK i \in 1..N : chain[i] = l
          BY DEF Has
        <5>2. i \notin 1..at
          BY <5>1 DEF Within
        <5>3. at < i
          BY <2>2, <5>2
        <5> QED
          BY <2>2, <4>1, <5>1, <5>3 DEF Before
      <4> QED
        BY <2>2, <4>1, <4>2 DEF Place, Looked
    <3>3. CASE LeaveRecover /\ mode = "panicking"
      BY <3>3 DEF LeaveRecover, observerVars, Place, Phases
    <3> QED
      BY <3>1, <3>2, <3>3
  <2> QED
    BY <2>3, <2>4
<1>3. CASE Finish
  <2>1. /\ UNCHANGED <<chain, logged, counted, body, hijacked, unnoticed>>
        /\ head' = head \/ head' = OrOK(head)
    BY <1>3 DEF Finish, observerVars, handlerVars
  <2>2. OrOK(head') = OrOK(head)
    BY <2>1, OrOKFacts
  <2>3. \A l, k : Before(l, k)' <=> Before(l, k)
    BY <2>1 DEF Before, N
  <2> QED
    BY <2>1, <2>2, <2>3 DEF Truth, Noticed
<1>4. CASE UNCHANGED vars
  <2>1. UNCHANGED <<chain, logged, counted, head, body, hijacked, unnoticed>>
    BY <1>4 DEF vars, observerVars, clientVars, handlerVars
  <2>2. \A l, k : Before(l, k)' <=> Before(l, k)
    BY <2>1 DEF Before, N
  <2> QED
    BY <2>1, <2>2 DEF Truth, Noticed, OrOK
<1> QED
  BY <1>1, <1>2, <1>3, <1>4 DEF Next, HandlerStep, Finished

LEMMA StackInvariant == Spec => []StackInv
<1>1. Init => StackInv
  <2> SUFFICES ASSUME Init PROVE StackInv
    OBVIOUS
  <2>1. chain \in Seq(LayerKinds) /\ N \in Nat
    BY StackAssumption, LenProperties DEF Init, N
  <2>2. rec \in [1..N -> [status : Nat, committed : BOOLEAN, written : Nat]]
    BY DEF Init
  <2>3. body \in Seq({"handler", "error"}) /\ body \in Seq({"handler"}) /\ Len(body) = 0
    BY EmptySeq DEF Init
  <2>4. /\ tooLarge \in BOOLEAN /\ hijacked \in BOOLEAN
        /\ panicked \in BOOLEAN /\ unnoticed \in BOOLEAN
    BY DEF Init
  <2>5. Typed
    BY <2>1, <2>2, <2>3, <2>4 DEF Init, Typed
  <2>6. \A l : ~Within(l)
    BY <2>5, OnThePath DEF Init
  <2>7. GaugeFollows /\ RecoverCatches
    BY <2>6 DEF Init, GaugeFollows, RecoverCatches
  <2>8. Phases
    BY <2>6 DEF Init, Phases
  <2>9. Looked("log", logged) /\ Looked("metrics", counted)
    BY DEF Init, Looked, Over
  <2>10. HandlersOwn
    BY <2>3 DEF Init, HandlersOwn, Over, OrOK
  <2>11. Truth
    BY DEF Init, Truth
  <2> QED
    BY <2>5, <2>7, <2>8, <2>9, <2>10, <2>11 DEF StackInv, Answers
<1>2. StackInv /\ [Next]_vars => StackInv'
  <2> SUFFICES ASSUME StackInv, [Next]_vars PROVE StackInv'
    OBVIOUS
  <2>1. Typed /\ Place /\ Answers /\ Truth
    BY DEF StackInv, Place
  <2>2. Typed' /\ Place' /\ Answers' /\ Truth'
    BY <2>1, TypedStep, PlaceStep, AnswersStep, TruthStep
  <2> QED
    BY <2>2 DEF StackInv, Place
<1> QED
  BY <1>1, <1>2, PTL DEF Spec

-----------------------------------------------------------------------------
(* The properties.                                                          *)

LEMMA DoneFacts ==
    ASSUME StackInv, Observed, Noticed
    PROVE  /\ Over /\ at = 0 /\ \A l : ~Within(l)
           /\ OrOK(head) = head
           /\ \/ HandlersOwn /\ head = OrOK(intended)
              \/ TooLargeAnswer
              \/ PanicAnswer
<1>1. Over /\ at = 0 /\ mode = "done" /\ ~hijacked
  BY DEF Observed, Over, StackInv, Phases
<1>2. \A l : ~Within(l)
  BY <1>1, OnThePath DEF StackInv
<1>3. \/ HandlersOwn /\ head = OrOK(intended)
      \/ TooLargeAnswer
      \/ PanicAnswer
  BY <1>1 DEF StackInv, Answers, HandlersOwn, Upgraded
<1>4. OrOK(head) = head
  <2>1. TooLargeAnswer \/ PanicAnswer => head \in {413, 500}
    BY DEF TooLargeAnswer, PanicAnswer, ErrorAnswer
  <2> QED
    BY <1>3, <2>1, OrOKFacts, StatusFacts
<1> QED
  BY <1>1, <1>2, <1>3, <1>4

(* One answer: middleware.go:190-230, 263-275.                              *)
THEOREM OneAnswerOnly == Spec => []OneAnswer
<1>1. StackInv => OneAnswer
  <2> SUFFICES ASSUME StackInv, Noticed, NEW k \in 1..Len(body), body[k] = "error"
               PROVE  Len(body) = 1 /\ head \in {413, 500}
    BY DEF OneAnswer
  <2>1. body \notin Seq({"handler"})
    BY ElementOfSeq
  <2>2. TooLargeAnswer \/ PanicAnswer
    BY <2>1 DEF StackInv, Answers, HandlersOwn, Upgraded
  <2>3. Len(<<"error">>) = 1
    OBVIOUS
  <2> QED
    BY <2>2, <2>3 DEF TooLargeAnswer, PanicAnswer, ErrorAnswer
<1> QED
  BY <1>1, StackInvariant, PTL

(* Status and body pass through all recorders: middleware.go:351-369.       *)
THEOREM IntendedArrives == Spec => []ClientGetsIntended
<1>1. StackInv => ClientGetsIntended
  <2> SUFFICES ASSUME StackInv, Observed, Noticed, intended # None
               PROVE  head = intended /\ Len(body) = writes
    BY DEF ClientGetsIntended
  <2>1. HandlersOwn /\ head = OrOK(intended)
    BY DoneFacts DEF TooLargeAnswer, PanicAnswer, ErrorAnswer
  <2> QED
    BY <2>1, OrOKFacts DEF HandlersOwn
<1> QED
  BY <1>1, StackInvariant, PTL

(* Recover answers panics, wherever it stands: middleware.go:190-230.       *)
THEOREM PanicsAreAnswered == Spec => []PanicAnswered
<1>1. StackInv => PanicAnswered
  <2> SUFFICES ASSUME StackInv, Has("recover")
               PROVE  /\ mode # "aborted"
                      /\ Observed /\ Noticed /\ panicked /\ intended = None => head = 500
    BY DEF PanicAnswered
  <2>1. mode # "aborted"
    BY DEF StackInv, RecoverCatches
  <2>2. ASSUME Observed, Noticed, panicked, intended = None PROVE head = 500
    BY <2>2, DoneFacts DEF HandlersOwn, TooLargeAnswer, PanicAnswer, ErrorAnswer
  <2> QED
    BY <2>1, <2>2
<1> QED
  BY <1>1, StackInvariant, PTL

(* The 413 and what it is for: middleware.go:236-275.                       *)
THEOREM OversizeIsRefused == Spec => []OversizeRefused
<1>1. StackInv => OversizeRefused
  <2> SUFFICES ASSUME StackInv, Observed, Noticed
               PROVE  (head = 413) <=> /\ Has("limit") /\ intended = None /\ ~panicked
                                       /\ request = "declared" \/ tooLarge
    BY DEF OversizeRefused
  <2>1. CASE HandlersOwn /\ head = OrOK(intended)
    <3>1. head # 413
      BY <2>1, StatusFacts DEF OrOK, StackInv, Typed
    <3>2. mode # "entering"
      BY DEF Observed
    <3> QED
      BY <2>1, <3>1, <3>2, DoneFacts DEF HandlersOwn
  <2>2. CASE TooLargeAnswer
    BY <2>2 DEF TooLargeAnswer, ErrorAnswer
  <2>3. CASE PanicAnswer
    BY <2>3 DEF PanicAnswer, ErrorAnswer
  <2> QED
    BY <2>1, <2>2, <2>3, DoneFacts
<1> QED
  BY <1>1, StackInvariant, PTL

(* The observers, outside of Recover and inside, see what the client gets:  *)
(* middleware.go:131-182, 305-327.                                          *)
THEOREM ObserversAreTruthful == Spec => []ObserversTellTheTruth
<1>1. StackInv => ObserversTellTheTruth
  <2> SUFFICES ASSUME StackInv, Observed, Noticed PROVE ObserversTellTheTruth
    BY DEF ObserversTellTheTruth
  <2>1. Over /\ (\A l : ~Within(l)) /\ OrOK(head) = head /\ ~hijacked
    BY DoneFacts DEF Observed
  <2> QED
    BY <2>1 DEF ObserversTellTheTruth, StackInv, Truth, Looked
<1> QED
  BY <1>1, StackInvariant, PTL

(* The gauge comes back on every way out: middleware.go:305-327.            *)
THEOREM GaugeComesBack == Spec => []InFlightSettles
<1>1. StackInv => InFlightSettles
  <2> SUFFICES ASSUME StackInv, mode \in {"done", "aborted"} PROVE inFlight = 0
    BY DEF InFlightSettles
  <2>1. at = 0
    BY DEF StackInv, Phases
  <2>2. ~Within("metrics")
    BY <2>1, OnThePath DEF StackInv
  <2> QED
    BY <2>2 DEF StackInv, GaugeFollows
<1> QED
  BY <1>1, StackInvariant, PTL

-----------------------------------------------------------------------------
(* The types with their bounds.  Only one error is ever written: it comes   *)
(* when the handler has had its say, and commits every recorder that is     *)
(* still to be asked.                                                       *)

AtMost(k) == \A i \in 1..N : rec[i].written <= k

OneErrorAtMost ==
    /\ AtMost(writes + 1)
    /\ ~Over => AtMost(writes)
    /\ AtMost(writes) \/ \A i \in 1..at : rec[i].committed

Bounded ==
    /\ writes <= MaxWrites
    /\ OneErrorAtMost
    /\ \A i \in 1..N : rec[i].status \in Status
    /\ head \in (Status \ Informational) \cup {None}
    /\ counted \in Status \cup {None} /\ logged \in Record \cup {None}

LEMMA WriteHeaderBounds ==
    ASSUME Typed, NEW m \in 0..N, NEW code \in Nat
    PROVE  \A i \in 1..N :
              /\ RecorderWriteHeader(m, code)[i].written = rec[i].written
              /\ RecorderWriteHeader(m, code)[i].status \in {rec[i].status, code}
<1> SUFFICES ASSUME NEW i \in 1..N
             PROVE  /\ RecorderWriteHeader(m, code)[i].written = rec[i].written
                    /\ RecorderWriteHeader(m, code)[i].status \in {rec[i].status, code}
  OBVIOUS
<1>1. rec[i] \in [status : Nat, committed : BOOLEAN, written : Nat]
  BY DEF Typed
<1> QED
  BY <1>1 DEF RecorderWriteHeader

LEMMA WriteBounds ==
    ASSUME Typed, NEW m \in 0..N, NEW r \in Recorders
    PROVE  \A i \in 1..N :
              /\ RecorderWrite(m, r)[i].written <= r[i].written + 1
              /\ RecorderWrite(m, r)[i].status = r[i].status
              /\ i <= m => RecorderWrite(m, r)[i].committed
<1> SUFFICES ASSUME NEW i \in 1..N
             PROVE  /\ RecorderWrite(m, r)[i].written <= r[i].written + 1
                    /\ RecorderWrite(m, r)[i].status = r[i].status
                    /\ i <= m => RecorderWrite(m, r)[i].committed
  OBVIOUS
<1>1. r[i] \in [status : Nat, committed : BOOLEAN, written : Nat] /\ Taken \in 0..1
  BY DEF Recorders, Taken
<1>2. RecorderWrite(m, r)[i] =
        IF i <= m THEN [r[i] EXCEPT !.committed = TRUE, !.written = @ + Taken] ELSE r[i]
  BY ChainFacts DEF RecorderWrite
<1>3. CASE i <= m
  <2>1. r[i].written \in Nat
    BY <1>1
  <2>2. RecorderWrite(m, r)[i].written = r[i].written + Taken
    BY <1>1, <1>2, <1>3
  <2>3. RecorderWrite(m, r)[i].status = r[i].status /\ RecorderWrite(m, r)[i].committed
    BY <1>1, <1>2, <1>3
  <2> QED
    BY <1>1, <2>1, <2>2, <2>3
<1>4. CASE ~(i <= m)
  <2>1. r[i].written \in Nat
    BY <1>1
  <2> QED
    BY <1>2, <1>4, <2>1
<1> QED
  BY <1>3, <1>4

(* An error is written where nothing but the handler's body has been.       *)
LEMMA ErrorBounds ==
    ASSUME Typed, Bounded, NEW m \in 0..at, NEW code \in {413, 500}, WriteError(m, code),
           AtMost(writes), UNCHANGED <<chain, writes>>, Over', at' \in 0..m,
           UNCHANGED <<counted, logged>>
    PROVE  Bounded'
<1>1. /\ N' = N /\ N \in Nat /\ at \in 0..N /\ m \in 0..N /\ code \in Nat /\ writes \in Nat
      /\ \A i \in 1..N : rec[i].written \in Nat /\ rec[i].status \in Status
      /\ code \in Status \ Informational
  <2>1. N' = N /\ N \in Nat /\ at \in 0..N /\ m \in 0..N /\ writes \in Nat
    BY ChainFacts DEF N, Typed
  <2>2. \A i \in 1..N : rec[i].written \in Nat /\ rec[i].status \in Status
    BY DEF Typed, Bounded
  <2>3. code \in Nat /\ code \in Status \ Informational
    BY StatusFacts DEF Status
  <2> QED
    BY <2>1, <2>2, <2>3
<1>2. RecorderWriteHeader(m, code) \in Recorders
  BY <1>1, WriteHeaderFacts
<1>3. rec' = RecorderWrite(m, RecorderWriteHeader(m, code))
  BY DEF WriteError
<1>4. \A i \in 1..N : /\ rec'[i].written <= rec[i].written + 1
                      /\ rec'[i].status \in {rec[i].status, code}
                      /\ i <= m => rec'[i].committed
  <2> DEFINE r == RecorderWriteHeader(m, code)
  <2>1. \A i \in 1..N : r[i].written = rec[i].written /\ r[i].status \in {rec[i].status, code}
    BY <1>1, WriteHeaderBounds
  <2> HIDE DEF r
  <2>2. r \in Recorders /\ rec' = RecorderWrite(m, r)
    BY <1>2, <1>3 DEF r
  <2>3. \A i \in 1..N : /\ rec'[i].written <= r[i].written + 1
                        /\ rec'[i].status = r[i].status
                        /\ i <= m => rec'[i].committed
    BY <1>1, <2>2, WriteBounds
  <2> QED
    BY <2>1, <2>3
<1>5. \A i \in 1..N : rec'[i].status \in Status
  BY <1>1, <1>4
<1>6. AtMost(writes + 1)'
  <2>1. rec' \in Recorders
    BY <1>1, ErrorFacts
  <2>2. \A i \in 1..N : rec'[i].written \in Nat
    BY <2>1 DEF Recorders
  <2> QED
    BY <1>1, <1>4, <2>2 DEF AtMost
<1>7. \A i \in 1..at' : i \in 1..N /\ rec'[i].committed
  BY <1>1, <1>4
<1>8. head' \in (Status \ Informational) \cup {None}
  <2>1. HeadAfterWriteHeader(m, code) \in (Status \ Informational) \cup {None}
    BY <1>1 DEF HeadAfterWriteHeader, Bounded
  <2>2. 200 \in Status \ Informational
    BY StatusFacts DEF Status
  <2> QED
    BY <2>1, <2>2 DEF WriteError, OrOK, Bounded
<1>9. Status' = Status /\ Record' = Record
  BY DEF Status, Record
<1> QED
  BY <1>1, <1>5, <1>6, <1>7, <1>8, <1>9 DEF Bounded, OneErrorAtMost

(* Without a call on the writer, the path only gets shorter where it can    *)
(* matter.                                                                  *)
LEMMA SilenceBounds ==
    ASSUME Typed, Bounded, Over => Over', at' \in 0..at \/ ~Over,
           UNCHANGED <<chain, rec, writes>>, head' \in {head, OrOK(head)},
           counted' \in {counted} \cup Status, logged' \in {logged} \cup Record
    PROVE  Bounded'
<1>1. N' = N /\ Status' = Status /\ Record' = Record /\ at \in 0..N
  BY DEF N, Status, Record, Typed
<1>2. OneErrorAtMost'
  <2>1. AtMost(writes + 1)' /\ (AtMost(writes)' <=> AtMost(writes))
    BY <1>1 DEF AtMost, Bounded, OneErrorAtMost
  <2>2. ~Over' => AtMost(writes)
    BY DEF Bounded, OneErrorAtMost
  <2>3. CASE ~Over
    BY <2>1, <2>2, <2>3 DEF Bounded, OneErrorAtMost
  <2>4. CASE at' \in 0..at
    <3>1. \A i \in 1..at' : i \in 1..at
      BY <1>1, <2>4
    <3> QED
      BY <2>1, <2>2, <3>1 DEF Bounded, OneErrorAtMost
  <2> QED
    BY <2>3, <2>4
<1>3. head' \in (Status \ Informational) \cup {None}
  BY StatusFacts DEF OrOK, Bounded, Status
<1> QED
  BY <1>1, <1>2, <1>3 DEF Bounded

LEMMA HandlerCallBounds ==
    ASSUME Typed, Bounded,
           Write \/ \E code \in Codes \cup Informational : WriteHeader(code)
    PROVE  Bounded'
<1>1. /\ N' = N /\ N \in Nat /\ N \in 0..N /\ writes \in Nat /\ ~Over /\ ~Over'
      /\ rec \in Recorders /\ AtMost(writes) /\ UNCHANGED <<counted, logged>>
      /\ Status' = Status /\ Record' = Record
  BY ChainFacts DEF N, Typed, Bounded, OneErrorAtMost, Over, Write, WriteHeader, Recorders,
                    Status, Record, observerVars
<1>2. CASE Write
  <2>1. rec' = RecorderWrite(N, rec) /\ writes' = writes + 1 /\ head' = OrOK(head)
    BY <1>2 DEF Write
  <2>2. \A i \in 1..N : /\ rec'[i].written <= rec[i].written + 1
                        /\ rec'[i].status = rec[i].status
    BY <1>1, <2>1, WriteBounds
  <2>3. rec' \in Recorders
    BY <1>1, <2>1, WriteFacts
  <2>4. \A i \in 1..N : rec'[i].written \in Nat /\ rec[i].written \in Nat
    BY <1>1, <2>3 DEF Recorders
  <2>5. AtMost(writes)' /\ AtMost(writes + 1)'
    BY <1>1, <2>1, <2>2, <2>4 DEF AtMost
  <2>6. head' \in (Status \ Informational) \cup {None}
    BY <2>1, StatusFacts DEF OrOK, Bounded, Status
  <2>7. writes' <= MaxWrites
    BY <1>1, <1>2, <2>1, StackAssumption DEF Write
  <2> QED
    BY <1>1, <2>2, <2>5, <2>6, <2>7 DEF Bounded, OneErrorAtMost
<1>3. ASSUME NEW code \in Codes \cup Informational, WriteHeader(code)
      PROVE  Bounded'
  <2>1. /\ rec' = RecorderWriteHeader(N, code) /\ writes' = writes
        /\ head' = HeadAfterWriteHeader(N, code) /\ code \in Nat /\ code \in Status
    BY <1>3, StatusFacts DEF WriteHeader, Status
  <2>2. \A i \in 1..N : /\ rec'[i].written = rec[i].written
                        /\ rec'[i].status \in {rec[i].status, code}
    BY <1>1, <2>1, WriteHeaderBounds
  <2>3. AtMost(writes)' /\ AtMost(writes + 1)'
    <3>1. \A i \in 1..N : rec[i].written \in Nat
      BY <1>1 DEF Recorders
    <3> QED
      BY <1>1, <2>1, <2>2, <3>1 DEF AtMost
  <2>4. head' \in (Status \ Informational) \cup {None}
    BY <2>1 DEF HeadAfterWriteHeader, Bounded
  <2> QED
    BY <1>1, <2>1, <2>2, <2>3, <2>4 DEF Bounded, OneErrorAtMost
<1> QED
  BY <1>2, <1>3

LEMMA BoundedStep ==
    ASSUME Typed, Bounded, [Next]_vars
    PROVE  Bounded'
<1> USE DEF observerVars, clientVars, handlerVars
<1>1. at \in 0..N /\ N \in Nat
  BY ChainFacts DEF Typed
<1>2. CASE EnterLimit
  BY <1>1, <1>2, ErrorBounds DEF EnterLimit, Over, Bounded, OneErrorAtMost
<1>3. CASE Enter \/ EnterHandler \/ Flush \/ Hijack \/ ReadBody
           \/ HandlerReturns \/ HandlerPanics
  <2>1. ~Over /\ UNCHANGED <<chain, rec, writes, counted, logged>>
    BY <1>3 DEF Enter, EnterHandler, Flush, Hijack, ReadBody, HandlerReturns,
                HandlerPanics, Over
  <2>2. head' \in {head, OrOK(head)}
    BY <1>3 DEF Enter, EnterHandler, Flush, Hijack, ReadBody, HandlerReturns,
                HandlerPanics
  <2> QED
    BY <2>1, <2>2, SilenceBounds
<1>4. CASE Write \/ \E code \in Codes \cup Informational : WriteHeader(code)
  BY <1>4, HandlerCallBounds
<1>5. ASSUME NEW layer, Leave(layer)
      PROVE  /\ at \in 1..N /\ at' \in 0..at /\ at' = at - 1 /\ UNCHANGED <<chain, writes>>
             /\ mode \in {"returning", "panicking"}
  BY <1>1, <1>5 DEF Leave
<1>6. CASE LeaveLog
  <2>1. [status |-> rec[at].status, written |-> rec[at].written] \in Record
    <3>1. /\ rec[at].status \in Status /\ rec[at].written \in Nat
          /\ rec[at].written <= writes + 1 /\ writes <= MaxWrites /\ writes \in Nat
      BY <1>5, <1>6 DEF LeaveLog, Typed, Bounded, OneErrorAtMost, AtMost
    <3>2. rec[at].written \in 0..(MaxWrites + 1)
      BY <3>1, StackAssumption
    <3> QED
      BY <3>1, <3>2 DEF Record
  <2> QED
    BY <1>5, <1>6, <2>1, SilenceBounds DEF LeaveLog, Over
<1>7. CASE LeaveMetrics
  <2>1. rec[at].status \in Status
    BY <1>5, <1>7 DEF LeaveMetrics, Bounded
  <2> QED
    BY <1>5, <1>7, <2>1, SilenceBounds DEF LeaveMetrics, Over
<1>8. CASE LeaveLimit
  <2>1. CASE mode = "returning" /\ AnswersTooLarge
    <3>1. AtMost(writes)
      BY <1>5, <1>8, <2>1 DEF LeaveLimit, AnswersTooLarge, Bounded, OneErrorAtMost
    <3>2. at \in 0..at /\ Over' /\ WriteError(at, 413)
      BY <1>5, <1>8, <2>1 DEF LeaveLimit, Over
    <3> QED
      BY <1>5, <1>8, <3>1, <3>2, ErrorBounds DEF LeaveLimit
  <2>2. CASE ~(mode = "returning" /\ AnswersTooLarge)
    BY <1>5, <1>8, <2>2, SilenceBounds DEF LeaveLimit, Over
  <2> QED
    BY <2>1, <2>2
<1>9. CASE LeaveRecover
  <2>1. CASE mode = "panicking" /\ Answers500
    <3>1. AtMost(writes)
      BY <2>1 DEF Over, Bounded, OneErrorAtMost
    <3>2. at - 1 \in 0..at /\ at' \in 0..(at - 1) /\ Over' /\ WriteError(at - 1, 500)
      BY <1>5, <1>9, <2>1 DEF LeaveRecover, AfterRecover, Over
    <3> QED
      BY <1>5, <1>9, <3>1, <3>2, ErrorBounds DEF LeaveRecover
  <2>2. CASE ~(mode = "panicking" /\ Answers500)
    BY <1>5, <1>9, <2>2, SilenceBounds DEF LeaveRecover, AfterRecover, Over
  <2> QED
    BY <2>1, <2>2
<1>10. CASE Finish \/ UNCHANGED vars
  <2>1. /\ Over => Over'
        /\ at' \in 0..at /\ UNCHANGED <<chain, rec, writes, counted, logged>>
        /\ head' \in {head, OrOK(head)}
    <3>1. CASE Finish
      BY <1>1, <3>1 DEF Finish, Over
    <3>2. CASE UNCHANGED vars
      BY <1>1, <3>2 DEF Over, vars
    <3> QED
      BY <1>10, <3>1, <3>2
  <2> QED
    BY <2>1, SilenceBounds
<1> QED
  BY <1>2, <1>3, <1>4, <1>6, <1>7, <1>8, <1>9, <1>10 DEF Next, Finished

(* The state of a request, its recorders and its observers is of its kinds, *)
(* and no recorder counts more than the handler's Writes and one error.     *)
THEOREM TypeCorrect == Spec => []TypeOK
<1>1. Init => Bounded
  <2>1. ASSUME Init PROVE AtMost(writes)
    BY <2>1 DEF Init, AtMost
  <2> QED
    BY <2>1, StackAssumption
       DEF Init, Bounded, OneErrorAtMost, Status, AtMost
<1>2. StackInv /\ Bounded /\ [Next]_vars => Bounded'
  BY BoundedStep DEF StackInv
<1>3. StackInv /\ Bounded => TypeOK
  <2> SUFFICES ASSUME StackInv, Bounded PROVE TypeOK
    OBVIOUS
  <2>1. rec \in [1..N -> Recorder]
    <3>1. writes \in Nat /\ writes <= MaxWrites /\ MaxWrites \in Nat
      BY StackAssumption DEF StackInv, Typed, Bounded
    <3>2. ASSUME NEW i \in 1..N PROVE rec[i] \in Recorder
      <4>1. /\ rec[i] \in [status : Nat, committed : BOOLEAN, written : Nat]
            /\ rec[i].status \in Status /\ rec[i].written <= writes + 1
        BY DEF StackInv, Typed, Bounded, OneErrorAtMost, AtMost
      <4>2. rec[i].written \in 0..(MaxWrites + 1)
        BY <3>1, <4>1
      <4> QED
        BY <4>1, <4>2 DEF Recorder
    <3> QED
      BY <3>2 DEF StackInv, Typed
  <2>2. inFlight \in 0..1
    BY DEF StackInv, GaugeFollows
  <2>3. writes \in 0..MaxWrites
    BY StackAssumption DEF StackInv, Typed, Bounded
  <2> QED
    BY <2>1, <2>2, <2>3 DEF StackInv, Typed, Bounded, TypeOK
<1> QED
  BY <1>1, <1>2, <1>3, StackInvariant, PTL DEF Spec
=============================================================================
