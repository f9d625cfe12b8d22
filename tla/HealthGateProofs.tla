--------------------------- MODULE HealthGateProofs ---------------------------
(****************************************************************************)
(* That a waiting server binds last, for any list of components.  The       *)
(* argument goes over what the loop has heard: every provider of the round  *)
(* has either failed or been heard sound, and a server that was sound had   *)
(* been listening by then.                                                  *)
(****************************************************************************)
EXTENDS HealthGate, TLAPS

USE DEF gateVars

(* The loop meets every component at one of its rounds' places. *)
LEMMA ComponentsInOrder ==
    \A c \in Range(Components) : \E k \in 1..Len(Components) : c = Components[k]
<1>1. DOMAIN Components = 1..Len(Components)
  BY HealthGateAssumption
<1>2. \A c \in Range(Components) : \E k \in DOMAIN Components : c = Components[k]
  BY Zenon DEF Range
<1> QED
  BY <1>1, <1>2

(* Every value of every variable stays of its type. *)
THEOREM TypeCorrect == Spec => []TypeOK
<1> USE HealthGateAssumption
<1>1. Init => TypeOK
  BY DEF Init, TypeOK, Waiting
<1>2. TypeOK /\ [Next]_vars => TypeOK'
  <2> SUFFICES ASSUME TypeOK, [Next]_vars
               PROVE  TypeOK'
    OBVIOUS
  <2> USE DEF TypeOK, Goto, Return, Waiting
  <2>1. ASSUME NEW s \in Servers, Begin(s) PROVE TypeOK'
    BY <2>1 DEF Begin
  <2>2. ASSUME NEW s \in Servers, Check(s) PROVE TypeOK'
    <3> DEFINE c == Components[next[s]]
    <3>1. c \in Range(Components) /\ next[s] + 1 \in 1..(Len(Components) + 1)
      BY <2>2 DEF Check, Range
    <3>2. next' \in [Servers -> 1..(Len(Components) + 1)]
      BY <2>2, <3>1 DEF Check
    <3>3. {lastFailures', sound'} \subseteq [Servers -> SUBSET Range(Components)]
      <4>1. CASE UNCHANGED <<lastFailures, sound>>
        BY <4>1
      <4>2. ASSUME NEW h \in BOOLEAN,
                   lastFailures' = [lastFailures EXCEPT ![s] = IF h THEN @ ELSE @ \cup {c}],
                   sound' = [sound EXCEPT ![s] = IF h THEN @ \cup {c} ELSE @ \ {c}]
            PROVE  {lastFailures', sound'} \subseteq [Servers -> SUBSET Range(Components)]
        BY <3>1, <4>2
      <4> QED
        BY <2>2, <4>1, <4>2 DEF Check, Answers
    <3> QED
      BY <2>2, <3>2, <3>3 DEF Check
  <2>3. ASSUME NEW s \in Servers, EndRound(s) \/ Verdict(s) PROVE TypeOK'
    <3>1. UNCHANGED <<gateVars, waitErr, cancelled, up, opened>>
      BY <2>3 DEF EndRound, Verdict
    <3>2. \E l \in {"verdict", "bind", "over", "pause"} : pc' = [pc EXCEPT ![s] = l]
      BY <2>3 DEF EndRound, Verdict
    <3>3. \/ err' = err
          \/ \E e \in {"nil", "canceled", "unhealthy"} : err' = [err EXCEPT ![s] = e]
      BY <2>3 DEF EndRound, Verdict
    <3>4. err' \in [Servers -> {"none", "nil", "canceled", "unhealthy", "ended"}]
      BY <3>3
    <3>5. pc' \in [Servers -> Waiting \cup {"idle", "bind", "listening", "over"}]
      BY <3>2
    <3> QED
      BY <3>1, <3>4, <3>5
  <2>4. ASSUME NEW s \in Servers, Tick(s) \/ WaitDone(s) PROVE TypeOK'
    <3>1. CASE Tick(s)
      BY <3>1 DEF Tick, FailuresAtStart
    <3>2. CASE WaitDone(s)
      BY <3>2 DEF WaitDone
    <3> QED
      BY <2>4, <3>1, <3>2
  <2>5. ASSUME NEW s \in Servers, Bind(s) \/ Close(s) PROVE TypeOK'
    <3>1. CASE Bind(s)
      BY <3>1 DEF Bind
    <3>2. CASE Close(s)
      BY <3>2 DEF Close
    <3> QED
      BY <2>5, <3>1, <3>2
  <2>6. ASSUME NEW s \in Servers, Expire(s) \/ Cancel(s) PROVE TypeOK'
    <3>1. CASE Expire(s)
      BY <3>1 DEF Expire
    <3>2. CASE Cancel(s)
      BY <3>2 DEF Cancel
    <3> QED
      BY <2>6, <3>1, <3>2
  <2>7. ASSUME NEW c \in Others, Flap(c) PROVE TypeOK'
    BY <2>7 DEF Flap, Others
  <2>8. CASE UNCHANGED vars
    BY <2>8 DEF vars
  <2> QED
    BY <2>1, <2>2, <2>3, <2>4, <2>5, <2>6, <2>7, <2>8 DEF Next, WaitStep
<1> QED
  BY <1>1, <1>2, PTL DEF Spec

(* Who was heard sound or listens has been open, ... *)
HeardWereOpen ==
    /\ \A s \in Servers : sound[s] \cap Servers \subseteq opened
    /\ \A s \in Servers : pc[s] = "listening" => s \in opened

(* ... the loop has heard from all that it has passed, ... *)
PassedAreHeard ==
    \A s \in Servers :
        /\ \A k \in 1..(next[s] - 1) :
              Components[k] \in {s} \cup lastFailures[s] \cup sound[s]
        /\ pc[s] = "verdict" => next[s] > Len(Components)

(* ... and a waiting server goes on only when all the others were open.     *)
PastTheGate ==
    \A s \in gated :
        pc[s] \in {"bind", "listening"} \/ s \in opened => Servers \subseteq opened \cup {s}

Gate == HeardWereOpen /\ PassedAreHeard /\ PastTheGate

LEMMA GateStep ==
    ASSUME TypeOK, Gate, [Next]_vars
    PROVE  Gate'
<1> USE HealthGateAssumption
    DEF TypeOK, Gate, HeardWereOpen, PassedAreHeard, PastTheGate, Goto, Waiting
<1>1. ASSUME NEW s \in Servers, Begin(s) PROVE Gate'
  BY <1>1 DEF Begin, Providers
<1>2. ASSUME NEW s \in Servers, Check(s) PROVE Gate'
  <2> DEFINE c == Components[next[s]]
  <2>1. /\ UNCHANGED <<gated, pc, opened>> /\ next' = [next EXCEPT ![s] = @ + 1]
        /\ pc[s] = "check"
    BY <1>2 DEF Check
  <2>2. CASE c = s /\ UNCHANGED <<lastFailures, sound>>
    <3>1. \A k \in 1..(next'[s] - 1) : k \in 1..(next[s] - 1) \/ k = next[s]
      BY <2>1
    <3>2. PassedAreHeard'
      BY <2>1, <2>2, <3>1
    <3> QED
      BY <2>1, <2>2, <3>2
  <2>3. ASSUME NEW h \in Answers(s, c),
               lastFailures' = [lastFailures EXCEPT ![s] = IF h THEN @ ELSE @ \cup {c}],
               sound' = [sound EXCEPT ![s] = IF h THEN @ \cup {c} ELSE @ \ {c}]
        PROVE  Gate'
    <3>1. h /\ c \in Servers => pc[c] = "listening"
      BY <2>3 DEF Answers
    <3>2. HeardWereOpen'
      BY <2>1, <2>3, <3>1
    <3>3. PassedAreHeard'
      <4>1. \A k \in 1..(next'[s] - 1) : k \in 1..(next[s] - 1) \/ k = next[s]
        BY <2>1
      <4>2. \A x \in {s} \cup lastFailures[s] \cup sound[s] \cup {c} :
              x \in {s} \cup lastFailures'[s] \cup sound'[s]
        BY <2>3
      <4>3. \A k \in 1..(next'[s] - 1) :
              Components[k] \in {s} \cup lastFailures'[s] \cup sound'[s]
        BY <4>1, <4>2
      <4>4. \A t \in Servers \ {s} :
              next'[t] = next[t] /\ lastFailures'[t] = lastFailures[t] /\ sound'[t] = sound[t]
        BY <2>1, <2>3
      <4> QED
        BY <2>1, <4>3, <4>4
    <3>4. PastTheGate'
      BY <2>1
    <3> QED
      BY <3>2, <3>3, <3>4
  <2> QED
    BY <1>2, <2>2, <2>3 DEF Check, Skipped
<1>3. ASSUME NEW s \in Servers, EndRound(s) PROVE Gate'
  BY <1>3 DEF EndRound
<1>4. ASSUME NEW s \in Servers, Verdict(s) PROVE Gate'
  <2>1. UNCHANGED <<gated, next, lastFailures, sound, opened>> /\ pc[s] = "verdict"
    BY <1>4 DEF Verdict
  <2>2. CASE AllHealthy(s)
    <3>1. \A k \in 1..Len(Components) : Components[k] \in {s} \cup sound[s]
      <4>1. next[s] > Len(Components) /\ next[s] \in 1..(Len(Components) + 1)
        BY <2>1
      <4>2. \A k \in 1..Len(Components) : k \in 1..(next[s] - 1)
        BY <4>1
      <4> QED
        BY <2>2, <4>2 DEF AllHealthy
    <3>2. \A t \in Servers : t \in {s} \cup sound[s]
      BY <3>1, ComponentsInOrder
    <3>3. Servers \subseteq opened \cup {s}
      BY <3>2
    <3>4. pc' = [pc EXCEPT ![s] = "bind"]
      BY <1>4, <2>2 DEF Verdict, Return
    <3> QED
      BY <2>1, <3>3, <3>4
  <2>3. CASE ~AllHealthy(s)
    <3>1. \E l \in {"over", "pause"} : pc' = [pc EXCEPT ![s] = l]
      BY <1>4, <2>3 DEF Verdict, Return
    <3> QED
      BY <2>1, <3>1
  <2> QED
    BY <2>2, <2>3
<1>5. ASSUME NEW s \in Servers, Tick(s) PROVE Gate'
  BY <1>5 DEF Tick
<1>6. ASSUME NEW s \in Servers, WaitDone(s) PROVE Gate'
  BY <1>6 DEF WaitDone, Return
<1>7. ASSUME NEW s \in Servers, Bind(s) PROVE Gate'
  BY <1>7 DEF Bind
<1>8. ASSUME NEW s \in Servers, Close(s) \/ Expire(s) \/ Cancel(s) PROVE Gate'
  BY <1>8 DEF Close, Expire, Cancel
<1>9. ASSUME NEW c \in Others, Flap(c) PROVE Gate'
  BY <1>9 DEF Flap
<1>10. CASE UNCHANGED vars
  BY <1>10 DEF vars
<1> HIDE DEF TypeOK, Gate
<1> QED
  BY <1>1, <1>2, <1>3, <1>4, <1>5, <1>6, <1>7, <1>8, <1>9, <1>10
     DEF Next, WaitStep

(* A server that waits opens only after all the others have: server.go:490. *)
THEOREM WaitingServersOpenLast == Spec => []GatedOpensLast
<1>1. Init => Gate
  BY DEF Init, Gate, HeardWereOpen, PassedAreHeard, PastTheGate
<1>2. TypeOK /\ Gate /\ [Next]_vars => Gate'
  BY GateStep
<1>3. Gate => GatedOpensLast
  BY DEF Gate, PastTheGate, GatedOpensLast
<1> QED
  BY <1>1, <1>2, <1>3, TypeCorrect, PTL DEF Spec

(* What the loop has written down is of this round: failures only of places *)
(* it has passed, no provider on both sides, and after the wait a whole     *)
(* round, with a failure if it ended badly.                                 *)
RoundIsKept ==
    \A s \in Servers :
        /\ lastFailures[s] \cup sound[s] \subseteq Providers(s)
        /\ lastFailures[s] \cap sound[s] = {}
        /\ \A k \in 1..Len(Components) : Components[k] \in lastFailures[s] => k < next[s]
        /\ err[s] # "none" => pc[s] \notin Waiting \cup {"idle"}
        /\ err[s] \in {"nil", "unhealthy"} => next[s] > Len(Components)
        /\ err[s] = "nil" => lastFailures[s] = {}
        /\ err[s] = "unhealthy" => lastFailures[s] # {}

LEMMA RoundStep ==
    ASSUME TypeOK, PassedAreHeard, RoundIsKept, [Next]_vars
    PROVE  RoundIsKept'
<1> USE HealthGateAssumption DEF TypeOK, RoundIsKept, Goto, Waiting
<1>1. ASSUME NEW s \in Servers, Begin(s) PROVE RoundIsKept'
  <2>1. pc[s] = "idle" /\ UNCHANGED <<next, lastFailures, sound, err>>
    BY <1>1 DEF Begin
  <2>2. \A t \in Servers : t # s => pc'[t] = pc[t]
    BY <1>1 DEF Begin
  <2> QED
    BY <2>1, <2>2 DEF Providers
<1>2. ASSUME NEW s \in Servers, Check(s) PROVE RoundIsKept'
  <2> DEFINE c == Components[next[s]]
  <2>1. /\ UNCHANGED <<pc, err>> /\ next' = [next EXCEPT ![s] = @ + 1]
        /\ pc[s] = "check" /\ err[s] = "none" /\ next[s] \in 1..Len(Components)
    BY <1>2 DEF Check
  <2>2. CASE UNCHANGED <<lastFailures, sound>>
    BY <2>1, <2>2 DEF Providers
  <2>3. ASSUME c # s, NEW h \in Answers(s, c),
               lastFailures' = [lastFailures EXCEPT ![s] = IF h THEN @ ELSE @ \cup {c}],
               sound' = [sound EXCEPT ![s] = IF h THEN @ \cup {c} ELSE @ \ {c}]
        PROVE  RoundIsKept'
    <3>1. c \in Providers(s) /\ c \notin lastFailures[s]
      BY <2>1, <2>3 DEF Providers, Range
    <3>2. \A k \in 1..Len(Components) : Components[k] = c => k = next[s]
      BY <2>1 DEF IsInjective
    <3>3. /\ lastFailures'[s] \cup sound'[s] \subseteq Providers(s)
          /\ lastFailures'[s] \cap sound'[s] = {}
          /\ lastFailures'[s] \subseteq lastFailures[s] \cup {c}
      BY <2>3, <3>1
    <3>4. \A k \in 1..Len(Components) : Components[k] \in lastFailures'[s] => k < next'[s]
      BY <2>1, <3>2, <3>3
    <3>5. \A t \in Servers \ {s} :
            next'[t] = next[t] /\ lastFailures'[t] = lastFailures[t] /\ sound'[t] = sound[t]
      BY <2>1, <2>3
    <3> QED
      BY <2>1, <3>3, <3>4, <3>5 DEF Providers
  <2> QED
    BY <1>2, <2>2, <2>3 DEF Check, Skipped
<1>3. ASSUME NEW s \in Servers, EndRound(s) PROVE RoundIsKept'
  BY <1>3 DEF EndRound, Providers
<1>4. ASSUME NEW s \in Servers, Verdict(s) PROVE RoundIsKept'
  <2>1. /\ UNCHANGED <<next, lastFailures, sound>> /\ pc[s] = "verdict"
        /\ next[s] > Len(Components)
    BY <1>4 DEF Verdict, PassedAreHeard
  <2>2. /\ \E l \in {"bind", "over", "pause"} : pc' = [pc EXCEPT ![s] = l]
        /\ \A t \in Servers : t # s => err'[t] = err[t]
    BY <1>4 DEF Verdict, Return
  <2>3. \/ err'[s] = "nil" /\ lastFailures[s] = {} /\ pc'[s] = "bind"
        \/ err'[s] \in {"canceled", "unhealthy"} /\ lastFailures[s] # {} /\ pc'[s] = "over"
        \/ err'[s] = err[s] /\ pc'[s] = "pause" /\ err[s] = "none"
    BY <1>4, <2>1 DEF Verdict, Return, AllHealthy
  <2> QED
    BY <2>1, <2>2, <2>3 DEF Providers
<1>5. ASSUME NEW s \in Servers, Tick(s) PROVE RoundIsKept'
  BY <1>5 DEF Tick, FailuresAtStart, Providers
<1>6. ASSUME NEW s \in Servers, WaitDone(s) PROVE RoundIsKept'
  BY <1>6 DEF WaitDone, Return, Providers
<1>7. ASSUME NEW s \in Servers, Bind(s) \/ Close(s) PROVE RoundIsKept'
  BY <1>7 DEF Bind, Close, Providers
<1>8. ASSUME NEW s \in Servers, Expire(s) \/ Cancel(s) PROVE RoundIsKept'
  BY <1>8 DEF Expire, Cancel, Providers
<1>9. ASSUME NEW c \in Others, Flap(c) PROVE RoundIsKept'
  BY <1>9 DEF Flap, Providers
<1>10. CASE UNCHANGED vars
  BY <1>10 DEF vars, Providers
<1> HIDE DEF TypeOK, RoundIsKept
<1> QED
  BY <1>1, <1>2, <1>3, <1>4, <1>5, <1>6, <1>7, <1>8, <1>9, <1>10
     DEF Next, WaitStep

(* What the wait returns is what a whole round of answers says:             *)
(* server.go:519-540.                                                       *)
THEOREM VerdictsFitTheirRound == Spec => []VerdictFitsRound
<1> USE HealthGateAssumption
<1>1. Init => Gate /\ RoundIsKept
  BY DEF Init, Gate, HeardWereOpen, PassedAreHeard, PastTheGate, RoundIsKept
<1>2. TypeOK /\ Gate /\ RoundIsKept /\ [Next]_vars => Gate' /\ RoundIsKept'
  BY GateStep, RoundStep DEF Gate
<1>3. TypeOK /\ Gate /\ RoundIsKept => VerdictFitsRound
  <2> SUFFICES ASSUME TypeOK, Gate, RoundIsKept
               PROVE  VerdictFitsRound
    OBVIOUS
  <2>1. ASSUME NEW s \in Servers
        PROVE  /\ lastFailures[s] \cup sound[s] \subseteq Providers(s)
               /\ lastFailures[s] \cap sound[s] = {}
               /\ err[s] = "nil" => lastFailures[s] = {}
               /\ err[s] = "unhealthy" => lastFailures[s] # {}
    BY DEF RoundIsKept
  <2>2. ASSUME NEW s \in Servers, err[s] \in {"nil", "unhealthy"}
        PROVE  Providers(s) \subseteq lastFailures[s] \cup sound[s]
    <3>1. \A k \in 1..Len(Components) : k \in 1..(next[s] - 1)
      BY <2>2 DEF TypeOK, RoundIsKept
    <3> QED
      BY <3>1, ComponentsInOrder DEF Gate, PassedAreHeard, Providers
  <2>3. gated \subseteq Servers
    BY DEF TypeOK
  <2> QED
    BY <2>1, <2>2, <2>3 DEF VerdictFitsRound
<1> QED
  BY <1>1, <1>2, <1>3, TypeCorrect, PTL DEF Spec
=============================================================================
