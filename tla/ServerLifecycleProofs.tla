------------------------ MODULE ServerLifecycleProofs ------------------------
(****************************************************************************)
(* Theorems about ServerLifecycle, for every set of calls and addresses:    *)
(* its invariants first, and in the second half that it implements          *)
(* ServingPromise.                                                          *)
(****************************************************************************)
EXTENDS ServerRefinement, TLAPS

(* The groups of variables that actions leave unchanged. *)
USE DEF compVars, settingVars, guardVars, counterVars, serveVars, runVars,
        reloadVars

(* Every value of every variable is of its type after any steps of any of   *)
(* the server's goroutines.                                                 *)
THEOREM TypeCorrect == Spec => []TypeOK
<1> USE LifecycleAssumption
<1>1. Init => TypeOK
  <2> SUFFICES ASSUME Init PROVE TypeOK
    OBVIOUS
  <2>1. binds \subseteq Addrs
    BY DEF Init, ServerConfig
  <2>2. serve \in [Runs -> [Addrs -> ServeStates]]
    BY DEF Init, ServeStates
  <2>3. /\ {initialized, fwSet, logsSub, handler} \subseteq BOOLEAN
        /\ {restartRequired, restartRequested, running, listening} \subseteq BOOLEAN
    BY DEF Init
  <2>4. policy \in Policies /\ metricsEnabled \in Switch
    BY DEF Init, Policies, Switch
  <2> QED
    BY <2>1, <2>2, <2>3, <2>4 DEF Init, TypeOK, PcLabels, Outcomes
<1>2. TypeOK /\ [Next]_vars => TypeOK'
  <2> SUFFICES ASSUME TypeOK, [Next]_vars
               PROVE  TypeOK'
    OBVIOUS
  <2> USE DEF TypeOK, PcLabels, Outcomes, ServeStates, Goto, Return, ServeTo
  <2>1. CASE InitServer
    BY <2>1 DEF InitServer, Applied, Policies, Switch, ServerConfig
  <2>2. CASE SetHandler
    BY <2>2 DEF SetHandler
  <2>3. CASE Shutdown
    BY <2>3 DEF Shutdown
  <2>4. ASSUME NEW i \in Runs, CancelCaller(i) PROVE TypeOK'
    BY <2>4 DEF CancelCaller
  <2>5. ASSUME NEW i \in Runs, RunRefused(i) PROVE TypeOK'
    BY <2>5 DEF RunRefused
  <2>6. ASSUME NEW i \in Runs, RunEnter(i) PROVE TypeOK'
    BY <2>6 DEF RunEnter, ResetRequested
  <2>7. ASSUME NEW i \in Runs, RunStep(i) PROVE TypeOK'
    <3>1. CASE RunEntered(i)
      BY <3>1 DEF RunEntered
    <3>2. CASE RunFwCheck(i)
      BY <3>2 DEF RunFwCheck
    <3>3. CASE RunFwList(i)
      BY <3>3 DEF RunFwList
    <3>4. CASE RunWaiting(i)
      BY <3>4 DEF RunWaiting
    <3>5. CASE ListenOpen(i)
      BY <3>5 DEF ListenOpen
    <3>6. CASE ListenFail(i)
      BY <3>6 DEF ListenFail, ListenersAfterFailure
    <3>7. CASE ListenDone(i)
      BY <3>7 DEF ListenDone
    <3>8. CASE RunBound(i)
      BY <3>8 DEF RunBound, BoundAddrs
    <3>9. CASE RunAnnounce(i)
      BY <3>9 DEF RunAnnounce
    <3>10. CASE SelectServeEnded(i)
      BY <3>10 DEF SelectServeEnded
    <3>11. CASE SelectCancelled(i)
      BY <3>11 DEF SelectCancelled, ListeningInDrain
    <3>12. CASE StopServing(i)
      BY <3>12 DEF StopServing, NotYetServed
    <3>13. CASE RunDraining(i)
      BY <3>13 DEF RunDraining
    <3>14. CASE CollectOne(i)
      BY <3>14 DEF CollectOne
    <3>15. CASE CollectedFailed(i)
      BY <3>15 DEF CollectedFailed, ServeOutcome
    <3>16. CASE CollectedDrained(i)
      BY <3>16 DEF CollectedDrained, ServeOutcome
    <3>17. CASE RunCleanup(i)
      BY <3>17 DEF RunCleanup
    <3>18. CASE RunUnlock(i)
      BY <3>18 DEF RunUnlock
    <3> QED
      BY <2>7, <3>1, <3>2, <3>3, <3>4, <3>5, <3>6, <3>7, <3>8, <3>9, <3>10,
         <3>11, <3>12, <3>13, <3>14, <3>15, <3>16, <3>17, <3>18 DEF RunStep
  <2>8. ASSUME NEW i \in Runs, NEW a \in Addrs, ServeBegin(i, a) PROVE TypeOK'
    <3>1. serve' \in [Runs -> [Addrs -> ServeStates]]
      <4>1. PICK s \in {"accepting", "sent"} : ServeTo(i, a, s)
        BY <2>8, Zenon DEF ServeBegin
      <4> QED
        BY <4>1
    <3>2. lns' \in [Runs -> SUBSET Addrs]
      BY <2>8 DEF ServeBegin
    <3> QED
      BY <2>8, <3>1, <3>2 DEF ServeBegin
  <2>9. ASSUME NEW i \in Runs, NEW a \in Addrs, ServeClosed(i, a) PROVE TypeOK'
    BY <2>9 DEF ServeClosed
  <2>10. ASSUME NEW i \in Runs, NEW a \in Addrs, ServeFails(i, a) PROVE TypeOK'
    BY <2>10 DEF ServeFails
  <2>11. ASSUME NEW q \in Reloads, ReloadCancel(q) PROVE TypeOK'
    BY <2>11 DEF ReloadCancel, ReloadTarget
  <2>12. ASSUME NEW q \in Reloads, ReloadCount(q) PROVE TypeOK'
    BY <2>12 DEF ReloadCount
  <2>13. ASSUME NEW q \in Reloads, NEW c \in Configs, ReloadLocked(q, c)
         PROVE TypeOK'
    <3>1. c \in ServerConfig
      OBVIOUS
    <3>2. policy' \in Policies /\ metricsEnabled' \in Switch
      BY <2>13, <3>1 DEF ReloadLocked, Applied, ServerConfig
    <3>3. restartRequired' \in BOOLEAN /\ restartRequested' \in BOOLEAN
      BY <2>13 DEF ReloadLocked
    <3>4. /\ captured' \in [Reloads -> Runs \cup {None}]
          /\ rpc' \in [Reloads -> {"idle", "cancel", "count", "done"}]
      <4>1. captured' \in {captured, [captured EXCEPT ![q] = runCancel]}
        BY <2>13 DEF ReloadLocked
      <4>2. \E l \in {"cancel", "count", "done"} : rpc' = [rpc EXCEPT ![q] = l]
        BY <2>13 DEF ReloadLocked
      <4>3. captured' \in [Reloads -> Runs \cup {None}]
        BY <4>1
      <4>4. rpc' \in [Reloads -> {"idle", "cancel", "count", "done"}]
        BY <4>2
      <4> QED
        BY <4>3, <4>4
    <3> QED
      BY <2>13, <3>2, <3>3, <3>4 DEF ReloadLocked
  <2>14. CASE UNCHANGED vars
    BY <2>14 DEF vars
  <2> QED
    BY <2>1, <2>2, <2>3, <2>4, <2>5, <2>6, <2>7, <2>8, <2>9, <2>10, <2>11,
       <2>12, <2>13, <2>14 DEF Next
<1> QED
  BY <1>1, <1>2, PTL DEF Spec

-----------------------------------------------------------------------------
(* Mutual exclusion of Run.                                                 *)

(* Only RunEnter and RunUnlock touch c.running and c.runCancel, and only    *)
(* they take a call of Run into its body or out of it.                      *)
LEMMA GuardSteps ==
  ASSUME TypeOK, [Next]_vars
  PROVE  \/ \E i \in Runs : RunEnter(i)
         \/ \E i \in Runs : RunUnlock(i)
         \/ /\ UNCHANGED <<running, runCancel>>
            /\ \A j \in Runs : InBody(j)' <=> InBody(j)
<1> DEFINE Quiet == /\ UNCHANGED <<running, runCancel>>
                   /\ \A j \in Runs : InBody(j)' <=> InBody(j)
<1> USE DEF TypeOK, Goto, Return, InBody
<1>1. CASE InitServer
  BY <1>1 DEF InitServer
<1>2. CASE SetHandler
  BY <1>2 DEF SetHandler
<1>3. CASE Shutdown
  BY <1>3 DEF Shutdown
<1>4. ASSUME NEW i \in Runs, CancelCaller(i) PROVE Quiet
  BY <1>4 DEF CancelCaller
<1>5. ASSUME NEW i \in Runs, RunRefused(i) PROVE Quiet
  BY <1>5 DEF RunRefused
<1>6. ASSUME NEW i \in Runs, RunStep(i), ~RunUnlock(i) PROVE Quiet
  <2>1. CASE RunEntered(i)
    BY <2>1 DEF RunEntered
  <2>2. CASE RunFwCheck(i)
    BY <2>2 DEF RunFwCheck
  <2>3. CASE RunFwList(i)
    BY <2>3 DEF RunFwList
  <2>4. CASE RunWaiting(i)
    BY <2>4 DEF RunWaiting
  <2>5. CASE ListenOpen(i)
    BY <2>5 DEF ListenOpen
  <2>6. CASE ListenFail(i)
    BY <2>6 DEF ListenFail
  <2>7. CASE ListenDone(i)
    BY <2>7 DEF ListenDone
  <2>8. CASE RunBound(i)
    BY <2>8 DEF RunBound
  <2>9. CASE RunAnnounce(i)
    BY <2>9 DEF RunAnnounce
  <2>10. CASE SelectServeEnded(i)
    BY <2>10 DEF SelectServeEnded
  <2>11. CASE SelectCancelled(i)
    BY <2>11 DEF SelectCancelled
  <2>12. CASE StopServing(i)
    BY <2>12 DEF StopServing
  <2>13. CASE RunDraining(i)
    BY <2>13 DEF RunDraining
  <2>14. CASE CollectOne(i)
    BY <2>14 DEF CollectOne
  <2>15. CASE CollectedFailed(i)
    BY <2>15 DEF CollectedFailed
  <2>16. CASE CollectedDrained(i)
    BY <2>16 DEF CollectedDrained
  <2>17. CASE RunCleanup(i)
    BY <2>17 DEF RunCleanup
  <2> QED
    BY <1>6, <2>1, <2>2, <2>3, <2>4, <2>5, <2>6, <2>7, <2>8, <2>9, <2>10,
       <2>11, <2>12, <2>13, <2>14, <2>15, <2>16, <2>17 DEF RunStep
<1>7. ASSUME NEW i \in Runs, NEW a \in Addrs,
             ServeBegin(i, a) \/ ServeClosed(i, a) \/ ServeFails(i, a)
      PROVE  Quiet
  BY <1>7 DEF ServeBegin, ServeClosed, ServeFails
<1>8. ASSUME NEW q \in Reloads, ReloadCancel(q) \/ ReloadCount(q) PROVE Quiet
  BY <1>8 DEF ReloadCancel, ReloadCount
<1>9. ASSUME NEW q \in Reloads, NEW c \in Configs, ReloadLocked(q, c) PROVE Quiet
  BY <1>9 DEF ReloadLocked
<1>10. CASE UNCHANGED vars
  BY <1>10 DEF vars
<1> HIDE DEF InBody, TypeOK, Goto, Return
<1> QED
  BY <1>1, <1>2, <1>3, <1>4, <1>5, <1>6, <1>7, <1>8, <1>9, <1>10 DEF Next

Published == CancelIsPublished /\ CancelOfABody

LEMMA PublishedStep ==
  ASSUME TypeOK, Published, [Next]_vars
  PROVE  Published'
<1> USE LifecycleAssumption DEF Published, CancelIsPublished, CancelOfABody
<1>1. CASE \E i \in Runs : RunEnter(i)
  BY <1>1 DEF TypeOK, RunEnter, RunGuard, Goto, InBody
<1>2. CASE \E i \in Runs : RunUnlock(i)
  BY <1>2 DEF TypeOK, RunUnlock, Goto, InBody
<1>3. CASE /\ UNCHANGED <<running, runCancel>>
           /\ \A j \in Runs : InBody(j)' <=> InBody(j)
  BY <1>3
<1> QED
  BY <1>1, <1>2, <1>3, GuardSteps

(* The cancel func that an immediate reload finds in c.runCancel is the one *)
(* of the Run in progress, from its admission to its last critical section. *)
THEOREM RunCancelIsPublished == Spec => []CancelIsPublished
<1>1. Init => Published
  BY DEF Init, Published, CancelIsPublished, CancelOfABody, InBody
<1>2. TypeOK /\ Published /\ [Next]_vars => Published'
  BY PublishedStep
<1>3. Published => CancelIsPublished
  BY DEF Published
<1> QED
  BY <1>1, <1>2, <1>3, TypeCorrect, PTL DEF Spec

(* At most one call of Run is past the "Run already active" guard, however  *)
(* many goroutines call it.                                                 *)
THEOREM RunIsExclusive == Spec => []OneRunAtATime
<1>1. CancelIsPublished => OneRunAtATime
  BY DEF CancelIsPublished, OneRunAtATime
<1> QED
  BY <1>1, RunCancelIsPublished, PTL
-----------------------------------------------------------------------------
(* No way out of Run leaks a listener or a Serve goroutine.                 *)

(* A step of Run i itself or of one of its Serve goroutines. *)
StepOf(i) ==
    \/ RunRefused(i) \/ RunEnter(i) \/ RunStep(i)
    \/ \E a \in Addrs : ServeBegin(i, a) \/ ServeClosed(i, a) \/ ServeFails(i, a)

SameRun(i) ==
    /\ pc'[i] = pc[i] /\ snap'[i] = snap[i]
    /\ lns'[i] = lns[i] /\ shutting'[i] = shutting[i]
    /\ serve'[i] = serve[i]

(* Such a step leaves what belongs to every other call of Run alone.        *)
LEMMA OwnStepFrame ==
  ASSUME TypeOK, NEW i \in Runs, StepOf(i), NEW j \in Runs, j # i
  PROVE  SameRun(j)
<1> USE DEF TypeOK, SameRun, Goto, Return, ServeTo
<1>1. CASE RunRefused(i)
  BY <1>1 DEF RunRefused
<1>2. CASE RunEnter(i)
  BY <1>2 DEF RunEnter
<1>3. CASE RunStep(i)
  <2>1. CASE RunEntered(i)
    BY <2>1 DEF RunEntered
  <2>2. CASE RunFwCheck(i)
    BY <2>2 DEF RunFwCheck
  <2>3. CASE RunFwList(i)
    BY <2>3 DEF RunFwList
  <2>4. CASE RunWaiting(i)
    BY <2>4 DEF RunWaiting
  <2>5. CASE ListenOpen(i)
    BY <2>5 DEF ListenOpen
  <2>6. CASE ListenFail(i)
    BY <2>6 DEF ListenFail
  <2>7. CASE ListenDone(i)
    BY <2>7 DEF ListenDone
  <2>8. CASE RunBound(i)
    BY <2>8 DEF RunBound
  <2>9. CASE RunAnnounce(i)
    BY <2>9 DEF RunAnnounce
  <2>10. CASE SelectServeEnded(i)
    BY <2>10 DEF SelectServeEnded
  <2>11. CASE SelectCancelled(i)
    BY <2>11 DEF SelectCancelled
  <2>12. CASE StopServing(i)
    BY <2>12 DEF StopServing
  <2>13. CASE RunDraining(i)
    BY <2>13 DEF RunDraining
  <2>14. CASE CollectOne(i)
    BY <2>14 DEF CollectOne
  <2>15. CASE CollectedFailed(i)
    BY <2>15 DEF CollectedFailed
  <2>16. CASE CollectedDrained(i)
    BY <2>16 DEF CollectedDrained
  <2>17. CASE RunCleanup(i)
    BY <2>17 DEF RunCleanup
  <2>18. CASE RunUnlock(i)
    BY <2>18 DEF RunUnlock
  <2> QED
    BY <1>3, <2>1, <2>2, <2>3, <2>4, <2>5, <2>6, <2>7, <2>8, <2>9, <2>10,
       <2>11, <2>12, <2>13, <2>14, <2>15, <2>16, <2>17, <2>18 DEF RunStep
<1>4. ASSUME NEW a \in Addrs,
             ServeBegin(i, a) \/ ServeClosed(i, a) \/ ServeFails(i, a)
      PROVE  SameRun(j)
  BY <1>4 DEF ServeBegin, ServeClosed, ServeFails
<1> HIDE DEF TypeOK, SameRun
<1> QED
  BY <1>1, <1>2, <1>3, <1>4 DEF StepOf

(* Every other step leaves all of that alone.                               *)
LEMMA OtherStepFrame ==
  ASSUME TypeOK, [Next]_vars, \A i \in Runs : ~StepOf(i), NEW j \in Runs
  PROVE  SameRun(j)
<1> USE DEF SameRun
<1>1. CASE InitServer
  BY <1>1 DEF InitServer
<1>2. CASE SetHandler
  BY <1>2 DEF SetHandler
<1>3. CASE Shutdown
  BY <1>3 DEF Shutdown
<1>4. ASSUME NEW i \in Runs, CancelCaller(i) PROVE SameRun(j)
  BY <1>4 DEF CancelCaller
<1>5. ASSUME NEW q \in Reloads, ReloadCancel(q) \/ ReloadCount(q)
      PROVE  SameRun(j)
  BY <1>5 DEF ReloadCancel, ReloadCount
<1>6. ASSUME NEW q \in Reloads, NEW c \in Configs, ReloadLocked(q, c)
      PROVE  SameRun(j)
  BY <1>6 DEF ReloadLocked
<1>7. CASE UNCHANGED vars
  BY <1>7 DEF vars
<1> HIDE DEF SameRun
<1> QED
  BY <1>1, <1>2, <1>3, <1>4, <1>5, <1>6, <1>7 DEF Next, StepOf

(* A Serve goroutine that moves on leaves the others where they are.        *)
LEMMA ServeToEffect ==
  ASSUME TypeOK, NEW i \in Runs, NEW a \in Addrs, NEW s \in ServeStates,
         ServeTo(i, a, s)
  PROVE  /\ serve'[i][a] = s
         /\ \A b \in Addrs \ {a} : serve'[i][b] = serve[i][b]
BY DEF TypeOK, ServeTo

(* ServeTracksListeners and NothingLeaks, of one call of Run. *)
Accounted(i) ==
    /\ lns[i] \subseteq snap[i]
    /\ pc[i] \in Starting => lns[i] = {}
    /\ pc[i] \in {"bound", "announce"} => lns[i] = snap[i]
    /\ pc[i] \in Unserved => \A a \in Addrs : serve[i][a] = "none"
    /\ pc[i] \notin Unserved \cup Ended =>
            \A a \in Addrs : serve[i][a] = "none" <=> a \notin snap[i]
    /\ \A a \in Addrs :
         \/ serve[i][a] \in {"sent", "received"}
         \/ serve[i][a] = "accepting" /\ shutting[i]
         => a \notin lns[i]
    /\ pc[i] \in Ended =>
            lns[i] = {} /\ \A a \in Addrs : serve[i][a] \in {"none", "received"}

LEMMA AccountedOwnStep ==
  ASSUME TypeOK, NEW i \in Runs, Accounted(i), StepOf(i)
  PROVE  Accounted(i)'
<1>0. ASSUME NEW a \in Addrs, NEW s \in ServeStates, ServeTo(i, a, s)
      PROVE  /\ serve'[i][a] = s
             /\ \A b \in Addrs \ {a} : serve'[i][b] = serve[i][b]
  BY <1>0, ServeToEffect
<1> USE DEF TypeOK, Accounted, Starting, Unserved, Ended, ServeStates, Goto, Return
<1>1. CASE RunRefused(i)
  BY <1>1 DEF RunRefused
<1>2. CASE RunEnter(i)
  BY <1>2 DEF RunEnter
<1>3. CASE RunStep(i)
  <2>1. CASE RunEntered(i)
    BY <2>1 DEF RunEntered
  <2>2. CASE RunFwCheck(i)
    BY <2>2 DEF RunFwCheck
  <2>3. CASE RunFwList(i)
    BY <2>3 DEF RunFwList
  <2>4. CASE RunWaiting(i)
    BY <2>4 DEF RunWaiting
  <2>5. CASE ListenOpen(i)
    BY <2>5 DEF ListenOpen
  <2>6. CASE ListenFail(i)
    BY <2>6 DEF ListenFail, ListenersAfterFailure
  <2>7. CASE ListenDone(i)
    BY <2>7 DEF ListenDone
  <2>8. CASE RunBound(i)
    BY <2>8 DEF RunBound
  <2>9. CASE RunAnnounce(i)
    BY <2>9 DEF RunAnnounce
  <2>10. CASE SelectServeEnded(i)
    <3>1. PICK a \in Addrs : serve[i][a] = "sent" /\ ServeTo(i, a, "received")
      BY <2>10 DEF SelectServeEnded
    <3>2. /\ serve'[i][a] = "received"
          /\ \A b \in Addrs \ {a} : serve'[i][b] = serve[i][b]
      BY <1>0, <3>1
    <3> QED
      BY <2>10, <3>1, <3>2 DEF SelectServeEnded
  <2>11. CASE SelectCancelled(i)
    BY <2>11 DEF SelectCancelled
  <2>12. CASE StopServing(i)
    BY <2>12 DEF StopServing, NotYetServed
  <2>13. CASE RunDraining(i)
    BY <2>13 DEF RunDraining
  <2>14. CASE CollectOne(i)
    <3>1. PICK a \in Addrs : serve[i][a] = "sent" /\ ServeTo(i, a, "received")
      BY <2>14 DEF CollectOne
    <3>2. /\ serve'[i][a] = "received"
          /\ \A b \in Addrs \ {a} : serve'[i][b] = serve[i][b]
      BY <1>0, <3>1
    <3> QED
      BY <2>14, <3>1, <3>2 DEF CollectOne
  <2>15. CASE CollectedFailed(i)
    BY <2>15 DEF CollectedFailed, Collected
  <2>16. CASE CollectedDrained(i)
    BY <2>16 DEF CollectedDrained, Collected
  <2>17. CASE RunCleanup(i)
    BY <2>17 DEF RunCleanup
  <2>18. CASE RunUnlock(i)
    BY <2>18 DEF RunUnlock
  <2> QED
    BY <1>3, <2>1, <2>2, <2>3, <2>4, <2>5, <2>6, <2>7, <2>8, <2>9, <2>10,
       <2>11, <2>12, <2>13, <2>14, <2>15, <2>16, <2>17, <2>18 DEF RunStep
<1>4. ASSUME NEW a \in Addrs, ServeBegin(i, a) PROVE Accounted(i)'
  <2>1. CASE shutting[i]
    <3>1. /\ serve'[i][a] = "sent"
          /\ \A b \in Addrs \ {a} : serve'[i][b] = serve[i][b]
      BY <1>0, <1>4, <2>1 DEF ServeBegin
    <3>2. /\ serve[i][a] = "spawned"
          /\ pc' = pc /\ snap' = snap /\ shutting' = shutting
          /\ lns'[i] = lns[i] \ {a}
      BY <1>4, <2>1 DEF ServeBegin, runVars
    <3> QED
      BY <3>1, <3>2
  <2>2. CASE ~shutting[i]
    <3>1. /\ serve'[i][a] = "accepting"
          /\ \A b \in Addrs \ {a} : serve'[i][b] = serve[i][b]
      BY <1>0, <1>4, <2>2 DEF ServeBegin
    <3> QED
      BY <1>4, <2>2, <3>1 DEF ServeBegin
  <2> QED
    BY <2>1, <2>2
<1>5. ASSUME NEW a \in Addrs, ServeClosed(i, a) PROVE Accounted(i)'
  <2>1. /\ serve'[i][a] = "sent"
        /\ \A b \in Addrs \ {a} : serve'[i][b] = serve[i][b]
    BY <1>0, <1>5 DEF ServeClosed
  <2> QED
    BY <1>5, <2>1 DEF ServeClosed
<1>6. ASSUME NEW a \in Addrs, ServeFails(i, a) PROVE Accounted(i)'
  <2>1. /\ serve'[i][a] = "sent"
        /\ \A b \in Addrs \ {a} : serve'[i][b] = serve[i][b]
    BY <1>0, <1>6 DEF ServeFails
  <2> QED
    BY <1>6, <2>1 DEF ServeFails
<1> HIDE DEF TypeOK, Accounted
<1> QED
  BY <1>1, <1>2, <1>3, <1>4, <1>5, <1>6 DEF StepOf

(* However Run returns, its listeners are closed and its Serve goroutines   *)
(* have ended before its deferred function runs.                            *)
THEOREM RunLeaksNothing == Spec => []NothingLeaks
<1> DEFINE AllAccounted == \A i \in Runs : Accounted(i)
<1>1. Init => AllAccounted
  BY DEF Init, Accounted, Starting, Unserved, Ended
<1>2. TypeOK /\ AllAccounted /\ [Next]_vars => AllAccounted'
  <2> SUFFICES ASSUME TypeOK, AllAccounted, [Next]_vars, NEW j \in Runs
               PROVE  Accounted(j)'
    OBVIOUS
  <2>1. SameRun(j) => Accounted(j)'
    BY DEF SameRun, Accounted
  <2>2. CASE StepOf(j)
    BY <2>2, AccountedOwnStep
  <2>3. CASE \E i \in Runs \ {j} : StepOf(i)
    BY <2>1, <2>3, OwnStepFrame
  <2>4. CASE \A i \in Runs : ~StepOf(i)
    BY <2>1, <2>4, OtherStepFrame
  <2> QED
    BY <2>2, <2>3, <2>4
<1>3. AllAccounted => NothingLeaks
  BY DEF Accounted, NothingLeaks, Ended
<1> QED
  BY <1>1, <1>2, <1>3, TypeCorrect, PTL DEF Spec

-----------------------------------------------------------------------------
(* Readiness.                                                               *)

LEMMA ReadyStep ==
  ASSUME TypeOK, CancelIsPublished, ReadyExactlyWhileServing, [Next]_vars
  PROVE  ReadyExactlyWhileServing'
<1>0. \A i, j \in Runs : InBody(i) /\ InBody(j) => i = j
  BY DEF CancelIsPublished
<1> USE DEF TypeOK, ReadyExactlyWhileServing, Goto, Return, InBody
<1>1. CASE InitServer
  BY <1>1 DEF InitServer
<1>2. CASE SetHandler
  BY <1>2 DEF SetHandler
<1>3. CASE Shutdown
  BY <1>3 DEF Shutdown
<1>4. ASSUME NEW i \in Runs, CancelCaller(i) PROVE ReadyExactlyWhileServing'
  BY <1>4 DEF CancelCaller
<1>5. ASSUME NEW i \in Runs, RunRefused(i) PROVE ReadyExactlyWhileServing'
  BY <1>5 DEF RunRefused
<1>6. ASSUME NEW i \in Runs, RunEnter(i) PROVE ReadyExactlyWhileServing'
  BY <1>6 DEF RunEnter
<1>7. ASSUME NEW i \in Runs, RunStep(i) PROVE ReadyExactlyWhileServing'
  <2>1. CASE RunEntered(i)
    BY <1>0, <2>1 DEF RunEntered
  <2>2. CASE RunFwCheck(i)
    BY <1>0, <2>2 DEF RunFwCheck
  <2>3. CASE RunFwList(i)
    BY <1>0, <2>3 DEF RunFwList
  <2>4. CASE RunWaiting(i)
    BY <1>0, <2>4 DEF RunWaiting
  <2>5. CASE ListenOpen(i)
    BY <1>0, <2>5 DEF ListenOpen
  <2>6. CASE ListenFail(i)
    BY <1>0, <2>6 DEF ListenFail
  <2>7. CASE ListenDone(i)
    BY <1>0, <2>7 DEF ListenDone
  <2>8. CASE RunBound(i)
    BY <1>0, <2>8 DEF RunBound
  <2>9. CASE RunAnnounce(i)
    BY <1>0, <2>9 DEF RunAnnounce
  <2>10. CASE SelectServeEnded(i)
    BY <1>0, <2>10 DEF SelectServeEnded
  <2>11. CASE SelectCancelled(i)
    BY <1>0, <2>11 DEF SelectCancelled, ListeningInDrain
  <2>12. CASE StopServing(i)
    BY <1>0, <2>12 DEF StopServing
  <2>13. CASE RunDraining(i)
    BY <1>0, <2>13 DEF RunDraining
  <2>14. CASE CollectOne(i)
    BY <1>0, <2>14 DEF CollectOne
  <2>15. CASE CollectedFailed(i)
    BY <1>0, <2>15 DEF CollectedFailed
  <2>16. CASE CollectedDrained(i)
    BY <1>0, <2>16 DEF CollectedDrained
  <2>17. CASE RunCleanup(i)
    BY <1>0, <2>17 DEF RunCleanup
  <2>18. CASE RunUnlock(i)
    BY <1>0, <2>18 DEF RunUnlock
  <2> QED
    BY <1>7, <2>1, <2>2, <2>3, <2>4, <2>5, <2>6, <2>7, <2>8, <2>9, <2>10,
       <2>11, <2>12, <2>13, <2>14, <2>15, <2>16, <2>17, <2>18 DEF RunStep
<1>8. ASSUME NEW i \in Runs, NEW a \in Addrs,
             ServeBegin(i, a) \/ ServeClosed(i, a) \/ ServeFails(i, a)
      PROVE  ReadyExactlyWhileServing'
  BY <1>8 DEF ServeBegin, ServeClosed, ServeFails
<1>9. ASSUME NEW q \in Reloads, ReloadCancel(q) \/ ReloadCount(q)
      PROVE  ReadyExactlyWhileServing'
  BY <1>9 DEF ReloadCancel, ReloadCount
<1>10. ASSUME NEW q \in Reloads, NEW c \in Configs, ReloadLocked(q, c)
       PROVE  ReadyExactlyWhileServing'
  BY <1>10 DEF ReloadLocked
<1>11. CASE UNCHANGED vars
  BY <1>11 DEF vars
<1> HIDE DEF TypeOK, ReadyExactlyWhileServing
<1> QED
  BY <1>1, <1>2, <1>3, <1>4, <1>5, <1>6, <1>7, <1>8, <1>9, <1>10, <1>11 DEF Next

(* /readyz follows the serving Run exactly: up while it serves, whatever an *)
(* earlier Run still does, down before the binds and from the drain on.     *)
THEOREM ReadinessFollowsServing == Spec => []ReadyExactlyWhileServing
<1>1. Init => ReadyExactlyWhileServing
  BY DEF Init, ReadyExactlyWhileServing
<1>2. TypeOK /\ CancelIsPublished /\ ReadyExactlyWhileServing /\ [Next]_vars
        => ReadyExactlyWhileServing'
  BY ReadyStep
<1> QED
  BY <1>1, <1>2, TypeCorrect, RunCancelIsPublished, PTL DEF Spec

-----------------------------------------------------------------------------
(* Immediate reloads and what Run answers.                                  *)

(* Besides RunEnter, ReloadLocked and CollectedDrained no step touches the  *)
(* request, the captured cancel funcs or the answer "restart".              *)
SameRequests ==
    /\ UNCHANGED <<restartRequested, captured>>
    /\ \A i \in Runs :
        /\ res'[i] = "restart" => res[i] = "restart"
        /\ InBody(i)' => InBody(i)
        /\ pc'[i] = "idle" => pc[i] = "idle"
    /\ \A q \in Reloads : rpc'[q] = "idle" => rpc[q] = "idle"

LEMMA RequestFrame ==
  ASSUME TypeOK, [Next]_vars
  PROVE  \/ \E i \in Runs : RunEnter(i) \/ CollectedDrained(i)
         \/ \E q \in Reloads, c \in Configs : ReloadLocked(q, c)
         \/ SameRequests
<1> USE DEF TypeOK, SameRequests, Goto, Return, InBody, ServeOutcome
<1>1. CASE InitServer
  BY <1>1 DEF InitServer
<1>2. CASE SetHandler
  BY <1>2 DEF SetHandler
<1>3. CASE Shutdown
  BY <1>3 DEF Shutdown
<1>4. ASSUME NEW i \in Runs, CancelCaller(i) PROVE SameRequests
  BY <1>4 DEF CancelCaller
<1>5. ASSUME NEW i \in Runs, RunRefused(i) PROVE SameRequests
  BY <1>5 DEF RunRefused
<1>6. ASSUME NEW i \in Runs, RunStep(i), ~CollectedDrained(i) PROVE SameRequests
  <2>1. CASE RunEntered(i)
    BY <2>1 DEF RunEntered
  <2>2. CASE RunFwCheck(i)
    BY <2>2 DEF RunFwCheck
  <2>3. CASE RunFwList(i)
    BY <2>3 DEF RunFwList
  <2>4. CASE RunWaiting(i)
    BY <2>4 DEF RunWaiting
  <2>5. CASE ListenOpen(i)
    BY <2>5 DEF ListenOpen
  <2>6. CASE ListenFail(i)
    BY <2>6 DEF ListenFail
  <2>7. CASE ListenDone(i)
    BY <2>7 DEF ListenDone
  <2>8. CASE RunBound(i)
    BY <2>8 DEF RunBound
  <2>9. CASE RunAnnounce(i)
    BY <2>9 DEF RunAnnounce
  <2>10. CASE SelectServeEnded(i)
    BY <2>10 DEF SelectServeEnded
  <2>11. CASE SelectCancelled(i)
    BY <2>11 DEF SelectCancelled
  <2>12. CASE StopServing(i)
    BY <2>12 DEF StopServing
  <2>13. CASE RunDraining(i)
    BY <2>13 DEF RunDraining
  <2>14. CASE CollectOne(i)
    BY <2>14 DEF CollectOne
  <2>15. CASE CollectedFailed(i)
    BY <2>15 DEF CollectedFailed
  <2>16. CASE RunCleanup(i)
    BY <2>16 DEF RunCleanup
  <2>17. CASE RunUnlock(i)
    BY <2>17 DEF RunUnlock
  <2> QED
    BY <1>6, <2>1, <2>2, <2>3, <2>4, <2>5, <2>6, <2>7, <2>8, <2>9, <2>10,
       <2>11, <2>12, <2>13, <2>14, <2>15, <2>16, <2>17 DEF RunStep
<1>7. ASSUME NEW i \in Runs, NEW a \in Addrs,
             ServeBegin(i, a) \/ ServeClosed(i, a) \/ ServeFails(i, a)
      PROVE  SameRequests
  BY <1>7 DEF ServeBegin, ServeClosed, ServeFails
<1>8. ASSUME NEW q \in Reloads, ReloadCancel(q) \/ ReloadCount(q)
      PROVE  SameRequests
  BY <1>8 DEF ReloadCancel, ReloadCount
<1>9. CASE UNCHANGED vars
  BY <1>9 DEF vars
<1> HIDE DEF TypeOK, SameRequests
<1> QED
  BY <1>1, <1>2, <1>3, <1>4, <1>5, <1>6, <1>7, <1>8, <1>9 DEF Next

Requests == RequestSurvives /\ RequestHasReload /\ RestartOnlyWhenRequested

LEMMA RequestStep ==
  ASSUME TypeOK, Published, Requests, [Next]_vars
  PROVE  Requests'
<1> USE DEF Requests, RequestSurvives, RequestHasReload, RestartOnlyWhenRequested
<1>1. ASSUME NEW i \in Runs, RunEnter(i) PROVE Requests'
  BY <1>1 DEF TypeOK, Published, CancelIsPublished, RunEnter, RunGuard,
              ResetRequested, Goto, InBody
<1>2. ASSUME NEW i \in Runs, CollectedDrained(i) PROVE Requests'
  <2>1. /\ UNCHANGED <<restartRequested, captured, rpc>>
        /\ pc[i] = "collectDrained"
        /\ pc' = [pc EXCEPT ![i] = "cleanup"]
    BY <1>2 DEF CollectedDrained, Return, reloadVars
  <2>2. /\ res'[i] = "restart" => restartRequested
        /\ \A j \in Runs \ {i} : res'[j] = res[j]
    BY <1>2 DEF TypeOK, CollectedDrained, ServeOutcome, Return
  <2>3. /\ InBody(i)
        /\ \A j \in Runs : InBody(j)' <=> InBody(j)
        /\ \A j \in Runs : pc'[j] = "idle" <=> pc[j] = "idle"
    BY <2>1 DEF TypeOK, InBody
  <2>4. RequestSurvives'
    BY <2>1, <2>3
  <2>5. RequestHasReload'
    BY <2>1, <2>3
  <2>6. RestartOnlyWhenRequested'
    BY <2>1, <2>2, <2>3
  <2> QED
    BY <2>4, <2>5, <2>6
<1>3. ASSUME NEW q \in Reloads, NEW c \in Configs, ReloadLocked(q, c)
      PROVE  Requests'
  <2> USE DEF TypeOK, Published, CancelIsPublished, CancelOfABody, ReloadLocked,
              InBody
  <2>1. CASE UNCHANGED <<restartRequested, captured>>
    BY <1>3, <2>1
  <2>2. CASE /\ restartRequested' = TRUE
             /\ captured' = [captured EXCEPT ![q] = runCancel]
             /\ rpc[q] = "idle"
    <3>1. /\ captured[q] = None
          /\ captured'[q] = runCancel
          /\ \A z \in Reloads \ {q} : captured'[z] = captured[z]
      BY <2>2
    <3>2. /\ rpc'[q] # "idle"
          /\ \A z \in Reloads \ {q} : rpc'[z] = rpc[z]
          /\ pc' = pc /\ res' = res
      BY <1>3
    <3>3. RequestSurvives'
      BY <2>2
    <3>4. RequestHasReload'
      BY <2>2, <3>1, <3>2
    <3>5. RestartOnlyWhenRequested'
      BY <3>1, <3>2, LifecycleAssumption
    <3> QED
      BY <3>3, <3>4, <3>5
  <2> QED
    BY <1>3, <2>1, <2>2
<1>4. CASE SameRequests
  BY <1>4 DEF SameRequests
<1> QED
  BY <1>1, <1>2, <1>3, <1>4, RequestFrame
(* Until Run i decides what to return, an immediate reload that found it    *)
(* active is on record.                                                     *)
THEOREM NoRequestIsLost == Spec => []RequestSurvives
<1>1. Init => Published /\ Requests
  BY LifecycleAssumption DEF Init, Published, CancelIsPublished, CancelOfABody, InBody,
     Requests, RequestSurvives, RequestHasReload, RestartOnlyWhenRequested
<1>2. TypeOK /\ Published /\ Requests /\ [Next]_vars => (Published /\ Requests)'
  BY PublishedStep, RequestStep
<1>3. Requests => RequestSurvives
  BY DEF Requests
<1> QED
  BY <1>1, <1>2, <1>3, TypeCorrect, PTL DEF Spec

(* Run answers ErrServerRestartRequired only to a reload of its own time.   *)
THEOREM NoRequestIsInvented == Spec => []RestartOnlyWhenRequested
<1>1. Init => Published /\ Requests
  BY LifecycleAssumption DEF Init, Published, CancelIsPublished, CancelOfABody, InBody,
     Requests, RequestSurvives, RequestHasReload, RestartOnlyWhenRequested
<1>2. TypeOK /\ Published /\ Requests /\ [Next]_vars => (Published /\ Requests)'
  BY PublishedStep, RequestStep
<1>3. Requests => RestartOnlyWhenRequested
  BY DEF Requests
<1> QED
  BY <1>1, <1>2, <1>3, TypeCorrect, PTL DEF Spec

-----------------------------------------------------------------------------
(* Which Run a reload cancels.                                              *)

(* Besides ReloadCancel and the deferred function of Run no step cancels a  *)
(* context, and no Run comes back from its end.                             *)
SameCancels ==
    /\ cancelled' = cancelled
    /\ \A i \in Runs : pc[i] \in {"unlock", "done"} => pc'[i] \in {"unlock", "done"}

LEMMA CancelFrame ==
  ASSUME TypeOK, [Next]_vars
  PROVE  \/ \E i \in Runs : RunCleanup(i)
         \/ \E q \in Reloads : ReloadCancel(q)
         \/ SameCancels
<1> USE DEF TypeOK, SameCancels, Goto, Return
<1>1. CASE InitServer
  BY <1>1 DEF InitServer
<1>2. CASE SetHandler
  BY <1>2 DEF SetHandler
<1>3. CASE Shutdown
  BY <1>3 DEF Shutdown
<1>4. ASSUME NEW i \in Runs, CancelCaller(i) PROVE SameCancels
  BY <1>4 DEF CancelCaller
<1>5. ASSUME NEW i \in Runs, RunEnter(i) \/ RunRefused(i) PROVE SameCancels
  BY <1>5 DEF RunEnter, RunRefused
<1>6. ASSUME NEW i \in Runs, RunStep(i), ~RunCleanup(i) PROVE SameCancels
  <2>1. CASE RunEntered(i)
    BY <2>1 DEF RunEntered
  <2>2. CASE RunFwCheck(i)
    BY <2>2 DEF RunFwCheck
  <2>3. CASE RunFwList(i)
    BY <2>3 DEF RunFwList
  <2>4. CASE RunWaiting(i)
    BY <2>4 DEF RunWaiting
  <2>5. CASE ListenOpen(i)
    BY <2>5 DEF ListenOpen
  <2>6. CASE ListenFail(i)
    BY <2>6 DEF ListenFail
  <2>7. CASE ListenDone(i)
    BY <2>7 DEF ListenDone
  <2>8. CASE RunBound(i)
    BY <2>8 DEF RunBound
  <2>9. CASE RunAnnounce(i)
    BY <2>9 DEF RunAnnounce
  <2>10. CASE SelectServeEnded(i)
    BY <2>10 DEF SelectServeEnded
  <2>11. CASE SelectCancelled(i)
    BY <2>11 DEF SelectCancelled
  <2>12. CASE StopServing(i)
    BY <2>12 DEF StopServing
  <2>13. CASE RunDraining(i)
    BY <2>13 DEF RunDraining
  <2>14. CASE CollectOne(i)
    BY <2>14 DEF CollectOne
  <2>15. CASE CollectedFailed(i)
    BY <2>15 DEF CollectedFailed
  <2>16. CASE CollectedDrained(i)
    BY <2>16 DEF CollectedDrained
  <2>17. CASE RunUnlock(i)
    BY <2>17 DEF RunUnlock
  <2> QED
    BY <1>6, <2>1, <2>2, <2>3, <2>4, <2>5, <2>6, <2>7, <2>8, <2>9,
       <2>10, <2>11, <2>12, <2>13, <2>14, <2>15, <2>16, <2>17 DEF RunStep
<1>7. ASSUME NEW i \in Runs, NEW a \in Addrs,
             ServeBegin(i, a) \/ ServeClosed(i, a) \/ ServeFails(i, a)
      PROVE  SameCancels
  BY <1>7 DEF ServeBegin, ServeClosed, ServeFails
<1>8. ASSUME NEW q \in Reloads, NEW c \in Configs, ReloadLocked(q, c)
      PROVE  SameCancels
  BY <1>8 DEF ReloadLocked
<1>9. ASSUME NEW q \in Reloads, ReloadCount(q) PROVE SameCancels
  BY <1>9 DEF ReloadCount
<1>10. CASE UNCHANGED vars
  BY <1>10 DEF vars
<1> HIDE DEF TypeOK, SameCancels
<1> QED
  BY <1>1, <1>2, <1>3, <1>4, <1>5, <1>6, <1>7, <1>8, <1>9, <1>10 DEF Next

(* What a reload has captured stays captured: it captures once.             *)
LEMMA CapturesStay ==
  ASSUME TypeOK, Requests, [Next]_vars, NEW i \in Runs, NEW q \in Reloads,
         captured[q] = i
  PROVE  captured'[q] = i
<1>1. CASE \E z \in Reloads, c \in Configs : ReloadLocked(z, c)
  <2>1. PICK z \in Reloads : /\ rpc[z] = "idle"
                            /\ captured' \in {captured, [captured EXCEPT ![z] = runCancel]}
    BY <1>1 DEF ReloadLocked
  <2>2. z # q
    BY <2>1, LifecycleAssumption DEF Requests, RequestHasReload
  <2> QED
    BY <2>1, <2>2 DEF TypeOK
<1>2. CASE \E j \in Runs : RunEnter(j) \/ CollectedDrained(j)
  BY <1>2 DEF RunEnter, CollectedDrained
<1>3. CASE SameRequests
  BY <1>3 DEF SameRequests
<1> QED
  BY <1>1, <1>2, <1>3, RequestFrame

LEMMA CancelStep ==
  ASSUME TypeOK, TypeOK', Requests, OnlyTheCapturedRunIsCancelled, [Next]_vars
  PROVE  OnlyTheCapturedRunIsCancelled'
<1> SUFFICES ASSUME NEW i \in Runs, i \in cancelled',
                    ~\E q \in Reloads : captured'[q] = i
             PROVE  pc'[i] \in {"unlock", "done"}
  BY DEF TypeOK, OnlyTheCapturedRunIsCancelled
<1>1. ~\E q \in Reloads : captured[q] = i
  BY CapturesStay
<1>2. CASE \E j \in Runs : RunCleanup(j)
  BY <1>1, <1>2 DEF RunCleanup, Goto, TypeOK, OnlyTheCapturedRunIsCancelled
<1>3. CASE \E q \in Reloads : ReloadCancel(q)
  BY <1>1, <1>3 DEF ReloadCancel, ReloadTarget, OnlyTheCapturedRunIsCancelled
<1>4. CASE SameCancels
  BY <1>1, <1>4 DEF SameCancels, OnlyTheCapturedRunIsCancelled
<1> QED
  BY <1>2, <1>3, <1>4, CancelFrame

(* A reload that cancels late, after another Run has begun, cancels none    *)
(* but the Run that it found active.                                        *)
THEOREM NoOtherRunIsCancelled == Spec => []OnlyTheCapturedRunIsCancelled
<1>1. Init => /\ Published /\ Requests
              /\ OnlyTheCapturedRunIsCancelled
  BY LifecycleAssumption DEF Init, Published, CancelIsPublished, CancelOfABody, InBody,
     Requests, RequestSurvives, RequestHasReload, RestartOnlyWhenRequested,
     OnlyTheCapturedRunIsCancelled
<1>2. TypeOK /\ TypeOK' /\ Published /\ Requests /\ OnlyTheCapturedRunIsCancelled /\ [Next]_vars
        => (Published /\ Requests /\ OnlyTheCapturedRunIsCancelled)'
  BY PublishedStep, RequestStep, CancelStep
<1> QED
  BY <1>1, <1>2, TypeCorrect, PTL DEF Spec

-----------------------------------------------------------------------------
(****************************************************************************)
(* ServerLifecycle implements ServingPromise: the step of every goroutine   *)
(* is a step of the promise, seen through the mapping of ServerRefinement,  *)
(* or changes nothing of it.                                                *)
(****************************************************************************)

(* What the promise sees of the server while Run i is in progress. *)
PhaseOf(i) ==
    IF listening THEN "announced"
    ELSE IF \/ pc[i] \in {"shutdown", "draining", "collectDrained", "unlock"}
            \/ pc[i] = "cleanup" /\ shutting[i]
         THEN "withdrawn"
    ELSE "not yet"
Ports == UNION {lns[j] : j \in Runs}
Wanted == OfHolder(snap)
Returned == {i \in Runs : pc[i] = "done"}

Seen ==
    /\ \A i \in Runs : InBody(i) =>
          runCancel = i /\ Wanted = snap[i] /\ Ports = lns[i] /\ PhaseOfReady = PhaseOf(i)
    /\ (\A i \in Runs : ~InBody(i)) =>
          runCancel = None /\ Wanted = {} /\ Ports = {} /\ PhaseOfReady = "not yet"

(* Nothing is shut down before it serves, there is something to serve, and  *)
(* a drain shuts it down.                                                   *)
Prepared(i) ==
    /\ pc[i] \in Unserved => ~shutting[i]
    /\ pc[i] \in Unserved \ {"idle", "entered"} => snap[i] # {}
    /\ pc[i] \in {"draining", "collectDrained"} => shutting[i]

AllInOrder == \A i \in Runs : Accounted(i) /\ Prepared(i)

PInv == TypeOK /\ Published /\ AllInOrder /\ ReadyExactlyWhileServing

-----------------------------------------------------------------------------
(* A step of Run i or of its Serve goroutines keeps it prepared.            *)
LEMMA PreparedOwnStep ==
  ASSUME TypeOK, NEW i \in Runs, Prepared(i), StepOf(i)
  PROVE  Prepared(i)'
<1> USE DEF TypeOK, Prepared, Starting, Unserved, Goto, Return, serveVars, runVars
<1>1. CASE RunRefused(i)
  BY <1>1 DEF RunRefused
<1>2. CASE RunEnter(i)
  BY <1>2 DEF RunEnter
<1>3. CASE RunStep(i)
  <2>1. CASE RunEntered(i)
    BY <2>1 DEF RunEntered
  <2>2. CASE RunFwCheck(i) \/ RunFwList(i) \/ RunWaiting(i)
    BY <2>2 DEF RunFwCheck, RunFwList, RunWaiting
  <2>3. CASE ListenOpen(i) \/ ListenFail(i) \/ ListenDone(i)
    BY <2>3 DEF ListenOpen, ListenFail, ListenDone, runVars
  <2>4. CASE RunBound(i) \/ RunAnnounce(i)
    BY <2>4 DEF RunBound, RunAnnounce
  <2>5. CASE SelectServeEnded(i) \/ SelectCancelled(i) \/ StopServing(i)
    BY <2>5 DEF SelectServeEnded, SelectCancelled, StopServing
  <2>6. CASE RunDraining(i) \/ CollectOne(i)
    BY <2>6 DEF RunDraining, CollectOne, runVars
  <2>7. CASE CollectedFailed(i) \/ CollectedDrained(i)
    BY <2>7 DEF CollectedFailed, CollectedDrained
  <2>8. CASE RunCleanup(i) \/ RunUnlock(i)
    BY <2>8 DEF RunCleanup, RunUnlock
  <2> QED
    BY <1>3, <2>1, <2>2, <2>3, <2>4, <2>5, <2>6, <2>7, <2>8 DEF RunStep
<1>4. ASSUME NEW a \in Addrs, ServeBegin(i, a) \/ ServeClosed(i, a) \/ ServeFails(i, a)
      PROVE  Prepared(i)'
  BY <1>4 DEF ServeBegin, ServeClosed, ServeFails, runVars
<1> QED
  BY <1>1, <1>2, <1>3, <1>4 DEF StepOf

(* What the mapping relies on: one Run at a time is past the guard, its     *)
(* listeners are accounted for, and readiness follows its serving.          *)
THEOREM PInvHolds == Spec => []PInv
<1>1. Init => AllInOrder /\ Published /\ ReadyExactlyWhileServing
  BY DEF Init, AllInOrder, Accounted, Prepared, Starting, Unserved, Ended,
     Published, CancelIsPublished, CancelOfABody, InBody, ReadyExactlyWhileServing
<1>2. TypeOK /\ AllInOrder /\ [Next]_vars => AllInOrder'
  <2> SUFFICES ASSUME TypeOK, AllInOrder, [Next]_vars, NEW j \in Runs
               PROVE  Accounted(j)' /\ Prepared(j)'
    BY DEF AllInOrder
  <2>0. Accounted(j) /\ Prepared(j)
    BY DEF AllInOrder
  <2>1. SameRun(j) => Accounted(j)' /\ Prepared(j)'
    BY <2>0 DEF SameRun, Accounted, Prepared
  <2>2. CASE StepOf(j)
    BY <2>0, <2>2, AccountedOwnStep, PreparedOwnStep
  <2>3. CASE \E i \in Runs \ {j} : StepOf(i)
    BY <2>1, <2>3, OwnStepFrame
  <2>4. CASE \A i \in Runs : ~StepOf(i)
    BY <2>1, <2>4, OtherStepFrame
  <2> QED
    BY <2>2, <2>3, <2>4
<1>3. TypeOK /\ Published /\ [Next]_vars => Published'
  BY PublishedStep
<1>4. TypeOK /\ Published /\ ReadyExactlyWhileServing /\ [Next]_vars
      => ReadyExactlyWhileServing'
  BY ReadyStep DEF Published
<1> QED
  BY <1>1, <1>2, <1>3, <1>4, TypeCorrect, PTL DEF Spec, PInv

-----------------------------------------------------------------------------
(* The mapping, for the one Run in progress or for none. *)
LEMMA SeenHolds == PInv => Seen
<1> SUFFICES ASSUME PInv PROVE Seen
  OBVIOUS
<1> USE LifecycleAssumption DEF PInv
<1>1. \A i, j \in Runs : InBody(i) /\ InBody(j) => i = j
  BY DEF Published, CancelIsPublished
<1>2. \A j \in Runs : ~InBody(j) => lns[j] = {}
  BY DEF AllInOrder, Accounted, InBody, Starting, Ended
<1>3. \A j \in Runs :
          pc[j] \in {"shutdown", "draining", "collectDrained", "unlock", "cleanup"} => InBody(j)
  BY DEF InBody
<1>4. ASSUME NEW i \in Runs, InBody(i)
      PROVE  runCancel = i /\ Wanted = snap[i] /\ Ports = lns[i] /\ PhaseOfReady = PhaseOf(i)
  <2>1. runCancel = i
    BY <1>4 DEF Published, CancelIsPublished
  <2>2. {j \in Runs : InBody(j)} = {i}
    BY <1>1, <1>4
  <2>3. Wanted = snap[i]
    BY <2>2 DEF Wanted, OfHolder
  <2>4. Ports = lns[i]
    BY <1>1, <1>2, <1>4 DEF Ports
  <2>5. PhaseOfReady = PhaseOf(i)
    <3>1. (\E j \in Runs :
              \/ pc[j] \in {"shutdown", "draining", "collectDrained", "unlock"}
              \/ pc[j] = "cleanup" /\ shutting[j])
          <=> \/ pc[i] \in {"shutdown", "draining", "collectDrained", "unlock"}
              \/ pc[i] = "cleanup" /\ shutting[i]
      BY <1>1, <1>3, <1>4
    <3>2. listening \in BOOLEAN
      BY DEF TypeOK
    <3> QED
      BY <3>1, <3>2 DEF PhaseOfReady, PhaseOf
  <2> QED
    BY <2>1, <2>3, <2>4, <2>5
<1>5. ASSUME \A i \in Runs : ~InBody(i)
      PROVE  runCancel = None /\ Wanted = {} /\ Ports = {} /\ PhaseOfReady = "not yet"
  <2>1. runCancel = None
    BY <1>5 DEF Published, CancelOfABody
  <2>2. Wanted = {}
    BY <1>5 DEF Wanted, OfHolder
  <2>3. Ports = {}
    BY <1>2, <1>5 DEF Ports
  <2>4. ~listening
    BY <1>5 DEF ReadyExactlyWhileServing, InBody
  <2>5. PhaseOfReady = "not yet"
    BY <1>3, <1>5, <2>4 DEF PhaseOfReady
  <2> QED
    BY <2>1, <2>2, <2>3, <2>5
<1> QED
  BY <1>4, <1>5 DEF Seen

-----------------------------------------------------------------------------
(* One step of one call of Run that has been admitted and stays so.         *)

Recedes(i) == lns'[i] \subseteq lns[i] /\ PhaseOf(i)' = PhaseOf(i)
Withdraws(i) == lns'[i] = lns[i] /\ PhaseOf(i)' = "withdrawn"
Opens(i) ==
    /\ PhaseOf(i) = "not yet" /\ PhaseOf(i)' = "not yet"
    /\ \E a \in snap[i] \ lns[i] : lns'[i] = lns[i] \cup {a}
Announces(i) ==
    /\ PhaseOf(i) = "not yet" /\ PhaseOf(i)' = "announced"
    /\ lns[i] = snap[i] /\ snap[i] # {} /\ lns'[i] = lns[i]

Within(i) ==
    /\ InBody(i)' /\ snap'[i] = snap[i]
    /\ Recedes(i) \/ Withdraws(i) \/ Opens(i) \/ Announces(i)

(* Run i itself closes, withdraws, opens one address or announces.          *)
LEMMA WithinRun ==
  ASSUME PInv, NEW i \in Runs, InBody(i), RunStep(i), ~RunUnlock(i)
  PROVE  Within(i)
<1>0. listening => pc[i] \in {"select", "close", "collectFailed", "cleanup"}
  BY DEF PInv, Published, CancelIsPublished, ReadyExactlyWhileServing, InBody
<1>1. TypeOK /\ Accounted(i) /\ Prepared(i)
  BY DEF PInv, AllInOrder
<1> USE <1>0, <1>1 DEF TypeOK, Within, InBody, PhaseOf, Goto, Return, serveVars, runVars
<1>2. CASE RunEntered(i)
  BY <1>2 DEF RunEntered, Recedes, Prepared, Unserved, Starting
<1>3. CASE RunFwCheck(i)
  BY <1>3 DEF RunFwCheck, Recedes, Prepared, Unserved, Starting
<1>4. CASE RunFwList(i)
  BY <1>4 DEF RunFwList, Recedes, Prepared, Unserved, Starting
<1>5. CASE RunWaiting(i)
  BY <1>5 DEF RunWaiting, Recedes, Prepared, Unserved, Starting
<1>6. CASE ListenOpen(i)
  BY <1>6 DEF ListenOpen, Opens
<1>7. CASE ListenFail(i)
  BY <1>7 DEF ListenFail, ListenersAfterFailure, Recedes, Prepared, Unserved
<1>8. CASE ListenDone(i)
  BY <1>8 DEF ListenDone, Recedes, Prepared, Unserved
<1>9. CASE RunBound(i)
  BY <1>9 DEF RunBound, Recedes
<1>10. CASE RunAnnounce(i)
  BY <1>10 DEF RunAnnounce, Announces, Accounted, Prepared, Unserved
<1>11. CASE SelectServeEnded(i)
  BY <1>11 DEF SelectServeEnded, Recedes
<1>12. CASE SelectCancelled(i)
  BY <1>12 DEF SelectCancelled, ListeningInDrain, Withdraws
<1>13. CASE StopServing(i)
  BY <1>13 DEF StopServing, NotYetServed, Recedes
<1>14. CASE RunDraining(i)
  BY <1>14 DEF RunDraining, Recedes
<1>15. CASE CollectOne(i)
  BY <1>15 DEF CollectOne, Recedes
<1>16. CASE CollectedFailed(i)
  BY <1>16 DEF CollectedFailed, Recedes, Withdraws
<1>17. CASE CollectedDrained(i)
  BY <1>17 DEF CollectedDrained, Recedes, Prepared
<1>18. CASE RunCleanup(i)
  BY <1>18 DEF RunCleanup, Withdraws
<1> QED
  BY <1>2, <1>3, <1>4, <1>5, <1>6, <1>7, <1>8, <1>9, <1>10, <1>11, <1>12,
     <1>13, <1>14, <1>15, <1>16, <1>17, <1>18 DEF RunStep

(* Its Serve goroutines only close.                                         *)
LEMMA WithinServe ==
  ASSUME PInv, NEW i \in Runs, NEW a \in Addrs,
         ServeBegin(i, a) \/ ServeClosed(i, a) \/ ServeFails(i, a)
  PROVE  InBody(i) /\ Within(i)
<1>1. TypeOK /\ Accounted(i)
  BY DEF PInv, AllInOrder
<1>2. InBody(i)
  BY <1>1 DEF Accounted, InBody, Unserved, Starting, Ended, ServeBegin, ServeClosed, ServeFails
<1>3. pc' = pc /\ snap' = snap /\ listening' = listening /\ shutting' = shutting
  BY DEF ServeBegin, ServeClosed, ServeFails, runVars
<1>4. lns'[i] \subseteq lns[i]
  BY <1>1 DEF TypeOK, ServeBegin, ServeClosed, ServeFails
<1>5. Within(i)
  BY <1>2, <1>3, <1>4 DEF Within, Recedes, InBody, PhaseOf
<1> QED
  BY <1>2, <1>5

-----------------------------------------------------------------------------
(* Steps of the promise. *)
Kept == [Promise!PromiseNext]_(Promise!promiseVars)

(* RunEnter is the promise's Admit, ...                                     *)
LEMMA EnterAdmits ==
  ASSUME PInv, Seen, Seen', NEW i \in Runs, RunEnter(i)
  PROVE  Promise!Admit(i)
<1> USE DEF PInv
<1>1. \A j \in Runs : ~InBody(j)
  BY DEF RunEnter, RunGuard, Published, CancelIsPublished
<1>2. runCancel = None /\ PhaseOfReady = "not yet" /\ ~listening
  BY <1>1 DEF Seen, ReadyExactlyWhileServing, InBody
<1>3. InBody(i)' /\ pc'[i] = "entered" /\ listening' = listening /\ lns' = lns
  BY DEF RunEnter, TypeOK, Goto, InBody, serveVars
<1>4. runCancel' = i /\ Wanted' = snap'[i] /\ PhaseOfReady' = "not yet"
  BY <1>2, <1>3 DEF Seen, PhaseOf
<1>5. snap'[i] \subseteq Addrs
  BY DEF RunEnter, TypeOK
<1>6. Returned' = Returned /\ i \notin Returned
  BY DEF RunEnter, TypeOK, Goto, Returned
<1>7. Ports' = Ports
  BY <1>3 DEF Ports
<1> QED
  BY <1>2, <1>4, <1>5, <1>6, <1>7 DEF Promise!Admit, Wanted, Ports, Returned

(* ... RunUnlock its GiveBack, ...                                          *)
LEMMA UnlockGivesBack ==
  ASSUME PInv, Seen, Seen', NEW i \in Runs, RunUnlock(i)
  PROVE  Promise!GiveBack
<1> USE DEF PInv
<1>1. InBody(i) /\ ~InBody(i)' /\ \A j \in Runs \ {i} : InBody(j)' <=> InBody(j)
  BY DEF RunUnlock, TypeOK, Goto, InBody
<1>2. \A j \in Runs : InBody(j) => j = i
  BY <1>1 DEF Published, CancelIsPublished
<1>3. runCancel = i /\ runCancel # None
  BY <1>1, LifecycleAssumption DEF Seen
<1>4. Ports = {}
  BY <1>1 DEF Seen, RunUnlock, AllInOrder, Accounted, Ended
<1>5. ~listening
  BY <1>2 DEF ReadyExactlyWhileServing, RunUnlock, InBody
<1>6. PhaseOfReady = "withdrawn"
  BY <1>1, <1>5 DEF Seen, PhaseOf, RunUnlock
<1>7. runCancel' = None /\ Wanted' = {} /\ Ports' = {} /\ PhaseOfReady' = "not yet"
  BY <1>1, <1>2 DEF Seen
<1>8. Returned' = Returned \cup {i}
  BY DEF RunUnlock, TypeOK, Goto, Returned
<1> QED
  BY <1>3, <1>4, <1>6, <1>7, <1>8 DEF Promise!GiveBack, Wanted, Ports, Returned

(* ... and the steps between the two are its Open, CloseSome, Announce and  *)
(* Withdraw, or none.                                                       *)
LEMMA WithinIsKept ==
  ASSUME PInv, Seen, Seen', NEW i \in Runs, InBody(i), Within(i), StepOf(i),
         runCancel' = runCancel
  PROVE  Kept
<1> USE DEF PInv
<1>1. /\ runCancel = i /\ Wanted = snap[i] /\ Ports = lns[i] /\ PhaseOfReady = PhaseOf(i)
      /\ Wanted' = snap'[i] /\ Ports' = lns'[i] /\ PhaseOfReady' = PhaseOf(i)'
  BY DEF Seen, Within
<1>2. Wanted' = Wanted
  BY <1>1 DEF Within
<1>3. Returned' = Returned
  BY OwnStepFrame DEF Returned, SameRun, Within, InBody
<1>4. runCancel # None
  BY <1>1, LifecycleAssumption
<1> USE <1>1, <1>2, <1>3, <1>4
<1>5. CASE Recedes(i)
  <2>1. CASE Ports' = Ports
    BY <1>5, <2>1 DEF Kept, Recedes, Promise!promiseVars, Wanted, Ports, Returned
  <2>2. CASE Ports' # Ports
    <3>1. Promise!CloseSome
      BY <1>5, <2>2 DEF Recedes, Promise!CloseSome, Wanted, Ports, Returned
    <3> QED
      BY <3>1 DEF Kept, Promise!PromiseNext
  <2> QED
    BY <2>1, <2>2
<1>6. CASE Withdraws(i)
  <2>1. Promise!Withdraw
    BY <1>6 DEF Withdraws, Promise!Withdraw, Wanted, Ports, Returned
  <2> QED
    BY <2>1 DEF Kept, Promise!PromiseNext
<1>7. CASE Opens(i)
  <2>1. Promise!Open
    BY <1>7 DEF Opens, Promise!Open, Wanted, Ports, Returned
  <2> QED
    BY <2>1 DEF Kept, Promise!PromiseNext
<1>8. CASE Announces(i)
  <2>1. Promise!Announce
    BY <1>8 DEF Announces, Promise!Announce, Wanted, Ports, Returned
  <2> QED
    BY <2>1 DEF Kept, Promise!PromiseNext
<1> QED
  BY <1>5, <1>6, <1>7, <1>8 DEF Within

(* A step that leaves the bodies of Run alone leaves the promise alone, or  *)
(* is a call that is refused.                                               *)
Outside ==
    /\ \A j \in Runs : InBody(j)' <=> InBody(j)
    /\ \A j \in Runs : snap'[j] = snap[j] /\ lns'[j] = lns[j]
    /\ \A j \in Runs : InBody(j) => pc'[j] = pc[j] /\ shutting'[j] = shutting[j]
    /\ listening' = listening /\ runCancel' = runCancel

(* The mapping sees no difference across such a step.                       *)
LEMMA OutsideStutters ==
  ASSUME Seen, Seen', Outside
  PROVE  /\ Wanted' = Wanted /\ Ports' = Ports /\ PhaseOfReady' = PhaseOfReady
         /\ runCancel' = runCancel
<1>1. CASE \E i \in Runs : InBody(i)
  <2>1. PICK i \in Runs : InBody(i)
    BY <1>1
  <2>2. InBody(i)' /\ snap'[i] = snap[i] /\ lns'[i] = lns[i] /\ PhaseOf(i)' = PhaseOf(i)
    BY <2>1 DEF Outside, PhaseOf
  <2> QED
    BY <2>1, <2>2 DEF Seen, Outside
<1>2. CASE \A i \in Runs : ~InBody(i)
  BY <1>2 DEF Seen, Outside
<1> QED
  BY <1>1, <1>2

(* Init, SetHandler, Shutdown, reloads and cancelled contexts are of that   *)
(* kind.                                                                    *)
LEMMA OtherStepsAreOutside ==
  ASSUME PInv, [Next]_vars, \A i \in Runs : ~StepOf(i)
  PROVE  Outside /\ Returned' = Returned
<1>1. \A j \in Runs : SameRun(j)
  BY OtherStepFrame DEF PInv
<1>2. listening' = listening /\ runCancel' = runCancel
  <2>1. CASE InitServer \/ SetHandler \/ Shutdown
    BY <2>1 DEF InitServer, SetHandler, Shutdown, guardVars
  <2>2. ASSUME NEW i \in Runs, CancelCaller(i)
        PROVE  listening' = listening /\ runCancel' = runCancel
    BY <2>2 DEF CancelCaller, guardVars
  <2>3. ASSUME NEW q \in Reloads, ReloadCancel(q) \/ ReloadCount(q)
        PROVE  listening' = listening /\ runCancel' = runCancel
    BY <2>3 DEF ReloadCancel, ReloadCount, guardVars
  <2>4. ASSUME NEW q \in Reloads, NEW c \in Configs, ReloadLocked(q, c)
        PROVE  listening' = listening /\ runCancel' = runCancel
    BY <2>4 DEF ReloadLocked, guardVars
  <2>5. CASE UNCHANGED vars
    BY <2>5 DEF vars, guardVars
  <2> QED
    BY <2>1, <2>2, <2>3, <2>4, <2>5 DEF Next, StepOf
<1> QED
  BY <1>1, <1>2 DEF Outside, SameRun, InBody, Returned

(* A refused call is the promise's Refuse.                                  *)
LEMMA RefusedIsKept ==
  ASSUME PInv, Seen, Seen', NEW i \in Runs, RunRefused(i)
  PROVE  Kept
<1>1. pc' = [pc EXCEPT ![i] = "done"] /\ pc[i] = "idle" /\ pc \in [Runs -> PcLabels]
  BY DEF RunRefused, PInv, TypeOK
<1>2. Outside
  BY <1>1 DEF Outside, RunRefused, InBody, guardVars, serveVars
<1>3. i # runCancel
  BY <1>1, LifecycleAssumption DEF PInv, Published, CancelOfABody, InBody
<1>4. Returned' = Returned \cup {i} /\ i \notin Returned
  BY <1>1 DEF Returned
<1>5. Promise!Refuse(i)
  BY <1>2, <1>3, <1>4, OutsideStutters DEF Promise!Refuse, Wanted, Ports, Returned
<1> QED
  BY <1>5 DEF Kept, Promise!PromiseNext

(* So every step of every goroutine is one of the promise's, or none.       *)
LEMMA StepIsKept ==
  ASSUME PInv, Seen, Seen', [Next]_vars
  PROVE  Kept
<1>1. ASSUME NEW i \in Runs, RunEnter(i) PROVE Kept
  <2>1. Promise!Admit(i)
    BY <1>1, EnterAdmits
  <2> QED
    BY <2>1 DEF Kept, Promise!PromiseNext
<1>2. ASSUME NEW i \in Runs, RunUnlock(i) PROVE Kept
  <2>1. Promise!GiveBack
    BY <1>2, UnlockGivesBack
  <2> QED
    BY <2>1 DEF Kept, Promise!PromiseNext
<1>3. ASSUME NEW i \in Runs, RunRefused(i) PROVE Kept
  BY <1>3, RefusedIsKept
<1>4. ASSUME NEW i \in Runs, RunStep(i), ~RunUnlock(i) PROVE Kept
  <2>1. InBody(i) /\ runCancel' = runCancel
    BY <1>4 DEF RunStep, InBody, guardVars, RunEntered, RunFwCheck, RunFwList, RunWaiting,
       ListenOpen, ListenFail, ListenDone, RunBound, RunAnnounce, SelectServeEnded,
       SelectCancelled, StopServing, RunDraining, CollectOne, CollectedFailed,
       CollectedDrained, RunCleanup
  <2>2. StepOf(i)
    BY <1>4 DEF StepOf
  <2> QED
    BY <1>4, <2>1, <2>2, WithinRun, WithinIsKept
<1>5. ASSUME NEW i \in Runs, NEW a \in Addrs,
             ServeBegin(i, a) \/ ServeClosed(i, a) \/ ServeFails(i, a)
      PROVE  Kept
  <2>1. InBody(i) /\ Within(i)
    BY <1>5, WithinServe
  <2>2. runCancel' = runCancel
    BY <1>5 DEF ServeBegin, ServeClosed, ServeFails, guardVars
  <2>3. StepOf(i)
    BY <1>5 DEF StepOf
  <2> QED
    BY <2>1, <2>2, <2>3, WithinIsKept
<1>6. ASSUME \A i \in Runs : ~StepOf(i) PROVE Kept
  BY <1>6, OtherStepsAreOutside, OutsideStutters
     DEF Kept, Promise!promiseVars, Wanted, Ports, Returned
<1> QED
  BY <1>1, <1>2, <1>3, <1>4, <1>5, <1>6 DEF StepOf

(* Server keeps its promise to those who call Run, read /readyz or connect, *)
(* for any calls, reloads, addresses and configurations.                    *)
THEOREM PromiseIsKept == Spec => ImplementsPromise
<1>1. Init => Promise!PromiseInit
  <2> SUFFICES ASSUME Init PROVE Promise!PromiseInit
    OBVIOUS
  <2>1. \A i \in Runs : pc[i] = "idle" /\ lns[i] = {}
    BY DEF Init
  <2>2. {j \in Runs : InBody(j)} = {} /\ Returned = {} /\ Ports = {}
    BY <2>1 DEF InBody, Returned, Ports
  <2>3. Wanted = {}
    BY <2>2 DEF Wanted, OfHolder
  <2>4. runCancel = None /\ PhaseOfReady = "not yet"
    BY <2>1 DEF Init, PhaseOfReady
  <2> QED
    BY <2>2, <2>3, <2>4 DEF Promise!PromiseInit, Wanted, Ports, Returned
<1>2. PInv => Seen
  BY SeenHolds
<1>3. PInv /\ Seen /\ Seen' /\ [Next]_vars => Kept
  BY StepIsKept
<1>4. Kept => [Promise!PromiseNext]_(Promise!promiseVars)
  BY DEF Kept
<1> QED
  BY <1>1, <1>2, <1>3, <1>4, PInvHolds, PTL
     DEF Spec, ImplementsPromise, Promise!PromiseSpec
=============================================================================
