--------------------------- MODULE ServerLifecycle ---------------------------
(****************************************************************************)
(* The lifecycle of cf_http.Server: Init, SetHandler, Run, OnConfigReload,  *)
(* Health and Shutdown of one Server value, called by any number of         *)
(* goroutines at any time (server.go, config.go, bind.go).                  *)
(*                                                                          *)
(* Granularity.  One critical section of c.mu is one step; one atomic load  *)
(* or store, one call into net/http and one channel receive is one step.    *)
(* Two neighbouring steps are merged only where no other goroutine can tell *)
(* the states between them apart.                                           *)
(*                                                                          *)
(* Bounds.  A member of Runs is one CALL of Run and a member of Reloads one *)
(* CALL of OnConfigReload, made at most once each, so the two sets bound    *)
(* the calls of a behaviour and with them every counter.  A settings bundle *)
(* is its set of bind addresses: {} stands for an omitted (or, before Init, *)
(* invalid) one, two different sets for any two different listener setups.  *)
(*                                                                          *)
(* net/http is external.  Serve closes its listener before it returns, and  *)
(* returns ErrServerClosed at once when the server is shutting down; Close  *)
(* and Shutdown close the listeners whose Serve has begun; Shutdown returns *)
(* nil, the error of closing a listener, or DeadlineExceeded.               *)
(****************************************************************************)
EXTENDS Naturals, FiniteSets

CONSTANTS Runs,          \* calls of Run
          Reloads,       \* calls of OnConfigReload
          Addrs,         \* bind addresses
          Loopback,      \* the loopback ones among them
          Configs,       \* what a reload or the configuration source may hold
          WaitForHealth, \* whether WithWaitForHealth was given
          None           \* nil

Omitted == "omitted"
Policies == {"handled", "immediate"}
Switch == {"on", "off"}
ServerConfig == [bind: SUBSET Addrs, metrics: Switch \cup {Omitted},
                 policy: Policies \cup {Omitted}]

ASSUME LifecycleAssumption ==
    /\ Loopback \subseteq Addrs
    /\ Configs \subseteq ServerConfig
    /\ WaitForHealth \in BOOLEAN
    /\ None \notin Runs \cup Addrs

VARIABLES
    \* fields of Server
    initialized, fwSet, logsSub, handler,
    binds, policy, metricsEnabled,
    restartRequired, restartRequested,
    running, runCancel, listening, boundAddress,
    starts, reloads, drainTimeouts,
    \* contexts: the callers' that are done, the runCtx whose cancel was called
    ctxDone, cancelled,
    \* each call of Run: where it is, its snapshot of the binds, its open
    \* listeners, whether its http.Server is shutting down, the state of the
    \* Serve goroutine of each listener, those that ended with an error other
    \* than ErrServerClosed, and what Run returns
    pc, snap, lns, shutting, serve, serveErr, res,
    \* each call of OnConfigReload: where it is, the cancel func it captured
    rpc, captured

compVars == <<initialized, fwSet, logsSub, handler>>
settingVars == <<binds, policy, metricsEnabled, restartRequired>>
guardVars == <<running, runCancel, boundAddress>>
counterVars == <<starts, reloads, drainTimeouts>>
serveVars == <<lns, shutting, serve, serveErr>>
runVars == <<pc, snap, res>>
reloadVars == <<rpc, captured>>
vars == <<compVars, settingVars, restartRequested, guardVars, listening,
          counterVars, ctxDone, cancelled, runVars, serveVars, reloadVars>>

-----------------------------------------------------------------------------
PcLabels == {"idle", "entered", "fwCheck", "fwList", "waiting", "listen",
             "bound", "announce", "select", "close", "collectFailed",
             "shutdown", "draining", "collectDrained",
             "cleanup", "unlock", "done"}
Outcomes == {"nil", "refused", "ctxErr", "bindErr", "waitErr", "panic",
             "listenErr", "serveErr", "drainErr", "restart"}
ServeStates == {"none", "spawned", "accepting", "sent", "received"}

TypeOK ==
    /\ {initialized, fwSet, logsSub, handler} \subseteq BOOLEAN
    /\ binds \subseteq Addrs
    /\ policy \in Policies
    /\ metricsEnabled \in Switch
    /\ {restartRequired, restartRequested, running, listening} \subseteq BOOLEAN
    /\ runCancel \in Runs \cup {None}
    /\ boundAddress \in Addrs \cup {None}
    /\ {starts, reloads, drainTimeouts} \subseteq Nat
    /\ ctxDone \subseteq Runs
    /\ cancelled \subseteq Runs
    /\ pc \in [Runs -> PcLabels]
    /\ snap \in [Runs -> SUBSET Addrs]
    /\ lns \in [Runs -> SUBSET Addrs]
    /\ shutting \in [Runs -> BOOLEAN]
    /\ serve \in [Runs -> [Addrs -> ServeStates]]
    /\ serveErr \in [Runs -> SUBSET Addrs]
    /\ res \in [Runs -> Outcomes]
    /\ rpc \in [Reloads -> {"idle", "cancel", "count", "done"}]
    /\ captured \in [Reloads -> Runs \cup {None}]

-----------------------------------------------------------------------------
(* New: an inert server; its options may or may not name valid binds. *)
Init ==
    /\ initialized = FALSE /\ fwSet = FALSE /\ logsSub = FALSE /\ handler = FALSE
    /\ binds \in {c.bind : c \in Configs} \cup {{}}
    /\ policy = "handled" /\ metricsEnabled = "on"
    /\ restartRequired = FALSE /\ restartRequested = FALSE
    /\ running = FALSE /\ runCancel = None
    /\ listening = FALSE /\ boundAddress = None
    /\ starts = 0 /\ reloads = 0 /\ drainTimeouts = 0
    /\ ctxDone = {} /\ cancelled = {}
    /\ pc = [i \in Runs |-> "idle"]
    /\ snap = [i \in Runs |-> {}]
    /\ lns = [i \in Runs |-> {}]
    /\ shutting = [i \in Runs |-> FALSE]
    /\ serve = [i \in Runs |-> [a \in Addrs |-> "none"]]
    /\ serveErr = [i \in Runs |-> {}]
    /\ res = [i \in Runs |-> "nil"]
    /\ rpc = [q \in Reloads |-> "idle"]
    /\ captured = [q \in Reloads |-> None]

-----------------------------------------------------------------------------
(* Init, SetHandler, Shutdown: each one critical section of c.mu.           *)

(* Operators named Variant... are single changes of the operator after them *)
(* that a property must reject; Next does not use them.                     *)
(* applyConfig: an omitted field leaves the active setting alone. *)
Applied(old, new, omitted) == IF new = omitted THEN old ELSE new

(* applyConfigFromSource followed by validateActiveSettings.  c = None is   *)
(* the Init that fails before it applies a configuration.                   *)
InitServer ==
    /\ ~initialized
    /\ fwSet' = TRUE
    /\ \/ \E c \in Configs :
            /\ binds' = Applied(binds, c.bind, {})
            /\ policy' = Applied(policy, c.policy, Omitted)
            /\ metricsEnabled' = Applied(metricsEnabled, c.metrics, Omitted)
       \/ UNCHANGED <<binds, policy, metricsEnabled>>
    /\ \/ initialized' = (binds' # {})
       \/ initialized' = FALSE
    /\ logsSub' = initialized'
    /\ UNCHANGED <<handler, restartRequired, restartRequested, guardVars,
                   listening, counterVars, ctxDone, cancelled, runVars,
                   serveVars, reloadVars>>

SetHandler ==
    /\ handler' \in BOOLEAN
    /\ UNCHANGED <<initialized, fwSet, logsSub, settingVars, restartRequested,
                   guardVars, listening, counterVars, ctxDone, cancelled,
                   runVars, serveVars, reloadVars>>

Shutdown ==
    /\ initialized' = FALSE
    /\ fwSet' = FALSE
    /\ logsSub' = FALSE
    /\ UNCHANGED <<handler, settingVars, restartRequested, guardVars, listening,
                   counterVars, ctxDone, cancelled, runVars, serveVars,
                   reloadVars>>

(* Health: the condition of its nil return, read in one critical section. *)
Healthy == initialized /\ handler /\ listening

-----------------------------------------------------------------------------
(* Run.                                                                     *)

VariantCallersContext(i) == i \in ctxDone
runCtxDone(i) == i \in ctxDone \cup cancelled

(* The caller of Run(ctx) cancels ctx, before the call or during it. *)
CancelCaller(i) ==
    /\ pc[i] # "done"
    /\ ctxDone' = ctxDone \cup {i}
    /\ UNCHANGED <<compVars, settingVars, restartRequested, guardVars,
                   listening, counterVars, cancelled, runVars, serveVars,
                   reloadVars>>

Goto(i, l) == pc' = [pc EXCEPT ![i] = l]

(* Leave the body of Run with outcome r: the deferred function runs next. *)
Return(i, r) ==
    /\ pc' = [pc EXCEPT ![i] = "cleanup"]
    /\ res' = [res EXCEPT ![i] = r]

VariantNoReset(i) == UNCHANGED restartRequested
ResetRequested(i) == restartRequested' = FALSE

VariantUnguarded == initialized /\ handler
RunGuard == initialized /\ ~running /\ handler

(* The first critical section, refusing the call ... *)
RunRefused(i) ==
    /\ pc[i] = "idle"
    /\ ~RunGuard
    /\ pc' = [pc EXCEPT ![i] = "done"]
    /\ res' = [res EXCEPT ![i] = "refused"]
    /\ UNCHANGED <<compVars, settingVars, restartRequested, guardVars,
                   listening, counterVars, ctxDone, cancelled, snap, serveVars,
                   reloadVars>>

(* ... or admitting it. *)
RunEnter(i) ==
    /\ pc[i] = "idle"
    /\ RunGuard
    /\ Goto(i, "entered")
    /\ snap' = [snap EXCEPT ![i] = binds]
    /\ running' = TRUE
    /\ runCancel' = i
    /\ ResetRequested(i)
    /\ UNCHANGED <<compVars, settingVars, boundAddress, listening, counterVars,
                   ctxDone, cancelled, res, serveVars, reloadVars>>

(* ctx.Err() of the caller's context, the empty bind list. *)
RunEntered(i) ==
    /\ pc[i] = "entered"
    /\ \/ /\ i \in ctxDone \/ snap[i] = {}
          /\ Return(i, IF i \in ctxDone THEN "ctxErr" ELSE "bindErr")
       \/ /\ i \notin ctxDone /\ snap[i] # {}
          /\ Goto(i, IF WaitForHealth THEN "fwCheck" ELSE "listen")
          /\ UNCHANGED res
    /\ UNCHANGED <<compVars, settingVars, restartRequested, guardVars,
                   listening, counterVars, ctxDone, cancelled, snap, serveVars,
                   reloadVars>>

(* waitForHealthProviders reads c.fw twice, both times without c.mu: a      *)
(* Shutdown between the two leaves a nil framework to take Components() of. *)
RunFwCheck(i) ==
    /\ pc[i] = "fwCheck"
    /\ \/ fwSet /\ Goto(i, "fwList") /\ UNCHANGED res
       \/ ~fwSet /\ Return(i, "waitErr")
    /\ UNCHANGED <<compVars, settingVars, restartRequested, guardVars,
                   listening, counterVars, ctxDone, cancelled, snap, serveVars,
                   reloadVars>>

RunFwList(i) ==
    /\ pc[i] = "fwList"
    /\ \/ fwSet /\ Goto(i, "waiting") /\ UNCHANGED res
       \/ ~fwSet /\ Return(i, "panic")
    /\ UNCHANGED <<compVars, settingVars, restartRequested, guardVars,
                   listening, counterVars, ctxDone, cancelled, snap, serveVars,
                   reloadVars>>

(* A sweep that finds every provider healthy wins over a context that is    *)
(* done; a cancelled wait is a nil return, a timed-out one an error.        *)
RunWaiting(i) ==
    /\ pc[i] = "waiting"
    /\ \/ Goto(i, "listen") /\ UNCHANGED res
       \/ runCtxDone(i) /\ Return(i, "nil")
       \/ Return(i, "waitErr")
    /\ UNCHANGED <<compVars, settingVars, restartRequested, guardVars,
                   listening, counterVars, ctxDone, cancelled, snap, serveVars,
                   reloadVars>>

(* listenAll opens one listener after the other: an address another Run     *)
(* still holds cannot be opened, and any other may fail.                    *)
ListenOpen(i) ==
    /\ pc[i] = "listen"
    /\ \E a \in snap[i] \ lns[i] :
          /\ \A j \in Runs : a \notin lns[j]
          /\ lns' = [lns EXCEPT ![i] = @ \cup {a}]
    /\ UNCHANGED <<compVars, settingVars, restartRequested, guardVars,
                   listening, counterVars, ctxDone, cancelled, runVars,
                   shutting, serve, serveErr, reloadVars>>

VariantKeepListeners(i) == lns[i]
ListenersAfterFailure(i) == {}

ListenFail(i) ==
    /\ pc[i] = "listen"
    /\ snap[i] # lns[i]
    /\ lns' = [lns EXCEPT ![i] = ListenersAfterFailure(i)]
    /\ Return(i, "listenErr")
    /\ UNCHANGED <<compVars, settingVars, restartRequested, guardVars,
                   listening, counterVars, ctxDone, cancelled, snap, shutting,
                   serve, serveErr, reloadVars>>

ListenDone(i) ==
    /\ pc[i] = "listen"
    /\ snap[i] = lns[i]
    /\ \/ /\ runCtxDone(i)
          /\ lns' = [lns EXCEPT ![i] = {}]
          /\ Return(i, "ctxErr")
       \/ /\ ~runCtxDone(i)
          /\ Goto(i, "bound")
          /\ UNCHANGED <<lns, res>>
    /\ UNCHANGED <<compVars, settingVars, restartRequested, guardVars,
                   listening, counterVars, ctxDone, cancelled, snap, shutting,
                   serve, serveErr, reloadVars>>

(* pickBoundAddr: a loopback listener if there is one. *)
BoundAddrs(S) == IF S \cap Loopback # {} THEN S \cap Loopback ELSE S

VariantLateReset(i) ==
    /\ pc[i] = "bound"
    /\ starts' = starts + 1
    /\ boundAddress' \in BoundAddrs(lns[i])
    /\ Goto(i, "announce")
    /\ restartRequested' = FALSE
    /\ UNCHANGED <<compVars, settingVars, running, runCancel, listening,
                   reloads, drainTimeouts, ctxDone, cancelled, snap, res,
                   serveVars, reloadVars>>

RunBound(i) ==
    /\ pc[i] = "bound"
    /\ starts' = starts + 1
    /\ boundAddress' \in BoundAddrs(lns[i])
    /\ Goto(i, "announce")
    /\ UNCHANGED <<compVars, settingVars, restartRequested, running, runCancel,
                   listening, reloads, drainTimeouts, ctxDone, cancelled, snap,
                   res, serveVars, reloadVars>>

(* listening.Store(true), then one Serve goroutine per listener. *)
RunAnnounce(i) ==
    /\ pc[i] = "announce"
    /\ listening' = TRUE
    /\ serve' = [serve EXCEPT ![i] =
                    [a \in Addrs |-> IF a \in lns[i] THEN "spawned" ELSE "none"]]
    /\ Goto(i, "select")
    /\ UNCHANGED <<compVars, settingVars, restartRequested, guardVars,
                   counterVars, ctxDone, cancelled, snap, res, lns, shutting,
                   serveErr, reloadVars>>

-----------------------------------------------------------------------------
(* net/http: the Serve goroutine of listener a, and what closes it.         *)

(* The listeners that remain when every Serve that has begun is told to stop. *)
NotYetServed(i) == {a \in lns[i] : serve[i][a] = "spawned"}

ServeTo(i, a, s) == serve' = [serve EXCEPT ![i][a] = s]

ServeBegin(i, a) ==
    /\ serve[i][a] = "spawned"
    /\ \/ ~shutting[i] /\ ServeTo(i, a, "accepting") /\ UNCHANGED lns
       \/ /\ shutting[i]
          /\ ServeTo(i, a, "sent")
          /\ lns' = [lns EXCEPT ![i] = @ \ {a}]
    /\ UNCHANGED <<compVars, settingVars, restartRequested, guardVars,
                   listening, counterVars, ctxDone, cancelled, runVars,
                   shutting, serveErr, reloadVars>>

ServeClosed(i, a) ==
    /\ serve[i][a] = "accepting"
    /\ shutting[i]
    /\ ServeTo(i, a, "sent")
    /\ UNCHANGED <<compVars, settingVars, restartRequested, guardVars,
                   listening, counterVars, ctxDone, cancelled, runVars, lns,
                   shutting, serveErr, reloadVars>>

(* Accept fails for good: the error goes to errCh, which has room for it. *)
ServeFails(i, a) ==
    /\ serve[i][a] = "accepting"
    /\ ~shutting[i]
    /\ ServeTo(i, a, "sent")
    /\ serveErr' = [serveErr EXCEPT ![i] = @ \cup {a}]
    /\ lns' = [lns EXCEPT ![i] = @ \ {a}]
    /\ UNCHANGED <<compVars, settingVars, restartRequested, guardVars,
                   listening, counterVars, ctxDone, cancelled, runVars,
                   shutting, reloadVars>>

-----------------------------------------------------------------------------
(* Run again: select, the two ways out of it, the deferred function.        *)

SelectServeEnded(i) ==
    /\ pc[i] = "select"
    /\ \E a \in Addrs : serve[i][a] = "sent" /\ ServeTo(i, a, "received")
    /\ Goto(i, "close")
    /\ UNCHANGED <<compVars, settingVars, restartRequested, guardVars,
                   listening, counterVars, ctxDone, cancelled, snap, res, lns,
                   shutting, serveErr, reloadVars>>

VariantReadyInDrain == listening
ListeningInDrain == FALSE

SelectCancelled(i) ==
    /\ pc[i] = "select"
    /\ runCtxDone(i)
    /\ listening' = ListeningInDrain
    /\ Goto(i, "shutdown")
    /\ UNCHANGED <<compVars, settingVars, restartRequested, guardVars,
                   counterVars, ctxDone, cancelled, snap, res, serveVars,
                   reloadVars>>

(* server.Close() on one way, the beginning of server.Shutdown on the other. *)
StopServing(i) ==
    /\ \/ pc[i] = "close" /\ Goto(i, "collectFailed")
       \/ pc[i] = "shutdown" /\ Goto(i, "draining")
    /\ shutting' = [shutting EXCEPT ![i] = TRUE]
    /\ lns' = [lns EXCEPT ![i] = NotYetServed(i)]
    /\ UNCHANGED <<compVars, settingVars, restartRequested, guardVars,
                   listening, counterVars, ctxDone, cancelled, snap, res, serve,
                   serveErr, reloadVars>>

(* server.Shutdown returns: drained, timed out, or failed closing a listener. *)
RunDraining(i) ==
    /\ pc[i] = "draining"
    /\ Goto(i, "collectDrained")
    /\ \/ UNCHANGED <<res, drainTimeouts>>
       \/ /\ res' = [res EXCEPT ![i] = "drainErr"]
          /\ drainTimeouts' \in {drainTimeouts, drainTimeouts + 1}
    /\ UNCHANGED <<compVars, settingVars, restartRequested, guardVars,
                   listening, starts, reloads, ctxDone, cancelled, snap,
                   serveVars, reloadVars>>

(* drainServe: one more value from errCh ... *)
CollectOne(i) ==
    /\ pc[i] \in {"collectFailed", "collectDrained"}
    /\ \E a \in Addrs : serve[i][a] = "sent" /\ ServeTo(i, a, "received")
    /\ UNCHANGED <<compVars, settingVars, restartRequested, guardVars,
                   listening, counterVars, ctxDone, cancelled, runVars, lns,
                   shutting, serveErr, reloadVars>>

(* ... until all have come. *)
VariantCollectedButOne(i) ==
    \E a \in Addrs : \A b \in snap[i] \ {a} : serve[i][b] = "received"
VariantCollectedOneMore(i) == \A a \in Addrs : serve[i][a] = "received"
Collected(i) == \A a \in snap[i] : serve[i][a] = "received"

(* normalizeServerError turns ErrServerClosed into nil. *)
ServeOutcome(i) == IF serveErr[i] # {} THEN "serveErr" ELSE "nil"

CollectedFailed(i) ==
    /\ pc[i] = "collectFailed"
    /\ Collected(i)
    /\ Return(i, ServeOutcome(i))
    /\ UNCHANGED <<compVars, settingVars, restartRequested, guardVars,
                   listening, counterVars, ctxDone, cancelled, snap, serveVars,
                   reloadVars>>

CollectedDrained(i) ==
    /\ pc[i] = "collectDrained"
    /\ Collected(i)
    /\ \/ res[i] = "drainErr" /\ Return(i, "drainErr")
       \/ res[i] # "drainErr" /\ restartRequested /\ Return(i, "restart")
       \/ res[i] # "drainErr" /\ ~restartRequested /\ Return(i, ServeOutcome(i))
    /\ UNCHANGED <<compVars, settingVars, restartRequested, guardVars,
                   listening, counterVars, ctxDone, cancelled, snap, serveVars,
                   reloadVars>>

VariantReleaseEarly(i) ==
    /\ pc[i] = "cleanup"
    /\ cancelled' = cancelled \cup {i}
    /\ listening' = FALSE
    /\ running' = FALSE
    /\ Goto(i, "unlock")
    /\ UNCHANGED <<compVars, settingVars, restartRequested, runCancel,
                   boundAddress, counterVars, ctxDone, snap, res, serveVars,
                   reloadVars>>

(* The deferred function: runCancel() and listening.Store(false) ... *)
RunCleanup(i) ==
    /\ pc[i] = "cleanup"
    /\ cancelled' = cancelled \cup {i}
    /\ listening' = FALSE
    /\ Goto(i, "unlock")
    /\ UNCHANGED <<compVars, settingVars, restartRequested, guardVars,
                   counterVars, ctxDone, snap, res, serveVars, reloadVars>>

(* ... and its critical section, after which another Run may enter. *)
RunUnlock(i) ==
    /\ pc[i] = "unlock"
    /\ running' = FALSE
    /\ runCancel' = None
    /\ boundAddress' = None
    /\ Goto(i, "done")
    /\ UNCHANGED <<compVars, settingVars, restartRequested, listening,
                   counterVars, ctxDone, cancelled, snap, res, serveVars,
                   reloadVars>>

-----------------------------------------------------------------------------
(* OnConfigReload.                                                          *)

(* serverSettingsChanged: an omitted bind never counts as a change. *)
SettingsChanged(c) == c.bind \notin {{}, binds}

(* A reload of another source, of the wrong type, or while not initialized  *)
(* returns early and changes nothing: a stuttering step, with no action.    *)
(* The cancel func is read in the critical section and called after it. *)
ReloadLocked(q, c) ==
    /\ rpc[q] = "idle"
    /\ initialized
    /\ metricsEnabled' = Applied(metricsEnabled, c.metrics, Omitted)
    /\ policy' = Applied(policy, c.policy, Omitted)
    /\ restartRequired' = (restartRequired \/ SettingsChanged(c))
    /\ \/ /\ SettingsChanged(c) /\ policy' = "immediate"
          /\ restartRequested' = TRUE
          /\ captured' = [captured EXCEPT ![q] = runCancel]
          /\ rpc' = [rpc EXCEPT ![q] = "cancel"]
       \/ /\ ~(SettingsChanged(c) /\ policy' = "immediate")
          /\ rpc' = [rpc EXCEPT ![q] = "count"]
          /\ UNCHANGED <<restartRequested, captured>>
    /\ UNCHANGED <<compVars, binds, guardVars, listening, counterVars, ctxDone,
                   cancelled, runVars, serveVars>>

VariantTargetReadLate(q) == {runCancel}
ReloadTarget(q) == {captured[q]}

ReloadCancel(q) ==
    /\ rpc[q] = "cancel"
    /\ cancelled' = cancelled \cup (ReloadTarget(q) \ {None})
    /\ rpc' = [rpc EXCEPT ![q] = "count"]
    /\ UNCHANGED <<compVars, settingVars, restartRequested, guardVars,
                   listening, counterVars, ctxDone, runVars, serveVars, captured>>

ReloadCount(q) ==
    /\ rpc[q] = "count"
    /\ reloads' = reloads + 1
    /\ rpc' = [rpc EXCEPT ![q] = "done"]
    /\ UNCHANGED <<compVars, settingVars, restartRequested, guardVars,
                   listening, starts, drainTimeouts, ctxDone, cancelled,
                   runVars, serveVars, captured>>

-----------------------------------------------------------------------------
(* What Run i does on its own once it has been admitted. *)
RunStep(i) ==
    \/ RunEntered(i) \/ RunFwCheck(i) \/ RunFwList(i) \/ RunWaiting(i)
    \/ ListenOpen(i) \/ ListenFail(i) \/ ListenDone(i)
    \/ RunBound(i) \/ RunAnnounce(i)
    \/ SelectServeEnded(i) \/ SelectCancelled(i) \/ StopServing(i)
    \/ RunDraining(i) \/ CollectOne(i) \/ CollectedFailed(i)
    \/ CollectedDrained(i) \/ RunCleanup(i) \/ RunUnlock(i)

Next ==
    \/ InitServer \/ SetHandler \/ Shutdown
    \/ \E i \in Runs : CancelCaller(i) \/ RunRefused(i) \/ RunEnter(i) \/ RunStep(i)
    \/ \E i \in Runs, a \in Addrs :
            ServeBegin(i, a) \/ ServeClosed(i, a) \/ ServeFails(i, a)
    \/ \E q \in Reloads : ReloadCancel(q) \/ ReloadCount(q)
    \/ \E q \in Reloads, c \in Configs : ReloadLocked(q, c)

Spec == Init /\ [][Next]_vars

(* The Go scheduler runs every goroutine that can go on; the timers of the  *)
(* health wait and of Shutdown end those two waits.  Nothing obliges a      *)
(* caller to call, to cancel, or a listener to fail.                        *)
Fairness ==
    /\ \A i \in Runs : WF_vars(RunStep(i))
    /\ \A i \in Runs, a \in Addrs : WF_vars(ServeBegin(i, a) \/ ServeClosed(i, a))
    /\ \A q \in Reloads : WF_vars(ReloadCancel(q) \/ ReloadCount(q))

FairSpec == Spec /\ Fairness

-----------------------------------------------------------------------------
(* Properties.                                                              *)

InBody(i) == pc[i] \notin {"idle", "done"}

(* However many goroutines call Run, whatever reloads, Shutdown and Init do *)
(* meanwhile, at most one call is past the "Run already active" guard.      *)
OneRunAtATime ==
    \A i, j \in Runs : InBody(i) /\ InBody(j) => i = j

(* c.runCancel is the cancel func of the Run in progress from its admission *)
(* to its last critical section: the Run before it, still in its deferred   *)
(* function, can neither clear it nor clear the running flag under it.      *)
CancelIsPublished ==
    \A i \in Runs : InBody(i) => running /\ runCancel = i

(* However Run returns (refused binds, a failed or cancelled start, a Serve *)
(* failure, a drain that timed out) its listeners are closed and its Serve  *)
(* goroutines have ended before the deferred function runs.                 *)
NothingLeaks ==
    \A i \in Runs : pc[i] \in {"cleanup", "unlock", "done"} =>
        /\ lns[i] = {}
        /\ \A a \in Addrs : serve[i][a] \in {"none", "received"}

(* /readyz: a Run that serves is announced, whatever the deferred function  *)
(* of an earlier Run does; nothing is announced before the listeners are    *)
(* bound, nor from the moment a drain begins.                               *)
ReadyExactlyWhileServing ==
    /\ \A i \in Runs : pc[i] = "select" => listening
    /\ listening => \E i \in Runs :
            pc[i] \in {"select", "close", "collectFailed", "cleanup"}

(* An immediate reload that found Run i active is still on record when Run  *)
(* i decides what to return: the reset at the start of Run cannot lose it.  *)
RequestSurvives ==
    \A q \in Reloads, i \in Runs :
        captured[q] = i /\ InBody(i) => restartRequested

(* Run answers ErrServerRestartRequired only to a reload of its own time,   *)
(* never to one that an earlier Run, or none, was active for.               *)
RestartOnlyWhenRequested ==
    \A i \in Runs : res[i] = "restart" => \E q \in Reloads : captured[q] = i

(* OnConfigReload calls the cancel func after it has unlocked: by then      *)
(* another Run may have begun, and it is not the one that is cancelled.     *)
OnlyTheCapturedRunIsCancelled ==
    \A i \in cancelled :
        pc[i] \in {"unlock", "done"} \/ \E q \in Reloads : captured[q] = i

(* Run returns once its context is done or one of its listeners has failed: *)
(* neither the drain nor the collection of the Serve results waits forever. *)
RunReturns ==
    \A i \in Runs :
        InBody(i) /\ (i \in ctxDone \/ serveErr[i] # {}) ~> pc[i] = "done"

(* An immediate reload ends the Run it found active. *)
ImmediateReloadEndsRun ==
    \A q \in Reloads, i \in Runs : captured[q] = i ~> pc[i] = "done"

-----------------------------------------------------------------------------
(* What ServerLifecycleProofs adds to make the properties above inductive.  *)

(* c.runCancel belongs to a Run that is still past the guard. *)
CancelOfABody == runCancel # None => runCancel \in Runs /\ InBody(runCancel)

Starting == {"idle", "entered", "fwCheck", "fwList", "waiting"}
Unserved == Starting \cup {"listen", "bound", "announce"}
Ended == {"cleanup", "unlock", "done"}

(* Which Serve goroutine stands for which listener while Run is where.      *)
ServeTracksListeners ==
    \A i \in Runs :
        /\ lns[i] \subseteq snap[i]
        /\ pc[i] \in Starting => lns[i] = {}
        /\ pc[i] \in {"bound", "announce"} => lns[i] = snap[i]
        /\ pc[i] \in Unserved => \A a \in Addrs : serve[i][a] = "none"
        /\ pc[i] \notin Unserved \cup Ended =>
                \A a \in Addrs : serve[i][a] = "none" <=> a \notin snap[i]
        /\ \A a \in Addrs :
             \/ serve[i][a] \in {"sent", "received"}
             \/ serve[i][a] = "accepting" /\ shutting[i]
             => a \notin lns[i]

(* A request on record while a Run is active was made of that Run.          *)
RequestHasReload ==
    /\ \A i \in Runs :
         /\ restartRequested /\ InBody(i) => \E q \in Reloads : captured[q] = i
         /\ pc[i] = "idle" => \A q \in Reloads : captured[q] # i
    /\ \A q \in Reloads : rpc[q] = "idle" => captured[q] = None

-----------------------------------------------------------------------------
(* What the repository says, and the code does not do.                      *)

(* "restartRequested makes Run return ErrServerRestartRequired after it     *)
(* drains, so the process exits and a fresh instance rebinds": a Run that   *)
(* nothing but an immediate reload has ended returns that error.            *)
ImmediateReloadRestarts ==
    \A q \in Reloads, i \in Runs :
        /\ captured[q] = i /\ pc[i] = "done"
        /\ i \notin ctxDone /\ res[i] \in {"nil", "ctxErr", "restart"}
        => res[i] = "restart"

(* "healthy only while initialized, a handler is set, and Run has a live    *)
(* listener": not when Run has closed its own http.Server after a Serve     *)
(* failure and has no listener left.                                        *)
HealthyHasLiveListener ==
    \A i \in Runs : Healthy /\ InBody(i) /\ shutting[i] => lns[i] # {}
=============================================================================
