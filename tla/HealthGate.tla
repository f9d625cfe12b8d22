------------------------------ MODULE HealthGate ------------------------------
(****************************************************************************)
(* Several components of one framework, some of them servers that do not    *)
(* bind before all the others are healthy (WithWaitForHealth): the loop of  *)
(* waitForHealthProviders, one provider per step, against providers that    *)
(* change between two steps.  What surrounds the wait in Run is kept to the *)
(* points at which a server's Health changes; ServerLifecycle has the rest, *)
(* and takes the outcome of this wait as given.                             *)
(*                                                                          *)
(* A provider answers at one moment.  One that hangs until its check times  *)
(* out (perCheckTimeout) answers as one that is not healthy.                *)
(****************************************************************************)
EXTENDS Naturals, Sequences, Functions

CONSTANTS
    Components,   \* fw.Components(): the health providers, in their order
    Servers       \* those that are a Server

ASSUME HealthGateAssumption ==
    /\ Components \in Seq(Range(Components)) /\ IsInjective(Components)
    /\ Servers \subseteq Range(Components)

Others == Range(Components) \ Servers
Providers(s) == Range(Components) \ {s}

VARIABLES
    gated,          \* the servers with a positive waitForHealth, since New
    pc,             \* where Run of each server is
    next,           \* the component that the loop looks at next
    lastFailures,   \* the providers that failed in the round
    waitErr,        \* waitCtx.Err(): why waitCtx of each server is done
    cancelled,      \* the servers whose runCtx is done
    err,            \* what the wait returned
    up,             \* the other components that are healthy
    sound,          \* history: the providers that last answered s with nil
    opened          \* history: the servers that have been listening

gateVars == <<gated, next, lastFailures, sound>>
vars == <<pc, gateVars, waitErr, cancelled, err, up, opened>>

Waiting == {"check", "verdict", "pause"}

TypeOK ==
    /\ gated \subseteq Servers
    /\ pc \in [Servers -> Waiting \cup {"idle", "bind", "listening", "over"}]
    /\ next \in [Servers -> 1..(Len(Components) + 1)]
    /\ {lastFailures, sound} \subseteq [Servers -> SUBSET Range(Components)]
    /\ err \in [Servers -> {"none", "nil", "canceled", "unhealthy", "ended"}]
    /\ waitErr \in [Servers -> {"none", "canceled", "deadline"}]
    /\ {cancelled, opened} \subseteq SUBSET Servers
    /\ up \subseteq Others

Init ==
    /\ gated \in SUBSET Servers
    /\ pc = [s \in Servers |-> "idle"]
    /\ next = [s \in Servers |-> 1]
    /\ lastFailures = [s \in Servers |-> {}]
    /\ sound = [s \in Servers |-> {}]
    /\ err = [s \in Servers |-> "none"]
    /\ waitErr = [s \in Servers |-> "none"]
    /\ cancelled = {} /\ opened = {}
    /\ up \in SUBSET Others

-----------------------------------------------------------------------------
Goto(s, l) == pc' = [pc EXCEPT ![s] = l]

VariantOnlyCancelEnds(s) == waitErr[s] = "canceled"
Ended(s) == waitErr[s] # "none"

(* Health of c, asked by s under a context of s: a server answers with the  *)
(* context's error if there is one, any other component may.                *)
Answers(s, c) ==
    IF c \in Servers THEN {pc[c] = "listening" /\ ~Ended(s)}
                     ELSE {c \in up} \cup {x \in {FALSE} : Ended(s)}

VariantSkipsServers(s, c) == c \in Servers
Skipped(s, c) == c = s

VariantKeepsFailures(s) == lastFailures[s]
FailuresAtStart(s) == {}

(* The loop begins, or the server does not wait at all.  Run looks at its   *)
(* caller's context first, not at a cancel that came from a reload.         *)
Begin(s) ==
    /\ pc[s] = "idle"
    /\ \/ Goto(s, IF s \in gated /\ Providers(s) # {} THEN "check" ELSE "bind")
       \/ s \in cancelled /\ Goto(s, "over")
    /\ UNCHANGED <<gateVars, waitErr, cancelled, err, up, opened>>

(* One provider of the round. *)
Check(s) ==
    /\ pc[s] = "check"
    /\ next[s] <= Len(Components)
    /\ next' = [next EXCEPT ![s] = @ + 1]
    /\ LET c == Components[next[s]] IN
       \/ Skipped(s, c) /\ UNCHANGED <<lastFailures, sound>>
       \/ /\ ~Skipped(s, c)
          /\ \E healthy \in Answers(s, c) :
                /\ lastFailures' =
                      [lastFailures EXCEPT ![s] = IF healthy THEN @ ELSE @ \cup {c}]
                /\ sound' = [sound EXCEPT ![s] = IF healthy THEN @ \cup {c} ELSE @ \ {c}]
    /\ UNCHANGED <<gated, pc, waitErr, cancelled, err, up, opened>>

(* After the last one. *)
EndRound(s) ==
    /\ pc[s] = "check"
    /\ next[s] > Len(Components)
    /\ Goto(s, "verdict")
    /\ UNCHANGED <<gateVars, waitErr, cancelled, err, up, opened>>

Return(s, e) ==
    /\ err' = [err EXCEPT ![s] = e]
    /\ Goto(s, IF e = "nil" THEN "bind" ELSE "over")

VariantOneHealthy(s) == lastFailures[s] # Providers(s)
AllHealthy(s) == lastFailures[s] = {}

(* A round without a failure wins over a context that is done by now. *)
Verdict(s) ==
    /\ pc[s] = "verdict"
    /\ \/ AllHealthy(s) /\ Return(s, "nil")
       \/ /\ ~AllHealthy(s) /\ Ended(s)
          /\ Return(s, IF waitErr[s] = "canceled" THEN "canceled" ELSE "unhealthy")
       \/ ~AllHealthy(s) /\ ~Ended(s) /\ Goto(s, "pause") /\ UNCHANGED err
    /\ UNCHANGED <<gateVars, waitErr, cancelled, up, opened>>

(* The select: another round at the next tick, or the end of the wait.      *)
Tick(s) ==
    /\ pc[s] = "pause"
    /\ Goto(s, "check")
    /\ next' = [next EXCEPT ![s] = 1]
    /\ lastFailures' = [lastFailures EXCEPT ![s] = FailuresAtStart(s)]
    /\ UNCHANGED <<gated, sound, waitErr, cancelled, err, up, opened>>

WaitDone(s) ==
    /\ pc[s] = "pause"
    /\ Ended(s)
    /\ Return(s, IF waitErr[s] = "canceled" THEN "canceled" ELSE "ended")
    /\ UNCHANGED <<gateVars, waitErr, cancelled, up, opened>>

(* listenAll, and listening.Store(true) if it did and runCtx goes on.       *)
Bind(s) ==
    /\ pc[s] = "bind"
    /\ \/ /\ s \notin cancelled
          /\ Goto(s, "listening")
          /\ opened' = opened \cup {s}
       \/ Goto(s, "over") /\ UNCHANGED opened
    /\ UNCHANGED <<gateVars, waitErr, cancelled, err, up>>

(* The drain of a cancelled Run begins, or a listener fails. *)
Close(s) ==
    /\ pc[s] = "listening"
    /\ Goto(s, "over")
    /\ UNCHANGED <<gateVars, waitErr, cancelled, err, up, opened>>

(* The surroundings: the deadline, the caller of Run, the other components. *)
Expire(s) ==
    /\ pc[s] \in Waiting
    /\ waitErr[s] = "none"
    /\ waitErr' = [waitErr EXCEPT ![s] = "deadline"]
    /\ UNCHANGED <<pc, gateVars, cancelled, err, up, opened>>

(* The first of the two is the error of waitCtx. *)
Cancel(s) ==
    /\ s \notin cancelled
    /\ cancelled' = cancelled \cup {s}
    /\ waitErr' = [waitErr EXCEPT ![s] = IF @ = "none" THEN "canceled" ELSE @]
    /\ UNCHANGED <<pc, gateVars, err, up, opened>>

Flap(c) ==
    /\ up' \in {up \cup {c}, up \ {c}} \ {up}
    /\ UNCHANGED <<pc, gateVars, waitErr, cancelled, err, opened>>

WaitStep(s) == Check(s) \/ EndRound(s) \/ Verdict(s) \/ Tick(s) \/ WaitDone(s)

Next ==
    \/ \E s \in Servers :
          Begin(s) \/ WaitStep(s) \/ Bind(s) \/ Close(s) \/ Expire(s) \/ Cancel(s)
    \/ \E c \in Others : Flap(c)

Spec == Init /\ [][Next]_vars

(* The goroutine of a Run goes on; neither a deadline nor a cancel, nor any *)
(* provider's recovery, has to happen.                                      *)
FairSpec == Spec /\ \A s \in Servers : WF_vars(Begin(s)) /\ WF_vars(WaitStep(s))

-----------------------------------------------------------------------------
(* Properties.                                                              *)

(* server.go:490: a server that waits binds after all the others are bound, *)
(* and every server but itself counts.  Of two that wait for each other     *)
(* none ever binds: only their deadlines end it.                            *)
GatedOpensLast ==
    \A s \in opened \cap gated : Servers \subseteq opened

(* What the wait returns is what its last round saw: nil after an answer    *)
(* without error from each provider, or the names of exactly those that     *)
(* failed, at least one (server.go:519-540).                                *)
VerdictFitsRound ==
    \A s \in gated :
        /\ err[s] = "nil" => sound[s] = Providers(s)
        /\ err[s] = "unhealthy" =>
                /\ lastFailures[s] # {}
                /\ lastFailures[s] = Providers(s) \ sound[s]

(* The deadline or a cancel ends the wait, whatever the providers answer.   *)
WaitEnds ==
    \A s \in Servers : waitErr[s] # "none" ~> pc[s] \notin Waiting

(* A provider that failed once, or a hundred times, does not hold a server  *)
(* back: once all are healthy to stay, the wait is over.                    *)
HealthyGateOpens ==
    \A s \in Servers :
        <>[](\A c \in Providers(s) : Answers(s, c) = {TRUE}) => <>[](pc[s] \notin Waiting)

-----------------------------------------------------------------------------
(* docs/wiring-and-health.md:131-132: it "delays binding [...] until all    *)
(* other framework HealthProviders are healthy".  A provider that answered  *)
(* early in the round may have failed since.                                *)
BindSeesAllHealthy ==
    \A s \in gated : pc[s] = "bind" => \A c \in Providers(s) : TRUE \in Answers(s, c)
=============================================================================
