---------------------------- MODULE ServingPromise ----------------------------
(****************************************************************************)
(* What cf_http.Server promises to whoever calls Run, reads /readyz or      *)
(* connects to its addresses, without the locks, contexts and goroutines    *)
(* that keep the promise.                                                   *)
(*                                                                          *)
(* One Run at a time holds the server.  It opens its addresses, announces   *)
(* itself only with all of them open, may lose them, and withdraws the      *)
(* announcement for good.  It gives the server back withdrawn, with every   *)
(* address closed, and once.                                                *)
(****************************************************************************)
CONSTANTS Runs, Addrs, None

VARIABLES holder,    \* the Run that has the server, or None
          ended,     \* the Runs that have returned
          wanted,    \* the addresses the holder is to serve
          ports,     \* those that are open
          ready      \* "not yet", "announced", "withdrawn"

promiseVars == <<holder, ended, wanted, ports, ready>>

PromiseInit ==
    /\ holder = None /\ ended = {}
    /\ wanted = {} /\ ports = {} /\ ready = "not yet"

(* A Run is admitted, with the addresses that are configured at that time. *)
Admit(i) ==
    /\ holder = None
    /\ i \notin ended
    /\ holder' = i
    /\ wanted' \in SUBSET Addrs
    /\ UNCHANGED <<ended, ports, ready>>

(* A call that finds the server held, or not set up, returns at once. *)
Refuse(i) ==
    /\ i # holder
    /\ i \notin ended
    /\ ended' = ended \cup {i}
    /\ UNCHANGED <<holder, wanted, ports, ready>>

Open ==
    /\ ready = "not yet"
    /\ \E a \in wanted \ ports : ports' = ports \cup {a}
    /\ UNCHANGED <<holder, ended, wanted, ready>>

CloseSome ==
    /\ ports' \in (SUBSET ports) \ {ports}
    /\ UNCHANGED <<holder, ended, wanted, ready>>

Announce ==
    /\ holder # None
    /\ ready = "not yet"
    /\ ports = wanted /\ wanted # {}
    /\ ready' = "announced"
    /\ UNCHANGED <<holder, ended, wanted, ports>>

Withdraw ==
    /\ holder # None
    /\ ready' = "withdrawn"
    /\ UNCHANGED <<holder, ended, wanted, ports>>

GiveBack ==
    /\ holder # None
    /\ ready = "withdrawn"
    /\ ports = {}
    /\ ended' = ended \cup {holder}
    /\ holder' = None /\ wanted' = {} /\ ready' = "not yet"
    /\ UNCHANGED ports

PromiseNext ==
    \/ \E i \in Runs : Admit(i) \/ Refuse(i)
    \/ Open \/ CloseSome \/ Announce \/ Withdraw \/ GiveBack

PromiseSpec == PromiseInit /\ [][PromiseNext]_promiseVars
=============================================================================
