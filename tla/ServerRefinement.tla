--------------------------- MODULE ServerRefinement ---------------------------
(* ServerLifecycle implements ServingPromise: the refinement mapping. *)
EXTENDS ServerLifecycle

(* The addresses of the Run that holds the server; {} between two Runs. *)
OfHolder(f) == UNION {f[i] : i \in {j \in Runs : InBody(j)}}

(* What a reader of Health may have seen so far of the Run in progress. *)
PhaseOfReady ==
    CASE listening -> "announced"
      [] ~listening /\ (\E i \in Runs :
            \/ pc[i] \in {"shutdown", "draining", "collectDrained", "unlock"}
            \/ pc[i] = "cleanup" /\ shutting[i]) -> "withdrawn"
      [] OTHER -> "not yet"

Promise == INSTANCE ServingPromise WITH
    holder <- runCancel,
    ended <- {i \in Runs : pc[i] = "done"},
    wanted <- OfHolder(snap),
    ports <- UNION {lns[i] : i \in Runs},
    ready <- PhaseOfReady

(* Every step of every goroutine is a step of the promise or leaves what it *)
(* speaks of alone: no interleaving of Run, reloads, Serve goroutines,      *)
(* Init and Shutdown announces an unbound server, serves for two Runs or    *)
(* returns from Run with an address still open.                             *)
ImplementsPromise == Promise!PromiseSpec
=============================================================================
