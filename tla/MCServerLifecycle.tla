-------------------------- MODULE MCServerLifecycle --------------------------
(* Instances of ServerLifecycle for TLC. *)
EXTENDS ServerRefinement, TLC

CONSTANTS r1, r2, q1, a1, a2

(* Two bind lists, so that a reload of the one that is not active changes   *)
(* the settings; both policies; a live metrics switch.                      *)
SmallConfigs ==
    { [bind |-> {a1}, metrics |-> Omitted, policy |-> "immediate"],
      [bind |-> {a1, a2}, metrics |-> "off", policy |-> Omitted] }

(* Every reload that changes the binds is an immediate one. *)
ImmediateConfigs ==
    { [bind |-> {a1}, metrics |-> Omitted, policy |-> "immediate"],
      [bind |-> {a1, a2}, metrics |-> Omitted, policy |-> "immediate"] }

RunSymmetry == Permutations(Runs)
=============================================================================
