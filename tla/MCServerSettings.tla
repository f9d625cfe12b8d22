--------------------------- MODULE MCServerSettings ---------------------------
(* Instances of ServerSettings for TLC. *)
EXTENDS ServerSettings

(* One exact field that only a file gives, one timeout that may be zero and *)
(* one that may not.                                                        *)
ThreeFields == {"bind", "read_timeout", "shutdown_timeout"}
Timeouts == {"read_timeout", "shutdown_timeout"}
Shutdowns == {"shutdown_timeout"}
ThreeDefaults == [x \in ThreeFields |-> IF x = "bind" THEN None ELSE 1]
(* 1 truncates to zero, 2 and 3 are the same Duration, 4 overflows and is   *)
(* accepted, 5 is not.                                                      *)
FiveValues == 1..5
Least == -2
=============================================================================
