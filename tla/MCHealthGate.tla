----------------------------- MODULE MCHealthGate -----------------------------
(* Instances of HealthGate for TLC. *)
EXTENDS HealthGate

(* One server asks the other first, one last, with a store between them and *)
(* a cache behind them.                                                     *)
TwoServersAndStores == <<"public", "store", "admin", "cache">>
TwoServers == {"public", "admin"}
=============================================================================
