--------------------------- MODULE MCOperationPeek ---------------------------
(* Instances of OperationPeek for TLC. *)
EXTENDS OperationPeek

TwoNames == {"GetUser", "Login"}
Key(k) == [key |-> k, value |-> ""]
Member(k, v) == [key |-> k, value |-> v]

(* Nothing, something that is no object, and objects of up to three members *)
(* with names in both places, twice, empty, early and late.                 *)
Members == {Key("query"), Key("fill"), Member("name", "GetUser"), Member("name", "Login"),
            Member("name", ""), Member("inner", "Login")}
SomeBodies ==
    {<<>>, <<Member("name", "Login"), Key("query")>>}
    \cup {<<Key("{")>> \o ms : ms \in UNION {[1..n -> Members] : n \in 0..3}}

(* Off, an allowlist, an allowlist with the other bucket, and everything;   *)
(* with no window, the whole body, and two windows.                         *)
SomeConfigs ==
    {[window |-> w, allowed |-> t[1], trackOther |-> t[2], trackAll |-> t[3]] :
        w \in {None, 0, 1, 3},
        t \in {<<{}, FALSE, FALSE>>, <<{"GetUser"}, FALSE, FALSE>>,
               <<{"GetUser", "anonymous"}, TRUE, FALSE>>, <<{}, FALSE, TRUE>>}}
=============================================================================
