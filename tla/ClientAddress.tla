---------------------------- MODULE ClientAddress ----------------------------
(****************************************************************************)
(* How a request's client address travels (clientip.go): from the client,   *)
(* perhaps over the mesh's ingress and further proxies, to a process that   *)
(* resolves it, which makes a request of its own to the next process and    *)
(* copies the address onto it.  The ingress and the proxies are not this    *)
(* repository's; what they do is as TrustedIngressClientIP describes them.  *)
(*                                                                          *)
(* Addresses are values: Addrs what net.ParseIP accepts, Junk what it does  *)
(* not, None an absent header.  Ports and white space, which clientHost     *)
(* strips, and the split of X-Forwarded-For over header lines are left out. *)
(*                                                                          *)
(* Bounds.  MaxSent bounds the chain that the client itself sends, MaxHops  *)
(* how many proxies and processes the request passes.                       *)
(****************************************************************************)
EXTENDS Naturals, Sequences

CONSTANTS
    Addrs, Trusted,      \* clientTrustedProxy: loopback, private, link-local
    Gateways,            \* the ingress
    Inside,              \* the processes and proxies behind it
    Junk, None,
    MaxSent, MaxHops

ASSUME AddressAssumption ==
    /\ Trusted \subseteq Addrs
    /\ Gateways \subseteq Trusted /\ Inside \subseteq Trusted
    /\ Junk \notin Addrs /\ None \notin Addrs
    /\ MaxSent \in Nat /\ MaxHops \in Nat

VARIABLES
    origin,      \* the client
    ingress,     \* how it came: "direct", or over one of two kinds of ingress
    place,       \* who has the request: the client, a proxy or a process
    req,         \* the request as it is on the wire or at the process
    hops,
    came         \* history: everybody the request has come from

vars == <<origin, ingress, place, req, hops, came>>

Requests == [peer : Addrs, envoy : Addrs \cup {Junk, None}, xff : Seq(Addrs \cup {Junk})]
Sent == UNION {[1..n -> Addrs \cup {Junk}] : n \in 0..MaxSent}

TypeOK ==
    /\ origin \in Addrs
    /\ ingress \in {"none", "direct", "deciding", "appending"}
    /\ place \in {"client", "proxy", "process"}
    /\ req \in Requests
    /\ hops \in 0..MaxHops
    /\ came \subseteq Addrs

(* The client sets the headers as it likes. *)
Init ==
    /\ origin \in Addrs \ (Gateways \cup Inside)
    /\ ingress = "none" /\ place = "client" /\ hops = 0
    /\ \E e \in Addrs \cup {Junk, None}, x \in Sent :
         req = [peer |-> origin, envoy |-> e, xff |-> x]
    /\ came = {origin}

-----------------------------------------------------------------------------
(* The functions of clientip.go.                                            *)

clientTrustedProxy(a) == a \in Trusted

(* "" is None. *)
clientEnvoyExternal(r) == IF r.envoy \in Addrs THEN r.envoy ELSE None

Parsed(x) == {i \in DOMAIN x : x[i] \in Addrs}
Untrusted(x) == {i \in Parsed(x) : ~clientTrustedProxy(x[i])}
First(S) == CHOOSE i \in S : \A j \in S : i <= j
Last(S) == CHOOSE i \in S : \A j \in S : j <= i

clientFromForwarded(x) ==
    IF Parsed(x) = {} THEN None
    ELSE IF Untrusted(x) # {} THEN x[Last(Untrusted(x))]
    ELSE x[First(Parsed(x))]

VariantAnyPeer(r) ==
    IF clientEnvoyExternal(r) # None THEN clientEnvoyExternal(r)
    ELSE IF clientFromForwarded(r.xff) # None THEN clientFromForwarded(r.xff)
    ELSE r.peer
TrustedIngressClientIP(r) ==
    IF ~clientTrustedProxy(r.peer) THEN r.peer
    ELSE IF clientEnvoyExternal(r) # None THEN clientEnvoyExternal(r)
    ELSE IF clientFromForwarded(r.xff) # None THEN clientFromForwarded(r.xff)
    ELSE r.peer

VariantEnvoyAlone(r) == clientEnvoyExternal(r)
ForwardedClientIP(r) ==
    IF TrustedIngressClientIP(r) = r.peer THEN None ELSE TrustedIngressClientIP(r)

SetForwardedClientIP(r, ip) ==
    IF ip \in Addrs THEN [r EXCEPT !.envoy = ip, !.xff = <<ip>>] ELSE r

-----------------------------------------------------------------------------
(* The way.                                                                 *)

Direct ==
    /\ place = "client"
    /\ ingress' = "direct" /\ place' = "process"
    /\ UNCHANGED <<origin, req, hops, came>>

(* An ingress appends its peer to the chain, and either writes the address  *)
(* it decided on or, an ordinary proxy, drops the header.                   *)
Ingress(g) ==
    /\ place = "client"
    /\ place' = "proxy"
    /\ \/ ingress' = "deciding"
          /\ req' = [peer |-> g, envoy |-> origin, xff |-> Append(req.xff, origin)]
       \/ ingress' = "appending"
          /\ req' = [peer |-> g, envoy |-> None, xff |-> Append(req.xff, origin)]
    /\ came' = came \cup {g}
    /\ UNCHANGED <<origin, hops>>

(* A proxy behind the ingress. *)
Proxy(p) ==
    /\ place = "proxy" /\ hops < MaxHops
    /\ req' = [req EXCEPT !.peer = p, !.xff = Append(@, req.peer)]
    /\ hops' = hops + 1
    /\ came' = came \cup {p}
    /\ UNCHANGED <<origin, ingress, place>>

Deliver ==
    /\ place = "proxy"
    /\ place' = "process"
    /\ UNCHANGED <<origin, ingress, req, hops, came>>

(* A process calls another, and copies the address as ForwardedClientIP and *)
(* SetForwardedClientIP are meant for.                                      *)
Call(p) ==
    /\ place = "process" /\ hops < MaxHops
    /\ req' = SetForwardedClientIP([peer |-> p, envoy |-> None, xff |-> <<>>],
                                   ForwardedClientIP(req))
    /\ hops' = hops + 1
    /\ came' = came \cup {p}
    /\ place' \in {"proxy", "process"}
    /\ UNCHANGED <<origin, ingress>>

Next ==
    \/ Direct \/ Deliver
    \/ \E g \in Gateways : Ingress(g)
    \/ \E p \in Inside : Proxy(p) \/ Call(p)

Spec == Init /\ [][Next]_vars

-----------------------------------------------------------------------------
(* Properties.                                                              *)

Public == origin \notin Trusted

(* Whatever a public client has put into the headers, every process that    *)
(* its request leads to resolves the client's own address, over any number  *)
(* of proxies and calls (clientip.go:24-42): the first process of a direct  *)
(* connection, and all of them behind an ingress.                           *)
ClientIsSeen ==
    place = "process" /\ Public /\ (ingress # "direct" \/ hops = 0)
        => TrustedIngressClientIP(req) = origin

(* A process never takes for the client an address that the request did not *)
(* come from, if the client is a public one or the ingress decides: not of  *)
(* its own headers, and not of a later hop of a direct connection either.   *)
OnlyTravellersAreSeen ==
    place = "process" /\ (Public \/ ingress = "deciding")
        => TrustedIngressClientIP(req) \in came

-----------------------------------------------------------------------------
(* What the repository says, and the code does not do.                      *)

(* README.md:278-279: "X-Envoy-External-Address, else RemoteAddr".          *)
EnvoyElsePeer ==
    place = "process" => TrustedIngressClientIP(req) \in {req.envoy, req.peer}
=============================================================================
