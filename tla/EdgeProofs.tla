----------------------------- MODULE EdgeProofs -----------------------------
(****************************************************************************)
(* What is proved of the parts that keep nothing, and look at one request,  *)
(* one value of the configuration or one answer by itself: that every       *)
(* process resolves the real client, for any addresses, headers and number  *)
(* of hops; that CSRF tokens fit their cookies, for any number of tabs; and *)
(* promises of BindList, CorsHeaders and ProblemValues for any input.       *)
(****************************************************************************)
EXTENDS ClientAddress, CsrfTokens, WellFoundedInduction, TLAPS

Binds == INSTANCE BindList
Cors == INSTANCE CorsHeaders
Problems == INSTANCE ProblemValues

-----------------------------------------------------------------------------
(* Client addresses.  The lemmas say what the functions of clientip.go      *)
(* return on a chain that ends in trusted proxies after the client.         *)

(* The chain has a at some place, and only trusted proxies after it. *)
EndsAfter(x, a) ==
    \E i \in DOMAIN x : x[i] = a /\ \A j \in DOMAIN x : j > i => x[j] \in Trusted

(* Walking from the right ends at the client, whatever is on its left.      *)
LEMMA ForwardedIsClient ==
    ASSUME NEW x \in Seq(Addrs \cup {Junk}), NEW a \in Addrs \ Trusted,
           EndsAfter(x, a)
    PROVE  clientFromForwarded(x) = a
<1>1. PICK i \in DOMAIN x : /\ x[i] = a
                            /\ \A j \in DOMAIN x : j > i => x[j] \in Trusted
  BY DEF EndsAfter
<1>2. i \in Untrusted(x) /\ Untrusted(x) \subseteq DOMAIN x /\ DOMAIN x \subseteq Nat
  BY <1>1 DEF Untrusted, Parsed, clientTrustedProxy
<1>3. \A j \in Untrusted(x) : j <= i
  BY <1>1, <1>2 DEF Untrusted, clientTrustedProxy
<1>4. Last(Untrusted(x)) = i
  <2>1. \A k \in Untrusted(x) : (\A j \in Untrusted(x) : j <= k) => k = i
    BY <1>2, <1>3
  <2> QED
    BY <1>2, <1>3, <2>1 DEF Last
<1> QED
  BY <1>1, <1>2, <1>4 DEF clientFromForwarded, Untrusted

(* An appended trusted proxy is passed over. *)
LEMMA AppendedProxy ==
    ASSUME NEW x \in Seq(Addrs \cup {Junk}), NEW a, NEW p \in Trusted,
           EndsAfter(x, a)
    PROVE  EndsAfter(Append(x, p), a)
<1>1. PICK i \in DOMAIN x : /\ x[i] = a
                            /\ \A j \in DOMAIN x : j > i => x[j] \in Trusted
  BY DEF EndsAfter
<1>2. /\ DOMAIN Append(x, p) = 1..(Len(x) + 1)
      /\ \A j \in DOMAIN x : Append(x, p)[j] = x[j]
      /\ Append(x, p)[Len(x) + 1] = p
  OBVIOUS
<1>3. \A j \in DOMAIN Append(x, p) : j \in DOMAIN x \/ j = Len(x) + 1
  BY <1>2
<1> QED
  BY <1>1, <1>2, <1>3 DEF EndsAfter

(* Every value stays of its type. *)
THEOREM TypeCorrect == Spec => []TypeOK
<1> USE AddressAssumption
<1>1. Init => TypeOK
  BY DEF Init, TypeOK, Requests, Sent
<1>2. TypeOK /\ [Next]_vars => TypeOK'
  <2> SUFFICES ASSUME TypeOK, [Next]_vars
               PROVE  TypeOK'
    OBVIOUS
  <2> USE DEF TypeOK, Requests
  <2>1. CASE Direct
    BY <2>1 DEF Direct
  <2>2. CASE Deliver
    BY <2>2 DEF Deliver
  <2>3. ASSUME NEW g \in Gateways, Ingress(g) PROVE TypeOK'
    BY <2>3 DEF Ingress
  <2>4. ASSUME NEW p \in Inside, Proxy(p) PROVE TypeOK'
    <3>1. Append(req.xff, req.peer) \in Seq(Addrs \cup {Junk})
      OBVIOUS
    <3>2. req' = [req EXCEPT !.peer = p, !.xff = Append(req.xff, req.peer)]
      BY <2>4 DEF Proxy
    <3>3. req' \in Requests
      BY <3>1, <3>2
    <3> QED
      BY <2>4, <3>3 DEF Proxy
  <2>5. ASSUME NEW p \in Inside, Call(p) PROVE TypeOK'
    <3>1. req' \in Requests
      <4> DEFINE bare == [peer |-> p, envoy |-> None, xff |-> <<>>]
                 ip == ForwardedClientIP(req)
      <4>1. bare \in Requests
        OBVIOUS
      <4>2. CASE ip \in Addrs
        <5>1. <<ip>> \in Seq(Addrs \cup {Junk})
          BY <4>2
        <5>2. req' = [bare EXCEPT !.envoy = ip, !.xff = <<ip>>]
          BY <2>5, <4>2 DEF Call, SetForwardedClientIP
        <5> QED
          BY <4>1, <4>2, <5>1, <5>2
      <4>3. CASE ip \notin Addrs
        BY <2>5, <4>1, <4>3 DEF Call, SetForwardedClientIP
      <4> QED
        BY <4>2, <4>3
    <3> QED
      BY <2>5, <3>1 DEF Call
  <2>6. CASE UNCHANGED vars
    BY <2>6 DEF vars
  <2> QED
    BY <2>1, <2>2, <2>3, <2>4, <2>5, <2>6 DEF Next
<1> QED
  BY <1>1, <1>2, PTL DEF Spec

(* What a request carries of a public client on its way. *)
Carried ==
    /\ ingress = "none" <=> place = "client"
    /\ place = "client" => hops = 0
    /\ Public /\ (place = "client" \/ (ingress = "direct" /\ hops = 0))
         => req.peer = origin
    /\ Public /\ ingress \in {"deciding", "appending"}
         => /\ req.peer \in Trusted
            /\ \/ req.envoy = origin
               \/ req.envoy = None /\ EndsAfter(req.xff, origin)

(* What is carried is what is resolved. *)
LEMMA CarriedIsSeen ==
    ASSUME TypeOK, Carried, Public, ingress \in {"deciding", "appending"}
    PROVE  TrustedIngressClientIP(req) = origin
<1> USE AddressAssumption
<1>1. origin \in Addrs \ Trusted /\ req.xff \in Seq(Addrs \cup {Junk})
  BY DEF TypeOK, Requests, Public
<1>2. CASE req.envoy = origin
  BY <1>1, <1>2 DEF Carried, TrustedIngressClientIP, clientTrustedProxy,
                    clientEnvoyExternal
<1>3. CASE req.envoy = None /\ EndsAfter(req.xff, origin)
  <2>1. clientFromForwarded(req.xff) = origin
    BY <1>1, <1>3, ForwardedIsClient
  <2> QED
    BY <1>1, <1>3, <2>1 DEF Carried, TrustedIngressClientIP, clientTrustedProxy,
                            clientEnvoyExternal
<1> QED
  BY <1>2, <1>3 DEF Carried

LEMMA CarriedStep ==
    ASSUME TypeOK, Carried, [Next]_vars
    PROVE  Carried'
<1> USE AddressAssumption DEF Carried, Public
<1>1. CASE Direct
  BY <1>1 DEF Direct, TypeOK
<1>2. CASE Deliver
  BY <1>2 DEF Deliver, TypeOK
<1>3. ASSUME NEW g \in Gateways, Ingress(g) PROVE Carried'
  <2>1. req.xff \in Seq(Addrs \cup {Junk}) /\ origin \in Addrs
    BY DEF TypeOK, Requests
  <2>2. EndsAfter(Append(req.xff, origin), origin)
    <3> DEFINE x == Append(req.xff, origin)
    <3>1. DOMAIN x = 1..(Len(req.xff) + 1) /\ x[Len(req.xff) + 1] = origin
      BY <2>1
    <3> QED
      BY <2>1, <3>1 DEF EndsAfter
  <2>3. /\ req'.peer = g /\ origin' = origin /\ hops' = hops
        /\ \/ req'.envoy = origin
           \/ req'.envoy = None /\ req'.xff = Append(req.xff, origin)
        /\ ingress' \in {"deciding", "appending"} /\ place' = "proxy"
    BY <1>3 DEF Ingress
  <2>4. \/ req'.envoy = origin'
        \/ req'.envoy = None /\ EndsAfter(req'.xff, origin')
    BY <2>2, <2>3
  <2> QED
    BY <2>3, <2>4
<1>4. ASSUME NEW p \in Inside, Proxy(p) PROVE Carried'
  <2>1. /\ req'.peer = p /\ req'.envoy = req.envoy
        /\ req'.xff = Append(req.xff, req.peer)
        /\ UNCHANGED <<origin, ingress, place>> /\ hops' = hops + 1 /\ place = "proxy"
    BY <1>4 DEF Proxy, TypeOK, Requests
  <2>2. CASE Public /\ ingress \in {"deciding", "appending"}
    <3>1. req.xff \in Seq(Addrs \cup {Junk})
      BY DEF TypeOK, Requests
    <3>2. EndsAfter(req.xff, origin) => EndsAfter(req'.xff, origin)
      BY <2>1, <2>2, <3>1, AppendedProxy
    <3> QED
      BY <2>1, <2>2, <3>2 DEF TypeOK
  <2> QED
    BY <2>1, <2>2 DEF TypeOK
<1>5. ASSUME NEW p \in Inside, Call(p) PROVE Carried'
  <2>1. /\ UNCHANGED <<origin, ingress>> /\ place = "process" /\ hops' = hops + 1
        /\ place' \in {"proxy", "process"} /\ req'.peer = p
    BY <1>5 DEF Call, SetForwardedClientIP
  <2>2. CASE Public /\ ingress \in {"deciding", "appending"}
    <3>1. TrustedIngressClientIP(req) = origin
      BY <2>2, CarriedIsSeen
    <3>2. ForwardedClientIP(req) = origin /\ origin \in Addrs
      BY <2>2, <3>1 DEF ForwardedClientIP, TypeOK
    <3>3. req'.envoy = origin
      BY <1>5, <3>2 DEF Call, SetForwardedClientIP
    <3> QED
      BY <2>1, <2>2, <3>3 DEF TypeOK
  <2> QED
    BY <2>1, <2>2 DEF TypeOK
<1>6. CASE UNCHANGED vars
  BY <1>6 DEF vars, EndsAfter
<1> QED
  BY <1>1, <1>2, <1>3, <1>4, <1>5, <1>6 DEF Next

(* Every process that a public client's request leads to, over whatever     *)
(* proxies and calls, resolves that client: clientip.go:24-42.              *)
THEOREM ClientIsSeenByAll == Spec => []ClientIsSeen
<1>1. Init => Carried
  BY DEF Init, Carried, Public
<1>2. TypeOK /\ Carried /\ [Next]_vars => Carried'
  BY CarriedStep
<1>3. TypeOK /\ Carried => ClientIsSeen
  <2> SUFFICES ASSUME TypeOK, Carried, place = "process", Public,
                      ingress # "direct" \/ hops = 0
               PROVE  TrustedIngressClientIP(req) = origin
    BY DEF ClientIsSeen
  <2>1. CASE ingress = "direct"
    BY <2>1 DEF Carried, TrustedIngressClientIP, clientTrustedProxy, Public
  <2>2. CASE ingress \in {"deciding", "appending"}
    BY <2>2, CarriedIsSeen
  <2> QED
    BY <2>1, <2>2 DEF TypeOK, Carried
<1> QED
  BY <1>1, <1>2, <1>3, TypeCorrect, PTL DEF Spec

(* Of everybody else only travellers are in the request: its peer has been  *)
(* one, and so has each address that an ingress which decides, or a process *)
(* behind a direct connection, has put into the headers.                    *)
HeadersOfTravellers ==
    \/ req.envoy \in came
    \/ req.envoy = None /\ \A i \in DOMAIN req.xff : req.xff[i] \in came
Travelled ==
    /\ origin \in came /\ req.peer \in came
    /\ ingress = "direct" /\ hops = 0 => place = "process"
    /\ ingress = "deciding" \/ (ingress = "direct" /\ hops > 0 /\ Public)
         => HeadersOfTravellers

(* A set of numbers has a least element, and a greatest one if it is        *)
(* bounded: what First and Last choose.                                     *)
LEMMA LeastOfSome ==
    ASSUME NEW S, S \subseteq Nat, S # {}
    PROVE  \E i \in S : \A j \in S : i <= j
<1>1. \E i \in S : \A j \in S : ~(<<j, i>> \in OpToRel(<, Nat))
  BY NatLessThanWellFounded, WFMin
<1>2. \A i, j \in S : <<j, i>> \in OpToRel(<, Nat) <=> j < i
  BY DEF OpToRel
<1>3. \E i \in S : \A j \in S : ~(j < i)
  BY <1>1, <1>2, Zenon
<1> QED
  BY <1>3

LEMMA GreatestOfSome ==
    ASSUME NEW S, NEW n \in Nat, S \subseteq 1..n, S # {}
    PROVE  \E i \in S : \A j \in S : j <= i
<1> DEFINE T == {k \in Nat : \E i \in S : k = n - i}
<1>1. T # {}
  <2>1. PICK i \in S : TRUE
    OBVIOUS
  <2>2. n - i \in T
    OBVIOUS
  <2> QED
    BY <2>2
<1>2. PICK k \in T : \A j \in T : k <= j
  BY <1>1, LeastOfSome
<1>3. n - k \in S /\ \A j \in S : n - j \in T
  OBVIOUS
<1> QED
  BY <1>2, <1>3

(* What clientFromForwarded returns stands in the chain, if it is not None. *)
LEMMA ForwardedStandsInChain ==
    ASSUME NEW x \in Seq(Addrs \cup {Junk})
    PROVE  clientFromForwarded(x) = None \/ \E i \in DOMAIN x : clientFromForwarded(x) = x[i]
<1>1. Untrusted(x) \subseteq Parsed(x) /\ Parsed(x) \subseteq 1..Len(x)
  BY DEF Untrusted, Parsed
<1>2. ASSUME Parsed(x) # {} PROVE First(Parsed(x)) \in Parsed(x)
  <2>1. \E i \in Parsed(x) : \A j \in Parsed(x) : i <= j
    BY <1>1, <1>2, LeastOfSome
  <2> QED
    BY <2>1 DEF First
<1>3. ASSUME Untrusted(x) # {} PROVE Last(Untrusted(x)) \in Untrusted(x)
  <2>1. \E i \in Untrusted(x) : \A j \in Untrusted(x) : j <= i
    BY <1>1, <1>3, GreatestOfSome
  <2> QED
    BY <2>1 DEF Last
<1> QED
  BY <1>1, <1>2, <1>3 DEF clientFromForwarded

LEMMA TravellerIsResolved ==
    ASSUME TypeOK, Travelled, HeadersOfTravellers
    PROVE  TrustedIngressClientIP(req) \in came
<1> USE AddressAssumption
<1>1. req.xff \in Seq(Addrs \cup {Junk}) /\ came \subseteq Addrs /\ req.peer \in came
  BY DEF TypeOK, Requests, Travelled
<1>2. CASE req.envoy \in came
  BY <1>1, <1>2 DEF TrustedIngressClientIP, clientEnvoyExternal
<1>3. CASE req.envoy = None /\ \A i \in DOMAIN req.xff : req.xff[i] \in came
  <2>1. clientFromForwarded(req.xff) \in came \cup {None}
    BY <1>1, <1>3, ForwardedStandsInChain
  <2> QED
    BY <1>1, <1>3, <2>1 DEF TrustedIngressClientIP, clientEnvoyExternal
<1> QED
  BY <1>2, <1>3 DEF HeadersOfTravellers

(* No process takes a stranger for the client.                              *)
LEMMA TravelledIsEnough ==
    ASSUME TypeOK, Carried, Travelled
    PROVE  OnlyTravellersAreSeen
<1> USE AddressAssumption
<1> SUFFICES ASSUME place = "process", Public \/ ingress = "deciding"
             PROVE  TrustedIngressClientIP(req) \in came
  BY DEF OnlyTravellersAreSeen
<1>1. CASE ingress = "deciding" \/ (ingress = "direct" /\ hops > 0)
  BY <1>1, TravellerIsResolved DEF Travelled
<1>2. CASE ingress = "direct" /\ hops = 0 /\ Public
  BY <1>2 DEF Travelled, Carried, TrustedIngressClientIP, clientTrustedProxy, Public
<1>3. CASE ingress = "appending" /\ Public
  BY <1>3, CarriedIsSeen DEF Travelled
<1> QED
  BY <1>1, <1>2, <1>3 DEF TypeOK, Carried

LEMMA TravelledStep ==
    ASSUME TypeOK, Carried, Travelled, [Next]_vars
    PROVE  Travelled'
<1> USE AddressAssumption DEF Travelled, HeadersOfTravellers, Public
<1>1. CASE Direct
  BY <1>1 DEF Direct, TypeOK, Carried
<1>2. CASE Deliver
  BY <1>2 DEF Deliver, TypeOK
<1>3. ASSUME NEW g \in Gateways, Ingress(g) PROVE Travelled'
  <2>1. /\ origin' = origin /\ req'.peer = g /\ came' = came \cup {g}
        /\ \/ ingress' = "deciding" /\ req'.envoy = origin
           \/ ingress' = "appending"
    BY <1>3 DEF Ingress
  <2> QED
    BY <2>1
<1>4. ASSUME NEW p \in Inside, Proxy(p) PROVE Travelled'
  <2>1. /\ req'.peer = p /\ req'.envoy = req.envoy
        /\ req'.xff = Append(req.xff, req.peer)
        /\ UNCHANGED <<origin, ingress, place>> /\ hops' = hops + 1 /\ place = "proxy"
        /\ came' = came \cup {p}
    BY <1>4 DEF Proxy, TypeOK, Requests
  <2>2. ASSUME ingress = "deciding" \/ (ingress = "direct" /\ hops > 0 /\ Public)
        PROVE  HeadersOfTravellers'
    <3>1. CASE req.envoy \in came
      BY <2>1, <3>1
    <3>2. CASE req.envoy = None /\ \A i \in DOMAIN req.xff : req.xff[i] \in came
      <4>1. req.xff \in Seq(Addrs \cup {Junk})
        BY DEF TypeOK, Requests
      <4>2. \A i \in DOMAIN req'.xff : req'.xff[i] \in came
        BY <2>1, <3>2, <4>1
      <4> QED
        BY <2>1, <3>2, <4>2
    <3> QED
      BY <2>2, <3>1, <3>2
  <2>3. ingress = "direct" => hops > 0
    BY <2>1 DEF TypeOK
  <2> QED
    BY <2>1, <2>2, <2>3 DEF TypeOK
<1>5. ASSUME NEW p \in Inside, Call(p) PROVE Travelled'
  <2>1. /\ UNCHANGED <<origin, ingress>> /\ place = "process" /\ hops' = hops + 1
        /\ req'.peer = p /\ came' = came \cup {p}
    BY <1>5 DEF Call, SetForwardedClientIP
  <2>2. ASSUME Public \/ ingress = "deciding"
        PROVE  HeadersOfTravellers'
    <3>1. TrustedIngressClientIP(req) \in came
      BY <2>1, <2>2, TravelledIsEnough DEF OnlyTravellersAreSeen
    <3>2. CASE TrustedIngressClientIP(req) = req.peer
      BY <1>5, <2>1, <3>2 DEF Call, SetForwardedClientIP, ForwardedClientIP
    <3>3. CASE TrustedIngressClientIP(req) # req.peer
      <4>1. ForwardedClientIP(req) \in came /\ came \subseteq Addrs
        BY <3>1, <3>3 DEF ForwardedClientIP, TypeOK
      <4>2. req'.envoy = ForwardedClientIP(req)
        BY <1>5, <4>1 DEF Call, SetForwardedClientIP
      <4> QED
        BY <2>1, <4>1, <4>2
    <3> QED
      BY <3>2, <3>3
  <2> QED
    BY <2>1, <2>2 DEF TypeOK
<1>6. CASE UNCHANGED vars
  BY <1>6 DEF vars
<1> QED
  BY <1>1, <1>2, <1>3, <1>4, <1>5, <1>6 DEF Next

(* A process resolves nobody that the request has not come from, whatever   *)
(* the client wrote into its headers: clientip.go:24-42.                    *)
THEOREM OnlyTravellersAreResolved == Spec => []OnlyTravellersAreSeen
<1>1. Init => Carried /\ Travelled
  BY DEF Init, Carried, Travelled, Public
<1>2. TypeOK /\ Carried /\ Travelled /\ [Next]_vars => Carried' /\ Travelled'
  BY CarriedStep, TravelledStep
<1>3. TypeOK /\ Carried /\ Travelled => OnlyTravellersAreSeen
  BY TravelledIsEnough
<1> QED
  BY <1>1, <1>2, <1>3, TypeCorrect, PTL DEF Spec

-----------------------------------------------------------------------------
(* Bind lists.                                                              *)

(* The entries of a file, as BindList describes them. *)
Entry == [host : STRING, port : STRING, form : {"canonical", "other", "blank", "broken"}]

LEMMA ParsedIsGood ==
    ASSUME NEW ss \in Seq(Entry), Binds!Good(ss)
    PROVE  LET b == Binds!parseBindList(ss) IN
           /\ b \in Seq(Entry) /\ Len(b) = Len(ss)
           /\ \A i \in 1..Len(b) :
                 b[i] = Binds!Canonical(ss[i]) /\ Binds!Canonical(b[i]) = b[i]
           /\ Binds!Good(b)
<1> DEFINE b == Binds!parseBindList(ss)
<1>1. b = [i \in 1..Len(ss) |-> Binds!Canonical(ss[i])]
  BY DEF Binds!parseBindList
<1>2. \A i \in 1..Len(ss) : Binds!Canonical(ss[i]) \in Entry
  <2> SUFFICES ASSUME NEW i \in 1..Len(ss)
               PROVE  Binds!Canonical(ss[i]) \in Entry
    OBVIOUS
  <2>1. ss[i] \in Entry
    OBVIOUS
  <2> QED
    BY <2>1 DEF Binds!Canonical, Entry
<1>3. b \in Seq(Entry) /\ Len(b) = Len(ss)
  BY <1>1, <1>2
<1>4. \A i \in 1..Len(b) : b[i] = Binds!Canonical(ss[i]) /\ Binds!Canonical(b[i]) = b[i]
  BY <1>1, <1>3 DEF Binds!Canonical
<1>5. b # <<>> /\ \A i \in DOMAIN b : Binds!Parses(b[i])
  <2>1. b # <<>>
    BY <1>3 DEF Binds!Good
  <2>2. ASSUME NEW i \in DOMAIN b
        PROVE  Binds!Parses(b[i])
    <3>1. i \in 1..Len(b) /\ i \in DOMAIN ss
      BY <1>3
    <3>2. Binds!Parses(ss[i]) /\ b[i] = Binds!Canonical(ss[i])
      BY <1>4, <3>1 DEF Binds!Good
    <3>3. b[i].port = ss[i].port /\ b[i].form = "canonical"
      BY <3>2 DEF Binds!Canonical
    <3> QED
      BY <3>2, <3>3 DEF Binds!Parses
  <2> QED
    BY <2>1, <2>2
<1>6. \A i, j \in DOMAIN b : Binds!Canonical(b[i]) = Binds!Canonical(b[j]) => i = j
  BY <1>3, <1>4 DEF Binds!Good
<1>7. Binds!Good(b)
  BY <1>5, <1>6 DEF Binds!Good
<1> QED
  BY <1>3, <1>4, <1>7

(* The error is told from every list. *)
LEMMA ErrorIsNoList ==
    ASSUME NEW ss, Binds!parseBindList(ss) # Binds!Error
    PROVE  Binds!Good(ss)
BY DEF Binds!parseBindList

(* The list that is written for a parsed one parses to it again, for lists  *)
(* of any length.                                                           *)
THEOREM WrittenIsReadAgain ==
    ASSUME NEW ss \in Seq(Entry)
    PROVE  Binds!WrittenIsRead(ss)
<1> SUFFICES ASSUME Binds!parseBindList(ss) # Binds!Error
             PROVE  Binds!UnmarshalJSON(Binds!MarshalJSON(Binds!parseBindList(ss)))
                       = Binds!parseBindList(ss)
  BY DEF Binds!WrittenIsRead
<1> DEFINE b == Binds!parseBindList(ss)
<1>1. Binds!Good(ss)
  BY ErrorIsNoList
<1>2. /\ b \in Seq(Entry) /\ Len(b) = Len(ss)
      /\ \A i \in 1..Len(b) : Binds!Canonical(b[i]) = b[i]
      /\ Binds!Good(b)
  BY <1>1, ParsedIsGood
<1>3. Len(b) # 0
  BY <1>1, <1>2 DEF Binds!Good
<1>4. Binds!UnmarshalJSON(Binds!MarshalJSON(b)) = Binds!parseBindList(b)
  BY <1>3 DEF Binds!UnmarshalJSON, Binds!MarshalJSON
<1>5. Binds!parseBindList(b) = [i \in 1..Len(b) |-> b[i]]
  BY <1>2 DEF Binds!parseBindList
<1>6. [i \in 1..Len(b) |-> b[i]] = b
  <2> HIDE DEF b
  <2> QED
    BY <1>2
<1> QED
  BY <1>4, <1>5, <1>6

(* A respelled file asks for no restart.                                    *)
THEOREM RespelledIsNoChange ==
    ASSUME NEW ss \in Seq(Entry), NEW tt \in Seq(Entry)
    PROVE  Binds!RespelledIsEqual(ss, tt)
<1> SUFFICES ASSUME Len(ss) = Len(tt),
                    \A i \in 1..Len(ss) : Binds!Canonical(ss[i]) = Binds!Canonical(tt[i]),
                    Binds!Good(ss), Binds!Good(tt)
             PROVE  Binds!bindsEqual(Binds!parseBindList(ss), Binds!parseBindList(tt))
  BY ErrorIsNoList DEF Binds!RespelledIsEqual
<1> QED
  BY ParsedIsGood DEF Binds!bindsEqual

(* A parsed list opens no address twice, for lists of any length: the       *)
(* second listener would fail, after the first has been opened.             *)
THEOREM NoListenerFailsOnAnother ==
    ASSUME NEW ss \in Seq(Entry)
    PROVE  Binds!NoAddressTwice(ss)
<1> DEFINE b == Binds!parseBindList(ss)
<1> SUFFICES ASSUME Binds!Good(ss), NEW i \in 1..Len(b), NEW j \in 1..Len(b),
                    b[i].host = b[j].host, b[i].port = b[j].port
             PROVE  i = j
  BY ErrorIsNoList DEF Binds!NoAddressTwice
<1>1. /\ b \in Seq(Entry) /\ Len(b) = Len(ss)
      /\ \A k \in 1..Len(b) : b[k] = Binds!Canonical(ss[k])
  BY ParsedIsGood
<1>2. Binds!Canonical(ss[i]) = Binds!Canonical(ss[j])
  BY <1>1 DEF Binds!Canonical
<1> QED
  BY <1>1, <1>2 DEF Binds!Good

(* And only a respelled file is taken for no change: an address that is     *)
(* added, dropped, moved or replaced is told.                               *)
THEOREM NoChangeIsRespelled ==
    ASSUME NEW ss \in Seq(Entry), NEW tt \in Seq(Entry),
           Binds!parseBindList(ss) # Binds!Error, Binds!parseBindList(tt) # Binds!Error,
           Binds!bindsEqual(Binds!parseBindList(ss), Binds!parseBindList(tt))
    PROVE  /\ Len(ss) = Len(tt)
           /\ \A i \in 1..Len(ss) : Binds!Canonical(ss[i]) = Binds!Canonical(tt[i])
<1>1. Binds!Good(ss) /\ Binds!Good(tt)
  BY ErrorIsNoList
<1> QED
  BY <1>1, ParsedIsGood DEF Binds!bindsEqual

-----------------------------------------------------------------------------
(* CORS.                                                                    *)

(* No cache hands one origin's grant to another, whatever the list.         *)
THEOREM CachedGrantsAreFresh ==
    \A cfg, former, site, method : Cors!NoForeignGrant(cfg, former, site, method)
<1> SUFFICES ASSUME NEW cfg, NEW former, NEW site, NEW method,
                    NEW withCookies \in BOOLEAN,
                    Cors!Reusable(Cors!Headers(cfg, former, method), former, site),
                    Cors!Granted(Cors!Headers(cfg, former, method), site, withCookies)
             PROVE  Cors!Granted(Cors!Headers(cfg, site, method), site, withCookies)
  BY DEF Cors!NoForeignGrant
<1>1. CASE Cors!Allowed(cfg, former)
  <2>1. Cors!Headers(cfg, former, method).vary
    BY <1>1 DEF Cors!Headers
  <2> QED
    BY <2>1 DEF Cors!Reusable
<1>2. CASE ~Cors!Allowed(cfg, former)
  <2>1. Cors!Headers(cfg, former, method).allowOrigin = ""
    BY <1>2 DEF Cors!Headers, Cors!NoHeaders
  <2> QED
    BY <2>1 DEF Cors!Granted
<1> QED
  BY <1>1, <1>2

(* With a configuration that Validate accepts, no origin gets at the user's *)
(* data unless it is named in the list.                                     *)
THEOREM OnlyListedGetCookies ==
    ASSUME NEW cfg, NEW site, NEW method, Cors!Validate(cfg)
    PROVE  Cors!CookiesForListed(cfg, site, method)
<1> SUFFICES ASSUME Cors!Granted(Cors!Headers(cfg, site, method), site, TRUE)
             PROVE  \E i \in DOMAIN cfg.origins : cfg.origins[i] = site
  BY DEF Cors!CookiesForListed
<1>1. Cors!Allowed(cfg, site) /\ cfg.credentials
  BY DEF Cors!Granted, Cors!Headers, Cors!NoHeaders
<1>2. PICK i \in DOMAIN cfg.origins : cfg.origins[i] \in {"*", site}
  BY <1>1 DEF Cors!Allowed, Cors!Matches
<1> QED
  BY <1>1, <1>2 DEF Cors!Validate

-----------------------------------------------------------------------------
(* Problem documents.                                                       *)

(* The maps of a heap are of no particular type. *)
IsHeap(heap) == heap \in Seq({heap[i] : i \in DOMAIN heap})

(* Building one problem leaves every other one as it was. *)
THEOREM FirstExtensionIsPrivate ==
    ASSUME NEW heap, IsHeap(heap), NEW p, p.ext = 0,
           NEW q, q.ext \in 0..Len(heap), NEW k, NEW v
    PROVE  Problems!OthersKeep(heap, p, q, k, v)
<1> DEFINE map == Problems!With(Problems!NewMap, k, v)
           S == {heap[i] : i \in DOMAIN heap}
<1>1. Problems!WithExtension(heap, p, k, v).heap = Append(heap, map)
  BY DEF Problems!WithExtension
<1>2. heap \in Seq(S \cup {map})
  BY DEF IsHeap
<1>3. q.ext # 0 => Append(heap, map)[q.ext] = heap[q.ext]
  <2> HIDE DEF map, S
  <2> QED
    BY <1>2
<1>4. Problems!Extensions(Append(heap, map), q) = Problems!Extensions(heap, q)
  BY <1>3 DEF Problems!Extensions
<1> QED
  BY <1>1, <1>4 DEF Problems!OthersKeep, Problems!Document

(* Once a problem has its map, an extension reaches the copies that share   *)
(* it and nobody else.                                                      *)
THEOREM ExtensionsStayInTheirMap ==
    ASSUME NEW heap, IsHeap(heap), NEW p, p.ext \in 1..Len(heap),
           NEW q, q.ext \in 0..Len(heap), q.ext # p.ext, NEW k, NEW v
    PROVE  Problems!OthersKeep(heap, p, q, k, v)
<1> DEFINE after == [heap EXCEPT ![p.ext] = Problems!With(heap[p.ext], k, v)]
<1>1. Problems!WithExtension(heap, p, k, v).heap = after
  BY DEF Problems!WithExtension
<1>2. q.ext # 0 => after[q.ext] = heap[q.ext]
  BY DEF IsHeap
<1>3. Problems!Extensions(after, q) = Problems!Extensions(heap, q)
  BY <1>2 DEF Problems!Extensions
<1> QED
  BY <1>1, <1>3 DEF Problems!OthersKeep, Problems!Document

(* What is written to a map is in every document that shares it, whatever   *)
(* the document said before.                                                *)
THEOREM SharersSeeExtensions ==
    ASSUME NEW heap, IsHeap(heap), NEW p, p.ext \in 1..Len(heap),
           NEW q, q.ext = p.ext, NEW k, NEW v
    PROVE  LET after == Problems!WithExtension(heap, p, k, v).heap IN
           /\ k \in DOMAIN Problems!Document(after, q)
           /\ Problems!Document(after, q)[k] = v
<1> DEFINE map == Problems!With(heap[p.ext], k, v)
           after == [heap EXCEPT ![p.ext] = map]
<1>1. Problems!WithExtension(heap, p, k, v).heap = after
  BY DEF Problems!WithExtension
<1>2. after[q.ext] = map
  <2> HIDE DEF map
  <2> QED
    BY DEF IsHeap
<1>3. Problems!Extensions(after, q) = map
  BY <1>2 DEF Problems!Extensions
<1>4. k \in DOMAIN map /\ map[k] = v
  BY DEF Problems!With
<1> HIDE DEF after, map
<1> QED
  BY <1>1, <1>3, <1>4 DEF Problems!Document

(* The head that Write sends agrees with the document under it.             *)
THEOREM HeadMatches ==
    ASSUME NEW heap, NEW status \in Nat, NEW requestId, NEW id, NEW ext
    PROVE  Problems!HeadMatchesDocument(
             heap, [status |-> status, requestId |-> id, ext |-> ext], requestId)
<1> DEFINE p == [status |-> status, requestId |-> id, ext |-> ext]
           q == [p EXCEPT !.status = IF @ = 0 THEN 500 ELSE @,
                          !.requestId = IF @ = "" THEN requestId ELSE @]
<1> SUFFICES ASSUME "status" \notin DOMAIN Problems!Extensions(heap, p)
             PROVE  Problems!Document(heap, q)["status"] = q.status
  BY DEF Problems!HeadMatchesDocument, Problems!Write
<1>1. q.status # 0 /\ q.ext = p.ext
  OBVIOUS
<1>2. "status" \in DOMAIN Problems!Standard(q) /\ Problems!Standard(q)["status"] = q.status
  BY <1>1 DEF Problems!Standard
<1>3. "status" \notin DOMAIN Problems!Extensions(heap, q)
  BY <1>1 DEF Problems!Extensions
<1> QED
  BY <1>2, <1>3 DEF Problems!Document

-----------------------------------------------------------------------------
(* CSRF tokens.  Until something overtakes it, a page that a tab has asked  *)
(* for and the jar agree, at every stage of its way.                        *)

NoToken == {Absent, Empty}

CsrfCheck == mode # "origin_only"

SetCookieOnTheWay ==
    \A t \in Tabs : setCookie[t] # Absent =>
        /\ pc[t] = "answered" /\ cookie[t] \in NoToken
        /\ setCookie[t] \in Nat /\ page[t] = setCookie[t]

PageFitsJar ==
    \A t \in Tabs : ~overtaken[t] /\ CsrfCheck =>
        /\ pc[t] \in {"asked", "posted"} => cookie[t] = jar
        /\ pc[t] = "answered" => page[t] \in Nat /\ (setCookie[t] = Absent => page[t] = jar)
        /\ pc[t] \in {"shown", "posted"} => page[t] \in Nat /\ page[t] = jar
        /\ pc[t] = "replied" /\ verdict[t] = "accepted" => page[t] \in Nat /\ page[t] = jar

CsrfInv ==
    /\ CsrfTypeOK /\ SetCookieOnTheWay /\ PageFitsJar
    /\ RefusalMeansOvertaken

(* The types, apart from how high minted has come.                          *)
LEMMA CsrfTypes ==
    ASSUME CsrfTypeOK
    PROVE  /\ minted \in Nat /\ Tokens \subseteq Nat \ NoToken
           /\ jar \in Tokens \cup NoToken
           /\ cookie \in [Tabs -> Tokens \cup NoToken]
           /\ page \in [Tabs -> Tokens \cup NoToken]
           /\ setCookie \in [Tabs -> Tokens \cup NoToken]
           /\ pc \in [Tabs -> {"blank", "asked", "answered", "shown", "posted", "replied"}]
           /\ verdict \in [Tabs -> Verdicts] /\ overtaken \in [Tabs -> BOOLEAN]
BY CsrfAssumption DEF CsrfTypeOK, Tokens, NoToken

LEMMA CsrfInitially ==
    CsrfInit => CsrfInv
<1> SUFFICES ASSUME CsrfInit PROVE CsrfInv
  OBVIOUS
<1>1. CsrfTypeOK
  BY CsrfAssumption DEF CsrfInit, CsrfTypeOK, Verdicts
<1>2. SetCookieOnTheWay /\ PageFitsJar /\ RefusalMeansOvertaken
  BY DEF CsrfInit, SetCookieOnTheWay, PageFitsJar, RefusalMeansOvertaken
<1> QED
  BY <1>1, <1>2 DEF CsrfInv

LEMMA AskPageKeeps ==
    ASSUME CsrfInv, NEW t \in Tabs, AskPage(t) PROVE CsrfInv'
<1> USE DEF CsrfInv
<1>1. /\ pc[t] \in {"blank", "replied"}
      /\ pc' = [pc EXCEPT ![t] = "asked"]
      /\ cookie' = [cookie EXCEPT ![t] = jar]
      /\ page' = [page EXCEPT ![t] = Absent]
      /\ verdict' = [verdict EXCEPT ![t] = "none"]
      /\ overtaken' = [overtaken EXCEPT ![t] = FALSE]
      /\ UNCHANGED <<mode, listed, minted, jar, setCookie, clears, faults>>
  BY DEF AskPage, Goto, serverVars
<1>2. CsrfTypeOK'
  BY <1>1 DEF CsrfTypeOK, Tokens, Verdicts
<1>3. SetCookieOnTheWay'
  BY <1>1, CsrfTypes DEF SetCookieOnTheWay
<1>4. PageFitsJar'
  BY <1>1, CsrfTypes DEF PageFitsJar, CsrfCheck
<1>5. RefusalMeansOvertaken'
  BY <1>1, CsrfTypes DEF RefusalMeansOvertaken
<1> QED
  BY <1>2, <1>3, <1>4, <1>5

LEMMA ServePageKeeps ==
    ASSUME CsrfInv, NEW t \in Tabs, ServePage(t) PROVE CsrfInv'
<1> USE DEF CsrfInv
<1>1. /\ pc[t] = "asked" /\ pc' = [pc EXCEPT ![t] = "answered"]
      /\ UNCHANGED <<mode, listed, jar, cookie, verdict, clears, faults, overtaken>>
  BY DEF ServePage, Goto
<1>2. setCookie[t] = Absent
  BY <1>1 DEF SetCookieOnTheWay
<1>3. RefusalMeansOvertaken'
  BY <1>1, CsrfTypes DEF RefusalMeansOvertaken
<1>4. CASE /\ ~CsrfCheck /\ page' = [page EXCEPT ![t] = Absent]
           /\ UNCHANGED <<minted, setCookie>>
  <2>1. CsrfTypeOK'
    BY <1>1, <1>4 DEF CsrfTypeOK, Tokens
  <2>2. SetCookieOnTheWay' /\ PageFitsJar'
    BY <1>1, <1>2, <1>4, CsrfTypes DEF SetCookieOnTheWay, PageFitsJar, CsrfCheck
  <2> QED
    BY <1>3, <2>1, <2>2
<1>5. CASE /\ CsrfCheck /\ cookie[t] \notin NoToken /\ page' = [page EXCEPT ![t] = cookie[t]]
           /\ UNCHANGED <<minted, setCookie>>
  <2>1. CsrfTypeOK'
    BY <1>1, <1>5 DEF CsrfTypeOK, Tokens
  <2>2. SetCookieOnTheWay' /\ PageFitsJar'
    BY <1>1, <1>2, <1>5, CsrfTypes DEF SetCookieOnTheWay, PageFitsJar, CsrfCheck, NoToken
  <2> QED
    BY <1>3, <2>1, <2>2
<1>6. CASE /\ CsrfCheck /\ cookie[t] \in NoToken /\ minted' = minted + 1
           /\ page' = [page EXCEPT ![t] = minted']
           /\ setCookie' = [setCookie EXCEPT ![t] = minted']
  <2>1. minted' \in Nat /\ Tokens \subseteq Tokens' /\ minted' \in Tokens'
    BY <1>6, CsrfTypes DEF Tokens
  <2>2. CsrfTypeOK'
    <3>1. cookie' \in [Tabs -> Tokens' \cup {Absent, Empty}]
      BY <1>1, <2>1 DEF CsrfTypeOK
    <3>2. {page, setCookie}' \subseteq [Tabs -> Tokens' \cup {Absent, Empty}]
      <4>1. ASSUME NEW f \in [Tabs -> Tokens \cup {Absent, Empty}]
            PROVE  [f EXCEPT ![t] = minted'] \in [Tabs -> Tokens' \cup {Absent, Empty}]
        BY <2>1
      <4>2. page \in [Tabs -> Tokens \cup {Absent, Empty}]
            /\ setCookie \in [Tabs -> Tokens \cup {Absent, Empty}]
        BY DEF CsrfTypeOK
      <4> QED
        BY <1>6, <4>1, <4>2
    <3>3. pc' \in [Tabs -> {"blank", "asked", "answered", "shown", "posted", "replied"}]
      BY <1>1 DEF CsrfTypeOK
    <3> QED
      BY <1>1, <2>1, <3>1, <3>2, <3>3 DEF CsrfTypeOK
  <2>3. minted' \notin NoToken
    BY <2>1, CsrfAssumption DEF NoToken
  <2>4. SetCookieOnTheWay' /\ PageFitsJar'
    BY <1>1, <1>2, <1>6, <2>1, <2>3, CsrfTypes
       DEF SetCookieOnTheWay, PageFitsJar, CsrfCheck, NoToken
  <2> QED
    BY <1>3, <2>2, <2>4
<1> QED
  BY <1>4, <1>5, <1>6 DEF ServePage, HasToken, TokenFrom, CsrfCheck, NoToken

LEMMA ServeFailsKeeps ==
    ASSUME CsrfInv, NEW t \in Tabs, ServeFails(t) PROVE CsrfInv'
<1> USE DEF CsrfInv
<1>1. /\ pc[t] = "asked" /\ pc' = [pc EXCEPT ![t] = "replied"]
      /\ faults < MaxFaults /\ faults' = faults + 1
      /\ verdict' = [verdict EXCEPT ![t] = "internal"]
      /\ cookie' = [cookie EXCEPT ![t] = Absent]
      /\ UNCHANGED <<mode, listed, minted, jar, page, setCookie, clears, overtaken>>
  BY DEF ServeFails, Goto, serverVars
<1>2. CsrfTypeOK'
  <2>1. faults' \in 0..MaxFaults
    BY <1>1, CsrfAssumption DEF CsrfTypeOK
  <2> QED
    BY <1>1, <2>1 DEF CsrfTypeOK, Tokens, Verdicts
<1>3. SetCookieOnTheWay' /\ PageFitsJar'
  BY <1>1, CsrfTypes DEF SetCookieOnTheWay, PageFitsJar, CsrfCheck
<1>4. RefusalMeansOvertaken'
  BY <1>1, CsrfTypes DEF RefusalMeansOvertaken
<1> QED
  BY <1>2, <1>3, <1>4

LEMMA ShowPageKeeps ==
    ASSUME CsrfInv, NEW t \in Tabs, ShowPage(t) PROVE CsrfInv'
<1> USE DEF CsrfInv
<1>1. /\ pc[t] = "answered" /\ pc' = [pc EXCEPT ![t] = "shown"]
      /\ cookie' = [cookie EXCEPT ![t] = Absent]
      /\ UNCHANGED <<mode, listed, minted, page, verdict, clears, faults>>
  BY DEF ShowPage, Goto, serverVars
<1>2. CASE setCookie[t] = Absent /\ UNCHANGED <<jar, setCookie, overtaken>>
  <2>1. CsrfTypeOK'
    BY <1>1, <1>2 DEF CsrfTypeOK, Tokens
  <2>2. SetCookieOnTheWay' /\ PageFitsJar'
    BY <1>1, <1>2, CsrfTypes DEF SetCookieOnTheWay, PageFitsJar, CsrfCheck
  <2>3. RefusalMeansOvertaken'
    BY <1>1, <1>2, CsrfTypes DEF RefusalMeansOvertaken
  <2> QED
    BY <2>1, <2>2, <2>3
<1>3. CASE /\ setCookie[t] # Absent /\ jar' = setCookie[t]
           /\ setCookie' = [setCookie EXCEPT ![t] = Absent]
           /\ overtaken' = [u \in Tabs |-> u # t]
  <2>1. setCookie[t] \in Nat /\ page[t] = setCookie[t]
    BY <1>3 DEF SetCookieOnTheWay
  <2>2. CsrfTypeOK'
    BY <1>1, <1>3 DEF CsrfTypeOK, Tokens
  <2>3. SetCookieOnTheWay'
    BY <1>1, <1>3, CsrfTypes DEF SetCookieOnTheWay
  <2>4. \A u \in Tabs : ~overtaken'[u] => u = t
    BY <1>3
  <2>5. PageFitsJar'
    BY <1>1, <1>3, <2>1, <2>4, CsrfTypes DEF PageFitsJar
  <2>6. RefusalMeansOvertaken'
    BY <1>1, <2>4, CsrfTypes DEF RefusalMeansOvertaken
  <2> QED
    BY <2>2, <2>3, <2>5, <2>6
<1> QED
  BY <1>2, <1>3 DEF ShowPage

LEMMA SubmitKeeps ==
    ASSUME CsrfInv, NEW t \in Tabs, Submit(t) PROVE CsrfInv'
<1> USE DEF CsrfInv
<1>1. /\ pc[t] = "shown" \/ (pc[t] = "replied" /\ verdict[t] = "accepted")
      /\ pc' = [pc EXCEPT ![t] = "posted"]
      /\ cookie' = [cookie EXCEPT ![t] = jar]
      /\ page' = [page EXCEPT ![t] = IF mode = "double_submit" THEN jar ELSE @]
      /\ verdict' = [verdict EXCEPT ![t] = "none"]
      /\ UNCHANGED <<mode, listed, minted, jar, setCookie, clears, faults, overtaken>>
  BY DEF Submit, Goto, serverVars
<1>2. CsrfTypeOK'
  BY <1>1 DEF CsrfTypeOK, Tokens, Verdicts
<1>3. SetCookieOnTheWay'
  BY <1>1, CsrfTypes DEF SetCookieOnTheWay
<1>4. PageFitsJar'
  BY <1>1, CsrfTypes DEF PageFitsJar, CsrfCheck
<1>5. RefusalMeansOvertaken'
  BY <1>1, CsrfTypes DEF RefusalMeansOvertaken
<1> QED
  BY <1>2, <1>3, <1>4, <1>5

LEMMA ServeFormKeeps ==
    ASSUME CsrfInv, NEW t \in Tabs, ServeForm(t) PROVE CsrfInv'
<1> USE DEF CsrfInv
<1>1. /\ pc[t] = "posted" /\ pc' = [pc EXCEPT ![t] = "replied"]
      /\ verdict' = [verdict EXCEPT ![t] = Answer(t)]
      /\ cookie' = [cookie EXCEPT ![t] = Absent]
      /\ UNCHANGED <<mode, listed, minted, jar, page, setCookie, clears, faults, overtaken>>
  BY DEF ServeForm, Goto, serverVars
<1>2. /\ Answer(t) \in Verdicts
      /\ Answer(t) \in {"missing", "mismatch"} =>
            CsrfCheck /\ (page[t] \in NoToken \/ cookie[t] = Absent \/ page[t] # cookie[t])
  BY DEF Answer, Verdicts, CsrfCheck, NoToken
<1>3. CsrfTypeOK'
  BY <1>1, <1>2 DEF CsrfTypeOK, Tokens
<1>4. SetCookieOnTheWay' /\ PageFitsJar'
  BY <1>1, CsrfTypes DEF SetCookieOnTheWay, PageFitsJar, CsrfCheck
<1>5. Answer(t) \in {"missing", "mismatch"} => overtaken[t]
  <2>1. ~overtaken[t] /\ CsrfCheck => page[t] \in Nat /\ page[t] = jar /\ cookie[t] = jar
    BY <1>1 DEF PageFitsJar
  <2>2. \A n \in Nat : n \notin NoToken
    BY CsrfAssumption DEF NoToken
  <2> QED
    BY <1>2, <2>1, <2>2 DEF NoToken
<1>6. RefusalMeansOvertaken'
  BY <1>1, <1>5, CsrfTypes DEF RefusalMeansOvertaken
<1> QED
  BY <1>3, <1>4, <1>6

LEMMA CsrfKept ==
    CsrfInv /\ [CsrfNext]_csrfVars => CsrfInv'
<1> SUFFICES ASSUME CsrfInv, [CsrfNext]_csrfVars PROVE CsrfInv'
  OBVIOUS
<1>1. CASE ClearJar
  <2>1. /\ clears < MaxClears /\ clears' = clears + 1 /\ jar' \in NoToken
        /\ overtaken' = [t \in Tabs |-> TRUE]
        /\ UNCHANGED <<mode, listed, minted, pc, cookie, page, setCookie, verdict, faults>>
    BY <1>1 DEF ClearJar, serverVars, NoToken
  <2>2. clears' \in 0..MaxClears
    BY <2>1, CsrfAssumption DEF CsrfInv, CsrfTypeOK
  <2>3. CsrfTypeOK'
    BY <2>1, <2>2 DEF CsrfInv, CsrfTypeOK, Tokens, NoToken
  <2>4. SetCookieOnTheWay' /\ PageFitsJar' /\ RefusalMeansOvertaken'
    BY <2>1 DEF CsrfInv, SetCookieOnTheWay, PageFitsJar, RefusalMeansOvertaken
  <2> QED
    BY <2>3, <2>4 DEF CsrfInv
<1>2. CASE ListChanges \/ UNCHANGED csrfVars
  <2>1. /\ listed' \in {"nothing", "host", "another"}
        /\ UNCHANGED <<mode, minted, jar, pc, cookie, page, setCookie, verdict>>
        /\ UNCHANGED <<clears, faults, overtaken>>
    BY <1>2 DEF CsrfInv, CsrfTypeOK, ListChanges, csrfVars, browserVars,
                serverVars
  <2>2. CsrfTypeOK'
    BY <2>1 DEF CsrfInv, CsrfTypeOK, Tokens
  <2>3. SetCookieOnTheWay' /\ PageFitsJar' /\ RefusalMeansOvertaken'
    BY <2>1 DEF CsrfInv, SetCookieOnTheWay, PageFitsJar, CsrfCheck, RefusalMeansOvertaken
  <2> QED
    BY <2>2, <2>3 DEF CsrfInv
<1>3. CASE \E t \in Tabs : TabStep(t)
  BY <1>3, AskPageKeeps, ServePageKeeps, ServeFailsKeeps, ShowPageKeeps, SubmitKeeps,
     ServeFormKeeps DEF TabStep
<1> QED
  BY <1>1, <1>2, <1>3 DEF CsrfNext

LEMMA CsrfAlways ==
    CsrfSpec => []CsrfInv
<1>1. CsrfInit => CsrfInv
  BY CsrfInitially
<1>2. CsrfInv /\ [CsrfNext]_csrfVars => CsrfInv'
  BY CsrfKept
<1> QED
  BY <1>1, <1>2, PTL DEF CsrfSpec

(* csrfEnsureToken and CSRFTokenFrom give a page the token that the browser *)
(* has or is about to have, so that a form of it can only be refused for    *)
(* its token when the cookie was lost or set by another response meanwhile. *)
THEOREM FormsKeepTheirToken ==
    CsrfSpec => []RefusalMeansOvertaken
<1>1. CsrfInv => RefusalMeansOvertaken
  BY DEF CsrfInv
<1> QED
  BY <1>1, CsrfAlways, PTL

(* csrfEnsureToken sets a cookie only for a request that has come without   *)
(* one, so no page replaces the token of a browser that has one.            *)
THEOREM TokensAreNotRotated ==
    CsrfSpec => SettledTokenStays
<1>1. CsrfInv /\ [CsrfNext]_csrfVars =>
        [Minting = {} /\ jar \in Tokens /\ clears' = clears => jar' = jar]_csrfVars
  <2> SUFFICES ASSUME CsrfInv, CsrfNext, Minting = {}, clears' = clears
               PROVE  jar' = jar
    BY DEF csrfVars, browserVars
  <2>1. ~ClearJar
    BY DEF ClearJar, CsrfInv, CsrfTypeOK
  <2>2. ASSUME NEW t \in Tabs, ShowPage(t) PROVE jar' = jar
    <3>1. pc[t] = "answered" /\ t \notin Minting
      BY <2>2 DEF ShowPage
    <3>2. cookie[t] \notin NoToken
      BY <3>1 DEF Minting, NoToken
    <3>3. setCookie[t] = Absent
      BY <3>2 DEF CsrfInv, SetCookieOnTheWay
    <3> QED
      BY <2>2, <3>3 DEF ShowPage
  <2>3. CASE ListChanges
    BY <2>3 DEF ListChanges, browserVars
  <2>4. ASSUME NEW t \in Tabs,
               \/ AskPage(t) \/ ServePage(t) \/ ServeFails(t)
               \/ Submit(t) \/ ServeForm(t)
        PROVE  jar' = jar
    BY <2>4 DEF AskPage, ServePage, ServeFails, Submit, ServeForm
  <2> QED
    BY <2>1, <2>2, <2>3, <2>4 DEF CsrfNext, TabStep
<1> QED
  BY <1>1, CsrfAlways, PTL DEF CsrfSpec, SettledTokenStays

(* The cookies, the pages and the verdicts are of their kinds.              *)
THEOREM CsrfTypeCorrect ==
    CsrfSpec => []CsrfTypeOK
<1>1. CsrfInv => CsrfTypeOK
  BY DEF CsrfInv
<1> QED
  BY <1>1, CsrfAlways, PTL
=============================================================================
