---------------------------- MODULE MCClientAddress ----------------------------
(* Instances of ClientAddress for TLC, and the checks of the pure operators. *)
EXTENDS ClientAddress, EdgeChecks

CONSTANTS public, other, lan, gateway, pod, proxy

(* The loop of clientFromForwarded (clientip.go:98-106): from the right over *)
(* what was kept of the chain, else its leftmost address.                    *)
WalkFromTheRight(x) ==
    LET kept == SelectSeq(x, LAMBDA a : a \in Addrs)
        from[i \in 0..Len(kept)] ==
            IF i = 0 THEN kept[1]
            ELSE IF ~clientTrustedProxy(kept[i]) THEN kept[i]
            ELSE from[i - 1]
    IN  IF kept = <<>> THEN None ELSE from[Len(kept)]

ASSUME ChainIsWalkedAsInTheLoop ==
    \A x \in ListsOf(Addrs \cup {Junk}, 4) : clientFromForwarded(x) = WalkFromTheRight(x)
=============================================================================
