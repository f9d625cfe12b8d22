-------------------------- MODULE MCMiddlewareStack --------------------------
(* Instances of MiddlewareStack for TLC. *)
EXTENDS MiddlewareStack, SequencesExt

(* Every order of the three global layers, alone and with MaxBodyBytes at   *)
(* any depth, and chains with one or two of the layers only.                *)
SmallChains ==
    SetToSeqs({"metrics", "log", "recover"}) \cup SetToSeqs(LayerKinds)
    \cup {<<"metrics">>, <<"log", "limit">>, <<"limit", "recover">>}

(* docs/wiring-and-health.md:50-55 and docs/errors.md:159-164. *)
WiringChain == {<<"recover", "log", "metrics">>}

(* docs/examples.md:22-26 and examples/stdlib/main.go:55-60. *)
ExampleChain == {<<"metrics", "log", "recover">>}

FinalCodes == {200, 404}
EarlyHints == {103}
NoHints == {}
=============================================================================
