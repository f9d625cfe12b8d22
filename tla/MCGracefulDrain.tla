--------------------------- MODULE MCGracefulDrain ---------------------------
(* Instances of GracefulDrain for TLC.  The connections are interchangeable, *)
(* but DrainEnds is a liveness property, for which symmetry is not sound:    *)
(* the instances do without.                                                 *)
EXTENDS GracefulDrain
=============================================================================
