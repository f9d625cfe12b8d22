---------------------------- MODULE MCRequestMeter ----------------------------
(* Instances of RequestMeter for TLC. *)
EXTENDS RequestMeter

(* A request without a name, which may be tracked as any other, one of the  *)
(* list and one that is not.                                                *)
ThreeNames == {"", "listed", "unlisted"}
AllowList == {"", "listed"}
(* The bounds of statusClass and a class in between. *)
SomeCodes == {99, 200}
=============================================================================
