----------------------------- MODULE MCGzipWriter -----------------------------
(* Instances of GzipWriter for TLC. *)
EXTENDS GzipWriter

SomeStatuses == {200, 404}
=============================================================================
