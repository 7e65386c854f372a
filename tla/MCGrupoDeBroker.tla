--------------------------- MODULE MCGrupoDeBroker ---------------------------
(* A group that clients join and leave, for TLC. *)
EXTENDS GrupoDeBroker, TLC
=============================================================================
