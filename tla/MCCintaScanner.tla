--------------------------- MODULE MCCintaScanner ---------------------------
(* The belts of a few scanners, for TLC. *)
EXTENDS CintaScanner
=============================================================================
