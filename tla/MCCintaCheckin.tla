--------------------------- MODULE MCCintaCheckin ---------------------------
(* The check-in belt with a few desks, for TLC.  No symmetry: the run also *)
(* checks liveness.                                                        *)
EXTENDS CintaCheckin

CONSTANTS p1, p2, p3   (* desks *)

TresPuestos == {p1, p2, p3}
=============================================================================
