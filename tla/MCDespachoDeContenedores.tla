----------------------- MODULE MCDespachoDeContenedores ----------------------
(* A zone that loads four flights, for TLC.  No symmetry: the run also       *)
(* checks liveness.                                                        *)
EXTENDS DespachoDeContenedores

CONSTANTS e1, e2, e3, e4, e5   (* bags *)

EquipajesMC == {e1, e2, e3, e4, e5}
OrdenMC == <<101, 102, 103, 104>>
CargaMC == 101 :> {e1, e2, e3} @@ 102 :> {e4} @@ 103 :> {} @@ 104 :> {e5}
(* A container holds one bag: e1 and e2 need one each, and e3 another.     *)
EscalaMC == e1 :> 1 @@ e2 :> 1 @@ e3 :> 2 @@ e4 :> 1 @@ e5 :> 1
TotalesMC == {0, 1, 3}
=============================================================================
