----------------------------- MODULE MCTrasbordo -----------------------------
(* Three transfers and a flight without any, for TLC. *)
EXTENDS Trasbordo

CONSTANTS e1, e2, e3   (* bags *)

(* As in processes/entrada/vuelos_interconexion.csv: two flights come in,  *)
(* with bags for 1 and, the first of them, for 2.                          *)
Llegan    == <<201, 202>>
Conexion  == {<<201, 1>>, <<201, 2>>, <<202, 1>>}
Entrantes == (e1 :> 201 @@ e2 :> 202 @@ e3 :> 201)
Siguen    == (e1 :> 1 @@ e2 :> 1 @@ e3 :> 2)

Zonas     == (1 :> 1 @@ 2 :> 2)

Capacidades ==
  (ColaZonas :> 2 @@ ColaEntrantes :> 2 @@ ColaIntercargo :> 1)

Vidas == [p \in Procesos |-> IF p = Robot(1) THEN 2 ELSE 1]
=============================================================================
