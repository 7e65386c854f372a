------------------------- MODULE MCCircuitoCentral --------------------------
(* The loop of the central belt with a few bags, for TLC. *)
EXTENDS CircuitoCentral, TLC

CONSTANTS e1, e2, e3, e4   (* bags *)

EquipajesMC == [id : Ids, sospechoso : BOOLEAN]

(* Flights 1 and 2, as in processes/entrada/vuelos.csv *)
DosVuelos  == [id \in Ids |-> IF id = e2 THEN 2 ELSE 1]

(* One dispatch robot, with the zones of robot_despacho_1 in main.cpp *)
UnDespacho == <<{1, 2}>>

(* Every bag for flight 2 *)
UnVuelo == [id \in Ids |-> 2]
=============================================================================
