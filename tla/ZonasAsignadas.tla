--------------------------- MODULE ZonasAsignadas ---------------------------
(***************************************************************************)
(* The table of the control tower, class ZonasAsignadas of                 *)
(* src/api/api_torre_de_control_svc.h: which flight each loading zone      *)
(* serves.  ApiTorreDeControlSvc calls every operation with                *)
(* mutex_asignaciones taken, so each is one step of the processes that     *)
(* call it by RPC.                                                         *)
(*                                                                         *)
(* Zones are counted from 1 by the robots and by asignar_vuelo; the table  *)
(* and get_zona count them from 0.                                         *)
(***************************************************************************)
EXTENDS Integers, FiniteSetsExt

CONSTANT MaxZonas      (* MAX_ZONAS *)

ASSUME SuposicionZonas == MaxZonas \in Nat \ {0}

(* What get_zona answers for a flight that has no zone, and what the table *)
(* holds for a zone that has no flight.                                    *)
SinZona == -1

ZonasVacias == [i \in 0..MaxZonas - 1 |-> SinZona]

(* asignar_vuelo throws for the other ones: the last zone is not accepted. *)
ZonaValida(zona) == zona > 0 /\ zona < MaxZonas

AsignarVuelo(zonas, zona, vuelo) == [zonas EXCEPT ![zona - 1] = vuelo]

DesasignarVuelo(zonas, vuelo) ==
  [i \in DOMAIN zonas |-> IF zonas[i] = vuelo THEN SinZona ELSE zonas[i]]

(* The first entry of the flight. *)
GetZona(zonas, vuelo) ==
  LET entradas == {i \in DOMAIN zonas : zonas[i] = vuelo}
  IN  IF entradas = {} THEN SinZona ELSE Min(entradas)
=============================================================================
