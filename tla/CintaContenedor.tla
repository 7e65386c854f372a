--------------------------- MODULE CintaContenedor --------------------------
(***************************************************************************)
(* What a container belt is to the processes that share it: a queue of     *)
(* bags and the notice that the check-in of its flight has closed, with    *)
(* the total of bags to wait for.  ColaConCierre states it as a            *)
(* specification, which CintaCarga implements; CicloDeVuelo uses one such  *)
(* value for every loading zone.                                           *)
(***************************************************************************)
EXTENDS Naturals, Sequences

(* cierre: "abierto" until the notice is given, "avisado" until the        *)
(* consumer is told of it, "atendido" from then to comenzar_nueva_carga.   *)
CintaVacia == [cola |-> <<>>, cierre |-> "abierto", total |-> 0]

ConEquipaje(c, e) == [c EXCEPT !.cola = Append(@, e)]

SinPrimero(c) == [c EXCEPT !.cola = Tail(@)]

(* A notice that comes after the consumer was told only changes the total. *)
ConAviso(c, n) ==
  [c EXCEPT !.total = n, !.cierre = IF @ = "abierto" THEN "avisado" ELSE @]

ConAvisoAtendido(c) == [c EXCEPT !.cierre = "atendido"]

ParaNuevaCarga(c) == [c EXCEPT !.total = 0, !.cierre = "abierto"]
=============================================================================
