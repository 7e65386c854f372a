---------------------------- MODULE ColaConCierre ---------------------------
(***************************************************************************)
(* What a container belt promises: a bounded FIFO queue whose consumer is  *)
(* told once, and before any other bag, that the check-in has closed.      *)
(***************************************************************************)
EXTENDS CintaContenedor

CONSTANTS Equipajes, Ninguno, Capacidad,
          Aviso,     (* the bag with rfid 0 that stands for the notice     *)
          Totales    (* the totals a notice may carry                      *)

VARIABLES cinta, recibido

vars == <<cinta, recibido>>

Init ==
  /\ cinta = CintaVacia
  /\ recibido = Ninguno

Poner(e) ==
  /\ Len(cinta.cola) < Capacidad
  /\ cinta' = ConEquipaje(cinta, e)
  /\ UNCHANGED recibido

Sacar ==
  /\ cinta.cierre # "avisado"
  /\ cinta.cola # <<>>
  /\ recibido' = Head(cinta.cola)
  /\ cinta' = SinPrimero(cinta)

SacarAviso ==
  /\ cinta.cierre = "avisado"
  /\ recibido' = Aviso
  /\ cinta' = ConAvisoAtendido(cinta)

Avisar(n) ==
  /\ cinta' = ConAviso(cinta, n)
  /\ UNCHANGED recibido

ComenzarNuevaCarga ==
  /\ cinta' = ParaNuevaCarga(cinta)
  /\ UNCHANGED recibido

Next ==
  \/ \E e \in Equipajes : Poner(e)
  \/ Sacar
  \/ SacarAviso
  \/ \E n \in Totales : Avisar(n)
  \/ ComenzarNuevaCarga

Spec == Init /\ [][Next]_vars
=============================================================================
