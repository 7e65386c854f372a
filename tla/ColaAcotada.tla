----------------------------- MODULE ColaAcotada -----------------------------
(***************************************************************************)
(* What a conveyor belt promises to the processes around it: a bounded     *)
(* FIFO queue.  A bag put on the belt is handed over once, in order, and   *)
(* the belt never holds more than Capacidad bags.  The belts of src/api    *)
(* are shown to implement this specification.                              *)
(***************************************************************************)
EXTENDS Naturals, Sequences

CONSTANTS
  Equipajes,    (* the bags                                                *)
  Ninguno,      (* no bag: what the consumer holds before its first one    *)
  Capacidad     (* how many bags fit on the belt                           *)

VARIABLES
  cola,         (* the bags on the belt, the oldest first                  *)
  recibido      (* the last bag handed to the consumer                     *)

vars == <<cola, recibido>>

Init ==
  /\ cola = <<>>
  /\ recibido = Ninguno

Poner(e) ==
  /\ Len(cola) < Capacidad
  /\ cola' = Append(cola, e)
  /\ UNCHANGED recibido

Sacar ==
  /\ cola # <<>>
  /\ recibido' = Head(cola)
  /\ cola' = Tail(cola)

Next == Sacar \/ \E e \in Equipajes : Poner(e)

Spec == Init /\ [][Next]_vars
==============================================================================
