--------------------------- MODULE ColasEnParalelo --------------------------
(***************************************************************************)
(* What the belts of the scanners promise together: a bounded FIFO queue   *)
(* for each scanner.  A bag is put on one of them, the producer does not   *)
(* say which, and comes out of that one once and in order.                 *)
(***************************************************************************)
EXTENDS Naturals, Sequences

CONSTANTS
  Colas,        (* the queues                                              *)
  Equipajes, Ninguno,
  Capacidad     (* how many bags fit in each                               *)

VARIABLES
  cola,         (* the bags in each queue, the oldest first                *)
  recibido      (* the last bag each consumer was handed                   *)

vars == <<cola, recibido>>

Init ==
  /\ cola = [k \in Colas |-> <<>>]
  /\ recibido = [k \in Colas |-> Ninguno]

Poner(e) ==
  \E k \in Colas :
    /\ Len(cola[k]) < Capacidad
    /\ cola' = [cola EXCEPT ![k] = Append(@, e)]
    /\ UNCHANGED recibido

Sacar(k) ==
  /\ cola[k] # <<>>
  /\ recibido' = [recibido EXCEPT ![k] = Head(cola[k])]
  /\ cola' = [cola EXCEPT ![k] = Tail(@)]

Next == (\E e \in Equipajes : Poner(e)) \/ (\E k \in Colas : Sacar(k))

Spec == Init /\ [][Next]_vars
=============================================================================
