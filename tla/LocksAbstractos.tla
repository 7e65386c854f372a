--------------------------- MODULE LocksAbstractos --------------------------
(***************************************************************************)
(* What the distributed locks promise to the processes of the airport:     *)
(* semaphores, and memories that are read and written under a lock.  It is *)
(* what CintaCheckin, CintaPrincipal and CintaCarga take for granted.      *)
(***************************************************************************)
EXTENDS Naturals

CONSTANTS
  Procesos, Semaforos, Memorias,
  Datos,       (* contents of a memory                                     *)
  DatoInicial,
  ValorInicial,(* of each semaphore                                        *)
  Nadie

VARIABLES
  valor,       (* of each semaphore                                        *)
  duenio,      (* who has the lock of each memory, or Nadie                *)
  memoria,     (* the contents of each memory                              *)
  leido        (* what each process found in the last memory it locked     *)

vars == <<valor, duenio, memoria, leido>>

Init ==
  /\ valor = ValorInicial
  /\ duenio = [m \in Memorias |-> Nadie]
  /\ memoria = [m \in Memorias |-> DatoInicial]
  /\ leido = [p \in Procesos |-> DatoInicial]

WaitOn(s) ==
  /\ valor[s] > 0
  /\ valor' = [valor EXCEPT ![s] = @ - 1]
  /\ UNCHANGED <<duenio, memoria, leido>>

Signalize(s) ==
  /\ valor' = [valor EXCEPT ![s] = @ + 1]
  /\ UNCHANGED <<duenio, memoria, leido>>

Lock(p, m) ==
  /\ duenio[m] = Nadie
  /\ duenio' = [duenio EXCEPT ![m] = p]
  /\ leido' = [leido EXCEPT ![p] = memoria[m]]
  /\ UNCHANGED <<valor, memoria>>

Escribir(p, m, d) ==
  /\ duenio[m] = p
  /\ memoria' = [memoria EXCEPT ![m] = d]
  /\ UNCHANGED <<valor, duenio, leido>>

Unlock(p, m) ==
  /\ duenio[m] = p
  /\ duenio' = [duenio EXCEPT ![m] = Nadie]
  /\ UNCHANGED <<valor, memoria, leido>>

Next ==
  \/ \E s \in Semaforos : WaitOn(s) \/ Signalize(s)
  \/ \E p \in Procesos, m \in Memorias :
       Lock(p, m) \/ Unlock(p, m) \/ \E d \in Datos : Escribir(p, m, d)

Spec == Init /\ [][Next]_vars
=============================================================================
