---------------------------- MODULE CintaCheckin ----------------------------
(***************************************************************************)
(* The check-in belt, src/api/cinta.h: class Cinta.  The check-in desks    *)
(* (producers) put bags with poner_equipaje, robot_checkin (the consumer)  *)
(* takes them with sacar_equipaje.                                         *)
(*                                                                         *)
(* Every producer has a semaphore of its own and so has the consumer; each *)
(* starts at 1 (src/local_broker/locks/group_list_all.txt).  A call waits  *)
(* on its semaphore, enters the critical section of the shared memory and, *)
(* before it leaves, either gives the semaphore back or, when the belt is  *)
(* full (empty), records in the memory that it is owed a signal.           *)
(*                                                                         *)
(* wait_on is one step and the critical section lock ... unlock another:   *)
(* everything between them but the signals is protected by the lock, and a *)
(* process woken by a signal sent inside it still has to take the lock.    *)
(***************************************************************************)
EXTENDS Naturals, FiniteSets

CONSTANTS
  Productores,  (* the check-in desks, by id_productor - 1                 *)
  Equipajes,    (* the bags                                                *)
  Ninguno,      (* contents of a slot or a variable not yet written        *)
  Tamanio       (* *tamanio_vector: CAPACIDAD_CINTA_CHECKIN                *)

ASSUME SuposicionCinta ==
  /\ IsFiniteSet(Productores)
  /\ Tamanio \in Nat \ {0}

VARIABLES
  (* the shared memory, in the order of its layout *)
  posicion_libre, posicion_ocupada, cantidad_elementos,
  cantidad_productores_esperando, cantidad_consumidores_esperando,
  ids_productores_esperando, ids_consumidores_esperando,
  vector_elementos,
  (* the distributed semaphores *)
  semaforo_productores, semaforo_consumidores,
  (* the processes: where each call is, and its argument or result *)
  pc_productor, a_colocar, pc_consumidor, elemento

posiciones == <<posicion_libre, posicion_ocupada, vector_elementos>>
espera_productores ==
  <<cantidad_productores_esperando, ids_productores_esperando>>
espera_consumidores ==
  <<cantidad_consumidores_esperando, ids_consumidores_esperando>>
productores == <<pc_productor, a_colocar>>
consumidor  == <<pc_consumidor, elemento>>

vars == <<posiciones, cantidad_elementos, espera_productores,
          espera_consumidores, semaforo_productores, semaforo_consumidores,
          productores, consumidor>>

(* fuera: not in a call; esperando: before wait_on; despierto: after it *)
Pc == {"fuera", "esperando", "despierto"}

(* src/local_broker/locks/cinta_checkin.init *)
Init ==
  /\ posicion_libre = 0
  /\ posicion_ocupada = 0
  /\ cantidad_elementos = 0
  /\ cantidad_productores_esperando = 0
  /\ cantidad_consumidores_esperando = 0
  /\ ids_productores_esperando = [p \in Productores |-> 0]
  /\ ids_consumidores_esperando = 0
  /\ vector_elementos = [i \in 0..Tamanio - 1 |-> Ninguno]
  /\ semaforo_productores = [p \in Productores |-> 1]
  /\ semaforo_consumidores = 1
  /\ pc_productor = [p \in Productores |-> "fuera"]
  /\ a_colocar = [p \in Productores |-> Ninguno]
  /\ pc_consumidor = "fuera"
  /\ elemento = Ninguno

(* Fault: the index is taken modulo one less, as when a slot is kept free. *)
SiguienteCorto(i) == IF i + 2 >= Tamanio THEN 0 ELSE i + 1

Siguiente(i) == (i + 1) % Tamanio

-----------------------------------------------------------------------------
(* poner_equipaje *)

LlamarPoner(p, e) ==
  /\ pc_productor[p] = "fuera"
  /\ pc_productor' = [pc_productor EXCEPT ![p] = "esperando"]
  /\ a_colocar' = [a_colocar EXCEPT ![p] = e]
  /\ UNCHANGED <<posiciones, cantidad_elementos, espera_productores,
                 espera_consumidores, semaforo_productores,
                 semaforo_consumidores, consumidor>>

EsperarProductor(p) ==
  /\ pc_productor[p] = "esperando"
  /\ semaforo_productores[p] > 0
  /\ semaforo_productores' = [semaforo_productores EXCEPT ![p] = @ - 1]
  /\ pc_productor' = [pc_productor EXCEPT ![p] = "despierto"]
  /\ UNCHANGED <<posiciones, cantidad_elementos, espera_productores,
                 espera_consumidores, semaforo_consumidores, a_colocar,
                 consumidor>>

(* Slot 0 is the only one: the belt has one consumer semaphore. *)
DespertarConsumidores ==
  IF cantidad_consumidores_esperando > 0
  THEN /\ semaforo_consumidores' =
            semaforo_consumidores + ids_consumidores_esperando
       /\ ids_consumidores_esperando' = 0
       /\ cantidad_consumidores_esperando' = 0
  ELSE UNCHANGED <<semaforo_consumidores, espera_consumidores>>

(* How a turn of the loop ends when it leaves n bags on the belt. *)
TerminarTurnoProductor(p, n) ==
  IF n = Tamanio
  THEN /\ cantidad_productores_esperando' = cantidad_productores_esperando + 1
       /\ ids_productores_esperando' =
            [ids_productores_esperando EXCEPT ![p] = 1]
       /\ UNCHANGED semaforo_productores
  ELSE /\ semaforo_productores' = [semaforo_productores EXCEPT ![p] = @ + 1]
       /\ UNCHANGED espera_productores

Colocar(p) ==
  /\ pc_productor[p] = "despierto"
  /\ cantidad_elementos < Tamanio
  /\ vector_elementos' =
       [vector_elementos EXCEPT ![posicion_libre] = a_colocar[p]]
  /\ posicion_libre' = Siguiente(posicion_libre)
  /\ cantidad_elementos' = cantidad_elementos + 1
  /\ IF cantidad_elementos' = 1
     THEN DespertarConsumidores
     ELSE UNCHANGED <<semaforo_consumidores, espera_consumidores>>
  /\ TerminarTurnoProductor(p, cantidad_elementos')
  /\ pc_productor' = [pc_productor EXCEPT ![p] = "fuera"]
  /\ UNCHANGED <<posicion_ocupada, a_colocar, consumidor>>

(* The belt filled up again before this producer took the lock. *)
NoPudoColocar(p) ==
  /\ pc_productor[p] = "despierto"
  /\ ~ cantidad_elementos < Tamanio
  /\ TerminarTurnoProductor(p, cantidad_elementos)
  /\ pc_productor' = [pc_productor EXCEPT ![p] = "esperando"]
  /\ UNCHANGED <<posiciones, cantidad_elementos, espera_consumidores,
                 semaforo_consumidores, a_colocar, consumidor>>

-----------------------------------------------------------------------------
(* sacar_equipaje *)

LlamarSacar ==
  /\ pc_consumidor = "fuera"
  /\ pc_consumidor' = "esperando"
  /\ UNCHANGED <<posiciones, cantidad_elementos, espera_productores,
                 espera_consumidores, semaforo_productores,
                 semaforo_consumidores, productores, elemento>>

EsperarConsumidor ==
  /\ pc_consumidor = "esperando"
  /\ semaforo_consumidores > 0
  /\ semaforo_consumidores' = semaforo_consumidores - 1
  /\ pc_consumidor' = "despierto"
  /\ UNCHANGED <<posiciones, cantidad_elementos, espera_productores,
                 espera_consumidores, semaforo_productores, productores,
                 elemento>>

(* Faults to be told apart from the code: only one producer is signalled,  *)
(* as a notify in place of a notify_all; the marks are not cleared.        *)
DespertarUnProductor ==
  IF cantidad_productores_esperando > 0
  THEN \E q \in {p \in Productores : ids_productores_esperando[p] = 1} :
         /\ semaforo_productores' = [semaforo_productores EXCEPT ![q] = @ + 1]
         /\ ids_productores_esperando' =
              [ids_productores_esperando EXCEPT ![q] = 0]
         /\ cantidad_productores_esperando' = 0
  ELSE UNCHANGED <<semaforo_productores, espera_productores>>

DespertarSinLimpiar ==
  IF cantidad_productores_esperando > 0
  THEN /\ semaforo_productores' =
            [p \in Productores |-> semaforo_productores[p]
                                     + ids_productores_esperando[p]]
       /\ cantidad_productores_esperando' = 0
       /\ UNCHANGED ids_productores_esperando
  ELSE UNCHANGED <<semaforo_productores, espera_productores>>

(* One signal to every producer whose mark is set. *)
DespertarProductores ==
  IF cantidad_productores_esperando > 0
  THEN /\ semaforo_productores' =
            [p \in Productores |-> semaforo_productores[p]
                                     + ids_productores_esperando[p]]
       /\ ids_productores_esperando' = [p \in Productores |-> 0]
       /\ cantidad_productores_esperando' = 0
  ELSE UNCHANGED <<semaforo_productores, espera_productores>>

TerminarTurnoConsumidor(n) ==
  IF n = 0
  THEN /\ cantidad_consumidores_esperando' =
            cantidad_consumidores_esperando + 1
       /\ ids_consumidores_esperando' = 1
       /\ UNCHANGED semaforo_consumidores
  ELSE /\ semaforo_consumidores' = semaforo_consumidores + 1
       /\ UNCHANGED espera_consumidores

Extraer ==
  /\ pc_consumidor = "despierto"
  /\ cantidad_elementos > 0
  /\ elemento' = vector_elementos[posicion_ocupada]
  /\ posicion_ocupada' = Siguiente(posicion_ocupada)
  /\ cantidad_elementos' = cantidad_elementos - 1
  /\ IF cantidad_elementos' = Tamanio - 1
     THEN DespertarProductores
     ELSE UNCHANGED <<semaforo_productores, espera_productores>>
  /\ TerminarTurnoConsumidor(cantidad_elementos')
  /\ pc_consumidor' = "fuera"
  /\ UNCHANGED <<posicion_libre, vector_elementos, productores>>

NoPudoExtraer ==
  /\ pc_consumidor = "despierto"
  /\ ~ cantidad_elementos > 0
  /\ TerminarTurnoConsumidor(cantidad_elementos)
  /\ pc_consumidor' = "esperando"
  /\ UNCHANGED <<posiciones, cantidad_elementos, espera_productores,
                 semaforo_productores, productores, elemento>>

-----------------------------------------------------------------------------
PasoProductor(p) ==
  \/ EsperarProductor(p)
  \/ Colocar(p)
  \/ NoPudoColocar(p)

PasoConsumidor ==
  \/ LlamarSacar
  \/ EsperarConsumidor
  \/ Extraer
  \/ NoPudoExtraer

Next ==
  \/ \E p \in Productores : PasoProductor(p)
  \/ \E p \in Productores, e \in Equipajes : LlamarPoner(p, e)
  \/ PasoConsumidor

Spec == Init /\ [][Next]_vars

(* A call that can run does run, and robot_checkin calls sacar_equipaje in *)
(* an endless loop; a desk may stop calling.                               *)
Equidad ==
  /\ \A p \in Productores : WF_vars(PasoProductor(p))
  /\ WF_vars(PasoConsumidor)

SpecJusta == Spec /\ Equidad

-----------------------------------------------------------------------------
(* Properties *)

(* The types of the memory, the semaphores and the calls; the semaphores   *)
(* stay binary and the indices stay in the buffer (src/api/cinta.h).       *)
TypeInv ==
  /\ posicion_libre \in 0..Tamanio - 1
  /\ posicion_ocupada \in 0..Tamanio - 1
  /\ cantidad_elementos \in 0..Tamanio
  /\ cantidad_productores_esperando \in Nat
  /\ cantidad_consumidores_esperando \in 0..1
  /\ ids_productores_esperando \in [Productores -> 0..1]
  /\ ids_consumidores_esperando \in 0..1
  /\ vector_elementos \in [0..Tamanio - 1 -> Equipajes \cup {Ninguno}]
  /\ semaforo_productores \in [Productores -> 0..1]
  /\ semaforo_consumidores \in 0..1
  /\ pc_productor \in [Productores -> Pc]
  /\ a_colocar \in [Productores -> Equipajes \cup {Ninguno}]
  /\ pc_consumidor \in Pc
  /\ elemento \in Equipajes \cup {Ninguno}

EnMano(pc) == IF pc = "despierto" THEN 1 ELSE 0

(* No signal is lost and none is sent twice: at any moment the permission  *)
(* of a process to enter the belt is in its semaphore, in its hands, or    *)
(* owed to it by a mark in the shared memory, and in one place only.       *)
(* It relates the wait_on / signalize calls to the ids_..._esperando marks *)
(* of poner_equipaje and sacar_equipaje.                                   *)
UnPermisoPorProceso ==
  /\ \A p \in Productores :
       semaforo_productores[p] + ids_productores_esperando[p]
         + EnMano(pc_productor[p]) = 1
  /\ semaforo_consumidores + ids_consumidores_esperando
       + EnMano(pc_consumidor) = 1

(* Nobody sleeps while it could work: a producer is only marked while the  *)
(* belt is full, the consumer only while it is empty; so a wake-up that is *)
(* sent only on the transitions full -> not full and empty -> not empty    *)
(* (lines 159 and 195 of cinta.h) misses nobody.                           *)
EsperaJustificada ==
  /\ \A p \in Productores :
       ids_productores_esperando[p] = 1 => cantidad_elementos = Tamanio
  /\ ids_consumidores_esperando = 1 => cantidad_elementos = 0

(* The producers that despertar_productores would signal. *)
Marcados == {p \in Productores : ids_productores_esperando[p] = 1}

(* The counters that guard the wake-up loops agree with the marks those    *)
(* loops look at: despertar_productores and despertar_consumidores do      *)
(* nothing exactly when there is no mark.                                  *)
CuentaDeEsperas ==
  /\ cantidad_productores_esperando = Cardinality(Marcados)
  /\ cantidad_consumidores_esperando = ids_consumidores_esperando

(* The three numbers that describe the buffer agree: the free slot is as   *)
(* far from the oldest bag as there are bags, so poner_equipaje never      *)
(* overwrites a bag and sacar_equipaje never reads a slot already taken.   *)
PosicionesCoherentes ==
  posicion_libre = (posicion_ocupada + cantidad_elementos) % Tamanio

(* The bags on the belt, the oldest first. *)
Contenido ==
  [i \in 1..cantidad_elementos |->
     vector_elementos[(posicion_ocupada + i - 1) % Tamanio]]

Cola == INSTANCE ColaAcotada
          WITH cola <- Contenido, recibido <- elemento, Capacidad <- Tamanio

(* The belt is a bounded FIFO queue: sacar_equipaje returns the bags in    *)
(* the order the poner_equipaje calls entered the belt, each once, however *)
(* the calls of the desks interleave.                                      *)
ImplementaCola == Cola!Spec

(* Every bag on the belt is eventually returned by sacar_equipaje.         *)
TodoEquipajeSale ==
  \A e \in Equipajes :
    (\E i \in DOMAIN Contenido : Contenido[i] = e) ~> elemento = e
=============================================================================
