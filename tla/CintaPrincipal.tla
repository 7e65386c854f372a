--------------------------- MODULE CintaPrincipal ---------------------------
(***************************************************************************)
(* The central belt, src/api/cintaprincipal.h: class CintaPrincipal, as    *)
(* its consumers drive it through ApiDespachante (api_despachante.cpp).    *)
(*                                                                         *)
(* The producers put bags as in the check-in belt.  The consumers stand in *)
(* a row, 1..CantConsumidores: a single turn goes from one to the next,    *)
(* carried by the semaphores of the consumers.  The consumer that holds it *)
(* reads the oldest bag without removing it (leer_elemento); then it       *)
(* removes it (extraer_elemento), and the turn goes back to consumer 1, or *)
(* passes the turn on (avanzar_cinta).  With the belt empty the turn is    *)
(* kept in the shared memory, as consumidor_esperando.                     *)
(*                                                                         *)
(* Only consumidor 1 starts with a signal: cpp_sem_cons_0 is 1 and the     *)
(* others 0 in src/local_broker/locks/group_list_all.txt.                  *)
(***************************************************************************)
EXTENDS Naturals, FiniteSets

CONSTANTS
  Productores,       (* scanners, equipment control and intercargo         *)
  CantConsumidores,  (* *cantidad_consumidores                             *)
  Equipajes,         (* the bags                                           *)
  Ninguno,           (* contents of what was not yet written               *)
  Tamanio            (* *tamanio_vector: CAPACIDAD_CINTA_CENTRAL           *)

ASSUME SuposicionCentral ==
  /\ IsFiniteSet(Productores)
  /\ CantConsumidores \in Nat \ {0}
  /\ Tamanio \in Nat \ {0}

Consumidores == 1..CantConsumidores

VARIABLES
  (* the shared memory *)
  posicion_libre, posicion_ocupada, cantidad_elementos,
  cantidad_productores_esperando, consumidor_esperando,
  ids_productores_esperando, vector_elementos,
  (* the distributed semaphores, by id_productor and id_consumidor *)
  semaforo_productores, semaforo_consumidores,
  (* the producers: where the call is, and its argument *)
  pc_productor, a_colocar,
  (* the consumers: where they are, and the last bag each has read *)
  pc_consumidor, ultimo_equipaje_leido,
  (* what the last extraer_equipaje returned *)
  extraido

posiciones == <<posicion_libre, posicion_ocupada, vector_elementos>>
espera_productores ==
  <<cantidad_productores_esperando, ids_productores_esperando>>
productores  == <<pc_productor, a_colocar>>
consumidores == <<pc_consumidor, ultimo_equipaje_leido, extraido>>

vars == <<posiciones, cantidad_elementos, espera_productores,
          consumidor_esperando, semaforo_productores, semaforo_consumidores,
          productores, consumidores>>

(* The calls: fuera, not in one; esperando, before wait_on; despierto,     *)
(* after it.  A consumer may also have read: leer_proximo_equipaje has     *)
(* returned and the bag is still on the belt; saco_elemento is false in    *)
(* this state and true in the others.                                      *)

(* src/local_broker/locks/cinta_principal.init and group_list_all.txt *)
Init ==
  /\ posicion_libre = 0
  /\ posicion_ocupada = 0
  /\ cantidad_elementos = 0
  /\ cantidad_productores_esperando = 0
  /\ consumidor_esperando = 0
  /\ ids_productores_esperando = [p \in Productores |-> 0]
  /\ vector_elementos = [i \in 0..Tamanio - 1 |-> Ninguno]
  /\ semaforo_productores = [p \in Productores |-> 1]
  /\ semaforo_consumidores = [c \in Consumidores |-> IF c = 1 THEN 1 ELSE 0]
  /\ pc_productor = [p \in Productores |-> "fuera"]
  /\ a_colocar = [p \in Productores |-> Ninguno]
  /\ pc_consumidor = [c \in Consumidores |-> "fuera"]
  /\ ultimo_equipaje_leido = [c \in Consumidores |-> Ninguno]
  /\ extraido = Ninguno

Siguiente(i) == (i + 1) % Tamanio

(* signalize of a consumer's semaphore *)
Senializar(c) ==
  semaforo_consumidores' = [semaforo_consumidores EXCEPT ![c] = @ + 1]

-----------------------------------------------------------------------------
(* colocar_elemento *)

LlamarColocar(p, e) ==
  /\ pc_productor[p] = "fuera"
  /\ pc_productor' = [pc_productor EXCEPT ![p] = "esperando"]
  /\ a_colocar' = [a_colocar EXCEPT ![p] = e]
  /\ UNCHANGED <<posiciones, cantidad_elementos, espera_productores,
                 consumidor_esperando, semaforo_productores,
                 semaforo_consumidores, consumidores>>

EsperarProductor(p) ==
  /\ pc_productor[p] = "esperando"
  /\ semaforo_productores[p] > 0
  /\ semaforo_productores' = [semaforo_productores EXCEPT ![p] = @ - 1]
  /\ pc_productor' = [pc_productor EXCEPT ![p] = "despierto"]
  /\ UNCHANGED <<posiciones, cantidad_elementos, espera_productores,
                 consumidor_esperando, semaforo_consumidores, a_colocar,
                 consumidores>>

(* Fault: the first bag of an empty belt signals consumer 1 whether or not *)
(* the turn was left in the memory.                                        *)
DespertarSiempre ==
  /\ Senializar(1)
  /\ consumidor_esperando' = 0

(* The turn left in the memory goes to consumer 1, whoever left it. *)
DespertarConsumidor ==
  IF consumidor_esperando > 0
  THEN /\ Senializar(1)
       /\ consumidor_esperando' = 0
  ELSE UNCHANGED <<semaforo_consumidores, consumidor_esperando>>

(* Fault: the producer that takes the last place is not marked.            *)
TerminarSinMarcar(p, n) ==
  IF n = Tamanio
  THEN /\ cantidad_productores_esperando' = cantidad_productores_esperando + 1
       /\ UNCHANGED <<ids_productores_esperando, semaforo_productores>>
  ELSE /\ semaforo_productores' = [semaforo_productores EXCEPT ![p] = @ + 1]
       /\ UNCHANGED espera_productores

(* How a turn of the loop ends when it leaves n bags on the belt. *)
TerminarTurnoProductor(p, n) ==
  IF n = Tamanio
  THEN /\ cantidad_productores_esperando' = cantidad_productores_esperando + 1
       /\ ids_productores_esperando' =
            [ids_productores_esperando EXCEPT ![p] = 1]
       /\ UNCHANGED semaforo_productores
  ELSE /\ semaforo_productores' = [semaforo_productores EXCEPT ![p] = @ + 1]
       /\ UNCHANGED espera_productores

Colocar(p) ==
  /\ pc_productor[p] = "despierto"
  /\ cantidad_elementos < Tamanio
  /\ vector_elementos' =
       [vector_elementos EXCEPT ![posicion_libre] = a_colocar[p]]
  /\ posicion_libre' = Siguiente(posicion_libre)
  /\ cantidad_elementos' = cantidad_elementos + 1
  /\ IF cantidad_elementos' = 1
     THEN DespertarConsumidor
     ELSE UNCHANGED <<semaforo_consumidores, consumidor_esperando>>
  /\ TerminarTurnoProductor(p, cantidad_elementos')
  /\ pc_productor' = [pc_productor EXCEPT ![p] = "fuera"]
  /\ a_colocar' = [a_colocar EXCEPT ![p] = Ninguno]
  /\ UNCHANGED <<posicion_ocupada, consumidores>>

(* The belt filled up again before this producer took the lock. *)
NoPudoColocar(p) ==
  /\ pc_productor[p] = "despierto"
  /\ ~ cantidad_elementos < Tamanio
  /\ TerminarTurnoProductor(p, cantidad_elementos)
  /\ pc_productor' = [pc_productor EXCEPT ![p] = "esperando"]
  /\ UNCHANGED <<posiciones, cantidad_elementos, consumidor_esperando,
                 semaforo_consumidores, a_colocar, consumidores>>

-----------------------------------------------------------------------------
(* leer_elemento, avanzar_cinta and extraer_elemento *)

(* Fault: id_consumidor, which is the next one's semaphore counted from 0, *)
(* taken as counted from 1 and increased.                                  *)
SalteaUno(c) == IF c + 2 <= CantConsumidores THEN c + 2 ELSE 1

(* The consumer whose semaphore avanzar_cinta(c) signals. *)
SiguienteConsumidor(c) == IF c < CantConsumidores THEN c + 1 ELSE 1

(* ApiDespachante::avanzar_cinta: nothing to do unless a bag is held. *)
Avanzar(c) ==
  /\ pc_consumidor[c] = "leyo"
  /\ Senializar(SiguienteConsumidor(c))
  /\ pc_consumidor' = [pc_consumidor EXCEPT ![c] = "fuera"]
  /\ UNCHANGED <<posiciones, cantidad_elementos, espera_productores,
                 consumidor_esperando, semaforo_productores, productores,
                 ultimo_equipaje_leido, extraido>>

(* leer_proximo_equipaje advances first, if the caller did not, and then   *)
(* calls leer_elemento.                                                    *)
LlamarLeer(c) ==
  /\ pc_consumidor[c] \in {"fuera", "leyo"}
  /\ IF pc_consumidor[c] = "leyo"
     THEN Senializar(SiguienteConsumidor(c))
     ELSE UNCHANGED semaforo_consumidores
  /\ pc_consumidor' = [pc_consumidor EXCEPT ![c] = "esperando"]
  /\ UNCHANGED <<posiciones, cantidad_elementos, espera_productores,
                 consumidor_esperando, semaforo_productores, productores,
                 ultimo_equipaje_leido, extraido>>

EsperarConsumidor(c) ==
  /\ pc_consumidor[c] = "esperando"
  /\ semaforo_consumidores[c] > 0
  /\ semaforo_consumidores' = [semaforo_consumidores EXCEPT ![c] = @ - 1]
  /\ pc_consumidor' = [pc_consumidor EXCEPT ![c] = "despierto"]
  /\ UNCHANGED <<posiciones, cantidad_elementos, espera_productores,
                 consumidor_esperando, semaforo_productores, productores,
                 ultimo_equipaje_leido, extraido>>

Leer(c) ==
  /\ pc_consumidor[c] = "despierto"
  /\ cantidad_elementos > 0
  /\ ultimo_equipaje_leido' =
       [ultimo_equipaje_leido EXCEPT ![c] = vector_elementos[posicion_ocupada]]
  /\ pc_consumidor' = [pc_consumidor EXCEPT ![c] = "leyo"]
  /\ UNCHANGED <<posiciones, cantidad_elementos, espera_productores,
                 consumidor_esperando, semaforo_productores,
                 semaforo_consumidores, productores, extraido>>

(* The belt was empty: the turn is left in the memory. *)
NoPudoLeer(c) ==
  /\ pc_consumidor[c] = "despierto"
  /\ cantidad_elementos = 0
  /\ consumidor_esperando' = 1
  /\ pc_consumidor' = [pc_consumidor EXCEPT ![c] = "esperando"]
  /\ UNCHANGED <<posiciones, cantidad_elementos, espera_productores,
                 semaforo_productores, semaforo_consumidores, productores,
                 ultimo_equipaje_leido, extraido>>

(* One signal to every producer whose mark is set. *)
DespertarProductores ==
  IF cantidad_productores_esperando > 0
  THEN /\ semaforo_productores' =
            [p \in Productores |-> semaforo_productores[p]
                                     + ids_productores_esperando[p]]
       /\ ids_productores_esperando' = [p \in Productores |-> 0]
       /\ cantidad_productores_esperando' = 0
  ELSE UNCHANGED <<semaforo_productores, espera_productores>>

(* Fault: the turn is signalled and left in the memory too. *)
DevolverDosVeces(n) ==
  /\ Senializar(1)
  /\ consumidor_esperando' = IF n = 0 THEN 1 ELSE consumidor_esperando

(* Where the turn goes after an extraction that leaves n bags. *)
DevolverTurno(n) ==
  IF n = 0
  THEN consumidor_esperando' = 1 /\ UNCHANGED semaforo_consumidores
  ELSE Senializar(1) /\ UNCHANGED consumidor_esperando

(* extraer_elemento drops the oldest bag without looking at it; the caller *)
(* returns the one it had read.                                            *)
Extraer(c) ==
  /\ pc_consumidor[c] = "leyo"
  /\ posicion_ocupada' = Siguiente(posicion_ocupada)
  /\ cantidad_elementos' = cantidad_elementos - 1
  /\ IF cantidad_elementos' = Tamanio - 1
     THEN DespertarProductores
     ELSE UNCHANGED <<semaforo_productores, espera_productores>>
  /\ DevolverTurno(cantidad_elementos')
  /\ extraido' = ultimo_equipaje_leido[c]
  /\ pc_consumidor' = [pc_consumidor EXCEPT ![c] = "fuera"]
  /\ UNCHANGED <<posicion_libre, vector_elementos, productores,
                 ultimo_equipaje_leido>>

-----------------------------------------------------------------------------
PasoProductor(p) ==
  \/ EsperarProductor(p)
  \/ Colocar(p)
  \/ NoPudoColocar(p)

PasoConsumidor(c) ==
  \/ LlamarLeer(c)
  \/ EsperarConsumidor(c)
  \/ Leer(c)
  \/ NoPudoLeer(c)
  \/ Avanzar(c)
  \/ Extraer(c)

Next ==
  \/ \E p \in Productores : PasoProductor(p)
  \/ \E p \in Productores, e \in Equipajes : LlamarColocar(p, e)
  \/ \E c \in Consumidores : PasoConsumidor(c)

Spec == Init /\ [][Next]_vars

-----------------------------------------------------------------------------
(* Properties *)

(* A consumer has the turn when its semaphore is signalled or it has       *)
(* passed wait_on and not yet given the turn away.                         *)
TieneTurno(c) ==
  semaforo_consumidores[c] > 0 \/ pc_consumidor[c] \in {"despierto", "leyo"}

(* There is one turn, and it is never lost nor doubled by the signals that *)
(* colocar_elemento, avanzar_cinta and extraer_elemento send and by the    *)
(* wait_on of leer_elemento: it is with one consumer, in one place, or it  *)
(* is in the memory while the belt is empty.                               *)
UnSoloTurno ==
  /\ \A c \in Consumidores :
       /\ TieneTurno(c) => consumidor_esperando = 0
       /\ pc_consumidor[c] \in {"despierto", "leyo"} =>
            semaforo_consumidores[c] = 0
       /\ \A d \in Consumidores : TieneTurno(c) /\ TieneTurno(d) => c = d
  /\ consumidor_esperando = 0 => \E c \in Consumidores : TieneTurno(c)
  /\ consumidor_esperando = 1 => cantidad_elementos = 0

(* What a consumer has read is still the oldest bag when it extracts:      *)
(* extraer_elemento removes the head of the belt long after leer_elemento  *)
(* read it, with the lock released in between and an RPC to the control    *)
(* tower made (robot_despacho.cpp:59-79).                                  *)
LoLeidoSigueEnCabeza ==
  \A c \in Consumidores :
    pc_consumidor[c] = "leyo" =>
      /\ cantidad_elementos > 0
      /\ ultimo_equipaje_leido[c] = vector_elementos[posicion_ocupada]

(* No consumer is skipped: when the turn is with a consumer past the       *)
(* first, the belt is not empty and all those before it have read the bag  *)
(* that is now its oldest.                                                 *)
TodosLoVieron ==
  \A c \in Consumidores : TieneTurno(c) =>
    \A d \in 1..c - 1 :
      /\ cantidad_elementos > 0
      /\ ultimo_equipaje_leido[d] = vector_elementos[posicion_ocupada]

(* The producers that extraer_elemento would signal. *)
Marcados == {p \in Productores : ids_productores_esperando[p] = 1}

(* A producer sleeps only on a full belt, and the counter that guards the  *)
(* wake-up loop of extraer_elemento counts the marks: the wake-up sent     *)
(* only when the belt stops being full misses nobody, and signals nobody   *)
(* that still has its permission.                                          *)
EsperaJustificada ==
  /\ \A p \in Productores :
       semaforo_productores[p] + ids_productores_esperando[p] <= 1
  /\ \A p \in Marcados : cantidad_elementos = Tamanio
  /\ cantidad_productores_esperando = Cardinality(Marcados)

(* The bags on the belt, the oldest first. *)
Contenido ==
  [i \in 1..cantidad_elementos |->
     vector_elementos[(posicion_ocupada + i - 1) % Tamanio]]

Cola == INSTANCE ColaAcotada
          WITH cola <- Contenido, recibido <- extraido, Capacidad <- Tamanio

(* The belt is a bounded FIFO queue: extraer_equipaje removes the bags in  *)
(* the order they were put and returns the very bag it removes, whichever  *)
(* consumer extracts it.                                                   *)
ImplementaCola == Cola!Spec
=============================================================================
