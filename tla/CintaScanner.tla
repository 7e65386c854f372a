---------------------------- MODULE CintaScanner ----------------------------
(***************************************************************************)
(* The belts of the scanners, src/api/cintascanner.h: class CintaScanner.  *)
(* robot_checkin puts each bag on one of the belts, in turns; every        *)
(* robot_scanner takes bags from the belt of its own.                      *)
(*                                                                         *)
(* Each belt is a distributed memory with a lock, and so is the control    *)
(* memory, which says which belts are in use and which are full.  A        *)
(* critical section of a belt that needs the control memory takes the lock *)
(* of the latter inside; nobody takes them in the other order, and what is *)
(* done to a belt is of no concern to who only has the control memory.  So *)
(* the two nested sections are one step.                                   *)
(***************************************************************************)
EXTENDS Integers, FiniteSets

CONSTANTS
  MaxScanners,  (* MAX_SCANNERS                                            *)
  Equipajes,
  Ninguno,      (* contents of a slot or a variable not yet written        *)
  Tamanio       (* *tamanio_vector: CAPACIDAD_CINTA_SCANNER                *)

ASSUME SuposicionScanner ==
  /\ MaxScanners \in Nat \ {0}
  /\ Tamanio \in Nat \ {0}
  /\ Ninguno \notin Equipajes

Cintas == 0..MaxScanners - 1   (* numero_cinta; the scanner is numero_cinta + 1 *)

VARIABLES
  (* one memory per belt *)
  posicion_libre, posicion_ocupada, cantidad_elementos, consumidor_esperando,
  vector_elementos,
  (* the control memory *)
  cinta_llena, productor_esperando,
  (* the distributed semaphores: the first, and the others *)
  semaforo_productor, semaforo_consumidor,
  (* robot_checkin *)
  pc_productor, proxima_cinta, a_colocar,
  (* the scanners *)
  pc_consumidor, elemento

cintas == <<posicion_libre, posicion_ocupada, cantidad_elementos,
            consumidor_esperando, vector_elementos>>
control    == <<cinta_llena, productor_esperando>>
semaforos  == <<semaforo_productor, semaforo_consumidor>>
productor  == <<pc_productor, proxima_cinta, a_colocar>>
consumidor == <<pc_consumidor, elemento>>

vars == <<cintas, control, semaforos, productor, consumidor>>

(* The values of control_cinta_llena *)
SinScanner == -1
ConLugar   == 0
Llena      == 1

(* src/local_broker/locks/cinta_escaner.init, cinta_escaner_control.init *)
Init ==
  /\ posicion_libre = [k \in Cintas |-> 0]
  /\ posicion_ocupada = [k \in Cintas |-> 0]
  /\ cantidad_elementos = [k \in Cintas |-> 0]
  /\ consumidor_esperando = [k \in Cintas |-> 0]
  /\ vector_elementos = [k \in Cintas |-> [i \in 0..Tamanio - 1 |-> Ninguno]]
  /\ cinta_llena = [k \in Cintas |-> SinScanner]
  /\ productor_esperando = 0
  /\ semaforo_productor = 1
  /\ semaforo_consumidor = [k \in Cintas |-> 1]
  /\ pc_productor = "fuera"
  /\ proxima_cinta = 0
  /\ a_colocar = Ninguno
  /\ pc_consumidor = [k \in Cintas |-> "apagado"]
  /\ elemento = [k \in Cintas |-> Ninguno]

Siguiente(i, n) == (i + 1) % n

Sigue(k, pc) == pc_consumidor' = [pc_consumidor EXCEPT ![k] = pc]

-----------------------------------------------------------------------------
(* The constructor of a scanner: it enters its belt in the control memory  *)

Registrar(k) ==
  /\ pc_consumidor[k] = "apagado"
  /\ cinta_llena' = [cinta_llena EXCEPT ![k] = IF @ = SinScanner THEN ConLugar ELSE @]
  /\ productor_esperando' = 0
  /\ Sigue(k, IF productor_esperando = 1 THEN "avisando" ELSE "fuera")
  /\ UNCHANGED <<cintas, semaforos, productor, elemento>>

(* signalize(0), after the lock is given back *)
AvisarAlta(k) ==
  /\ pc_consumidor[k] = "avisando"
  /\ semaforo_productor' = semaforo_productor + 1
  /\ Sigue(k, "fuera")
  /\ UNCHANGED <<cintas, control, semaforo_consumidor, productor, elemento>>

-----------------------------------------------------------------------------
(* poner_equipaje, called by robot_checkin *)

LlamarPoner(e) ==
  /\ pc_productor = "fuera"
  /\ pc_productor' = "esperando"
  /\ a_colocar' = e
  /\ UNCHANGED <<cintas, control, semaforos, proxima_cinta, consumidor>>

EsperarProductor ==
  /\ pc_productor = "esperando"
  /\ semaforo_productor > 0
  /\ semaforo_productor' = semaforo_productor - 1
  /\ pc_productor' = "despierto"
  /\ UNCHANGED <<cintas, control, semaforo_consumidor, proxima_cinta,
                 a_colocar, consumidor>>

(* Belt k is the first one with room, from proxima_cinta on. *)
PrimeraConLugar(k) ==
  LET Distancia(j) == (j + MaxScanners - proxima_cinta) % MaxScanners IN
    /\ cinta_llena[k] = ConLugar
    /\ \A j \in Cintas :
         cinta_llena[j] = ConLugar => Distancia(k) <= Distancia(j)

Elegir ==
  /\ pc_productor = "despierto"
  /\ \E k \in Cintas :
       /\ PrimeraConLugar(k)
       /\ proxima_cinta' = k
  /\ pc_productor' = "eligio"
  /\ UNCHANGED <<cintas, control, semaforos, a_colocar, consumidor>>

(* No belt has room: the producer leaves its mark and waits again. *)
NoPudoElegir ==
  /\ pc_productor = "despierto"
  /\ \A k \in Cintas : cinta_llena[k] # ConLugar
  /\ productor_esperando' = 1
  /\ pc_productor' = "esperando"
  /\ UNCHANGED <<cintas, cinta_llena, semaforos, proxima_cinta, a_colocar,
                 consumidor>>

(* Fault: semaphores are counted from the first belt, as belts are. *)
DespertarOtro(k) ==
  IF cantidad_elementos'[k] = 1 /\ consumidor_esperando[k] = 1
  THEN LET j == Siguiente(k, MaxScanners) IN
         /\ semaforo_consumidor' = [semaforo_consumidor EXCEPT ![j] = @ + 1]
         /\ consumidor_esperando' = [consumidor_esperando EXCEPT ![k] = 0]
  ELSE UNCHANGED <<semaforo_consumidor, consumidor_esperando>>

(* The first bag of an empty belt wakes its scanner, if it left its mark. *)
DespertarConsumidor(k) ==
  IF cantidad_elementos'[k] = 1 /\ consumidor_esperando[k] = 1
  THEN /\ semaforo_consumidor' = [semaforo_consumidor EXCEPT ![k] = @ + 1]
       /\ consumidor_esperando' = [consumidor_esperando EXCEPT ![k] = 0]
  ELSE UNCHANGED <<semaforo_consumidor, consumidor_esperando>>

(* Fault: a belt is never marked as full. *)
SinMarcar(k) == UNCHANGED cinta_llena

MarcarLlena(k) ==
  cinta_llena' = IF cantidad_elementos'[k] = Tamanio
                 THEN [cinta_llena EXCEPT ![k] = Llena]
                 ELSE cinta_llena

Colocar ==
  /\ pc_productor = "eligio"
  /\ LET k == proxima_cinta IN
       /\ vector_elementos' =
            [vector_elementos EXCEPT ![k][posicion_libre[k]] = a_colocar]
       /\ posicion_libre' =
            [posicion_libre EXCEPT ![k] = Siguiente(@, Tamanio)]
       /\ cantidad_elementos' = [cantidad_elementos EXCEPT ![k] = @ + 1]
       /\ DespertarConsumidor(k)
       /\ MarcarLlena(k)
  /\ proxima_cinta' = Siguiente(proxima_cinta, MaxScanners)
  /\ semaforo_productor' = semaforo_productor + 1
  /\ pc_productor' = "fuera"
  /\ UNCHANGED <<posicion_ocupada, productor_esperando, a_colocar, consumidor>>

-----------------------------------------------------------------------------
(* sacar_equipaje, called by robot_scanner *)

LlamarSacar(k) ==
  /\ pc_consumidor[k] = "fuera"
  /\ Sigue(k, "esperando")
  /\ UNCHANGED <<cintas, control, semaforos, productor, elemento>>

EsperarConsumidor(k) ==
  /\ pc_consumidor[k] = "esperando"
  /\ semaforo_consumidor[k] > 0
  /\ semaforo_consumidor' = [semaforo_consumidor EXCEPT ![k] = @ - 1]
  /\ Sigue(k, "despierto")
  /\ UNCHANGED <<cintas, control, semaforo_productor, productor, elemento>>

(* Faults: the producer is woken when the belt gets empty, as if full and  *)
(* empty were the same; its mark stays after the signal.                   *)
DespertarAlVaciar(k) ==
  IF cantidad_elementos'[k] = 0 /\ cinta_llena[k] = Llena
  THEN /\ cinta_llena' = [cinta_llena EXCEPT ![k] = ConLugar]
       /\ semaforo_productor' = semaforo_productor + productor_esperando
       /\ productor_esperando' = 0
  ELSE UNCHANGED <<control, semaforo_productor>>

DespertarSinLimpiar(k) ==
  IF cantidad_elementos'[k] = Tamanio - 1 /\ cinta_llena[k] = Llena
  THEN /\ cinta_llena' = [cinta_llena EXCEPT ![k] = ConLugar]
       /\ semaforo_productor' = semaforo_productor + productor_esperando
       /\ UNCHANGED productor_esperando
  ELSE UNCHANGED <<control, semaforo_productor>>

(* The belt was full: it has room now, and the producer that waits for any *)
(* belt is woken, by the first scanner that makes room.                    *)
DespertarProductor(k) ==
  IF cantidad_elementos'[k] = Tamanio - 1 /\ cinta_llena[k] = Llena
  THEN /\ cinta_llena' = [cinta_llena EXCEPT ![k] = ConLugar]
       /\ semaforo_productor' = semaforo_productor + productor_esperando
       /\ productor_esperando' = 0
  ELSE UNCHANGED <<control, semaforo_productor>>

(* How a turn of the loop ends: an empty belt leaves a mark. *)
TerminarTurno(k) ==
  IF cantidad_elementos'[k] = 0
  THEN /\ consumidor_esperando' = [consumidor_esperando EXCEPT ![k] = 1]
       /\ UNCHANGED semaforo_consumidor
  ELSE /\ semaforo_consumidor' = [semaforo_consumidor EXCEPT ![k] = @ + 1]
       /\ UNCHANGED consumidor_esperando

Extraer(k) ==
  /\ pc_consumidor[k] = "despierto"
  /\ cantidad_elementos[k] > 0
  /\ elemento' =
       [elemento EXCEPT ![k] = vector_elementos[k][posicion_ocupada[k]]]
  /\ posicion_ocupada' =
       [posicion_ocupada EXCEPT ![k] = Siguiente(@, Tamanio)]
  /\ cantidad_elementos' = [cantidad_elementos EXCEPT ![k] = @ - 1]
  /\ DespertarProductor(k)
  /\ TerminarTurno(k)
  /\ Sigue(k, "fuera")
  /\ UNCHANGED <<posicion_libre, vector_elementos, productor>>

NoPudoExtraer(k) ==
  /\ pc_consumidor[k] = "despierto"
  /\ ~ cantidad_elementos[k] > 0
  /\ UNCHANGED cantidad_elementos
  /\ TerminarTurno(k)
  /\ Sigue(k, "esperando")
  /\ UNCHANGED <<posicion_libre, posicion_ocupada, vector_elementos, control,
                 semaforo_productor, productor, elemento>>

-----------------------------------------------------------------------------
PasoProductor ==
  \/ EsperarProductor
  \/ Elegir
  \/ NoPudoElegir
  \/ Colocar

PasoConsumidor(k) ==
  \/ AvisarAlta(k)
  \/ LlamarSacar(k)
  \/ EsperarConsumidor(k)
  \/ Extraer(k)
  \/ NoPudoExtraer(k)

Next ==
  \/ \E e \in Equipajes : LlamarPoner(e)
  \/ PasoProductor
  \/ \E k \in Cintas : Registrar(k) \/ PasoConsumidor(k)

Spec == Init /\ [][Next]_vars

(* robot_checkin and robot_scanner are endless loops whose calls run when  *)
(* they can.  A scanner need not be started and no bag need come.          *)
Equidad ==
  /\ WF_vars(PasoProductor)
  /\ \A k \in Cintas : WF_vars(PasoConsumidor(k))

SpecJusta == Spec /\ Equidad

-----------------------------------------------------------------------------
(* Properties *)

EnMano(pc, estados) == IF pc \in estados THEN 1 ELSE 0

(* No signal is lost or sent twice: the permission of robot_checkin to put *)
(* a bag is in its semaphore, in its hands, owed to it by the mark in the  *)
(* control memory, or in the hands of a scanner that has just cleared the  *)
(* mark; that of a scanner, in its semaphore, its hands or its mark.       *)
UnPermisoPorProceso ==
  /\ semaforo_productor + productor_esperando
       + EnMano(pc_productor, {"despierto", "eligio"})
       + Cardinality({k \in Cintas : pc_consumidor[k] = "avisando"}) = 1
  /\ \A k \in Cintas :
       semaforo_consumidor[k] + consumidor_esperando[k]
         + EnMano(pc_consumidor[k], {"despierto"}) = 1

(* Nobody sleeps while it could work: robot_checkin waits for a signal     *)
(* only while every belt in use is full, though it looked at the marks     *)
(* without the lock of any belt, and a scanner only while its belt is      *)
(* empty; and the belt robot_checkin has chosen has room when it gets      *)
(* there, without a second look (cintascanner.h:261).                      *)
EsperaJustificada ==
  /\ productor_esperando = 1 =>
       \A k \in Cintas :
         cinta_llena[k] # SinScanner => cantidad_elementos[k] = Tamanio
  /\ \A k \in Cintas : consumidor_esperando[k] = 1 => cantidad_elementos[k] = 0
  /\ pc_productor = "eligio" => cantidad_elementos[proxima_cinta] < Tamanio

(* The bags on every belt, the oldest first *)
Contenido ==
  [k \in Cintas |->
     [i \in 1..cantidad_elementos[k] |->
        vector_elementos[k][(posicion_ocupada[k] + i - 1) % Tamanio]]]

Colas == INSTANCE ColasEnParalelo
           WITH Colas <- Cintas, cola <- Contenido, recibido <- elemento,
                Capacidad <- Tamanio

(* Every belt is a bounded FIFO queue: each scanner gets the bags put on   *)
(* its belt in their order and once, whatever happens on the other belts,  *)
(* and a call of robot_checkin puts its bag on one belt only.              *)
ImplementaColas == Colas!Spec

(* Every bag moves on: once a scanner has started robot_checkin is not      *)
(* stuck with one in its hands, whichever belt gets room first, and what   *)
(* is on the belt of a scanner comes out, though no other bag may follow.  *)
TodoEquipajeAvanza ==
  /\ (pc_productor # "fuera" /\ \E k \in Cintas : cinta_llena[k] # SinScanner)
       ~> pc_productor = "fuera"
  /\ \A k \in Cintas, e \in Equipajes :
       (\E i \in DOMAIN Contenido[k] : Contenido[k][i] = e) ~> elemento[k] = e
=============================================================================
