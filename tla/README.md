# The luggage system of an airport, in TLA+

The program moves the bags of an airport: passengers leave them at check-in
desks, belts carry them through scanners to a central belt, robots take them
to the belt of the zone where their flight is being loaded, and a tractor
takes the load to the plane. Each robot, desk and controller is a process of
its own. They share the belts through a *distributed shared memory*: a local
broker keeps a token per belt, and whoever holds the token has the memory of
the belt and its lock.

The modules keep the names of the code (`poner_equipaje`,
`cantidad_elementos`, `despertar_productores`...), which is in Spanish.
Comments are in English.

## 1. Inventory

### The parts, their state and their operations

| Part | State | Operations | What makes it correct |
|---|---|---|---|
| **Check-in belt** `src/api/cinta.h` (`Cinta`) | ring buffer in shared memory, waiting counters and marks per producer and consumer; a distributed semaphore for each | `poner_equipaje`, `sacar_equipaje`, and the wake-up loops inside them | FIFO, no bag lost, overwritten or doubled; no wake-up lost or doubled; nobody sleeps on a belt it could use |
| **Central belt** `src/api/cintaprincipal.h` (`CintaPrincipal`), driven by `api_despachante.cpp` | the same, plus `consumidor_esperando` | `poner_equipaje`, `leer_elemento`, `avanzar_cinta`, `extraer_elemento` | one turn, which passes by every consumer in order; what a consumer read is what it removes |
| **Container belt** `src/api/cintacarga.h` (`CintaContenedor`, `CintaCarga`) | the same, plus the notice (`checkin_cerrado`, `cantidad_equipajes_total`) | `poner_equipaje`, `sacar_equipaje`, `avisar_cierre_de_checkin`, `comenzar_nueva_carga` | the same as the check-in belt; a notice reaches the robot once, asleep or not |
| **Scanner belt** `src/api/cintascanner.h` (`CintaScanner`) | a belt per scanner, each with its lock, and the control memory with a lock of its own: which belts are in use, which are full, whether `robot_checkin` waits | `poner_equipaje`, `sacar_equipaje`, the registration of a scanner | each belt is FIFO; wake-ups that go by marks under two locks are neither lost nor doubled; a bag finds a belt |
| **Control tower** `src/api/api_torre_de_control*.{h,cpp}` | `zonas[]` (zone to flight), behind RPC; queues of free desks, free zones and containers | `asignar_vuelo`, `desasignar_vuelo`, `get_zona`; `pedir_*`, `liberar_*` | a zone and a desk have one flight at a time; a bag is sent where its flight is loaded |
| **Loop of the central belt** `robot_despacho`, `robot_control_equipaje_sospechoso`, `control_equipaje_sospechoso`, `robot_scanner`, `robot_intercargo` | what each process holds; the queue to control | take the bag of my zones; take a suspicious bag aside, clean it, put it back; drop a bag without a zone | no bag is in two places; no suspicious bag is loaded; a clean bag is not taken aside again; every bag arrives |
| **Flight** `controlador_de_vuelo`, `puesto_checkin`, `controlador_puesto_checkin`, `control_carga_contenedores`, `robot_carga` | desk (`vuelo_actual`, `cant_equipajes`, `mutex_checkin`), message queues, the load under way | open and close a check-in, register bags, notice of the total, load, send off, free the zone | what is sent off is exactly what was registered for the flight; every load ends |
| **Containers, tractors, planes** `api_carga.h`, `api_tractor*`, `api_avion*` | containers of the load, blocks of two on a tractor | fill containers, move blocks, count them into the plane | a plane gets all of its containers and no others |
| **Transfers** `generador_vuelos_trasbordo`, `controlador_equipaje_intercargo`, `robot_intercargo`, `intermediate_broker_launcher` | the flights to come and the lines of their connections; the bags of each flight that leaves | announce a flight, launch a controller, wait for the zone and for the flights, send the bags, put them on the belt | each bag gets to the airport of its flight, once; none stays behind but what a broken robot takes |
| **Token ring in a broker** `src/local_broker/` (`Grupo`, `TokenManager`, `ClientHandler`) | groups (one per belt memory, semaphore or mutex), slots of clients, who has the token, a queue per slot | `join`, `leave`, `lock_token`, `release_token`, `pasar_token_a_proximo_cliente`; father and son handlers of a semaphore | one token per lock, never lost, though clients come, go and break |
| **Client library** `src/clientes/` | token kept between a father and a son process | `wait_token`, `send_token`, `wait_mutex`, `leave`... | wait and signal are those of a semaphore |
| **Replication between brokers** `src/local_broker/group_multiplexer.cpp`... | view of each group in each broker | views and tokens travel round a ring of brokers | all brokers see the same view |
| **Ring and election** `src/group/*.py` | two processes per node, leader name in each | build a ring of TCP links, elect the largest name | one leader, one ring |
| **Message broker** `src/local_broker/message_broker*.cpp`, `server.cpp` | a table of names whose places are the keys of System V queues; a child per connection | `create_queue`, `push`, `pull`, `destroy_queue` | a message goes to a reader of its type; a child without its client takes no more than one |
| **Schedulers, generators, launchers** `src/processes/generador_*`, `launcher*` | none | start processes, sleep | - |
| **Sockets, IPC, logs, sqlite, configuration, third-party and generated code** | wrappers | - | - |

`PROJECT.json` lists all of them with what is modelled of each.

### How they interact

```
 passengers -> puesto_checkin --CintaCheckin--> robot_checkin --CintaScanner--> robot_scanner
                    |  mutex_checkin                                                |
 controlador_de_vuelo --open/close--> controlador_puesto_checkin       CintaPrincipal (the loop)
        |    ^                               | total                   |         |         ^
        v    | desks, zones                  v                         v         v         |
   control tower <--RPC get_zona-- robot_despacho     robot_control_sospechoso -> control_sospechoso
        ^                                    |
        | desasignar_vuelo, liberar_zona     v
   robot_carga <--CintaContenedor-- (bags, and the notice of control_carga_contenedores)
        |
        v  containers --> tractor --> plane

 generador_vuelos_trasbordo --flights--> controlador_equipaje_intercargo --bags--> robot_intercargo --> CintaPrincipal
                    controlador_de_vuelo --airport of the flight--^     (all through the message broker)
```

* *Shared memory.* A belt is memory behind a distributed mutex. Each side also
  has a distributed semaphore of its own. A call takes the semaphore
  (`wait_on`), takes the mutex, works, signals others, releases the mutex.
* *Messages.* Open and close messages to a desk, totals to a zone, free desks
  and zones, suspicious bags and containers go through message queues.
  With `use_ipc = false`, as configured, these are queues of a message broker:
  a server with a child per connection, which calls `msgsnd` and `msgrcv` for
  its client.
* *RPC.* The dispatch robots ask the tower for the zone of a flight for every
  bag they read, with no lock held.

### What is hard

* The wake-ups of the belts: a process sleeps on its semaphore, and another
  one signals it only on the transitions full/not full and empty/not empty.
  Signal, mark, counter and contents are changed by different processes.
* The turn of the central belt: it moves through semaphores, hands and a
  flag, and skips nobody only if the ids counted from 1 and the semaphores
  counted from 0 are used right.
* What is read with a lock and used without: the head of the central belt,
  the flight of a desk, the total of a load, the zone of a flight.
* The loop: a bag leaves the central belt and comes back to it; the processes
  on the loop wait for each other.
* A desk and a zone serve one flight after another, and the processes around
  them learn of it by messages that cross.
* The scanner belts: `robot_checkin` feeds several belts and sleeps once for
  all of them; who must wake it is decided by marks under different locks.
* The broker's child keeps waiting for a message when its client is gone, and
  one full queue stops the senders of every reader.
* The ring of nodes: links are made by whoever connects first, break at any
  moment, and each node is two processes that keep the name of the leader.
* Tokens: a client may break anywhere between asking for the token and giving
  it back.

## 2. Modules

| Module | Models | Composes or implements |
|---|---|---|
| `ColaAcotada` | abstract: a bounded FIFO queue | - |
| `ColaConCierre` | abstract: a FIFO queue with a closing notice | - |
| `ColasEnParalelo` | abstract: a FIFO queue per reader, fed by one writer | - |
| `CintaCheckin` | check-in belt | implements `ColaAcotada` |
| `LemasGenerales` | lemmas: the ring that all the belts are written on, sums over a finite set, and how many times an element is in a queue or with some holders | - |
| `CintaScanner` | the belts of the scanners and their control | implements `ColasEnParalelo` |
| `CintaScannerProofs` | theorems of `CintaScanner` | extends it and `LemasGenerales` |
| `CintaPrincipal` | central belt, with the protocol of its consumers | implements `ColaAcotada` |
| `CintaCarga` | container belt, with its notice | implements `ColaConCierre` |
| `CintaContenedor` | the container belt as its users see it: operators on a queue with a notice | used by `CicloDeVuelo` |
| `ZonasAsignadas` | the table of the control tower, as operators | used by `CircuitoCentral` and `CicloDeVuelo` |
| `CircuitoCentral` | the loop of the central belt | extends `CintaPrincipal` and `ZonasAsignadas` |
| `CircuitoCentralProofs` | theorems of `CintaPrincipal` and of `CircuitoCentral` | extends them and `LemasGenerales` |
| `CicloDeVuelo` | the life of a flight: controllers, desks, loads | extends `ZonasAsignadas` and `CintaContenedor` |
| `CicloDeVueloProofs` | theorems of `CicloDeVuelo` | extends it |
| `DespachoDeContenedores` | a loading zone: bags into containers, containers into planes | extends `CintaCarga` |
| `DespachoDeContenedoresProofs` | theorems of `CintaCarga` and of `DespachoDeContenedores` | extends them and `LemasGenerales` |
| `BrokerDeMensajes` | the message broker, with operators for the calls of its clients | - |
| `Trasbordo` | transfers between flights and airports | extends `BrokerDeMensajes` |
| `EntradaDeEquipajesProofs` | theorems about the two ways in which bags come in: of `CintaCheckin` and of `Trasbordo` | extends both and `LemasGenerales` |
| `LocksAbstractos` | abstract: semaphores, and memories under a lock; what the belts take for granted | - |
| `TokensDistribuidos` | the tokens of a local broker and the client library that waits for them | implements `LocksAbstractos` |
| `TokensDistribuidosProofs` | theorems of `TokensDistribuidos` | extends it and `LemasGenerales` |
| `GrupoDeBroker` | the clients of one memory that join, leave and break, and its token | the broker of `TokensDistribuidos` without its assumption that clients stay |
| `GrupoDeBrokerProofs` | theorems of `GrupoDeBroker` | extends it |
| `AnilloDeNodos` | the ring of nodes of `src/group` and its election | - |

The `MC...` modules give each its constants for TLC. Not written: the father
and the son of a semaphore's handler, with names that join twice
(`client_handler.cpp`, `grupo.cpp`), to keep a binary semaphore as
`GrupoDeBroker` keeps a token; they are in the list of hazards.

### How state and actions correspond to the code

**Belts (`CintaCheckin`, `CintaPrincipal`, `CintaCarga`).** The shared memory
is modelled field by field, in the layout of the class (`posicion_libre`,
`posicion_ocupada`, `cantidad_elementos`, the counters and marks of those who
wait, `vector_elementos`); the distributed semaphores are counters; `pc_*` says
where each process is in its call. A call is three actions: the call itself,
`wait_on` of one's semaphore, and the critical section `lock ... unlock`. The
critical section is one step: everything in it is protected by the lock but
the signals, and a process that is woken by a signal still has to take the
lock before it sees anything. Each way through the critical section is an
action: the bag was put or taken (`Colocar`, `Extraer`, `Leer`) or the belt
was full or empty again (`NoPudo...`), and the wake-up loop and the marking at
the end of the loop are operators within them. The initial values are those of
`src/local_broker/locks/*.init` and `group_list_all.txt`; the semaphores of
the consumers of the central belt start at 1, 0, 0.

In `CintaPrincipal` the consumers are the state of `ApiDespachante`
(`saco_elemento` is true unless the consumer is in state `leyo`), so
`leer_proximo_equipaje`, which advances by itself if the caller did not, is
the action `LlamarLeer` with its two cases. `CintaCarga` leaves out the second
turn of the loop of `poner_equipaje`: it cannot happen, with one producer that
is only signalled when there is room, and the run `despacho` checks that
(`NadieDuermeDeMas`).

**`CintaScanner`.** One belt per scanner and the control memory. Where a
critical section of a belt takes the lock of the control inside, the two are
one step. `poner_equipaje` of `robot_checkin` is cut between the choice of a
belt (`Elegir`, `NoPudoElegir`), under the lock of the control, and the bag
that goes on it (`Colocar`), under the lock of the belt: a scanner may come in
between. A scanner registers when it starts, at any moment (`Registrar`,
`AvisarAlta`).

**`CircuitoCentral`.** Each robot's loop is cut at its calls: reading the belt,
the RPC `get_zona`, taking the bag off the belt, putting it on a container belt
or in the queue to control. The central belt is the detailed one, its actions
conjoined with what the robot does. Container belts and the queue to control
are bounded FIFO queues: that is what `CintaCarga` and a message queue
promise. `AbrirVuelo` and `TerminarCarga` stand for what the tower sees of
`controlador_de_vuelo` and `robot_carga`, which `CicloDeVuelo` models step by
step. The transfer robot (`robot_intercargo`) is a producer like a scanner
that marks nothing, so the scanners stand for it.

**`CicloDeVuelo`.** One process per flight (`pc_vuelo`), per desk
(`puesto_checkin`), per desk controller, per zone (`robot_carga` with
`control_carga_contenedores`). The way from a desk to a container belt is a
bag: a bag put on the check-in belt comes out at the belt of the zone that
`get_zona` says when it is asked, in any order, as `CircuitoCentral` allows.
`robot_carga`'s five steps after the load is complete are five actions, since
the other processes may run between any two of them.

`CicloDeVuelo` has two constants that say how two things of the code are:
`Desfasaje` (what is added to the answer of `get_zona`: 0 in the code) and
`Anuncios` (how often a zone is announced as free at the start: 2 in the
code). Both are wrong in the code (section 5). All runs use the values of the
code but `aviso_borrado`, which uses 1 and 1: with the bags on the wrong belt
most loads never end, and the race after the end of a load, which is there for
any values, would be hard to see.

**`DespachoDeContenedores`.** `robot_carga` with the bags of the belt and the
containers per stop (`contenedores_por_escala`), the blocks of two containers,
the tractor, and the planes, which count containers. The belt is the detailed
`CintaCarga`. The last block of an odd number of containers is filled from past
the end of the vector, with whatever is there (`Basura`). Both queues are
System V queues of a bounded size (`CapacidadTractores`, `CapacidadAviones`),
whose `push` waits for room (`src/ipc/messagequeue.cpp:79`): `robot_carga` sends
a block at a time from what it has still to send (`por_enviar`, `EnviarBloque`)
and frees the zone after the last. A container read past the end of a load goes
to the planes' queue like any other, and nobody takes it once its plane has
left: with enough of those in it the tractor waits for ever (`ColaTapada`).
That the notice comes
after the reset of the belt is taken for granted here (`aviso_borrado` shows
otherwise). The containers that are not full go in the order of the map:
`Resto` takes the k-th of the stops that have one (`Enesimo`). One tractor runs,
the only one that `main.cpp` launches (line 415; the second is commented out):
with two, the containers of a flight can pass each other and `AvionCompleto`
does not hold.
The plane of a flight without bags waits for containers for ever, so the
property asks for flights with bags. Weights are left out: the 30 bags that fit
in a container weigh less than its limit.

**`BrokerDeMensajes` and `Trasbordo`.** The broker has a table, the System V
queues by their place in it, and a child per connection (`hijo`), which waits
for a request, serves it once it can, and answers. Creating a queue is two
steps, since the place is taken under a lock and the queue made without it;
`get_proj_id` takes no lock at all, so a request may find the name without the
queue, gets an error, and the client ends (`Terminar`). A client that breaks
leaves its child as it is: `Push` and `Pull` of a child without client change
the queue and answer nobody. `Trasbordo` cuts each process at its calls to the
broker; `Pedir` sends one and `Recibir` uses the answer. What a robot has been
given and has not put on the belt is lost with it. The zone of a flight is the
airport where its `controlador_de_vuelo` runs (`AeropuertoDe`); when it gets it
is open.

**`AnilloDeNodos`.** Per node: inbound and outbound, each with the link it has
(`ant`, `sig`) and the name of the leader it knows, the queue of messages to
send, and the leader process. Sending a message and its arrival are one step,
since outbound waits for the acknowledgement. The order of the timeouts matters
and their length does not: time passes when nothing else can happen (`EnCalma`)
and takes a node that looks for another one through three phases: it joins only
nodes of another leader, then also those of its own, and then itself
(`OWN_RING_CLOSE_TIMEWAIT`, `SELF_CLOSE_TIMEWAIT`); a tail that nobody connects to gives up after
`LISTEN_RETRIES` (`Cansarse`). Nodes that start late, links that are cut and
repeated elections are bounded (`Tardios`, `MaxEventos`).

**`TokensDistribuidos`.** The broker's side: `token_manager` with its queue
(`PasarToken`), and the handler of each client of a memory, which sends the
memory and stores the one that comes back. The client's side:
`local_broker_comm`, one process per memory, a father and a son per semaphore,
and the application's `lock`, `unlock`, `wait_on` and `signalize`. Father and
son share nothing but the local semaphores, so `pc_comm` is the father's
program counter and the son is one action, `DevolverToken`. For a semaphore the
handler's father and son and the socket between them only carry the token on,
one message after the other, so they are the queue `cola` on the way in and
the queue of `token_manager` on the way back. `lock`, `wait_on` and the way of
a token in `local_broker_comm` are cut at every access to `token_esperando` and
to the semaphores, since what may happen between them is the question.

**`GrupoDeBroker`.** The table of a group (`client_names`, `cant_clientes`,
`cliente_actual`), a queue per slot, the queue of `token_manager`, and
`loop_memoria` of each handler, cut at `lock_token`, at the answer of the
client, at `leave_group` and at `release_token`. Changes of the table are
made under the mutex of the group, so each is one step. `Cortar` breaks a
connection at any moment; the handler finds out when it next sends or receives,
which is when it has the token. What the client was doing with the memory is
left out: `TokensDistribuidos` has that. A client comes back only after its
last handler has left; `join` with a name that is still in the table is left
out (it signals the mutex twice, and is in the list of hazards).

## 3. Runs

All bounds are in the `.cfg` files; the comment of each says what it is for.

| Run | Specification | Bounds | What it shows |
|---|---|---|---|
| `cinta_checkin` | fair | 3 desks, belt of 2, 2 bags | the belt is a FIFO queue; no wake-up is lost or doubled; every bag comes out |
| `cinta_principal` | safety | 2 producers, 3 consumers, belt of 2, 2 bags | one turn, that goes by every consumer; what was read is what is removed; FIFO queue |
| `cinta_scanner` | fair | 2 scanners, belts of 2, 2 bags | each belt is a FIFO queue; no permission is lost or doubled; nobody sleeps past work; a bag in the robot's hands finds a belt |
| `circuito_central` | fair | scanner and control, a dispatch robot and the suspicious bags robot, 4 bags of a flight that may lose its zone, belt and queues of 1 | each bag is in one place; none is loaded unchecked; no clean bag is taken aside; one is dropped only if its flight has no zone; in the end every bag of an attended flight is loaded, unless the loop has stopped for good, which it does here |
| `vuelo_en_zona` | safety, `Desfasaje` 0, `Anuncios` 2 | 2 flights, 1 desk, 2 zones, 2 bags and a transfer bag | open and close messages of flights that share a desk find it as they expect; the count is that of the flight; nothing is registered after the close |
| `despacho` | fair | a zone that loads four flights, of 3, 1, 0 and 1 containers; belt of 2, one tractor, room for 1 block and 2 containers in the queues | the container belt is a FIFO queue with a notice, which reaches the robot; a plane leaves with exactly the bags of its flight; every flight with bags leaves, unless containers of planes that left fill the planes' queue, which they do here before the last one |
| `trasbordo` | fair | 2 airports, 2 flights that come and 2 that leave, 3 bags, a queue of 1 for bags; a robot that may break once | each bag gets to the airport of its flight, once; a robot that breaks takes one bag at most; every bag arrives or is one of those |
| `locks_distribuidos` | fair | 2 clients of one memory with 2 contents and of one semaphore of 0 or 1 | what the tokens implement is a lock that carries its memory, and a semaphore; who waits for either gets it |
| `grupo_con_caidas` | fair | 4 clients, 3 slots | the token of a group is neither lost nor doubled nor out of reach, whoever comes, leaves or breaks; who has joined gets it |
| `anillo` | fair | 3 nodes, one that may start late, one cut or repeated election | the leader of a closed ring at rest is its largest node; every node comes to be in a closed ring; no two rings keep a leader each |
| `zona_equivocada`, `aviso_borrado` | violations | | section 5 |

**Why the bounds are enough.** The belts: with two places the indices wrap in
both directions and full, empty and in between are different states; three
desks are needed for a producer to find the belt full, be woken together with
another and find it full again; three consumers are the ones of the program and
the fewest where skipping one is not the same as going back to the first. Two
distinct bags tell order apart. What the runs show of the belts for these sizes
is proved for all (section 4). The loop has the fewest bags
that can stop it: one on the belt, one in the queue to control and one in the
hands of each of control and the last consumer; without `[]LazoDetenido` TLC
ends the run with that stop. With a belt and queues of 1 every queue of the loop
can be full; what the run shows of safety there is proved for all sizes, zones
and flights. The flight: two flights in turn at one desk, or in one zone, are
the fewest for one flight to meet what another has left. Flights are 101 and 102
so that the number of a robot is not that of a flight; in the loop the flight is
number 2 and so is its robot, as in `processes/entrada/vuelos.csv`, for the
opposite case.

The tokens: with two clients the token passes by one that does not wait, and by
one that is about to; each of them takes part in two groups, of both kinds, and
writes one name for both. The belts never signal a semaphore that is at 1
(`UnPermisoPorProceso`, and `EsperaJustificada` of the central belt, say so),
so `MaxValor` is 1, and each semaphore has one process that waits on it
(`QuienEspera`).

The group: with four clients and three slots the table is empty, has holes and
is full, and a slot is taken by another client than the one that left it.

The dispatch: loads of three containers and of one end in a block that is not
full, a load of none comes between them, and the planes of several flights wait
at once. The loads of three and of one each leave a container that nobody takes
in the planes' queue, which has room for two: the first two flights with bags
leave and the third does not, because the tractor waits for ever; without
`[]ColaTapada` TLC ends the run with that stop. The scanners: with two, one can
be full, empty or not yet there while the other works.

The transfers: two bags for one airport and one for another share a queue with
room for one; one flight comes with bags for two flights, and two flights come
with bags for one. The robot of the first airport breaks once, with a bag or
while its child waits for one, and both robots may start before the queues are
there.

The ring: three nodes are the fewest where a message is passed on by a node
that neither sent nor wants it, and where one of two rings has two nodes.
`LiderUnico` also held for the first 12 million states with all three started
late; that all nodes agree on the name of the leader does not hold then (a
proposal whose author has left goes round until its TTL), and is not claimed.

**Deadlock** is checked in the belts and the tokens, which never stop. The loop and the
flights are finite (each bag and flight once), so they end, and their
configurations say `CHECK_DEADLOCK FALSE`; `TodoEquipajeLlega` says what must
have happened in the loop by then.

**Fairness.** Every process is a loop of calls, scheduled by the operating
system: weak fairness for each process, over all of its steps together, and
none for the environment (desks may stop calling, passengers may not come,
flights may not open; in `CicloDeVuelo` a flight that has begun goes on).
A belt semaphore has one process that waits on it, so weak fairness is enough.
The one exception is `mutex_checkin`, which the desk takes again for every
passenger: its controller gets strong fairness, since a System V semaphore
does not let a waiting process starve for ever. In `TokensDistribuidos`, `token_manager` takes the messages of its queue in
order, so each group has its own weak fairness; who holds the lock of a belt
gives it back, as every call of a belt does. Bags on the central belt and
the robots around it: weak fairness of each robot. In `CintaScanner`,
`DespachoDeContenedores` and `Trasbordo`, of every process that has been
started and, in the last, of every child of the broker; nobody has to start a
robot, nor again after it broke, and a flight need not get a zone. In
`AnilloDeNodos`, of the inbound, outbound and leader processes of each node;
nodes need not start, links need not break, and no election is repeated unless
a leader hears of another.

## 4. Proofs

The runs show each property for a few processes and places; the theorems below
hold for every value of the constants that the assumptions allow. All proofs of
safety go the same way: an inductive invariant (TLC found no violation of it on
the configurations of section 3 before it was proved), one lemma per action,
and lemmas that say which part of the state an action leaves alone.

**Check-in belt** (first part of `EntradaDeEquipajesProofs`), for any finite set of desks, any size
of the belt and any bags (`SuposicionCinta`):

| Theorem | Statement |
|---|---|
| `TiposSiempre` | `Spec => []TypeInv` (with it: the semaphores are binary, the indices stay in the buffer) |
| `PermisosSiempre` | `Spec => []UnPermisoPorProceso` |
| `EsperasSiempre` | `Spec => []EsperaJustificada` |
| `CuentasSiempre` | `Spec => [](CuentaDeEsperas /\ PosicionesCoherentes)` |
| `Refinamiento` | `Spec => ImplementaCola`: the belt implements the bounded FIFO queue |

The inductive invariant `Invariante` is the conjunction of the first four, with
the types and the fact that a desk in a call has a bag to put. No part is
inductive alone: that a mark implies a full belt needs that the marked producer
cannot enter (one permission each); that the wake-up clears every mark needs
that the counter agrees with the marks, for the loop is skipped when the counter
is 0; that semaphores stay binary needs that a mark and a signal never coexist.

**The ring** (`LemasGenerales`). The four belts store their bags in the
same circular array. What a refinement needs of it is stated once, about the
sequence that starts at `posicion_ocupada`: a write at `posicion_libre` appends
(`AgregarAlFinal`, which needs that the places of the bags on the belt are
distinct from the free one, `LugaresDistintos`), an advance of
`posicion_ocupada` removes the head (`ExtraerQuita`), and the free position
stays coherent with the number of bags (`AvanceCoherente`); below them is the
arithmetic of the remainder (`RestoDosVueltas`).

**Central belt** (first part of `CircuitoCentralProofs`), for any finite set of producers and
any number of consumers and places (`SuposicionCentral`):

| Theorem | Statement |
|---|---|
| `TurnoSiempre` | `Spec => []UnSoloTurno`: one consumer has the turn |
| `LeidoSiempre` | `Spec => []LoLeidoSigueEnCabeza`: what a consumer takes is what it read |
| `VistosSiempre` | `Spec => []TodosLoVieron`: no consumer is skipped |
| `EsperasSiempre` | `Spec => []EsperaJustificada` |
| `Refinamiento` | `Spec => ImplementaCola` |

They stand or fall together. What was read stays at the head only because no
other consumer can extract, hence because the signals keep the turn single; a
producer does not write over it because the positions are coherent and the belt
is not full; the turn goes on to the next consumer only when it let the bag
pass, and the first of them sleeps only on an empty belt because
`consumidor_esperando` is itself a place where the turn can be. Every
`signalize` of a consumer has to be shown to meet a semaphore at 0.

**Belts of the scanners** (`CintaScannerProofs`), for any number of scanners and
any size (`SuposicionScanner`): `PermisosSiempre` (`UnPermisoPorProceso`),
`EsperasSiempre` (`EsperaJustificada`) and `Refinamiento` (`ImplementaColas`).
`robot_checkin` chooses a belt, and goes to sleep, by what the control memory
says, under the lock of the control only. So `EsperaJustificada` is not
inductive: it needs that the marks of the control agree with each belt
(`ControlCoherente`), that the mark of `robot_checkin` agrees with those of the
belts (`MarcaSinLugar`), and that the belt it chose is still marked as having
room when it locks it (`ElegidaConLugar`), since only it fills belts. That its
signal is never given twice is counted over all the scanners between two locks
(`Avisando`).

**Container belt** (first part of `DespachoDeContenedoresProofs`), for any size and any totals
(`SuposicionCarga`): `DespiertosSiempre` (`NadieDuermeDeMas`) and `Refinamiento`
(`ImplementaColaConCierre`). The first says that the loop of `poner_equipaje`
never turns twice, although the code is written as if it could. It follows from
an equivalence: the dispatch robot is marked exactly while the belt is full
(`MarcasJustificadas`). `NadieDuermeDeMas` has one direction of it; the other is
what makes it inductive.

**Dispatch of containers** (second part of `DespachoDeContenedoresProofs`), for
any flights of the zone, bags, stops, and sizes of containers and of blocks
(`SuposicionDespacho`: no flight is loaded twice, a bag is of one flight, and
what is read past the end of the vector is no container of these bags;
`SuposicionColas`: the two queues have room for a message):

| Theorem | Statement |
|---|---|
| `CintaEnElDespacho` | `SpecDespacho => Spec`: each step of the dispatch is one of the belt or leaves it alone |
| `CargaSiempre` | `SpecDespacho => []InvarianteDeLaCarga`, with any tractors |
| `AvionCompletoSiempre` | `SpecDespacho => []AvionCompleto`, if there is one tractor |

The invariant of the load (`InvarianteDeLaCarga`) contains the one of the belt,
and: each bag of the flight of the zone is waiting, in the hands of the dispatch
robot, on the belt or in a container, in one of them and once
(`UnLugarPorEquipaje`); `equipajes_cargados` counts the bags in the containers
and `numero_de_vuelo` is their flight (`CuentaDeLaCarga`); and the notice that
robot_carga has is that of the flight it loads (`AvisoDeLaCarga`). So when its
loop ends it has counted as many bags as the flight has, and the bags in the
containers are all of them (`CargaCompleta`).

From there to the plane the containers are numbered in the order in which they
were sent, over all the loads and with what was read past the end of each
(`HayNumeracion`: there are a load `todos[v]` for each flight, and the numbers
`desde[v]` and `hasta[v]` between which its blocks are). The one tractor takes
them in that order, so what waits in its block, in `cola_tractores` and with
`robot_carga`, which has still to send it (`PorTomar`), has the numbers that
follow (`EnLosTractores`); the messages in `cola_aviones` go up, and
none is missing between the last one that the plane of its flight received and
the last one the tractor sent (`EnLaColaDeAviones`); so the first message of a
flight is the next container of its load, and a plane has the first ones of its
load (`EnElAvion`). It counts to the total before it gets the container that was
read past the end, which has a greater number. With two tractors the messages
need not go up, which is where the proof uses that there is one. The numbering
is a witness in the proof and not a variable of the model; each action says how
the witness changes (`SalidaTrasEnviar` ... `SalidaTrasRecibir`). TLC checked
this invariant beforehand with the witness kept in history variables.

**Loop of the central belt** (second part of `CircuitoCentralProofs`), for any scanners, any
number of dispatch robots, any zones they attend, and any table of the tower
(`SuposicionCircuito`: an element is an id and a mark, flight numbers are
naturals, as in `vuelos.csv`, so that none is the -1 of an empty entry):

| Theorem | Statement |
|---|---|
| `SospechososSiempre` | `SpecCircuito => []SospechosoNoSeCarga` |
| `LimpiosSiempre` | `SpecCircuito => []LimpiosNoVuelven` |
| `EquipajesSiempre` | `SpecCircuito => []CadaEquipajeEnUnLugar`: no bag is lost or duplicated |
| `CintaEnElCircuito` | `SpecCircuito => Spec`: each step of the loop is one of the belt or leaves it alone |

`LimpiosNoVuelven` is about a robot that asks the tower for the zone, and acts
on the answer later, while flights lose their zones and others get them. The
invariant (`InvarianteCircuito`) contains the one of the belt, and: no bag goes
past a scanner before its flight had a zone (`TodosRegistrados`), so a flight
whose bag is around gets no other zone; a flight has at most one entry
(`UnaZonaPorVuelo`); so an answer that a robot still holds is either the zone or
out of date because the flight has none (`Vigente`, `ConsultaCoherente`); and
every robot before the one whose turn it is let pass the bag that is at the head
because it is not its business (`DejadosPasar`), which with `TodosLoVieron` of
the belt says it of all robots once the bag reaches the last one. It was also
model-checked with two dispatch robots, which the run does not have.

`EquipajesSiempre` counts: how many times a bag is in each place, added up over
the places, and over the zones inside that, is 1. A lemma per action that moves
a bag (`EscanearLleva` ... `RecolocarLleva`) says that it takes one from a place
and puts the same one in another; the rest move none (`LosDemasNoMueven`). They
rest on `InvarianteCircuito`: a process that is about to hold a bag has empty
hands (`ArgumentoPresente` of the belt, `ConsultaCoherente`), and what a consumer
takes is the head of the belt (the belt's refinement of the queue). The loaded
and the dropped bags are sets, in which a second copy would not show: there the
sum itself is needed, for a bag that was on a container belt or in a hand was
nowhere else. `CuentaAlCambiar`, `CuentaAlAgregar` and `CuentaAlQuitar` of
`LemasGenerales` say what one change does to the count of a place.

**Check-in of the flights** (`CicloDeVueloProofs`), for any flights, desks,
zones, passengers and bags, and either value of `Desfasaje` and `Anuncios`
(`SuposicionCiclo`, and `SuposicionEquipajes`: an rfid names one bag, and there
are finitely many bags and desks):

| Theorem | Statement |
|---|---|
| `MensajesSiempre` | `Spec => []MensajesEnOrden`: `cerrar_checkin` never throws, a flight never finds its desk open |
| `CuentaSiempre` | `Spec => []CuentaAlDia`: the count of an open desk is what was registered for its flight |
| `CierreSiempre` | `Spec => NadaDespuesDelCierre`: an action property |

Controllers of several flights write to the queue of one desk, so the order of
its messages is a matter of who has the desk: the queue of the tower and the
flights share the desks out (`PuestosRepartidos`), and the flight the desk will
have once it has obeyed its whole queue (`Final`) is the one whose controller
opened and has not closed it (`FinalCoherente`). A message of that controller
then keeps the queue in order (`EnviarEnOrden`), as obeying one does
(`ObedecerEnOrden`). For the count: what is at the desk or in its queue is of
flights that had the desk (`MensajesDelPuesto`), a flight is opened once and had
nothing registered then (`AperturaUnica`), the bags that a desk is registering
are of its flight and its mutex is taken (`RegistroEnCurso`), and a passenger is
attended once (`PasajeroConSusValijas`). A bag stays registered when its load is
forgotten because the load was sent first (`CargaEnviada`). A flight whose desk
has obeyed the close message is at no desk (`CerradoSinPuesto`), and only
`RegistrarEquipaje` registers: that is the action property.

**The distributed locks** (`TokensDistribuidosProofs`), for any finite set of
memories and semaphores, any clients of each in any slots, and any contents
(`SuposicionTokens`: a group has a client, since `token_manager` passes no token
of a group without; `SinMensaje` is not a message):

| Theorem | Statement |
|---|---|
| `InvarianteSiempre` | `Spec => []Invariante`: the token of a memory is in one place |
| `Refinamiento` | `Spec => ImplementaLocks`: the tokens are semaphores and locks |

That one application at a time has a memory is not inductive: an application
takes what its local semaphore has, and what is there came through
`token_manager`, a queue, a socket and `local_broker_comm`, and goes back the
same way. `Invariante` says where the token of a memory is: with
`token_manager`, or with one client, in one of the four places of `LaTiene`;
and in `presta`, where `local_broker_comm` has lent it, it is in one local
semaphore, in the hands of the application or in the other semaphore
(`Prestado`). The lemmas `ConservaX` say that a step of a client keeps the token
with it; `UnLugarAlPasar` and `UnLugarAlGuardar` are the two steps that move it
from and to the broker. What the abstract locks see of it is then well defined:
the holder is the only one (`UnDuenio`), and the contents are in one copy
(`UnContenido`). A semaphore may have several tokens, and its value adds up
those of every client but the one that has just been taken. That a step of one
client changes the sum by what it changes that client's part
(`CambiaUnSumando`) is proved in `LemasGenerales`, for any finite set, from the
definition of `SumFunction` and the existence of a smallest counterexample.

**Transfers** (second part of `EntradaDeEquipajesProofs`), for any airports,
flights and arrivals, any finite set of bags, any sizes of the queues and of
the table of the broker, and any number of restarts of the robots
(`SuposicionBroker`, `SuposicionTrasbordo`):

| Theorem | Statement |
|---|---|
| `InvTrasbordoSiempre` | `SpecTrasbordo => []InvTrasbordo` |
| `EnSuAeropuertoSiempre` | `SpecTrasbordo => []EnSuAeropuerto`: the right airport, once, and not before its flights |
| `UnaPerdidaSiempre` | `SpecTrasbordo => []UnaPerdidaPorCaida`: one bag at most for each time a robot breaks |

What a robot puts on its belt was written by a controller of another process,
went through a child of each of them in the broker and a queue that other
airports read. So the invariant says what there may be at each of these stops:
`Legales` ties the request that a child serves, and the answer that a client
holds, to the place where the process is; `Tabla`, the messages of each queue to
its name (`MensajesDe`), and each place of the table to one name. A message of
the queue between airports is a bag whose flight has its zone and whose
incoming flight has come in (`PorViajar`), and its type is the airport of that
zone: the controller knows it because it waited for it (`EtapaControlador`),
and `msgrcv` with a type (`LoSacado`, `ParaQuienEs`) gives a robot no other.
`Conexiones` says which children are alive: one that is not waits for nothing,
except that of a robot that broke in a call. Nothing is sent into the void
because the launcher creates the queue between airports before the rest begins
(`Lanzamiento`, `Lanzado`), so the table has exactly one place for it
(`HayColaIntercargo`).

A bag is put on a belt once because it is in one place at most (`EnUnLugar`),
at most once in the queue (`UnaVez`), and each step moves it (`Movimiento`),
leaves it alone (`NadaSeMueve`) or loses it (`Extravio`). `UnaPerdidaPorCaida`
is not inductive: a robot that breaks while its child waits loses its bag
later, when the child takes it for nobody. `Perdidas` counts those children
too: the bags lost and the children left behind are together no more than the
connections cut, so a bag lost later is paid for by the child that ends
(`CuentaDePerdidas`).

**Groups of the broker** (`GrupoDeBrokerProofs`), for any finite set of clients
and any number of slots (`SuposicionGrupo`):

| Theorem | Statement |
|---|---|
| `TiposSiempre` | `Spec => []TypeInv` |
| `TablaSiempre` | `Spec => []TablaCoherente` |
| `UnTokenSiempre` | `Spec => []UnSoloToken`: exactly one token |
| `AlcanzableSiempre` | `Spec => []TokenAlcanzable`: it is never passed to a client that has left |

Its invariant adds to them `UnLugar`, which says where the one token is:
`token_manager`, one queue or one handler. The token stays within reach because
a handler leaves the table only while it holds the token, so while it is on the
way nobody leaves; because the table says which handler reads each queue; and
because the first client of an empty table takes the slot the token was put in.
The last needs that a table that is not full has a free slot, which follows
from the count (`HayLibre`), and that the search finds the first one
(`MinDeSlots`, from the well-foundedness of the order of the naturals).

**Only model-checked.** All liveness, which the prover does not reach, and of
the safety properties `LiderUnico` of the ring of nodes, for which no inductive
invariant is known: messages of an election whose author has left go on in a
ring that was broken and closed again by others.

## 5. Where the code disagrees with itself

Two places have a run that TLC ends with a counterexample, and an entry in
`PROJECT.json` with the lines.

* `zona_equivocada`: `asignar_vuelo` stores zone *z* at index *z*-1 and
  `get_zona` answers the index. The dispatch robot takes the bags of a flight
  to the belt of the zone before; those of a flight in zone 1 go nowhere.
* `aviso_borrado`: `robot_carga` frees the zone before it resets its belt. The
  notice of the next flight, if it comes in between, is wiped out, and its load
  never ends.

Others are modelled as they are, and have no run:

* The constructor of `ApiCarga` that announces a zone as free runs in
  `robot_carga` and in the `control_carga_contenedores` it starts
  (`api_carga.h:74`; `Anuncios`). Two flights can get the same zone at the same
  time; their bags are put on one belt and can leave in one load.
* `robot_carga` passes its own number to `desasignar_vuelo`, which takes a
  flight (`robot_carga.cpp:121`; `Desasignar`). The flight just loaded keeps
  its zone, and a flight that has the number of the robot loses its.
* The container read past the end of a load (`api_carga.h:134`) is sent to a
  plane that may have left. Such messages stay in `cola_aviones`, where nobody
  takes them. A container is a message of 3384 bytes, so a System V queue of
  16384 bytes, the default of Linux, has room for four: four loads with an odd
  number of containers can stop the tractor for good.
* `inbound.py:59` says that when its message comes back the election is
  finished and there is a leader. A ring of two whose link breaks before the
  smaller node closes it again never gets one: the message of the broken link
  stops the leader behind the only proposal, and nobody proposes again.
* A message for a flight without transfers stays in
  `cola_escucha_zona_asignada`, and the bags for an airport without a robot in
  `intercargo`: once full, these queues stop the other flights and airports.

## 6. What the models leave out

* In the belts the distributed locks are mutexes and semaphores: `LocksAbstractos`
  says which, and `TokensDistribuidos` how tokens make them. There the clients
  have joined and stay; `GrupoDeBroker` has those of a memory that come and go.
  A semaphore whose client leaves or breaks is not modelled. One broker runs,
  since the program is built without the ring service
  (`LANZAR_SERVICIO_DE_ANILLOS` 0 in `token_manager.cpp`).
* With a central belt of 1 and a queue to control of 1, four suspicious bags
  stop the loop for good: control waits for the belt, whose head only the last
  consumer takes, and that one waits for the queue. The program's sizes make it
  unlikely, not impossible. `circuito_central` meets it, and shows that nothing
  else stops the loop.
* `robot_control_equipaje_sospechoso` also drops a bag with rfid 0 (line 52). No
  bag of the loop has it: `equipajes.csv` numbers them from 1, and 0 is what
  the notice of a container belt comes out as.
* An application of `TokensDistribuidos` holds one memory at a time. The belts of
  the scanners lock their control with a belt locked (`cintascanner.h:296`,
  `:355`): always a belt first and then the control, so that the locks cannot
  wait for each other in a circle, but that tokens implement nested locks is not
  shown.
* Scanners with an endless stream of bags could keep control from the belt for
  ever; the runs have finitely many bags.
* Destroying the queues of the message broker: their owners wait for a signal
  and kill the broker first. A broker that is started again: it clears its
  table while the queues stay, so that creating them fails. Places from 128 on:
  `proj_id` is a `char`, and the program creates far fewer queues.
* The replication between brokers: it is compiled out
  (`LANZAR_SERVICIO_DE_ANILLOS` 0) and unfinished. `procesar_memory_update`
  neither applies nor forwards an update of one block, `send_token` overwrites
  the head of each block with its number, and every broker is called
  `localbroker1`. There is no behaviour to state properties of.
* The parts with status `not_modelled` in `PROJECT.json`, each with its reason.
