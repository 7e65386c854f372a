\* Loads of three containers, of one, of none and of one: the last block of
\* the first is filled past the end, and so are those of one container.  What
\* the first two leave in the queue of the planes fills it, and the last
\* flight does not take off; the second block of the first load waits for the
\* tractor to take the first one.  One tractor, as in
\* src/processes/main.cpp:415.
CONSTANTS
  e1 = e1
  e2 = e2
  e3 = e3
  e4 = e4
  e5 = e5
  Equipajes <- EquipajesMC
  Ninguno = Ninguno
  Aviso = Aviso
  Tamanio = 2
  Totales <- TotalesMC
  Orden <- OrdenMC
  CargaDe <- CargaMC
  EscalaDe <- EscalaMC
  CantEscalas = 2
  MaxValijas = 1
  PorTractor = 2
  CapacidadTractores = 1
  CapacidadAviones = 2
  Tractores = {t1}
  Basura = Basura
SPECIFICATION SpecDespachoJusta
CHECK_DEADLOCK FALSE
INVARIANTS
  NadieDuermeDeMas
  AvionCompleto
PROPERTIES
  ImplementaColaConCierre
  AvisoLlega
  AvionDespega
