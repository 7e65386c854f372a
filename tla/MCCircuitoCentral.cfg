\* As many bags as it takes to stop the loop: a belt of one place, a queue to
\* control of one message and the hands of control and of the last consumer.
CONSTANTS
  e1 = e1
  e2 = e2
  e3 = e3
  e4 = e4
  Ids = {e1, e2, e3, e4}
  VueloDe <- UnVuelo
  Equipajes <- EquipajesMC
  Ninguno = Ninguno
  Productores = {escaner, control}
  Control = control
  CantConsumidores = 2
  ZonasDe <- UnDespacho
  RobotsCarga = {2}
  MaxZonas = 4
  Tamanio = 1
  CapacidadCola = 1
  CapacidadContenedor = 1
SPECIFICATION SpecCircuitoJusta
CHECK_DEADLOCK FALSE
INVARIANTS
  CadaEquipajeEnUnLugar
  SospechosoNoSeCarga
  LimpiosNoVuelven
PROPERTY TodoEquipajeLlega
