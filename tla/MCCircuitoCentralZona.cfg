\* The zone a flight was given against the belt its bags are put on.
CONSTANTS
  e1 = e1
  e2 = e2
  e3 = e3
  e4 = e4
  Ids = {e1, e2}
  VueloDe <- DosVuelos
  Equipajes <- EquipajesMC
  Ninguno = Ninguno
  Productores = {escaner, control}
  Control = control
  CantConsumidores = 2
  ZonasDe <- UnDespacho
  RobotsCarga = {1, 2, 3}
  MaxZonas = 4
  Tamanio = 2
  CapacidadCola = 1
  CapacidadContenedor = 1
SPECIFICATION SpecCircuito
CHECK_DEADLOCK FALSE
INVARIANT EquipajeEnSuZona
