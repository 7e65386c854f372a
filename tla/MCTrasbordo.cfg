\* Two airports, two flights that leave and two that come in, three bags; the
\* robot of the first airport may break once.
CONSTANTS
  e1 = e1
  e2 = e2
  e3 = e3
  EquipajesIntercargo = {e1, e2, e3}
  EntranteDe <- Entrantes
  DestinoDe <- Siguen
  Arribos <- Llegan
  Interconexion <- Conexion
  Vuelos = {1, 2}
  Aeropuertos = {1, 2}
  AeropuertoDe <- Zonas
  Colas = {"cola_escucha_zona_asignada", "intercargo", "cola_escucha_robots_intercargo"}
  CapacidadDe <- Capacidades
  MaxColas = 3
  Clientes <- Procesos
  VidasDe <- Vidas
SPECIFICATION SpecTrasbordoJusta
CHECK_DEADLOCK FALSE
INVARIANTS
  EnSuAeropuerto
  UnaPerdidaPorCaida
PROPERTIES
  TodoTrasbordoLlega
