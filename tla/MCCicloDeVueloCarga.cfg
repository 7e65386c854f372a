\* Two flights that share a desk and may be given the same zone, as get_zona
\* and the announcements of the zones are in the code.
CONSTANTS
  s1 = s1
  s2 = s2
  e1 = e1
  e2 = e2
  e3 = e3
  t1 = t1
  Vuelos = {101, 102}
  Puestos = {1}
  Zonas = {1, 2}
  MaxZonas = 4
  Pasajeros = {s1, s2}
  VueloDePasajero <- VueloDePasajeroMC
  ValijasDe <- UnaPorPasajero
  Trasbordo <- TrasbordoMC
  Desfasaje = 0
  Anuncios = 2
SPECIFICATION Spec
CHECK_DEADLOCK FALSE
INVARIANTS
  MensajesEnOrden
  CuentaAlDia
PROPERTY NadaDespuesDelCierre
