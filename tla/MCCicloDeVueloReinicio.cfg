\* get_zona and the announcements put right, so that what is left is the
\* order of liberar_zona and comenzar_nueva_carga.
CONSTANTS
  s1 = s1
  s2 = s2
  e1 = e1
  e2 = e2
  e3 = e3
  t1 = t1
  Vuelos = {101, 102}
  Puestos = {1}
  Zonas = {1}
  MaxZonas = 4
  Pasajeros = {s1, s2}
  VueloDePasajero <- VueloDePasajeroMC
  ValijasDe <- ValijasMC
  Trasbordo <- TrasbordoMC
  Desfasaje = 1
  Anuncios = 1
SPECIFICATION SpecJusta
CHECK_DEADLOCK FALSE
PROPERTIES
  TodoSeEmbarca
