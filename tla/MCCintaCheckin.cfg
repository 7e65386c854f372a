\* Three desks on a belt of two places: a producer finds the belt full, is
\* woken with another one and finds it full again.
CONSTANTS
  p1 = p1
  p2 = p2
  p3 = p3
  Productores <- TresPuestos
  Equipajes = {e1, e2}
  Ninguno = Ninguno
  Tamanio = 2
SPECIFICATION SpecJusta
INVARIANTS
  UnPermisoPorProceso
  EsperaJustificada
PROPERTIES
  ImplementaCola
  TodoEquipajeSale
