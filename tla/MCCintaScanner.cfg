\* Two scanners that start in any order, with belts of two places.
CONSTANTS
  MaxScanners = 2
  Equipajes = {e1, e2}
  Ninguno = Ninguno
  Tamanio = 2
SPECIFICATION SpecJusta
INVARIANTS
  UnPermisoPorProceso
  EsperaJustificada
PROPERTIES
  ImplementaColas
  TodoEquipajeAvanza
