CONSTANTS
  Nodos = {1, 2, 3}
  TTL = 4
  Tardios = {1}
  MaxEventos = 1
SPECIFICATION SpecJusta
CHECK_DEADLOCK FALSE
INVARIANTS
  LiderUnico
PROPERTIES
  TodosEnAnillo
  UnSoloLider
