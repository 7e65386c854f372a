\* Two producers and the three consumers of the program (two dispatch robots
\* and the suspicious bags robot) on a belt of two places.
CONSTANTS
  Productores = {p1, p2}
  CantConsumidores = 3
  Equipajes = {e1, e2}
  Ninguno = Ninguno
  Tamanio = 2
SPECIFICATION Spec
SYMMETRY Simetria
INVARIANTS
  UnSoloTurno
  LoLeidoSigueEnCabeza
  TodosLoVieron
  EsperaJustificada
PROPERTY ImplementaCola
