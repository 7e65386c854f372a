\* One client more than the slots of the table.
CONSTANTS
  Clientes = {a, b, c, d}
  MaxClientes = 3
  Vacio = Vacio
SPECIFICATION SpecJusta
INVARIANTS
  TablaCoherente
  UnSoloToken
  TokenAlcanzable
PROPERTY
  Atendido
