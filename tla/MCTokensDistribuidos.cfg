\* A belt's memory and the semaphore of one of its clients.
CONSTANTS
  memoria = memoria
  semaforo = semaforo
  CantClientes = 2
  Semaforos = {semaforo}
  Memorias = {memoria}
  Clientes <- ClientesMC
  QuienEspera <- EsperaMC
  ValorInicial <- InicialMC
  Datos = {d1, d2}
  DatoInicial = d1
  Ninguno = Ninguno
  Nadie = Nadie
  SinMensaje = SinMensaje
  MaxValor = 1
SPECIFICATION SpecJusta
PROPERTIES
  ImplementaLocks
  CerrojoLlega
  SenialLlega
