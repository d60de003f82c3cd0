\* Three carpinchos, two names. Deadlock is not checked: all may wait.
CONSTANTS
  Carpinchos = {k1, k2, k3}
  Nombres = {n1, n2}
  Valores = {0, 1}
  MaxSem = 3
  MaxValor = 1
SYMMETRY SimetriaTabla
SPECIFICATION Spec
INVARIANTS
  TypeOK
  DuplicadosAcotados
  EsperaCuadra
PROPERTIES
  NombreEstable
CHECK_DEADLOCK FALSE
