\* Three carpinchos of two pages, two files of two partitions, quota two:
\* both ways of giving partitions away, and files that get full. Deadlock is
\* not checked: the carpinchos end.
CONSTANTS
  Pids = {k1, k2, k3}
  CantArchivos = 2
  CantParticiones = 2
  marcos_maximos = 2
  MaxPaginas = 2
  Contenidos = {Vacia, dato}
  Vacia = Vacia
  Ausente = Ausente
SYMMETRY SimetriaSwamp
SPECIFICATION Spec
INVARIANTS
  TypeOK
  UnSoloArchivo
  CuotaFija
  SeLeeLoEscrito
PROPERTIES
  CumpleAlmacen
CHECK_DEADLOCK FALSE
