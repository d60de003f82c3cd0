\* Up to three small pages. Deadlock is not checked: the heap breaks.
CONSTANTS
  Configuraciones <- Todas
  MaxPaginas = 3
SPECIFICATION Spec
INVARIANTS
  TypeOKHeap
  CadenaBienFormada
  VivosEnCadena
  AccesoExacto
  AveriasConocidas
CHECK_DEADLOCK FALSE
