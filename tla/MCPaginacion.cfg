\* Two carpinchos, two frames, pages up to two each: every replacement has to
\* choose between the carpinchos' pages. Deadlock is not checked: the
\* carpinchos end, and so does the memory.
CONSTANTS
  Pids = {k1, k2}
  CantMarcos = 2
  Configuraciones <- Todas
  MaxPaginas = 2
  Nadie = Nadie
  Vieja = Vieja
SYMMETRY Simetria
SPECIFICATION Spec
INVARIANTS
  TypeOKPag
  MarcosConDueno
  SeLeeLoEscritoMem
  TLBCoherente
  FallasConocidas
  CaidasConocidas
PROPERTIES
  ClockElijeLaMejor
CHECK_DEADLOCK FALSE
