\* The signal comes between the two halves of a wait.
CONSTANTS
  Nadie = Nadie
  Procesos = {1, 2}
  CPUs = {c1, c2}
  Dispositivos = {}
  GradoMultiProgramacion = 2
  MaxOps = 2
  Caibles = {}
  Sems = {s1}
  ValorInicial <- DosMutex
SYMMETRY SimetriaSem
SPECIFICATION SpecSem
INVARIANTS
  RespuestasSem
CHECK_DEADLOCK FALSE
