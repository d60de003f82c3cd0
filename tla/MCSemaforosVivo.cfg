\* Two carpinchos that may take two binary semaphores in opposite orders, on two
\* CPUs.
CONSTANTS
  Nadie = Nadie
  Procesos = {1, 2}
  CPUs = {c1, c2}
  Dispositivos = {}
  GradoMultiProgramacion = 2
  MaxOps = 2
  Caibles = {}
  Sems = {s1, s2}
  ValorInicial <- DosMutex
SPECIFICATION SpecSemEquitativa
PROPERTIES
  DeadlockSeResuelve
CHECK_DEADLOCK FALSE
