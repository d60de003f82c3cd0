\* Two carpinchos of two calls on two binary semaphores, two CPUs, two memory
\* slots, and a third carpincho that waits for one of the slots: the halves of
\* a wait and a signal in any order, deadlocks, suspensions, and kills that
\* hand semaphores on to suspended processes. Deadlock is not checked: a
\* carpincho may close without releasing a semaphore, and those that wait for
\* it wait for ever.
CONSTANTS
  Nadie = Nadie
  Procesos = {1, 2, 3}
  CPUs = {c1, c2}
  Dispositivos = {}
  GradoMultiProgramacion = 2
  MaxOps = 2
  Caibles = {}
  Sems = {s1, s2}
  ValorInicial <- DosMutex
SYMMETRY SimetriaSem
CONSTRAINT ElTerceroCompite
SPECIFICATION SpecSem
INVARIANTS
  TypeOKSem
  SemaforoCuadra
  UnSoloLugarSem
PROPERTIES
  KillPierdeUnPermiso
CHECK_DEADLOCK FALSE
