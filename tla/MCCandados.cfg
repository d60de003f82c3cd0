\* Every thread of the kernel, and three of the memory, which gets a signal.
\* Deadlock is not checked: the detector and thread1_PMP do stop each other,
\* and the handler the thread it interrupts, and then every thread that needs
\* their mutexes.
CONSTANTS
  CPUs = {c1}
  Dispositivos = {d1}
  Sems = {s1}
  OrdenSems <- Orden
  Carpinchos = {k1, k2, k3}
  Elencos <- Elenco
  MaxSeniales = 1
SYMMETRY Simetria
SPECIFICATION Spec
INVARIANTS
  TypeOK
  CirculosConocidos
CHECK_DEADLOCK FALSE
