\* Three carpinchos of one call each, any of which may lose its connection,
\* two memory slots, two CPUs. Deadlock is not checked: when two connections
\* are cut, both CPU threads are lost and the kernel does stop.
CONSTANTS
  Nadie = Nadie
  Procesos = {p1, p2, p3}
  CPUs = {c1, c2}
  Dispositivos = {d1}
  GradoMultiProgramacion = 2
  MaxOps = 1
  Caibles = {p1, p2, p3}
SYMMETRY Simetria
SPECIFICATION Spec
INVARIANTS
  TypeOK
  NuncaSacaDeVacia
  FichasDeAdmision
  FichasDeReady
  FichasDeIO
  PermisosDeCPU
  UnSoloLugar
  ExecEsLoQueEjecutan
CHECK_DEADLOCK FALSE
