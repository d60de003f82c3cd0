\* One memory slot. A process that is suspended while the device releases it
\* gives its slot away and enters Ready all the same.
CONSTANTS
  Nadie = Nadie
  Procesos = {p1, p2, p3}
  CPUs = {c1, c2}
  Dispositivos = {d1}
  GradoMultiProgramacion = 1
  MaxOps = 1
  Caibles = {}
SYMMETRY Simetria
SPECIFICATION Spec
INVARIANTS
  MemoriaAcotada
