\* Two carpinchos of two calls each and one memory slot, so that a process
\* is blocked again while an entry of an earlier block is left in a list, and
\* suspension and readmission decide who goes on.
CONSTANTS
  Nadie = Nadie
  Procesos = {p1, p2}
  CPUs = {c1, c2}
  Dispositivos = {d1}
  GradoMultiProgramacion = 1
  MaxOps = 2
  Caibles = {}
SPECIFICATION SpecEquitativa
INVARIANTS
  RespuestasCorrectas
  CreditoDeMultiprogramacion
PROPERTIES
  CumpleCiclo
  TodosTerminan
