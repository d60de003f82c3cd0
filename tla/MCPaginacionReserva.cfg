\* FIJA, two carpinchos at once, one frame each. ReservaEsSuya is violated.
CONSTANTS
  Pids = {k1, k2}
  CantMarcos = 2
  Configuraciones <- Reserva
  MaxPaginas = 2
  Nadie = Nadie
  Vieja = Vieja
SYMMETRY Simetria
SPECIFICATION Spec
INVARIANTS
  ReservaEsSuya
CHECK_DEADLOCK FALSE
