---------------------------- MODULE MCPaginacion ----------------------------
(* Paginacion on small instances, for TLC. *)
EXTENDS Paginacion

Simetria == Permutations(Pids)

Fija == [tipoAsignacion |-> "FIJA", marcosMaximos |-> 1, MMU |-> "CLOCK-M", TLB |-> "LRU",
         cantidadEntradasTLB |-> 1, grado |-> 1, pedidos |-> 3]
Dinamica == [tipoAsignacion |-> "DINAMICA", marcosMaximos |-> 1, MMU |-> "CLOCK-M",
             TLB |-> "FIFO", cantidadEntradasTLB |-> 2, grado |-> 1, pedidos |-> 4]

\* One request at a time, with the frames of a quota, less than two quotas, or all.
DeAUno == {Fija, [Fija EXCEPT !.marcosMaximos = 2, !.pedidos = 2], Dinamica}
\* Requests of the two carpinchos at once.
DeADos ==
  {[Fija EXCEPT !.TLB = "FIFO", !.grado = 2],
   [Dinamica EXCEPT !.MMU = "LRU", !.TLB = "LRU", !.cantidadEntradasTLB = 1, !.grado = 2,
                    !.pedidos = 2]}

Todas == DeAUno \cup DeADos
Reserva == {[Fija EXCEPT !.grado = 2]}
=============================================================================
