-------------------------- MODULE AlmacenDePaginas --------------------------
(***************************************************************************)
(* What the swap area promises to the memory: a store of pages, one content *)
(* for each page of each carpincho, that keeps the last one written until   *)
(* the carpincho ends.  It may be full: a write of a new page may fail.     *)
(***************************************************************************)
CONSTANTS Pids, Paginas, Contenidos, Ausente

VARIABLE guardado  \* the content of each page, or Ausente

Init == guardado = [p \in Pids |-> [n \in Paginas |-> Ausente]]

Guarda(p, n, v) == guardado' = [guardado EXCEPT ![p][n] = v]

Borra(p) == guardado' = [guardado EXCEPT ![p] = [n \in Paginas |-> Ausente]]

Next ==
  \E p \in Pids :
    Borra(p) \/ \E n \in Paginas, v \in Contenidos : Guarda(p, n, v)

Spec == Init /\ [][Next]_guardado
=============================================================================
