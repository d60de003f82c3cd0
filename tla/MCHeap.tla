------------------------------- MODULE MCHeap -------------------------------
(* Heap on small pages, for TLC. *)
EXTENDS Heap

\* Blocks that divide the page or are several of them, with room for two
\* headers, and blocks that do not; in each some block spans pages.
Alineadas == {[tamanioPagina |-> 64, tamanios |-> {23, 55}],
              [tamanioPagina |-> 18, tamanios |-> {9, 27}]}
Sueltas == {[tamanioPagina |-> 32, tamanios |-> {4, 12}],
            [tamanioPagina |-> 40, tamanios |-> {11, 31}],
            [tamanioPagina |-> 16, tamanios |-> {4, 25}]}
Todas == Alineadas \cup Sueltas
=============================================================================
