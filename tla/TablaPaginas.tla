---------------------------- MODULE TablaPaginas ----------------------------
(***************************************************************************)
(* The multilevel page tables of Memoria (src/memoria/src/memoria.c) as    *)
(* arithmetic.  An entry of a last-level table is a leaf; leaves are       *)
(* numbered in the order the recursive walks visit them, depth first, so a *)
(* walk over the tables is a walk over Hojas in increasing order.          *)
(***************************************************************************)
EXTENDS Integers

CONSTANTS
    Entradas,  \* entradas_por_tabla
    Niveles    \* cantidad_niveles

\* main refuses a configuration without tables; it also demands a power of
\* two, which makes the shift and the mask of an index a \div and a %.
ASSUME TablasAssumption == Entradas \in Nat \ {0} /\ Niveles \in Nat \ {0}

\* Leaves below an entry of the table n levels above the last.
Peso[n \in 0 .. Niveles] == IF n = 0 THEN 1 ELSE Entradas * Peso[n - 1]

Capacidad == Peso[Niveles]
Hojas     == 0 .. Capacidad - 1

\* obtener_indice_de_pagina: the entry to follow in a table of that level.
Indice(pagina, nivel) == (pagina \div Peso[Niveles - nivel]) % Entradas

\* The leaf at the end of the descent through the levels.  A page past
\* Capacidad falls on the leaf of an earlier one: the mask drops its top bits.
Hoja(pagina) ==
    LET baja[n \in 0 .. Niveles] ==
          IF n = 0 THEN 0 ELSE Entradas * baja[n - 1] + Indice(pagina, n)
    IN baja[Niveles]

=============================================================================
