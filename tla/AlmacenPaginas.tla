--------------------------- MODULE AlmacenPaginas ---------------------------
(***************************************************************************)
(* What Memoria promises to the kernel and to the CPUs, without frames,    *)
(* tables, locks or a swap file: the pages of a process keep what was      *)
(* written until the process is destroyed, wherever they are, and the      *)
(* processes that are whole in main memory fit in it.                      *)
(***************************************************************************)
EXTENDS Naturals, FiniteSets

CONSTANTS
    Pids,
    Paginas,  \* the pages of each process
    Marcos,   \* the frames
    Datos,    \* what a page may hold
    Nil

VARIABLES
    lugar,    \* "no" before the admission, "ram", "swap", "fin" when destroyed
    valor     \* what the pages of each process hold

vars == <<lugar, valor>>

Init == /\ lugar = [p \in Pids |-> "no"]
        /\ valor = [p \in Pids |-> Nil]

\* p fits in main memory beside the processes that are whole in it.
Cabe(p) ==
    LET residentes == {q \in Pids : lugar[q] = "ram"} \cup {p}
    IN Cardinality(UNION {{q} \X Paginas[q] : q \in residentes})
         =< Cardinality(Marcos)

Admitir(p) ==
    /\ lugar[p] = "no" /\ Cabe(p)
    /\ lugar' = [lugar EXCEPT ![p] = "ram"]
    /\ \E v \in [Paginas[p] -> Datos] : valor' = [valor EXCEPT ![p] = v]

Escribir(p) ==
    /\ lugar[p] = "ram" /\ UNCHANGED lugar
    /\ \E h \in Paginas[p], d \in Datos : valor' = [valor EXCEPT ![p][h] = d]

Suspender(p) ==
    /\ lugar[p] = "ram"
    /\ lugar' = [lugar EXCEPT ![p] = "swap"]
    /\ UNCHANGED valor

Traer(p) ==
    /\ lugar[p] = "swap" /\ Cabe(p)
    /\ lugar' = [lugar EXCEPT ![p] = "ram"]
    /\ UNCHANGED valor

Destruir(p) ==
    /\ lugar[p] \in {"ram", "swap"}
    /\ lugar' = [lugar EXCEPT ![p] = "fin"]
    /\ valor' = [valor EXCEPT ![p] = Nil]

\* What only looks at the pages: a read, a translation, a dump.
Consultar == UNCHANGED vars

Next ==
    \/ Consultar
    \/ \E p \in Pids :
         Admitir(p) \/ Escribir(p) \/ Suspender(p) \/ Traer(p) \/ Destruir(p)

Spec == Init /\ [][Next]_vars

=============================================================================
