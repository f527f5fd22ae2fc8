------------------------------- MODULE MCCpu -------------------------------
\* Instances of Cpu for TLC: three CPU programs with different configurations,
\* a process of three pages that follows any short pattern of accesses, and one
\* of a page that shares the frames.
EXTENDS Cpu, TLC

CONSTANTS c1, c2, c3, p1, p2, Largo

MCNumPaginas    == [p \in Pids |-> IF p = p1 THEN 3 ELSE 1]
MCEntradasTlb   == c1 :> 2 @@ c2 :> 1 @@ c3 :> 1
MCEntradasCache == c1 :> 2 @@ c2 :> 2 @@ c3 :> 0
MCAlgTlb        == c1 :> "LRU" @@ c2 :> "FIFO" @@ c3 :> "FIFO"
MCAlgCache      == c1 :> "CLOCK-M" @@ c2 :> "CLOCK" @@ c3 :> "CLOCK"

Lee(g)         == [op |-> "READ", pagina |-> g, desp |-> 0]
Escribe(g, d, v) == [op |-> "WRITE", pagina |-> g, desp |-> d, valor |-> v]
Simple(op)     == [op |-> op]
Salta(k)       == [op |-> "GOTO", destino |-> k]

\* Every pattern of Largo accesses that visits the three pages, up to their
\* names; each write of a program leaves a value of its own.
Accesos(k) == {Lee(g) : g \in 0 .. 2} \cup {Escribe(g, k % 2, k) : g \in 0 .. 2}
Visitadas(s, k) == {s[j].pagina : j \in 1 .. k}
Patrones == {s \in [1 .. Largo -> UNION {Accesos(k) : k \in 1 .. Largo}] :
                /\ \A k \in 1 .. Largo :
                      /\ s[k] \in Accesos(k)
                      /\ s[k].pagina <= Cardinality(Visitadas(s, k - 1))
                /\ Visitadas(s, Largo) = 0 .. 2}
Largos == {s \o <<Simple("IO"), Lee(0), Simple("EXIT")>> : s \in Patrones}

\* The ends a burst may have, and the instructions that touch no memory.
Cortos == {<<Escribe(0, 0, 1), Simple("DUMP_MEMORY"), Lee(3)>>,
           <<Simple("INIT_PROC"), Salta(3), Simple("ERROR"), Simple("NOOP")>>,
           <<Escribe(0, 2, 1)>>, <<Simple("ERROR")>>}
MCProgramas == [p \in Pids |-> IF p = p1 THEN Largos \cup Cortos ELSE Cortos]

\* The frames are interchangeable.
SimetriaMarcos == Permutations(Marcos)

=============================================================================
