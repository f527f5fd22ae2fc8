----------------------------- MODULE MCMemoria -----------------------------
\* Instances of Memoria for TLC.
EXTENDS Memoria

CONSTANTS p1, p2

MCPids == {p1, p2}

\* p1 has two pages; p2 has a single one.
MCNumPaginas == [p \in MCPids |-> IF p = p1 THEN 2 ELSE 1]

=============================================================================
