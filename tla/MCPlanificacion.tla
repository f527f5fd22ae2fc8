-------------------------- MODULE MCPlanificacion --------------------------
\* Instances of Planificacion for TLC.
EXTENDS Planificacion, TLC

\* Process 0 needs two frames, every other process one.
MCTam == [p \in Pids |-> IF p = 0 THEN 2 ELSE 1]

\* No action tells the CPUs apart, but for the order they connect in.
SimetriaCpus == Permutations(CPUs)

============================================================================
