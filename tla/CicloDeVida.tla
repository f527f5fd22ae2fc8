---------------------------- MODULE CicloDeVida ----------------------------
(***************************************************************************)
(* What the kernel promises of its processes under FIFO admission and FIFO *)
(* dispatch, whatever its threads do: the seven-state life cycle, the      *)
(* order of admission and of dispatch, never more processes executing than *)
(* CPUs, and no state after EXIT but the release of the process.           *)
(***************************************************************************)
EXTENDS Naturals, FiniteSets, Sequences

CONSTANTS Pids,    \* every process there may be
          NumCpus  \* CPUs the kernel may have

VARIABLES estado,  \* state of each process
          nuevos,  \* processes in NEW, in order of creation
          listos   \* processes in READY, in order of arrival

vars == <<estado, nuevos, listos>>

En(e) == {p \in Pids : estado[p] = e}
Pasar(p, desde, hasta) ==
    estado[p] \in desde /\ estado' = [estado EXCEPT ![p] = hasta]

Init == \E p \in Pids :
    /\ estado = [q \in Pids |-> IF q = p THEN "NEW" ELSE "NINGUNO"]
    /\ nuevos = <<p>> /\ listos = <<>>

Crear(p) == /\ Pasar(p, {"NINGUNO"}, "NEW")
            /\ nuevos' = Append(nuevos, p)
            /\ UNCHANGED listos

Admitir(p) == /\ nuevos # <<>> /\ p = Head(nuevos)
              /\ Pasar(p, {"NEW"}, "READY")
              /\ nuevos' = Tail(nuevos)
              /\ listos' = Append(listos, p)

\* A suspended process comes back, or a blocked one is unblocked in memory.
Volver(p) == /\ Pasar(p, {"SUSP_READY", "BLOCKED"}, "READY")
             /\ listos' = Append(listos, p)
             /\ UNCHANGED nuevos

Despachar(p) == /\ listos # <<>> /\ p = Head(listos)
                /\ Cardinality(En("RUNNING")) < NumCpus
                /\ Pasar(p, {"READY"}, "RUNNING")
                /\ listos' = Tail(listos)
                /\ UNCHANGED nuevos

\* The steps that change a state and no queue: a process blocks, is suspended,
\* is unblocked while suspended, ends or is released.
Cambios == {<<"RUNNING", "BLOCKED">>, <<"BLOCKED", "SUSP_BLOCKED">>,
            <<"SUSP_BLOCKED", "SUSP_READY">>, <<"RUNNING", "EXIT">>,
            <<"BLOCKED", "EXIT">>, <<"SUSP_BLOCKED", "EXIT">>,
            <<"EXIT", "LIBERADO">>}
Cambiar(p) == /\ \E c \in Cambios : Pasar(p, {c[1]}, c[2])
              /\ UNCHANGED <<nuevos, listos>>

Next == \E p \in Pids : \/ Crear(p) \/ Admitir(p) \/ Volver(p)
                        \/ Despachar(p) \/ Cambiar(p)

Spec == Init /\ [][Next]_vars

============================================================================
