--------------------------- MODULE DispositivoIO ---------------------------
(***************************************************************************)
(* What the kernel promises of an I/O device, however many instances serve *)
(* it and whichever of them die: a request made while the device exists is *)
(* either served once or dropped, with all the others, when the device is  *)
(* gone; then its process is to be finished.  Planificacion sees the       *)
(* device through these three variables.                                   *)
(***************************************************************************)
CONSTANT Pids

VARIABLES dispositivo,  \* the device exists
          pedidos,      \* processes with a request not served yet
          caidos        \* processes whose request was dropped

vars == <<dispositivo, pedidos, caidos>>

Init == dispositivo \in BOOLEAN /\ pedidos = {} /\ caidos = {}

Aparecer == /\ ~dispositivo
            /\ dispositivo' = TRUE
            /\ UNCHANGED <<pedidos, caidos>>

Pedir(p) == /\ dispositivo /\ p \notin pedidos
            /\ pedidos' = pedidos \cup {p}
            /\ UNCHANGED <<dispositivo, caidos>>

Servir(p) == /\ p \in pedidos
             /\ pedidos' = pedidos \ {p}
             /\ UNCHANGED <<dispositivo, caidos>>

Caer == /\ dispositivo
        /\ dispositivo' = FALSE
        /\ caidos' = caidos \cup pedidos
        /\ pedidos' = {}

Finalizar(p) == /\ p \in caidos
                /\ caidos' = caidos \ {p}
                /\ UNCHANGED <<dispositivo, pedidos>>

Next == \/ Aparecer \/ Caer
        \/ \E p \in Pids : Pedir(p) \/ Servir(p) \/ Finalizar(p)

Spec == Init /\ [][Next]_vars

============================================================================
