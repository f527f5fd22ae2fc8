------------------------------ MODULE GruposIO ------------------------------
(***************************************************************************)
(* The I/O devices of one name: the group the kernel keeps for them        *)
(* (src/kernel/src/kernel.c: the handshake, bloquear_proceso,              *)
(* despachar_io_si_es_posible, manejar_fin_io, manejar_desconexion_io) and *)
(* the device programs (src/io/src/io.c).  Planificacion sees all of this  *)
(* as a device that serves a set of requests.                              *)
(*                                                                         *)
(* Granularity.  A section under mutex_colas or mutex_grupo is one step,   *)
(* and so is what a device does with a message.                            *)
(***************************************************************************)
EXTENDS Integers, FiniteSets, Sequences, SequencesExt

CONSTANTS
    Pids,        \* the processes
    Instancias,  \* the device programs that may connect, once each
    MaxPedidos,  \* I/O syscalls of each process
    Nil,
    Fallas       \* "io": the device programs may die

ASSUME GruposAssumption ==
    /\ IsFiniteSet(Pids) /\ IsFiniteSet(Instancias)
    /\ MaxPedidos \in Nat
    /\ Nil \notin Pids \cup Instancias /\ Pids \cap Instancias = {}

VARIABLES
    grupo,       \* which group dispositivos_io has for the name; 0 is none
    grupos,      \* groups created so far
    instancias,  \* grupo->instancias
    espera,      \* grupo->cola_espera_compartida: the pids of the requests
    ultimo,      \* ultimo_despacho_idx + 1: positions are 1 .. Len(instancias)
    ocupado,     \* instancia->ocupado
    pidEn,       \* instancia->pid_en_ejecucion
    hilo,        \* where the threads that connect and listen to it are
    grupoDe,     \* the group pointer a process or an instance holds
    situacion,   \* where each process is
    restantes,   \* I/O syscalls the process has left
    perdidos,    \* pids whose request went to a group already destroyed
    io,          \* what the device program does
    haciaIo,     \* messages from the kernel to the device
    desdeIo      \* pids of the FINALIZO_IO messages on their way

grupoVars == <<grupo, grupos, instancias, espera, ultimo, ocupado, pidEn>>
procVars  == <<situacion, restantes, perdidos>>
redVars   == <<io, haciaIo, desdeIo>>
vars == <<grupoVars, hilo, grupoDe, procVars, redVars>>

Mensaje(op, p) == [op |-> op, pid |-> p]

Init ==
    /\ grupo = 0 /\ grupos = 0 /\ instancias = <<>> /\ espera = <<>> /\ ultimo = 0
    /\ ocupado = [i \in Instancias |-> FALSE]
    /\ pidEn = [i \in Instancias |-> Nil]
    /\ hilo = [i \in Instancias |-> "no"]
    /\ grupoDe = [x \in Pids \cup Instancias |-> 0]
    /\ situacion = [p \in Pids |-> "activo"]
    /\ restantes = [p \in Pids |-> MaxPedidos]
    /\ perdidos = {}
    /\ io = [i \in Instancias |-> "no"]
    /\ haciaIo = [i \in Instancias |-> <<>>]
    /\ desdeIo = [i \in Instancias |-> <<>>]

----------------------------------------------------------------------------
\* despachar_io_si_es_posible over the queue, the instances and the flags the
\* caller leaves.  Vuelta: how many instances the round robin looks at before the
\* one at position k.  Turnos: the free positions that get the first n requests;
\* the loop ends when no request or no free instance is left.
Vuelta(ins, k) == (k - 1 - ultimo) % Len(ins)

Turnos(ins, ocu, n, pendientes) ==
    LET libres == {k \in DOMAIN ins : ~ocu[ins[k]]}
    IN {t \in [1 .. n -> libres] :
           /\ \A j, k \in 1 .. n : j < k => Vuelta(ins, t[j]) < Vuelta(ins, t[k])
           /\ \A j \in 1 .. n, l \in libres :
                 Vuelta(ins, l) < Vuelta(ins, t[j]) => \E k \in 1 .. n : t[k] = l
           /\ n = pendientes \/ libres = {t[k] : k \in 1 .. n}}

\* Mutant of Despachar: the instance is not marked as busy.
DespacharSinOcupar(cola, ins, ocu) ==
    \E n \in 0 .. Len(cola) : \E turnos \in Turnos(ins, ocu, n, Len(cola)) :
        LET pedido == [i \in {ins[turnos[k]] : k \in 1 .. n} |->
                          cola[CHOOSE k \in 1 .. n : ins[turnos[k]] = i]]
        IN /\ instancias' = ins
           /\ espera' = SubSeq(cola, n + 1, Len(cola))
           /\ ultimo' = IF n = 0 THEN ultimo ELSE turnos[n]
           /\ ocupado' = ocu
           /\ pidEn' = [i \in Instancias |->
                           IF i \in DOMAIN pedido THEN pedido[i] ELSE pidEn[i]]
           /\ haciaIo' = [i \in Instancias |->
                             IF i \in DOMAIN pedido /\ io[i] # "caida"
                             THEN Append(haciaIo[i], Mensaje("IO", pedido[i]))
                             ELSE haciaIo[i]]

Despachar(cola, ins, ocu) ==
    \E n \in 0 .. Len(cola) : \E turnos \in Turnos(ins, ocu, n, Len(cola)) :
        LET pedido == [i \in {ins[turnos[k]] : k \in 1 .. n} |->
                          cola[CHOOSE k \in 1 .. n : ins[turnos[k]] = i]]
        IN /\ instancias' = ins
           /\ espera' = SubSeq(cola, n + 1, Len(cola))
           /\ ultimo' = IF n = 0 THEN ultimo ELSE turnos[n]
           /\ ocupado' = [i \in Instancias |-> ocu[i] \/ i \in DOMAIN pedido]
           /\ pidEn' = [i \in Instancias |->
                           IF i \in DOMAIN pedido THEN pedido[i] ELSE pidEn[i]]
           /\ haciaIo' = [i \in Instancias |->
                             IF i \in DOMAIN pedido /\ io[i] # "caida"
                             THEN Append(haciaIo[i], Mensaje("IO", pedido[i]))
                             ELSE haciaIo[i]]

----------------------------------------------------------------------------
\* A device connects: HANDSHAKE_KERNEL_IO.

\* Under mutex_colas: the group is created if it is not there, and the instance
\* joins it.  The listener thread starts at once.
Conectar(i) ==
    /\ io[i] = "no"
    /\ io' = [io EXCEPT ![i] = "saludo"]
    /\ IF grupo = 0
       THEN /\ grupos' = grupos + 1 /\ grupo' = grupos + 1 /\ ultimo' = 0
       ELSE UNCHANGED <<grupos, grupo, ultimo>>
    /\ instancias' = Append(instancias, i)
    /\ grupoDe' = [grupoDe EXCEPT ![i] = grupo']
    /\ hilo' = [hilo EXCEPT ![i] = "agregada"]
    /\ UNCHANGED <<espera, ocupado, pidEn, procVars, haciaIo, desdeIo>>

\* HANDSHAKE_OK, after the section: a request may already be on its way.
ResponderHandshake(i) ==
    /\ hilo[i] = "agregada"
    /\ hilo' = [hilo EXCEPT ![i] = "respondida"]
    /\ haciaIo' = [haciaIo EXCEPT ![i] =
                      IF io[i] = "caida" THEN @ ELSE Append(@, Mensaje("OK", Nil))]
    /\ UNCHANGED <<grupoVars, grupoDe, procVars, io, desdeIo>>

\* Under mutex_grupo, with the pointer of before: a group that was destroyed in
\* between is freed memory, and nothing is dispatched.
DespacharAlConectar(i) ==
    /\ hilo[i] = "respondida"
    /\ hilo' = [hilo EXCEPT ![i] = "escucha"]
    /\ IF grupoDe[i] = grupo THEN Despachar(espera, instancias, ocupado)
       ELSE UNCHANGED <<instancias, espera, ultimo, ocupado, pidEn, haciaIo>>
    /\ UNCHANGED <<grupo, grupos, grupoDe, procVars, io, desdeIo>>

----------------------------------------------------------------------------
\* bloquear_proceso.

\* Under mutex_colas: without the device the process is finished.
BloquearPorIo(p) ==
    /\ situacion[p] = "activo"
    /\ restantes[p] > 0
    /\ restantes' = [restantes EXCEPT ![p] = @ - 1]
    /\ situacion' = [situacion EXCEPT ![p] = IF grupo = 0 THEN "fin" ELSE "pedir"]
    /\ grupoDe' = [grupoDe EXCEPT ![p] = grupo]
    /\ UNCHANGED <<grupoVars, hilo, perdidos, redVars>>

\* Under mutex_grupo, with the pointer of before.
PedirIo(p) ==
    /\ situacion[p] = "pedir"
    /\ situacion' = [situacion EXCEPT ![p] = "bloqueado"]
    /\ IF grupoDe[p] = grupo
       THEN /\ Despachar(Append(espera, p), instancias, ocupado)
            /\ UNCHANGED perdidos
       ELSE /\ perdidos' = perdidos \cup {p}
            /\ UNCHANGED <<instancias, espera, ultimo, ocupado, pidEn, haciaIo>>
    /\ UNCHANGED <<grupo, grupos, hilo, grupoDe, restantes, io, desdeIo>>

----------------------------------------------------------------------------
\* hilo_escucha_io.

\* Mutant of FinIo: nobody looks at the queue.
FinIoSinDespachar(i) ==
    /\ hilo[i] \in {"agregada", "respondida", "escucha"}
    /\ desdeIo[i] # <<>>
    /\ desdeIo' = [desdeIo EXCEPT ![i] = Tail(@)]
    /\ situacion' = [situacion EXCEPT ![Head(desdeIo[i])] = "activo"]
    /\ ocupado' = [ocupado EXCEPT ![i] = FALSE]
    /\ UNCHANGED <<grupo, grupos, instancias, espera, ultimo, pidEn, haciaIo,
                   hilo, grupoDe, restantes, perdidos, io>>

\* manejar_fin_io: the instance is free, the process is unblocked, and the next
\* request goes out.
FinIo(i) ==
    /\ hilo[i] \in {"agregada", "respondida", "escucha"}
    /\ desdeIo[i] # <<>>
    /\ desdeIo' = [desdeIo EXCEPT ![i] = Tail(@)]
    /\ situacion' = [situacion EXCEPT ![Head(desdeIo[i])] = "activo"]
    /\ Despachar(espera, instancias, [ocupado EXCEPT ![i] = FALSE])
    /\ UNCHANGED <<grupo, grupos, hilo, grupoDe, restantes, perdidos, io>>

\* Mutants of Recuperada: the request is lost, or goes to the end of the queue.
RecuperadaPerdida(i) == espera
RecuperadaAlFinal(i) == IF ocupado[i] THEN Append(espera, pidEn[i]) ELSE espera

\* The request a dead instance was serving goes back to the head of the queue.
Recuperada(i) == IF ocupado[i] THEN <<pidEn[i]>> \o espera ELSE espera

\* manejar_desconexion_io, once every message of the device has been read:
\* either there is another instance for the requests or the group is destroyed
\* with all of them.
DetectarDesconexion(i) ==
    /\ hilo[i] \in {"agregada", "respondida", "escucha"}
    /\ io[i] = "caida" /\ desdeIo[i] = <<>>
    /\ \E k \in DOMAIN instancias :
       LET cola == Recuperada(i)
           ins  == RemoveAt(instancias, k)
       IN /\ instancias[k] = i
          /\ IF ins # <<>>
             THEN /\ Despachar(cola, ins, [ocupado EXCEPT ![i] = FALSE])
                  /\ UNCHANGED <<grupo, situacion>>
             ELSE /\ grupo' = 0
                  /\ instancias' = <<>> /\ espera' = <<>>
                  /\ situacion' = [p \in Pids |-> IF p \in ToSet(cola) THEN "caido"
                                                  ELSE situacion[p]]
                  /\ ocupado' = [ocupado EXCEPT ![i] = FALSE]
                  /\ UNCHANGED <<ultimo, pidEn, haciaIo>>
    /\ hilo' = [hilo EXCEPT ![i] = "muerta"]
    /\ UNCHANGED <<grupos, grupoDe, restantes, perdidos, io, desdeIo>>

\* Outside the mutexes, finalizar_proceso for each of them.
FinalizarCaido(p) ==
    /\ situacion[p] = "caido"
    /\ situacion' = [situacion EXCEPT ![p] = "fin"]
    /\ UNCHANGED <<grupoVars, hilo, grupoDe, restantes, perdidos, redVars>>

----------------------------------------------------------------------------
\* The device program.

\* conectar_kernel: whatever comes first is taken for the handshake's answer,
\* and the program ends if it is not HANDSHAKE_OK.
RecibirHandshake(i) ==
    /\ io[i] = "saludo"
    /\ haciaIo[i] # <<>>
    /\ io' = [io EXCEPT ![i] = IF Head(haciaIo[i]).op = "OK" THEN "libre" ELSE "caida"]
    /\ haciaIo' = [haciaIo EXCEPT ![i] =
                      IF Head(@).op = "OK" THEN Tail(@) ELSE <<>>]
    /\ UNCHANGED <<grupoVars, hilo, grupoDe, procVars, desdeIo>>

\* escuchar_solicitudes_io: one request at a time ...
EmpezarIo(i) ==
    /\ io[i] = "libre"
    /\ haciaIo[i] # <<>>
    /\ io' = [io EXCEPT ![i] = "sirve"]
    /\ UNCHANGED <<grupoVars, hilo, grupoDe, procVars, haciaIo, desdeIo>>

\* ... and enviar_finalizacion after the sleep.
TerminarIo(i) ==
    /\ io[i] = "sirve"
    /\ io' = [io EXCEPT ![i] = "libre"]
    /\ desdeIo' = [desdeIo EXCEPT ![i] = Append(@, Head(haciaIo[i]).pid)]
    /\ haciaIo' = [haciaIo EXCEPT ![i] = Tail(@)]
    /\ UNCHANGED <<grupoVars, hilo, grupoDe, procVars>>

\* The program is killed: what it had sent still arrives.
CaeInstancia(i) ==
    /\ "io" \in Fallas
    /\ io[i] \in {"saludo", "libre", "sirve"}
    /\ io' = [io EXCEPT ![i] = "caida"]
    /\ haciaIo' = [haciaIo EXCEPT ![i] = <<>>]
    /\ UNCHANGED <<grupoVars, hilo, grupoDe, procVars, desdeIo>>

----------------------------------------------------------------------------

Conexion(i)    == ResponderHandshake(i) \/ DespacharAlConectar(i)
Escucha(i)     == FinIo(i) \/ DetectarDesconexion(i)
Dispositivo(i) == RecibirHandshake(i) \/ EmpezarIo(i) \/ TerminarIo(i)
Proceso(p)     == PedirIo(p) \/ FinalizarCaido(p)

Next ==
    \/ \E i \in Instancias : \/ Conectar(i) \/ Conexion(i) \/ Escucha(i)
                             \/ Dispositivo(i) \/ CaeInstancia(i)
    \/ \E p \in Pids : BloquearPorIo(p) \/ Proceso(p)

Spec == Init /\ [][Next]_vars

\* Every thread of the kernel and every device goes on with what it has begun;
\* nobody has to connect, to ask for I/O or to die.
FairSpec ==
    /\ Spec
    /\ \A i \in Instancias :
          WF_vars(Conexion(i)) /\ WF_vars(Escucha(i)) /\ WF_vars(Dispositivo(i))
    /\ \A p \in Pids : WF_vars(Proceso(p))

----------------------------------------------------------------------------
\* Type invariant: every variable keeps its shape.
TypeOK ==
    /\ grupos \in 0 .. Cardinality(Instancias) /\ grupo \in 0 .. grupos
    /\ instancias \in Seq(Instancias) /\ espera \in Seq(Pids)
    /\ ultimo \in 0 .. Cardinality(Instancias)
    /\ ocupado \in [Instancias -> BOOLEAN]
    /\ pidEn \in [Instancias -> Pids \cup {Nil}]
    /\ hilo \in [Instancias ->
                   {"no", "agregada", "respondida", "escucha", "muerta"}]
    /\ grupoDe \in [Pids \cup Instancias -> 0 .. grupos]
    /\ situacion \in [Pids -> {"activo", "pedir", "bloqueado", "caido", "fin"}]
    /\ restantes \in [Pids -> 0 .. MaxPedidos]
    /\ perdidos \subseteq Pids
    /\ io \in [Instancias -> {"no", "saludo", "libre", "sirve", "caida"}]
    /\ haciaIo \in [Instancias -> Seq([op : {"IO", "OK"}, pid : Pids \cup {Nil}])]
    /\ desdeIo \in [Instancias -> Seq(Pids)]
    /\ \A i \in Instancias : Len(haciaIo[i]) <= 2 /\ Len(desdeIo[i]) <= 1

Ocupadas == {i \in ToSet(instancias) : ocupado[i]}

\* A blocked process has one request, waiting or with one instance, and there
\* are no others: no death of an instance and no order of the answers loses a
\* request or serves it twice, except for those sent to a destroyed group.
UnPedidoPorBloqueado ==
    \A p \in Pids :
        Cardinality({k \in DOMAIN espera : espera[k] = p})
            + Cardinality({i \in Ocupadas : pidEn[i] = p})
        = IF situacion[p] = "bloqueado" /\ p \notin perdidos THEN 1 ELSE 0

\* A request waits only while every instance is busy, or has just joined and its
\* connection thread is about to look at the queue.
SinInstanciaOciosa ==
    espera # <<>> => \A i \in ToSet(instancias) :
                        ocupado[i] \/ hilo[i] \in {"agregada", "respondida"}

\* What the kernel believes of an instance is what the device does: it works
\* for, or has finished, the request of pid_en_ejecucion, and no other is on its
\* way to it.
InstanciaSincronizada ==
    \A i \in Instancias :
        LET enCamino == {haciaIo[i][k].pid : k \in {j \in DOMAIN haciaIo[i] :
                                                     haciaIo[i][j].op = "IO"}}
                        \cup ToSet(desdeIo[i])
        IN /\ Cardinality(enCamino) <= 1
           /\ enCamino # {} => i \in Ocupadas /\ enCamino = {pidEn[i]}
           /\ i \in Ocupadas /\ enCamino = {} => io[i] = "caida"

\* p is served before q.
Antes(p, q) ==
    \E k \in DOMAIN espera :
        /\ espera[k] = q
        /\ \/ \E i \in Ocupadas : pidEn[i] = p
           \/ \E j \in 1 .. k - 1 : espera[j] = p

\* No request overtakes another: a process that came first is dispatched first,
\* also when the instance that was serving it dies and it has to wait again.
OrdenDeLlegada ==
    [][\A p, q \in Pids : Antes(p, q) => ~Antes(q, p)']_vars

\* A blocked process is unblocked or finished, unless its request went to a
\* group already destroyed.
TodoPedidoTermina ==
    \A p \in Pids : situacion[p] = "bloqueado"
                        ~> situacion[p] # "bloqueado" \/ p \in perdidos

\* The group implements the device Planificacion relies on.
Abstracto == INSTANCE DispositivoIO WITH
    dispositivo <- grupo # 0,
    pedidos <- ToSet(espera) \cup {pidEn[i] : i \in Ocupadas},
    caidos <- {p \in Pids : situacion[p] = "caido"}
CumpleDispositivo == Abstracto!Spec

============================================================================
