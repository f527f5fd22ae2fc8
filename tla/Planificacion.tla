--------------------------- MODULE Planificacion ---------------------------
(***************************************************************************)
(* The scheduling core of the kernel process (src/kernel/src/kernel.c):    *)
(* the seven state queues, the semaphores that wake the planners, the      *)
(* long-term and short-term planner threads, one listener thread per CPU,  *)
(* the thread that reaps finished processes, the suspension timers, the    *)
(* dump threads, and the answers of Memoria, the CPUs and one I/O device.  *)
(*                                                                         *)
(* Granularity.  A section under mutex_colas is one step.  Statements a    *)
(* thread runs outside it (the listener's queue updates, the semaphore     *)
(* posts that follow them, the requests to Memoria) are steps of their own *)
(* wherever another thread can see the state in between.  One call of the  *)
(* list library is one step.                                               *)
(***************************************************************************)
EXTENDS Naturals, FiniteSets, Sequences, SequencesExt, FiniteSetsExt

CONSTANTS
    MaxPid,      \* pids are 0 .. MaxPid: bounds the processes ever created
    CPUs,        \* the CPU programs that may connect
    Nil,         \* the NULL pointer
    AlgCorto,    \* ALGORITMO_CORTO_PLAZO: "FIFO", "SJF" or "SRT"
    AlgLargo,    \* ALGORITMO_INGRESO_A_READY: "FIFO" or "PMCP"
    Tam,         \* tamanio_proceso of each pid, in frames
    CapMem,      \* frames of the main memory
    MaxEst,      \* estimates and measured bursts are 0 .. MaxEst
    EstInicial,  \* ESTIMACION_INICIAL
    ALFA,        \* ALFA as main keeps it: read with config_get_long_value
    Rafagas,     \* blocking syscalls a program makes before it must end
    Motivos,     \* syscalls the programs use, of {"EXIT","IO","DUMP","ERROR"}
    Suspende,    \* TIEMPO_SUSPENSION is short enough to elapse in a block
    MaxInterr,   \* interrupts a CPU has not served yet, at most
    Fallas       \* faults injected, of {"cpu","io","dump","dump_con","mem"}

Pids == 0 .. MaxPid
Est  == 0 .. MaxEst

Estados == {"NINGUNO", "NEW", "READY", "RUNNING", "BLOCKED", "SUSP_BLOCKED",
            "SUSP_READY", "EXIT", "LIBERADO"}
Colas   == {"new", "ready", "susp_ready", "exit"}

ASSUME PidsAssumption == MaxPid \in Nat
ASSUME CpusAssumption == /\ CPUs # {}
                         /\ IsFiniteSet(CPUs)
                         /\ Nil \notin CPUs
                         /\ Nil \notin Pids
ASSUME AlgoritmosAssumption == /\ AlgCorto \in {"FIFO", "SJF", "SRT"}
                               /\ AlgLargo \in {"FIFO", "PMCP"}
ASSUME MemoriaAssumption == Tam \in [Pids -> Nat] /\ CapMem \in Nat
\* config_get_long_value leaves only the integers 0 and 1 in [0, 1].
ASSUME EstimacionAssumption == /\ MaxEst \in Nat \ {0}
                               /\ EstInicial \in 0 .. MaxEst
                               /\ ALFA \in {0, 1}
ASSUME CotasAssumption ==
    Rafagas \in Nat /\ MaxInterr \in Nat \ {0} /\ Suspende \in BOOLEAN

VARIABLES
    estado,       \* pcb->estado; "NINGUNO" before crear_pcb, "LIBERADO" freed
    cola,         \* cola_new, cola_ready, cola_suspended_ready and cola_exit
    exec,         \* cola_exec: this list and the next two are only searched
    blocked,      \* cola_blocked
    suspBlocked,  \* cola_suspended_blocked
    semNuevo,     \* sem_procesos_en_new_o_memoria_libre
    semListo,     \* sem_procesos_ready
    semCpu,       \* sem_cpu_libre
    semExit,      \* sem_procesos_en_exit
    colasTrabado, \* a thread waits for mutex_colas while it holds it
    ultimoPid,    \* ultimo_pid
    listaCpus,    \* lista_cpus
    ultimoCpu,    \* ultimo_cpu_usado + 1
    libre,        \* cpu->cpu_libre
    enCpu,        \* cpu->pcb_en_ejecucion
    conexion,     \* what is left of the connection of each CPU
    enviado,      \* the process the CPU program is really executing
    interrumpida, \* interrupts sent to the CPU and not served
    oyente,       \* where the listener thread of each CPU is
    largo,        \* the long-term planner: place, candidate and its queue
    corto,        \* where the short-term planner is
    liberador,    \* the pcb gestionar_procesos_finalizados holds, or Nil
    vigilias,     \* suspension timers of each pid that have not fired
    suspensor,    \* the pid whose timer is between its check and its write, or
                  \* Nil: that timer holds mutex_colas
    suspendiendo, \* SUSPENDER_PROCESO requests not served yet, per pid
    volcando,     \* pids whose dump thread waits for Memoria, or has failed to
                  \* connect and has not queued them in cola_exit
    dispositivo,  \* the group of the I/O device is in dispositivos_io
    pedidos,      \* pids with a request queued or served in that group
    caidos,       \* pids whose device died, to be finished by its listener
    saliendo,     \* of those two, the ones that thread has already marked EXIT
    avisosDump,   \* dump threads about to post sem_procesos_en_exit
    avisoIo,      \* the listener of the device is about to post it
    memoria,      \* where Memoria has the pages: "no", "ram" or "swap"
    estimacion,   \* pcb->estimacion_rafaga
    rafagas       \* blocking syscalls the program has left

bolsaVars == <<exec, blocked, suspBlocked>>
colaVars == <<cola, bolsaVars>>
cpuVars  == <<listaCpus, ultimoCpu, libre, enCpu, conexion>>
semVars  == <<semNuevo, semListo, semCpu, semExit>>
susVars  == <<vigilias, suspensor, suspendiendo, volcando>>
finVars  == <<saliendo, avisosDump, avisoIo>>
ioVars   == <<dispositivo, pedidos, caidos, finVars>>
planVars == <<largo, corto, liberador>>
procVars == <<estimacion, rafagas>>
vars == <<estado, colaVars, semVars, colasTrabado, ultimoPid, cpuVars, enviado,
          interrumpida, oyente, planVars, susVars, ioVars, memoria, procVars>>

\* A thread can take mutex_colas.  Only the section of the suspension timer is
\* two steps, so only its thread is ever seen with the mutex.
ColasLibres == ~colasTrabado /\ suspensor = Nil

----------------------------------------------------------------------------
\* Lists.

\* Mutant of Encolar: the pcb is added at the head.
EncolarAlFrente(q, p) == [cola EXCEPT ![q] = <<p>> \o @]

Encolar(q, p) == [cola EXCEPT ![q] = Append(@, p)]

\* Mutant of Encontrado: cola_suspended_blocked is not searched.
EncontradoSinSuspendidos(p) ==
    p \in exec \cup ToSet(cola["ready"]) \cup blocked \cup ToSet(cola["susp_ready"])

\* buscar_pcb_por_pid looks in these five lists and in no other.
Encontrado(p) ==
    p \in exec \cup ToSet(cola["ready"]) \cup blocked \cup suspBlocked
         \cup ToSet(cola["susp_ready"])

\* list_sort and list_get(0) of PMCP: one of the smallest goes to the front.
\* comparar_por_memoria is strict, so which of the equals comes first is the
\* library's choice.  Only the head of the queue is ever taken, and the order
\* among the others is left as it was.
AlFrente(s, i) == <<s[i]>> \o RemoveAt(s, i)
OrdenesDeIngreso(s) ==
    IF AlgLargo = "FIFO" THEN {s}
    ELSE {AlFrente(s, i) : i \in {j \in DOMAIN s : \A k \in DOMAIN s :
                                     Tam[s[j]] <= Tam[s[k]]}}

\* comparar_por_rafaga_estimada, and the position list_remove(cola_ready, 0)
\* takes after the sort; FIFO takes the head.
RafagaMenor(p, q) ==
    estimacion[p] < estimacion[q] \/ (estimacion[p] = estimacion[q] /\ p <= q)
Elegibles(s) ==
    IF AlgCorto = "FIFO" THEN {i \in DOMAIN s : i = 1}
    ELSE {i \in DOMAIN s : \A j \in DOMAIN s : RafagaMenor(s[i], s[j])}

----------------------------------------------------------------------------
\* SRT preemption.

\* The CPUs desalojar_si_es_necesario_srt may pick for a process that has just
\* become ready: what is left of the running burst is anything up to its
\* estimate, and a pcb that has been freed may read as anything.
Victimas(p) ==
    {c \in ToSet(listaCpus) :
        /\ ~libre[c] /\ enCpu[c] # Nil
        /\ \/ estimacion[p] < estimacion[enCpu[c]]
           \/ estado[enCpu[c]] = "LIBERADO"}

\* enviar_interrupcion_a_cpu does nothing before the interrupt connection.
Interrumpir(c) ==
    interrumpida' = IF conexion[c] = "completa" /\ interrumpida[c] < MaxInterr
                    THEN [interrumpida EXCEPT ![c] = @ + 1]
                    ELSE interrumpida

DesalojarSiEsNecesario(p) ==
    \/ UNCHANGED interrumpida
    \/ AlgCorto = "SRT" /\ \E c \in Victimas(p) : Interrumpir(c)

----------------------------------------------------------------------------
\* Initial state: main has created process 0 and started the threads.

Init ==
    /\ estado = [p \in Pids |-> IF p = 0 THEN "NEW" ELSE "NINGUNO"]
    /\ cola = [q \in Colas |-> IF q = "new" THEN <<0>> ELSE <<>>]
    /\ exec = {} /\ blocked = {} /\ suspBlocked = {}
    /\ semNuevo = 1 /\ semListo = 0 /\ semCpu = 0 /\ semExit = 0
    /\ colasTrabado = FALSE
    /\ ultimoPid = 1
    /\ listaCpus = <<>> /\ ultimoCpu = 0
    /\ libre = [c \in CPUs |-> FALSE]
    /\ enCpu = [c \in CPUs |-> Nil]
    /\ conexion = [c \in CPUs |-> "no"]
    /\ enviado = [c \in CPUs |-> Nil]
    /\ interrumpida = [c \in CPUs |-> 0]
    /\ oyente = [c \in CPUs |-> "no"]
    /\ largo = [pc |-> "arranque", cand |-> Nil, susp |-> FALSE]
    /\ corto = "listo"
    /\ liberador = Nil
    /\ vigilias = [p \in Pids |-> 0]
    /\ suspensor = Nil /\ suspendiendo = [p \in Pids |-> 0]
    /\ volcando = {}
    /\ dispositivo = TRUE /\ pedidos = {} /\ caidos = {}
    /\ saliendo = {} /\ avisosDump = 0 /\ avisoIo = FALSE
    /\ memoria = [p \in Pids |-> "no"]
    /\ estimacion = [p \in Pids |-> EstInicial]
    /\ rafagas = [p \in Pids |-> Rafagas]

----------------------------------------------------------------------------
\* CPUs connect.

\* atender_conexion_cpu: the dispatch connection registers the CPU.
ConectarDispatch(c) ==
    /\ conexion[c] = "no"
    /\ conexion' = [conexion EXCEPT ![c] = "dispatch"]
    /\ listaCpus' = Append(listaCpus, c)
    /\ libre' = [libre EXCEPT ![c] = TRUE]
    /\ enCpu' = [enCpu EXCEPT ![c] = Nil]
    /\ oyente' = [oyente EXCEPT ![c] = "avisar"]
    /\ UNCHANGED <<estado, colaVars, semVars, colasTrabado,
                   ultimoPid, ultimoCpu, enviado, interrumpida, planVars,
                   susVars, ioVars, memoria, procVars>>

\* handshake_kernel_con_mensaje, HANDSHAKE_CPU_INTERRUPT.
ConectarInterrupt(c) ==
    /\ conexion[c] = "dispatch"
    /\ conexion' = [conexion EXCEPT ![c] = "completa"]
    /\ UNCHANGED <<estado, colaVars, semVars, colasTrabado, ultimoPid,
                   listaCpus, ultimoCpu, libre, enCpu, enviado, interrumpida,
                   oyente, planVars, susVars, ioVars, memoria, procVars>>

----------------------------------------------------------------------------
\* The long-term planner (FIFO and PMCP differ only in OrdenarIngreso).

\* cpu_conectada is set by the first interrupt connection and never reset.
IniciarLargoPlazo ==
    /\ largo.pc = "arranque"
    /\ \E c \in CPUs : conexion[c] = "completa"
    /\ largo' = [largo EXCEPT !.pc = "espera"]
    /\ UNCHANGED <<estado, colaVars, semVars, colasTrabado, ultimoPid, cpuVars,
                   enviado, interrumpida, oyente, corto, liberador, susVars,
                   ioVars, memoria, procVars>>

EsperarNuevo ==
    /\ largo.pc = "espera"
    /\ semNuevo > 0
    /\ semNuevo' = semNuevo - 1
    /\ largo' = [largo EXCEPT !.pc = "elegir"]
    /\ UNCHANGED <<estado, colaVars, semListo, semCpu, semExit, colasTrabado,
                   ultimoPid, cpuVars, enviado, interrumpida, oyente, corto,
                   liberador, susVars, ioVars, memoria, procVars>>

ColaDeIngreso(susp) == IF susp THEN "susp_ready" ELSE "new"

\* First section of the inner loop: SUSPENDED_READY has priority over NEW.
ElegirCandidato ==
    /\ largo.pc = "elegir"
    /\ ColasLibres
    /\ LET susp == cola["susp_ready"] # <<>>
           q    == ColaDeIngreso(susp)
       IN IF cola[q] = <<>>
          THEN /\ largo' = [pc |-> "espera", cand |-> Nil, susp |-> FALSE]
               /\ UNCHANGED cola
          ELSE \E s \in OrdenesDeIngreso(cola[q]) :
               /\ largo' = [pc |-> "memoria", cand |-> Head(s), susp |-> susp]
               /\ cola' = [cola EXCEPT ![q] = s]
    /\ UNCHANGED <<estado, bolsaVars, semVars, colasTrabado, ultimoPid, cpuVars,
                   enviado, interrumpida, oyente, corto, liberador, susVars,
                   ioVars, memoria, procVars>>

\* Frames that the processes of ps ask for.
MarcosDe(ps) == MapThenSumSet(LAMBDA p : Tam[p], ps)
MarcosLibres == CapMem - MarcosDe({p \in Pids : memoria[p] = "ram"})
Cabe(p) == memoria[p] = "ram" \/ Tam[p] <= MarcosLibres

\* Memoria serves INIT_PROC or DESUSPENDER_PROCESO and the answer comes back.
AdmitirEnMemoria ==
    /\ largo.pc = "memoria"
    /\ Cabe(largo.cand)
    /\ memoria' = [memoria EXCEPT ![largo.cand] = "ram"]
    /\ largo' = [largo EXCEPT !.pc = "admitido"]
    /\ UNCHANGED <<estado, colaVars, semVars, colasTrabado, ultimoPid, cpuVars,
                   enviado, interrumpida, oyente, corto, liberador, susVars,
                   ioVars, procVars>>

\* No frames, or the connection to Memoria fails: no change of the queues, and
\* the planner goes back to its semaphore.
RechazarAdmision ==
    /\ largo.pc = "memoria"
    /\ ~Cabe(largo.cand) \/ "mem" \in Fallas
    /\ largo' = [pc |-> "espera", cand |-> Nil, susp |-> FALSE]
    /\ UNCHANGED <<estado, colaVars, semVars, colasTrabado, ultimoPid, cpuVars,
                   enviado, interrumpida, oyente, corto, liberador, susVars,
                   ioVars, memoria, procVars>>

\* Second section: list_remove(queue, 0), whatever is there by now, and
\* list_add(cola_ready, candidate).
AplicarAdmision ==
    /\ largo.pc = "admitido"
    /\ ColasLibres
    /\ cola' = [cola EXCEPT ![ColaDeIngreso(largo.susp)] = Tail(@),
                            !["ready"] = Append(@, largo.cand)]
    /\ estado' = [estado EXCEPT ![largo.cand] = "READY"]
    /\ semListo' = semListo + 1
    /\ DesalojarSiEsNecesario(largo.cand)
    /\ largo' = [pc |-> "elegir", cand |-> Nil, susp |-> FALSE]
    /\ UNCHANGED <<bolsaVars, semNuevo, semCpu, semExit, colasTrabado,
                   ultimoPid, cpuVars, enviado, oyente, corto, liberador,
                   susVars, ioVars, memoria, procVars>>

LargoPlazo == \/ IniciarLargoPlazo \/ EsperarNuevo \/ ElegirCandidato
              \/ AdmitirEnMemoria \/ RechazarAdmision \/ AplicarAdmision

----------------------------------------------------------------------------
\* The short-term planner.

EsperarListo ==
    /\ corto = "listo"
    /\ semListo > 0
    /\ semListo' = semListo - 1
    /\ corto' = "cpu"
    /\ UNCHANGED <<estado, colaVars, semNuevo, semCpu, semExit, colasTrabado,
                   ultimoPid, cpuVars, enviado, interrumpida, oyente, largo,
                   liberador, susVars, ioVars, memoria, procVars>>

\* Mutant of EsperarCpu: a sem_trywait whose result is not looked at.
EsperarCpuSinEsperar ==
    /\ corto = "cpu"
    /\ semCpu' = semCpu - 1
    /\ corto' = "despacho"
    /\ UNCHANGED <<estado, colaVars, semNuevo, semListo, semExit, colasTrabado,
                   ultimoPid, cpuVars, enviado, interrumpida, oyente, largo,
                   liberador, susVars, ioVars, memoria, procVars>>

EsperarCpu ==
    /\ corto = "cpu"
    /\ semCpu > 0
    /\ semCpu' = semCpu - 1
    /\ corto' = "despacho"
    /\ UNCHANGED <<estado, colaVars, semNuevo, semListo, semExit, colasTrabado,
                   ultimoPid, cpuVars, enviado, interrumpida, oyente, largo,
                   liberador, susVars, ioVars, memoria, procVars>>

\* obtener_cpu_libre: round robin over lista_cpus from ultimo_cpu_usado + 1.
\* Positions are 1 .. Len(listaCpus), and i is how many are skipped.
Turno(i) == ((ultimoCpu + i) % Len(listaCpus)) + 1
\* Mutant of TurnosLibres: the next CPU is taken without looking at cpu_libre.
TurnosTodos == 0 .. Len(listaCpus) - 1

TurnosLibres ==
    {i \in 0 .. Len(listaCpus) - 1 : libre[listaCpus[Turno(i)]]}
PrimerTurno == {i \in TurnosLibres : \A j \in TurnosLibres : i <= j}

\* cola_ready is empty: both units go back to the semaphores.
DespacharANadie ==
    /\ cola["ready"] = <<>>
    /\ semListo' = semListo + 1
    /\ semCpu' = semCpu + 1
    /\ UNCHANGED <<estado, cola, exec, ultimoCpu, libre, enCpu, enviado>>

\* No CPU: the process goes back to the front, and the unit of sem_cpu_libre
\* stays taken.
DespacharSinCpu(i) ==
    /\ TurnosLibres = {}
    /\ cola' = [cola EXCEPT !["ready"] = AlFrente(@, i)]
    /\ semListo' = semListo + 1
    /\ UNCHANGED <<estado, exec, semCpu, ultimoCpu, libre, enCpu, enviado>>

\* Mutant of DespacharA: list_get where list_remove belongs.
DespacharASinQuitar(k, i) ==
    LET c == listaCpus[k]
        p == cola["ready"][i]
    IN /\ exec' = exec \cup {p}
       /\ estado' = [estado EXCEPT ![p] = "RUNNING"]
       /\ libre' = [libre EXCEPT ![c] = FALSE]
       /\ ultimoCpu' = k
       /\ enCpu' = [enCpu EXCEPT ![c] = p]
       /\ enviado' = [enviado EXCEPT
                         ![c] = IF conexion[c] = "caida" THEN Nil ELSE p]
       /\ UNCHANGED <<cola, semListo, semCpu>>

\* The CPU receives the process only if it is still there: a write to a closed
\* socket is ignored.
DespacharA(k, i) ==
    LET c == listaCpus[k]
        p == cola["ready"][i]
    IN /\ cola' = [cola EXCEPT !["ready"] = RemoveAt(@, i)]
       /\ exec' = exec \cup {p}
       /\ estado' = [estado EXCEPT ![p] = "RUNNING"]
       /\ libre' = [libre EXCEPT ![c] = FALSE]
       /\ ultimoCpu' = k
       /\ enCpu' = [enCpu EXCEPT ![c] = p]
       /\ enviado' = [enviado EXCEPT
                         ![c] = IF conexion[c] = "caida" THEN Nil ELSE p]
       /\ UNCHANGED <<semListo, semCpu>>

\* The section of planificador_corto_plazo.
Despachar ==
    /\ corto = "despacho"
    /\ ColasLibres
    /\ corto' = "listo"
    /\ \/ DespacharANadie
       \/ \E i \in Elegibles(cola["ready"]) :
             \/ DespacharSinCpu(i)
             \/ \E t \in PrimerTurno : DespacharA(Turno(t), i)
    /\ UNCHANGED <<blocked, suspBlocked, semNuevo, semExit, colasTrabado,
                   ultimoPid, listaCpus, conexion, interrumpida, oyente, largo,
                   liberador, susVars, ioVars, memoria, procVars>>

CortoPlazo == EsperarListo \/ EsperarCpu \/ Despachar

----------------------------------------------------------------------------
\* The listener thread of a CPU: recibir_y_manejar_respuesta_cpu.

Nueva(c, lugar) == oyente' = [oyente EXCEPT ![c] = lugar]

\* INIT_PROC: crear_pcb, and the CPU goes on with the same process.  The pid is
\* drawn under mutex_pid just before; only the section under mutex_colas
\* matters to anyone else.
CrearProceso(c) ==
    /\ oyente[c] = "espera"
    /\ enviado[c] # Nil
    /\ ultimoPid \in Pids
    /\ ColasLibres
    /\ ultimoPid' = ultimoPid + 1
    /\ estado' = [estado EXCEPT ![ultimoPid] = "NEW"]
    /\ semNuevo' = IF cola["new"] = <<>> THEN semNuevo + 1 ELSE semNuevo
    /\ cola' = Encolar("new", ultimoPid)
    /\ UNCHANGED <<bolsaVars, semListo, semCpu, semExit, colasTrabado, cpuVars,
                   enviado, interrumpida, oyente, planVars, susVars, ioVars,
                   memoria, procVars>>

\* A program whose pages are in swap faults at its next access, and a program
\* with no blocking syscalls left can only end.
Motivo(p, m) ==
    \/ m \in {"EXIT", "ERROR"} /\ m \in Motivos
    \/ m \in {"IO", "DUMP"} /\ m \in Motivos /\ rafagas[p] > 0
    \/ m = "ERROR" /\ memoria[p] = "swap"

\* calcular_siguiente_rafaga, with the integer ALFA main stores.
SiguienteEstimacion(p, real) ==
    LET n == ALFA * real + (1 - ALFA) * estimacion[p] IN IF n > 0 THEN n ELSE 1

\* OP_RESPUESTA_EJECUCION with a reason of the program: the burst is measured
\* and the process leaves cola_exec, without mutex_colas.
RecibirRespuesta(c, m) ==
    /\ oyente[c] = "espera"
    /\ enviado[c] # Nil
    /\ LET p == enCpu[c]
       IN /\ p = enviado[c]
          /\ Motivo(p, m)
          /\ exec' = exec \ {p}
          /\ rafagas' = [rafagas EXCEPT
                            ![p] = IF m \in {"IO", "DUMP"} THEN @ - 1 ELSE @]
          /\ IF AlgCorto = "FIFO" THEN UNCHANGED estimacion
             ELSE \E real \in Est :
                    estimacion' =
                        [estimacion EXCEPT ![p] = SiguienteEstimacion(p, real)]
    /\ enviado' = [enviado EXCEPT ![c] = Nil]
    /\ Nueva(c, m)
    /\ UNCHANGED <<cola, blocked, suspBlocked, estado, semVars, colasTrabado,
                   ultimoPid, cpuVars, interrumpida, planVars, susVars, ioVars,
                   memoria>>

\* The same message with PROCESO_INTERRUPCION: one or more pending interrupts
\* are served, whatever process they were meant for, and the estimate shrinks.
RecibirInterrupcion(c) ==
    /\ oyente[c] = "espera"
    /\ enviado[c] # Nil
    /\ \E k \in 1 .. interrumpida[c] :
           interrumpida' = [interrumpida EXCEPT ![c] = @ - k]
    /\ LET p == enCpu[c]
       IN /\ p = enviado[c]
          /\ exec' = exec \ {p}
          /\ \E real \in Est :
                estimacion' = [estimacion EXCEPT
                    ![p] = IF real > estimacion[p] THEN 0 ELSE @ - real]
    /\ enviado' = [enviado EXCEPT ![c] = Nil]
    /\ Nueva(c, "INTERRUPCION")
    /\ UNCHANGED <<cola, blocked, suspBlocked, estado, semVars, colasTrabado,
                   ultimoPid, cpuVars, planVars, susVars, ioVars, memoria,
                   rafagas>>

\* Mutant of ExitEncolar: sem_procesos_en_exit is never posted.
ExitEncolarSinAviso(c) ==
    /\ oyente[c] = "EXIT"
    /\ cola' = Encolar("exit", enCpu[c])
    /\ Nueva(c, "soltar")
    /\ UNCHANGED <<estado, bolsaVars, semVars, colasTrabado, ultimoPid, cpuVars,
                   enviado, interrumpida, planVars, susVars, ioVars, memoria,
                   procVars>>

\* case EXIT: list_add(cola_exit) without the mutex ...
ExitEncolar(c) ==
    /\ oyente[c] = "EXIT"
    /\ cola' = Encolar("exit", enCpu[c])
    /\ Nueva(c, "EXIT_avisar")
    /\ UNCHANGED <<estado, bolsaVars, semVars, colasTrabado, ultimoPid, cpuVars,
                   enviado, interrumpida, planVars, susVars, ioVars, memoria,
                   procVars>>

\* ... then cambiar_estado, on a pcb the reaper may already have freed, and
\* the post of sem_procesos_en_exit.
ExitAvisar(c) ==
    /\ oyente[c] = "EXIT_avisar"
    /\ estado' = [estado EXCEPT
                     ![enCpu[c]] = IF @ = "LIBERADO" THEN @ ELSE "EXIT"]
    /\ semExit' = semExit + 1
    /\ Nueva(c, "soltar")
    /\ UNCHANGED <<colaVars, semNuevo, semListo, semCpu, colasTrabado,
                   ultimoPid, cpuVars, enviado, interrumpida, planVars, susVars,
                   ioVars, memoria, procVars>>

\* finalizar_proceso, called without mutex_colas, is three steps of whoever
\* calls it: cambiar_estado with no mutex at all, the section that queues the
\* pcb, and the post of sem_procesos_en_exit once the mutex is released.
MarcarExit(p) == estado' = [estado EXCEPT ![p] = "EXIT"]
EncolarExit(p) == ColasLibres /\ cola' = Encolar("exit", p)

\* case default (SEGMENTATION_FAULT arrives as an unknown reason) and the
\* device that does not exist.
ErrorMarcar(c) ==
    /\ oyente[c] = "ERROR"
    /\ MarcarExit(enCpu[c])
    /\ Nueva(c, "ERROR_encolar")
    /\ UNCHANGED <<colaVars, semVars, colasTrabado, ultimoPid, cpuVars, enviado,
                   interrumpida, planVars, susVars, ioVars, memoria, procVars>>

ErrorEncolar(c) ==
    /\ oyente[c] = "ERROR_encolar"
    /\ EncolarExit(enCpu[c])
    /\ Nueva(c, "ERROR_avisar")
    /\ UNCHANGED <<estado, bolsaVars, semVars, colasTrabado, ultimoPid, cpuVars,
                   enviado, interrumpida, planVars, susVars, ioVars, memoria,
                   procVars>>

ErrorAvisar(c) ==
    /\ oyente[c] = "ERROR_avisar"
    /\ semExit' = semExit + 1
    /\ Nueva(c, "soltar")
    /\ UNCHANGED <<estado, colaVars, semNuevo, semListo, semCpu, colasTrabado,
                   ultimoPid, cpuVars, enviado, interrumpida, planVars, susVars,
                   ioVars, memoria, procVars>>

\* bloquear_proceso, section under mutex_colas.
BloquearPorIo(c) ==
    /\ oyente[c] = "IO"
    /\ ColasLibres
    /\ LET p == enCpu[c]
       IN IF dispositivo
          THEN /\ estado' = [estado EXCEPT ![p] = "BLOCKED"]
               /\ exec' = exec \ {p}
               /\ blocked' = blocked \cup {p}
               /\ vigilias' = [vigilias EXCEPT ![p] = @ + 1]
               /\ Nueva(c, "IO_pedir")
          ELSE /\ Nueva(c, "ERROR")
               /\ UNCHANGED <<estado, exec, blocked, vigilias>>
    /\ UNCHANGED <<cola, suspBlocked, semVars, colasTrabado, ultimoPid, cpuVars,
                   enviado, interrumpida, planVars, suspensor, suspendiendo,
                   volcando, ioVars, memoria, procVars>>

\* bloquear_proceso, section under mutex_grupo.  If the group was destroyed in
\* between, the request goes to freed memory and nobody will ever serve it.
PedirIo(c) ==
    /\ oyente[c] = "IO_pedir"
    /\ pedidos' = IF dispositivo THEN pedidos \cup {enCpu[c]} ELSE pedidos
    /\ Nueva(c, "soltar")
    /\ UNCHANGED <<estado, colaVars, semVars, colasTrabado, ultimoPid, cpuVars,
                   enviado, interrumpida, planVars, susVars, dispositivo,
                   caidos, finVars, memoria, procVars>>

\* bloquear_proceso_por_dump and the creation of hilo_manejador_dump.
BloquearPorDump(c) ==
    /\ oyente[c] = "DUMP"
    /\ ColasLibres
    /\ exec' = exec \ {enCpu[c]}
    /\ blocked' = blocked \cup {enCpu[c]}
    /\ estado' = [estado EXCEPT ![enCpu[c]] = "BLOCKED"]
    /\ volcando' = volcando \cup {enCpu[c]}
    /\ Nueva(c, "soltar")
    /\ UNCHANGED <<cola, suspBlocked, semVars, colasTrabado, ultimoPid, cpuVars,
                   enviado, interrumpida, planVars, vigilias, suspensor,
                   suspendiendo, ioVars, memoria, procVars>>

\* Mutant of InterrupcionEncolar: the preempted process is never announced.
InterrupcionEncolarSinAviso(c) ==
    /\ oyente[c] = "INTERRUPCION"
    /\ cola' = Encolar("ready", enCpu[c])
    /\ Nueva(c, "soltar")
    /\ UNCHANGED <<estado, bolsaVars, semVars, colasTrabado, ultimoPid, cpuVars,
                   enviado, interrumpida, planVars, susVars, ioVars, memoria,
                   procVars>>

\* case PROCESO_INTERRUPCION: list_add(cola_ready) without the mutex, then
\* cambiar_estado and sem_post, then the preemption check.
InterrupcionEncolar(c) ==
    /\ oyente[c] = "INTERRUPCION"
    /\ cola' = Encolar("ready", enCpu[c])
    /\ Nueva(c, "INT_avisar")
    /\ UNCHANGED <<estado, bolsaVars, semVars, colasTrabado, ultimoPid, cpuVars,
                   enviado, interrumpida, planVars, susVars, ioVars, memoria,
                   procVars>>

InterrupcionAvisar(c) ==
    /\ oyente[c] = "INT_avisar"
    /\ estado' = [estado EXCEPT
                     ![enCpu[c]] = IF @ = "LIBERADO" THEN @ ELSE "READY"]
    /\ semListo' = semListo + 1
    /\ Nueva(c, "INT_desalojar")
    /\ UNCHANGED <<colaVars, semNuevo, semCpu, semExit, colasTrabado, ultimoPid,
                   cpuVars, enviado, interrumpida, planVars, susVars, ioVars,
                   memoria, procVars>>

InterrupcionDesalojar(c) ==
    /\ oyente[c] = "INT_desalojar"
    /\ DesalojarSiEsNecesario(enCpu[c])
    /\ Nueva(c, "soltar")
    /\ UNCHANGED <<estado, colaVars, semVars, colasTrabado, ultimoPid, cpuVars,
                   enviado, planVars, susVars, ioVars, memoria, procVars>>

\* Mutant of SoltarCpu: sem_cpu_libre is not posted after it.
SoltarCpuSinAviso(c) ==
    /\ oyente[c] = "soltar"
    /\ enCpu' = [enCpu EXCEPT ![c] = Nil]
    /\ libre' = [libre EXCEPT ![c] = TRUE]
    /\ Nueva(c, "espera")
    /\ UNCHANGED <<estado, colaVars, semVars, colasTrabado, ultimoPid, listaCpus,
                   ultimoCpu, conexion, enviado, interrumpida, planVars,
                   susVars, ioVars, memoria, procVars>>

\* Common end of OP_RESPUESTA_EJECUCION, under cpu->mutex: only now the CPU is
\* free again.
SoltarCpu(c) ==
    /\ oyente[c] = "soltar"
    /\ enCpu' = [enCpu EXCEPT ![c] = Nil]
    /\ libre' = [libre EXCEPT ![c] = TRUE]
    /\ Nueva(c, "avisar")
    /\ UNCHANGED <<estado, colaVars, semVars, colasTrabado, ultimoPid, listaCpus,
                   ultimoCpu, conexion, enviado, interrumpida, planVars,
                   susVars, ioVars, memoria, procVars>>

\* sem_post(&sem_cpu_libre), after the mutex: here and in the connection.
AvisarCpu(c) ==
    /\ oyente[c] = "avisar"
    /\ semCpu' = semCpu + 1
    /\ Nueva(c, "espera")
    /\ UNCHANGED <<estado, colaVars, semNuevo, semListo, semExit, colasTrabado,
                   ultimoPid, cpuVars, enviado, interrumpida, planVars,
                   susVars, ioVars, memoria, procVars>>

----------------------------------------------------------------------------
\* A CPU program dies, and its listener finds the connection closed.

CaeCpu(c) ==
    /\ "cpu" \in Fallas
    /\ conexion[c] \in {"dispatch", "completa"}
    /\ conexion' = [conexion EXCEPT ![c] = "caida"]
    /\ enviado' = [enviado EXCEPT ![c] = Nil]
    /\ interrumpida' = [interrumpida EXCEPT ![c] = 0]
    /\ UNCHANGED <<estado, colaVars, semVars, colasTrabado, ultimoPid,
                   listaCpus, ultimoCpu, libre, enCpu, oyente, planVars,
                   susVars, ioVars, memoria, procVars>>

\* sem_trywait takes a unit of sem_cpu_libre, if there is one.
DetectarCaida(c) ==
    /\ oyente[c] = "espera"
    /\ conexion[c] = "caida"
    /\ semCpu' = IF semCpu > 0 THEN semCpu - 1 ELSE semCpu
    /\ Nueva(c, "caida_lista")
    /\ UNCHANGED <<estado, colaVars, semNuevo, semListo, semExit, colasTrabado,
                   ultimoPid, cpuVars, enviado, interrumpida, planVars, susVars,
                   ioVars, memoria, procVars>>

QuitarCpu(c) ==
    /\ oyente[c] = "caida_lista"
    /\ \E i \in DOMAIN listaCpus :
          listaCpus[i] = c /\ listaCpus' = RemoveAt(listaCpus, i)
    /\ Nueva(c, "caida_colas")
    /\ UNCHANGED <<estado, colaVars, semVars, colasTrabado, ultimoPid,
                   ultimoCpu, libre, enCpu, conexion, enviado, interrumpida,
                   planVars, susVars, ioVars, memoria, procVars>>

\* Under mutex_colas: finalizar_proceso changes the state and then waits for
\* the mutex this thread already holds.
FinalizarPorCaida(c) ==
    /\ oyente[c] = "caida_colas"
    /\ ColasLibres
    /\ Nueva(c, "muerto")
    /\ IF enCpu[c] # Nil
       THEN /\ exec' = exec \ {enCpu[c]}
            /\ estado' = [estado EXCEPT ![enCpu[c]] = "EXIT"]
            /\ colasTrabado' = TRUE
            /\ UNCHANGED libre
       ELSE /\ libre' = [libre EXCEPT ![c] = FALSE]
            /\ UNCHANGED <<exec, estado, colasTrabado>>
    /\ UNCHANGED <<cola, blocked, suspBlocked, semVars, ultimoPid, listaCpus,
                   ultimoCpu, enCpu, conexion, enviado, interrumpida, planVars,
                   susVars, ioVars, memoria, procVars>>

Oyente(c) ==
    \/ CrearProceso(c)
    \/ \E m \in {"EXIT", "IO", "DUMP", "ERROR"} : RecibirRespuesta(c, m)
    \/ RecibirInterrupcion(c)
    \/ ExitEncolar(c) \/ ExitAvisar(c)
    \/ ErrorMarcar(c) \/ ErrorEncolar(c) \/ ErrorAvisar(c)
    \/ BloquearPorIo(c) \/ PedirIo(c) \/ BloquearPorDump(c)
    \/ InterrupcionEncolar(c) \/ InterrupcionAvisar(c)
    \/ InterrupcionDesalojar(c)
    \/ SoltarCpu(c) \/ AvisarCpu(c)
    \/ DetectarCaida(c) \/ QuitarCpu(c) \/ FinalizarPorCaida(c)

----------------------------------------------------------------------------
\* gestionar_procesos_finalizados.

\* sem_wait and the section that takes the head of cola_exit.
TomarFinalizado ==
    /\ liberador = Nil
    /\ semExit > 0
    /\ ColasLibres
    /\ semExit' = semExit - 1
    /\ IF cola["exit"] = <<>> THEN UNCHANGED <<cola, liberador, estado>>
       ELSE /\ liberador' = Head(cola["exit"])
            /\ cola' = [cola EXCEPT !["exit"] = Tail(@)]
            /\ estado' = [estado EXCEPT ![Head(cola["exit"])] = "EXIT"]
    /\ UNCHANGED <<bolsaVars, semNuevo, semListo, semCpu, colasTrabado,
                   ultimoPid, cpuVars, enviado, interrumpida, oyente, largo,
                   corto, susVars, ioVars, memoria, procVars>>

\* Mutant of LiberarFinalizado: the long-term planner is not woken.
LiberarFinalizadoSinAviso ==
    /\ liberador # Nil
    /\ memoria' = [memoria EXCEPT ![liberador] = "no"]
    /\ estado' = [estado EXCEPT ![liberador] = "LIBERADO"]
    /\ liberador' = Nil
    /\ UNCHANGED <<colaVars, semVars, colasTrabado, ultimoPid, cpuVars, enviado,
                   interrumpida, oyente, largo, corto, susVars, ioVars, procVars>>

\* FINALIZAR_PROCESO, its answer, the post and the free.  When Memoria cannot
\* be reached the pcb is freed all the same and nobody is woken.
LiberarFinalizado ==
    /\ liberador # Nil
    /\ \/ /\ memoria' = [memoria EXCEPT ![liberador] = "no"]
          /\ semNuevo' = semNuevo + 1
       \/ /\ "mem" \in Fallas
          /\ UNCHANGED <<memoria, semNuevo>>
    /\ estado' = [estado EXCEPT ![liberador] = "LIBERADO"]
    /\ liberador' = Nil
    /\ UNCHANGED <<colaVars, semListo, semCpu, semExit, colasTrabado, ultimoPid,
                   cpuVars, enviado, interrumpida, oyente, largo, corto,
                   susVars, ioVars, procVars>>

Liberador == TomarFinalizado \/ LiberarFinalizado

----------------------------------------------------------------------------
\* Medium term: hilo_suspension_proceso, one thread per I/O block.

\* Mutant of DispararVigilia: the pcb is not looked up again after the sleep.
DispararVigiliaSinRevisar(p) ==
    /\ Suspende
    /\ vigilias[p] > 0
    /\ ColasLibres
    /\ vigilias' = [vigilias EXCEPT ![p] = @ - 1]
    /\ suspensor' = p
    /\ UNCHANGED <<estado, colaVars, semVars, colasTrabado, ultimoPid, cpuVars,
                   enviado, interrumpida, oyente, planVars, suspendiendo,
                   volcando, ioVars, memoria, procVars>>

\* The timer takes mutex_colas and looks the process up.  If it is still
\* BLOCKED the section goes on in Suspender: a thread that changes a state
\* without the mutex may come in between.
DispararVigilia(p) ==
    /\ Suspende
    /\ vigilias[p] > 0
    /\ ColasLibres
    /\ vigilias' = [vigilias EXCEPT ![p] = @ - 1]
    /\ suspensor' = IF Encontrado(p) /\ estado[p] = "BLOCKED" THEN p ELSE Nil
    /\ UNCHANGED <<estado, colaVars, semVars, colasTrabado, ultimoPid, cpuVars,
                   enviado, interrumpida, oyente, planVars, suspendiendo,
                   volcando, ioVars, memoria, procVars>>

\* ... cambiar_estado, the lists, the release of mutex_colas, and the request
\* to Memoria.
Suspender(p) ==
    /\ p = suspensor
    /\ suspensor' = Nil
    /\ estado' = [estado EXCEPT ![p] = "SUSP_BLOCKED"]
    /\ blocked' = blocked \ {p}
    /\ suspBlocked' = suspBlocked \cup {p}
    /\ suspendiendo' = [suspendiendo EXCEPT ![p] = @ + 1]
    /\ UNCHANGED <<cola, exec, semVars, colasTrabado, ultimoPid, cpuVars,
                   enviado, interrumpida, oyente, planVars, vigilias, volcando,
                   ioVars, memoria, procVars>>

\* solicitar_suspension_a_memoria: Memoria serves the request after its swap
\* delay, in whatever state the process is by then, and answers SUSPENSION_OK,
\* or an error for a pid it no longer has; or the request fails on its way.
SuspenderEnMemoria(p) ==
    /\ suspendiendo[p] > 0
    /\ suspendiendo' = [suspendiendo EXCEPT ![p] = @ - 1]
    /\ \/ /\ memoria[p] = "no" \/ "mem" \in Fallas
          /\ UNCHANGED <<memoria, semNuevo>>
       \/ /\ memoria[p] # "no"
          /\ memoria' = [memoria EXCEPT ![p] = "swap"]
          /\ semNuevo' = semNuevo + 1
    /\ UNCHANGED <<estado, colaVars, semListo, semCpu, semExit, colasTrabado,
                   ultimoPid, cpuVars, enviado, interrumpida, oyente, planVars,
                   vigilias, suspensor, volcando, ioVars, procVars>>

----------------------------------------------------------------------------
\* hilo_manejador_dump.

\* What ends a block, for the dump and for the I/O: READY if the process is
\* still in memory, SUSPENDED_READY if it was suspended meanwhile.
Desbloquear(p) ==
    IF Encontrado(p) /\ estado[p] = "BLOCKED"
    THEN /\ estado' = [estado EXCEPT ![p] = "READY"]
         /\ blocked' = blocked \ {p}
         /\ cola' = Encolar("ready", p)
         /\ semListo' = semListo + 1
         /\ UNCHANGED <<suspBlocked, semNuevo>>
    ELSE IF Encontrado(p) /\ estado[p] = "SUSP_BLOCKED"
    THEN /\ estado' = [estado EXCEPT ![p] = "SUSP_READY"]
         /\ suspBlocked' = suspBlocked \ {p}
         /\ cola' = Encolar("susp_ready", p)
         /\ semNuevo' = semNuevo + 1
         /\ UNCHANGED <<blocked, semListo>>
    ELSE UNCHANGED <<estado, cola, blocked, suspBlocked, semListo, semNuevo>>

DumpOk(p) ==
    /\ p \in volcando \ saliendo
    /\ ColasLibres
    /\ volcando' = volcando \ {p}
    /\ Desbloquear(p)
    /\ UNCHANGED <<exec, semCpu, semExit, colasTrabado, ultimoPid, cpuVars,
                   enviado, interrumpida, oyente, planVars, vigilias, suspensor,
                   suspendiendo, ioVars, memoria, procVars>>

\* ERROR_DUMP: finalizar_proceso is called with mutex_colas held.
DumpFallido(p) ==
    /\ "dump" \in Fallas
    /\ p \in volcando \ saliendo
    /\ ColasLibres
    /\ volcando' = volcando \ {p}
    /\ blocked' = IF estado[p] = "BLOCKED" THEN blocked \ {p} ELSE blocked
    /\ suspBlocked' = IF estado[p] = "SUSP_BLOCKED" THEN suspBlocked \ {p}
                      ELSE suspBlocked
    /\ estado' = [estado EXCEPT ![p] = IF Encontrado(p) THEN "EXIT" ELSE @]
    /\ colasTrabado' = Encontrado(p)
    /\ UNCHANGED <<cola, exec, semVars, ultimoPid, cpuVars, enviado,
                   interrumpida, oyente, planVars, vigilias, suspensor,
                   suspendiendo, ioVars, memoria, procVars>>

\* Memoria cannot be reached: finalizar_proceso, and the process does not leave
\* the queue of the blocked.
DumpSinConexion(p) ==
    /\ "dump_con" \in Fallas
    /\ p \in volcando \ saliendo
    /\ MarcarExit(p)
    /\ saliendo' = saliendo \cup {p}
    /\ UNCHANGED <<colaVars, semVars, colasTrabado, ultimoPid, cpuVars, enviado,
                   interrumpida, oyente, planVars, susVars, dispositivo,
                   pedidos, caidos, avisosDump, avisoIo, memoria, procVars>>

\* Mutant of DumpEncolar: sem_procesos_en_exit is never posted.
DumpEncolarSinAviso(p) ==
    /\ p \in volcando \cap saliendo
    /\ EncolarExit(p)
    /\ volcando' = volcando \ {p}
    /\ saliendo' = saliendo \ {p}
    /\ UNCHANGED <<estado, bolsaVars, semVars, colasTrabado, ultimoPid, cpuVars,
                   enviado, interrumpida, oyente, planVars, vigilias, suspensor,
                   suspendiendo, dispositivo, pedidos, caidos, avisosDump,
                   avisoIo, memoria, procVars>>

DumpEncolar(p) ==
    /\ p \in volcando \cap saliendo
    /\ EncolarExit(p)
    /\ volcando' = volcando \ {p}
    /\ saliendo' = saliendo \ {p}
    /\ avisosDump' = avisosDump + 1
    /\ UNCHANGED <<estado, bolsaVars, semVars, colasTrabado, ultimoPid, cpuVars,
                   enviado, interrumpida, oyente, planVars, vigilias, suspensor,
                   suspendiendo, dispositivo, pedidos, caidos, avisoIo, memoria,
                   procVars>>

DumpAvisar ==
    /\ avisosDump > 0
    /\ avisosDump' = avisosDump - 1
    /\ semExit' = semExit + 1
    /\ UNCHANGED <<estado, colaVars, semNuevo, semListo, semCpu, colasTrabado,
                   ultimoPid, cpuVars, enviado, interrumpida, oyente, planVars,
                   susVars, dispositivo, pedidos, caidos, saliendo, avisoIo,
                   memoria, procVars>>

----------------------------------------------------------------------------
\* The I/O device: its listener threads.

\* manejar_fin_io: some instance has finished the request of p.
FinIo(p) ==
    /\ p \in pedidos
    /\ ColasLibres
    /\ pedidos' = pedidos \ {p}
    /\ Desbloquear(p)
    /\ IF Encontrado(p) /\ estado[p] = "BLOCKED" THEN DesalojarSiEsNecesario(p)
       ELSE UNCHANGED interrumpida
    /\ UNCHANGED <<exec, semCpu, semExit, colasTrabado, ultimoPid, cpuVars,
                   enviado, oyente, planVars, susVars, dispositivo, caidos,
                   finVars, memoria, procVars>>

\* Mutant of CaeDispositivo: the processes are left without being finished.
CaeDispositivoSinFinalizar ==
    /\ "io" \in Fallas
    /\ dispositivo
    /\ ColasLibres
    /\ dispositivo' = FALSE
    /\ pedidos' = {}
    /\ blocked' = {p \in blocked : p \notin pedidos \/ estado[p] # "BLOCKED"}
    /\ suspBlocked' =
          {p \in suspBlocked : p \notin pedidos \/ estado[p] # "SUSP_BLOCKED"}
    /\ UNCHANGED <<cola, exec, estado, semVars, colasTrabado, ultimoPid,
                   cpuVars, enviado, interrumpida, oyente, planVars, susVars,
                   caidos, finVars, memoria, procVars>>

\* manejar_desconexion_io for the last instance: every request is dropped, its
\* process leaves the blocked queues, and the group is destroyed.
CaeDispositivo ==
    /\ "io" \in Fallas
    /\ dispositivo
    /\ ColasLibres
    /\ dispositivo' = FALSE
    /\ pedidos' = {}
    /\ caidos' = {p \in pedidos : Encontrado(p)}
    /\ blocked' = {p \in blocked : p \notin pedidos \/ estado[p] # "BLOCKED"}
    /\ suspBlocked' =
          {p \in suspBlocked : p \notin pedidos \/ estado[p] # "SUSP_BLOCKED"}
    /\ UNCHANGED <<cola, exec, estado, semVars, colasTrabado, ultimoPid,
                   cpuVars, enviado, interrumpida, oyente, planVars, susVars,
                   finVars, memoria, procVars>>

\* After the mutexes, finalizar_proceso for each of them, one at a time.
FinalizarCaido(p) ==
    /\ p \in caidos
    /\ caidos \cap saliendo = {} /\ ~avisoIo
    /\ MarcarExit(p)
    /\ saliendo' = saliendo \cup {p}
    /\ UNCHANGED <<colaVars, semVars, colasTrabado, ultimoPid, cpuVars, enviado,
                   interrumpida, oyente, planVars, susVars, dispositivo,
                   pedidos, caidos, avisosDump, avisoIo, memoria, procVars>>

CaidoEncolar(p) ==
    /\ p \in caidos \cap saliendo /\ ~avisoIo
    /\ EncolarExit(p)
    /\ caidos' = caidos \ {p}
    /\ saliendo' = saliendo \ {p}
    /\ avisoIo' = TRUE
    /\ UNCHANGED <<estado, bolsaVars, semVars, colasTrabado, ultimoPid, cpuVars,
                   enviado, interrumpida, oyente, planVars, susVars,
                   dispositivo, pedidos, avisosDump, memoria, procVars>>

CaidoAvisar ==
    /\ avisoIo
    /\ avisoIo' = FALSE
    /\ semExit' = semExit + 1
    /\ UNCHANGED <<estado, colaVars, semNuevo, semListo, semCpu, colasTrabado,
                   ultimoPid, cpuVars, enviado, interrumpida, oyente, planVars,
                   susVars, dispositivo, pedidos, caidos, saliendo, avisosDump,
                   memoria, procVars>>

Vigilia(p) == DispararVigilia(p) \/ Suspender(p)
Dump(p) == DumpOk(p) \/ DumpFallido(p) \/ DumpSinConexion(p) \/ DumpEncolar(p)
HilosDe(p) == \/ Vigilia(p) \/ SuspenderEnMemoria(p) \/ Dump(p)
              \/ FinIo(p) \/ FinalizarCaido(p) \/ CaidoEncolar(p)
Avisos == DumpAvisar \/ CaidoAvisar

----------------------------------------------------------------------------

Conexiones == \E c \in CPUs : \/ ConectarDispatch(c) \/ ConectarInterrupt(c)
                               \/ CaeCpu(c)

Next ==
    \/ Conexiones
    \/ LargoPlazo
    \/ CortoPlazo
    \/ \E c \in CPUs : Oyente(c)
    \/ Liberador
    \/ \E p \in Pids : HilosDe(p)
    \/ Avisos
    \/ CaeDispositivo

Spec == Init /\ [][Next]_vars

----------------------------------------------------------------------------
\* Type invariant.

LugaresOyente == {
    "no", "espera", "EXIT", "EXIT_avisar", "ERROR", "ERROR_encolar",
    "ERROR_avisar", "IO", "IO_pedir", "DUMP",
    "INTERRUPCION", "INT_avisar", "INT_desalojar", "soltar",
    "avisar", "caida_lista", "caida_colas", "muerto"}

\* The threads that are halfway through finalizar_proceso or a suspension.
TipoAMedias ==
    /\ suspensor \in Pids \cup {Nil}
    /\ saliendo \in SUBSET Pids
    /\ avisosDump \in Nat /\ avisoIo \in BOOLEAN

\* Every variable keeps its shape, and every pointer is a pid or Nil.
TypeOK ==
    /\ estado \in [Pids -> Estados]
    /\ cola \in [Colas -> Seq(Pids)]
    /\ exec \in SUBSET Pids /\ blocked \in SUBSET Pids
    /\ suspBlocked \in SUBSET Pids
    /\ semNuevo \in Nat /\ semListo \in Nat /\ semCpu \in Nat /\ semExit \in Nat
    /\ colasTrabado \in BOOLEAN
    /\ ultimoPid \in Nat
    /\ listaCpus \in Seq(CPUs) /\ ultimoCpu \in Nat
    /\ libre \in [CPUs -> BOOLEAN]
    /\ enCpu \in [CPUs -> Pids \cup {Nil}]
    /\ conexion \in [CPUs -> {"no", "dispatch", "completa", "caida"}]
    /\ enviado \in [CPUs -> Pids \cup {Nil}]
    /\ interrumpida \in [CPUs -> Nat]
    /\ oyente \in [CPUs -> LugaresOyente]
    /\ largo \in [pc : {"arranque", "espera", "elegir", "memoria", "admitido"},
                  cand : Pids \cup {Nil}, susp : BOOLEAN]
    /\ corto \in {"listo", "cpu", "despacho"}
    /\ liberador \in Pids \cup {Nil}
    /\ vigilias \in [Pids -> Nat] /\ suspendiendo \in [Pids -> Nat]
    /\ volcando \in SUBSET Pids
    /\ dispositivo \in BOOLEAN
    /\ pedidos \in SUBSET Pids /\ caidos \in SUBSET Pids
    /\ TipoAMedias
    /\ memoria \in [Pids -> {"no", "ram", "swap"}]
    /\ estimacion \in [Pids -> Est] /\ rafagas \in [Pids -> Nat]

----------------------------------------------------------------------------
\* Safety.

EnVentana(lugares) == {c \in CPUs : oyente[c] \in lugares}

\* Every place that can hold a pcb: a position of a queue, one of the three
\* lists, or the hands of a thread that has taken it out of them.
Lugares(p) ==
    (UNION {{<<q, i>> : i \in {j \in DOMAIN cola[q] : cola[q][j] = p}} : q \in Colas})
    \cup {<<"exec", 0>> : x \in exec \cap {p}}
    \cup {<<"blocked", 0>> : x \in blocked \cap {p}}
    \cup {<<"susp_blocked", 0>> : x \in suspBlocked \cap {p}}
    \cup {<<"caidos", 0>> : x \in caidos \cap {p}}
    \cup {<<"liberador", 0>> : x \in {liberador} \cap {p}}
    \cup {<<c, 0>> : c \in {d \in EnVentana({"EXIT", "ERROR", "ERROR_encolar",
                              "IO", "DUMP", "INTERRUPCION"}) : enCpu[d] = p}}

\* A process that exists is in exactly one place, and one that was freed, or not
\* created yet, is in none: no interleaving of the planners, the listeners and
\* the timers loses a pcb or queues it twice.  Once a thread has locked
\* mutex_colas twice the pcb it was finishing stays with it.
UnSoloLugar ==
    colasTrabado \/ \A p \in Pids :
        Cardinality(Lugares(p)) =
            IF estado[p] \in {"NINGUNO", "LIBERADO"} THEN 0 ELSE 1

\* The long-term planner drops mutex_colas while Memoria answers and then
\* removes position 0 of the queue: that position still holds its candidate.
CandidatoEnCabeza ==
    largo.pc \in {"memoria", "admitido"} =>
        /\ cola[ColaDeIngreso(largo.susp)] # <<>>
        /\ Head(cola[ColaDeIngreso(largo.susp)]) = largo.cand

\* sem_procesos_ready counts cola_ready: units in the semaphore or taken by the
\* planner, plus the preempted processes queued but not yet announced.
FichasDeListos ==
    Len(cola["ready"]) = semListo + (IF corto = "listo" THEN 0 ELSE 1)
                         + Cardinality(EnVentana({"INT_avisar"}))

\* sem_cpu_libre counts the free CPUs, so a planner that took a unit finds one
\* ("No deberia pasar nunca que no haya CPU si el sem_wait funciono").
FichasDeCpu ==
    Cardinality({c \in ToSet(listaCpus) : libre[c]}) =
        semCpu + (IF corto = "despacho" THEN 1 ELSE 0)
               + Cardinality(EnVentana({"avisar"}))

\* The processes a listener, a dump thread or the thread of a device has put in
\* cola_exit and not announced yet.
SinAnunciar == Cardinality(EnVentana({"EXIT_avisar", "ERROR_avisar"}))
               + avisosDump + (IF avisoIo THEN 1 ELSE 0)

\* sem_procesos_en_exit counts cola_exit, but for those not announced yet.  A
\* unit is never there before its pcb, so the reaper's "Inconsistencia" is never
\* logged, and a pcb in cola_exit always has a unit or a thread about to post
\* it.
FichasDeSalida == Len(cola["exit"]) = semExit + SinAnunciar

\* What the kernel believes of a CPU is what the CPU does: the answer of a CPU
\* is about cpu->pcb_en_ejecucion, so the branch that reports a critical
\* synchronisation error is dead, and a CPU with work is never marked free.
CpuSincronizada ==
    \A c \in CPUs : enviado[c] # Nil =>
        oyente[c] \in {"avisar", "espera"} /\ ~libre[c] /\ enCpu[c] = enviado[c]

\* No process is executed by two CPUs, and one that is executed is in cola_exec.
UnaCpuPorProceso ==
    \A c \in CPUs : enviado[c] # Nil =>
        /\ enviado[c] \in exec
        /\ \A d \in CPUs \ {c} : enviado[d] # enviado[c]

\* Each list holds processes in its own state, and a process in the hands of a
\* listener is still RUNNING.
EstadoSegunCola ==
    /\ \A p \in exec : estado[p] = "RUNNING"
    /\ \A p \in blocked : estado[p] = "BLOCKED"
    /\ \A p \in suspBlocked : estado[p] = "SUSP_BLOCKED"
    /\ \A p \in ToSet(cola["new"]) : estado[p] = "NEW"
    /\ \A p \in ToSet(cola["susp_ready"]) : estado[p] = "SUSP_READY"
    /\ \A p \in ToSet(cola["ready"]) :
          \/ estado[p] = "READY"
          \/ \E c \in EnVentana({"INT_avisar"}) : enCpu[c] = p
    /\ \A p \in ToSet(cola["exit"]) :
          \/ estado[p] = "EXIT"
          \/ \E c \in EnVentana({"EXIT_avisar"}) : enCpu[c] = p

\* A process is blocked exactly while something will unblock it: a request in
\* the device's group, a dump under way, or its listener about to push one.
BloqueadoConMotivo ==
    blocked \cup suspBlocked =
        pedidos \cup volcando \cup {enCpu[c] : c \in EnVentana({"IO_pedir"})}

\* The long-term planner only sleeps when the process it would admit first does
\* not fit: no release of memory and no arrival goes unnoticed.
DormidoSoloSinLugar ==
    LET q == ColaDeIngreso(cola["susp_ready"] # <<>>)
    IN largo.pc = "espera" /\ semNuevo = 0 /\ cola[q] # <<>>
           => \A s \in OrdenesDeIngreso(cola[q]) : ~Cabe(Head(s))

\* A process that can be dispatched has its pages in main memory.
ListoEnMemoria ==
    \A p \in Pids : estado[p] \in {"READY", "RUNNING"} => memoria[p] = "ram"

----------------------------------------------------------------------------
\* Action properties.

\* EXIT is final: no late timer, end of I/O, dump or preemption brings a
\* finished process back.
ExitEsFinal ==
    [][\A p \in Pids :
          /\ estado[p] = "EXIT" => estado'[p] \in {"EXIT", "LIBERADO"}
          /\ estado[p] = "LIBERADO" => estado'[p] = "LIBERADO"]_estado

\* The thread of the timer suspends a process only if it is still BLOCKED ("SOLO
\* si el proceso existe Y su estado sigue siendo BLOCKED, lo suspendemos").
SoloBloqueadoSeSuspende ==
    [][\A p \in Pids :
          estado'[p] = "SUSP_BLOCKED" =>
              estado[p] \in {"BLOCKED", "SUSP_BLOCKED"}]_estado

\* Under FIFO admission and FIFO dispatch the kernel implements the life cycle
\* of CicloDeVida: a process is admitted in order of creation and dispatched in
\* order of arrival, no more than one per CPU, and it ends once.
Ciclo == INSTANCE CicloDeVida WITH NumCpus <- Cardinality(CPUs),
                                   nuevos <- cola["new"], listos <- cola["ready"]
CumpleCiclo == Ciclo!Spec

\* The kernel uses the I/O device as DispositivoIO says it behaves, and so does
\* the group of instances of GruposIO: no request is dropped, but all together
\* with the device, and then their processes are finished.
Dispositivo == INSTANCE DispositivoIO
CumpleDispositivo == Dispositivo!Spec

----------------------------------------------------------------------------
\* Liveness, with every thread weakly fair: a thread blocked on a mutex or a
\* semaphore is the only one waiting for that unit, the CPUs run programs that
\* end, and Memoria, the timers and the devices answer.
FairSpec ==
    /\ Spec
    /\ \A c \in CPUs :
          /\ WF_vars(ConectarDispatch(c)) /\ WF_vars(ConectarInterrupt(c))
          /\ WF_vars(Oyente(c))
    /\ WF_vars(LargoPlazo) /\ WF_vars(CortoPlazo) /\ WF_vars(Liberador)
    /\ \A p \in Pids :
          /\ WF_vars(Vigilia(p)) /\ WF_vars(SuspenderEnMemoria(p))
          /\ WF_vars(Dump(p)) /\ WF_vars(FinIo(p))
          /\ WF_vars(FinalizarCaido(p) \/ CaidoEncolar(p))
    /\ WF_vars(DumpAvisar) /\ WF_vars(CaidoAvisar)

\* Every process that is created is eventually finished and freed.
TodosTerminan ==
    \A p \in Pids : estado[p] = "NEW" ~> estado[p] = "LIBERADO"

\* A process that reaches EXIT is reaped: Memoria gives its frames back and its
\* pcb is freed.
ExitSeLibera ==
    \A p \in Pids : estado[p] = "EXIT" ~> estado[p] = "LIBERADO"

============================================================================
