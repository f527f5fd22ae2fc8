# Verification of TPSSOO

The repository is a small distributed operating system in C: a **Kernel** that
plans processes, any number of **CPU** programs that execute their pseudocode,
one **Memoria** that keeps instructions, frames, page tables and swap, and any
number of **I/O** device programs. They talk over TCP. This directory holds TLA+
modules of it, the TLC configurations that check them on small instances, and
proofs that TLAPS checks for every instance. Identifiers are those of the source,
in Spanish like there; line numbers are of `kernel/src/kernel.c` unless another
file is named. `PROJECT.json` maps each definition to its lines.

## 1. Inventory

| Component | State it keeps | Operations | What makes it correct |
|---|---|---|---|
| Kernel, process queues | `cola_new`, `cola_ready`, `cola_exec`, `cola_blocked`, `cola_suspended_blocked`, `cola_suspended_ready`, `cola_exit`, `pcb->estado`; `mutex_colas`; the semaphores `sem_procesos_en_new_o_memoria_libre`, `sem_procesos_ready`, `sem_cpu_libre`, `sem_procesos_en_exit` | all the threads below | a pcb is in one place; list and state agree; each semaphore counts its queue |
| Long-term planner | the candidate, between two sections of `mutex_colas` | admit from SUSP_READY first, then NEW (FIFO or smallest first); asks Memoria outside the mutex | it removes the process that Memoria accepted; it never sleeps when a process fits |
| Short-term planner | round-robin index | FIFO, SJF or SRT choice; dispatch to a free CPU | no process on two CPUs; it always finds a process and a CPU |
| Medium-term planner | one timer thread per block; requests on their way to Memoria | BLOCKED to SUSP_BLOCKED | a late timer changes nothing; a process that is ready is in memory |
| Listener of each CPU | `cpu->pcb_en_ejecucion`, `cpu->cpu_libre` | INIT_PROC, EXIT, IO, DUMP_MEMORY, preemption, errors, disconnection | the answer is about the process that was sent |
| Reaper | the pcb it holds | tells Memoria, wakes the long-term planner, frees the pcb | EXIT is final, and every process in EXIT is freed |
| Dump threads | one per dump | ask Memoria, unblock or finish | the process leaves BLOCKED once |
| I/O groups | per device name: instances, shared queue, round-robin index; per instance `ocupado`, `pid_en_ejecucion` | handshake, request, dispatch, end of I/O, disconnection | no request lost, doubled or overtaken; no idle instance under a queue |
| I/O device program | the request it serves | serve, answer | works for the process the kernel believes |
| CPU program | program counter, `INTERRUPCION_PENDIENTE` | fetch, decode, execute, look at interrupts, answer | the program resumes where it should |
| CPU, MMU | TLB (LRU, FIFO), page cache (CLOCK, CLOCK-M) | translate, read, write, evict, write back, clean | a program reads what it wrote; nothing stays behind in a CPU |
| Memoria | bitmap of frames, multilevel tables, swap file, dumps | admit, translate, read, write, suspend, bring back, dump, free | frames are not shared, swap keeps the contents |
| utils, configuration, logs, debug output | none of interest | | |

How they interact: the CPU listener threads and the planners share the queues
under `mutex_colas` — *almost always*: the listener updates `cola_exec`,
`cola_exit` and `cola_ready` without it (1083-1112). Requests to Memoria are
synchronous calls over a connection of their own, made outside the mutex (or
inside it, in error paths). CPUs and devices are served by one thread each.
Locks are taken in the order `mutex_colas`, `mutex_grupo`, `mutex_cpu`,
`cpu->mutex`; the mutexes are not recursive.

What is hard here is listed, line by line, under "hazards" in `PROJECT.json`:
state read before a mutex is released and used after it (the candidate of the
long-term planner, the group pointer of an I/O request, the victim of a
preemption, the check of a suspension timer), semaphores that must count lists
which other threads change, messages that arrive late (interrupts, suspension
requests, the first request of a device), and failures between two steps (CPU or
device dies, dump fails).

## 2. Modules

`Planificacion` is the whole scheduling core of the kernel. Two abstract
specifications stand above and beside it: `CicloDeVida` (what the kernel promises
of a process) and `DispositivoIO` (what it promises of an I/O device).

```
      CicloDeVida                     DispositivoIO
           ^  (CumpleCiclo)            ^         ^
           |                           |         |  (CumpleDispositivo)
      Planificacion -------------------+     GruposIO          Cpu
        ^      ^                              ^    ^         ^    ^
        |  PlanificacionProofs      GruposIOProofs |  CpuProofs MCCpu
        |      ^                              MCGruposIO
        |  PlanificacionLugares
  MCPlanificacion

      AlmacenPaginas      TablaPaginas
           ^  (CumpleAlmacen)  ^ (EXTENDS)
           +----- Memoria -----+
                    ^      ^
                MCMemoria  +-- MemoriaTipos <- MemoriaProofs <- MemoriaAlmacen
```

`Secuencias` has the lemmas about queues that the proofs of the first two share:
the set of a sequence after an append, a removal or a cut, and that nobody is in
it twice.

`Planificacion` and `Cpu` use of Memoria what `AlmacenPaginas` says: pages keep
what was written, the processes in main memory fit in it, and only a suspension
moves them. `Memoria` is the program that has to provide that.

### Planificacion

| Variables | In the code |
|---|---|
| `estado`, `cola`, `exec`, `blocked`, `suspBlocked` | the pcb's state and the seven queues; lists that are only searched are sets |
| `semNuevo`, `semListo`, `semCpu`, `semExit` | the values of the four semaphores |
| `colasTrabado` | some thread has locked `mutex_colas` twice: from then on no section under it runs |
| `listaCpus`, `ultimoCpu`, `libre`, `enCpu`, `conexion` | `lista_cpus`, the round-robin index and the fields of `t_cpu` |
| `enviado`, `interrumpida` | the CPU program: what it is really executing, and the interrupts it has not served |
| `oyente` | the program counter of each listener thread |
| `largo`, `corto`, `liberador` | the program counters of the planners and the reaper, with what they hold |
| `vigilias`, `suspensor`, `suspendiendo`, `volcando` | timer threads that sleep, the one between its check and its write, suspension requests in flight, dump threads |
| `dispositivo`, `pedidos`, `caidos` | the device as `DispositivoIO` describes it |
| `saliendo`, `avisosDump`, `avisoIo` | the threads in the middle of `finalizar_proceso`: EXIT written and not queued, queued and not announced |
| `memoria` | Memoria's answer: where the pages of each process are |
| `estimacion`, `rafagas` | the burst estimate, and the blocking syscalls a program has left |

*Granularity.* A section under `mutex_colas` is one action, because the other
sections under it cannot interleave with it. Everything a thread does outside is
split wherever another thread could see the middle: for instance a preemption is
`RecibirInterrupcion` (remove from `cola_exec`), `InterrupcionEncolar`
(`list_add`), `InterrupcionAvisar` (state and `sem_post`) and
`InterrupcionDesalojar`, then `SoltarCpu` and `AvisarCpu`. `finalizar_proceso` is
three steps wherever it is called: the state (1261, without the mutex), the queue
(1263-1265, under it) and the `sem_post` (1270, after it). That unlocked write is
also why the section of a suspension timer is two actions, the look at the state
(`DispararVigilia`, 1894) and the write (`Suspender`, 1895): between them no other
section runs (`ColasLibres`), but a thread without the mutex may. One call of the list
library is atomic. Two such calls on the same list at the same time, without the
mutex, are undefined behaviour in C and are **not** explored: the model shows
what goes wrong even when each call is atomic.

*The action of each code path*: `CrearProceso` (crear_pcb), `EsperarNuevo` /
`ElegirCandidato` / `AdmitirEnMemoria` / `RechazarAdmision` / `AplicarAdmision`
(long-term planner), `EsperarListo` / `EsperarCpu` / `Despachar` (short-term
planner; `DesalojarSiEsNecesario` is the SRT check), `RecibirRespuesta` and the
actions named after each reason (listener), `CaeCpu` / `DetectarCaida` /
`QuitarCpu` / `FinalizarPorCaida` (disconnection), `DispararVigilia` /
`Suspender` / `SuspenderEnMemoria` (suspension), `DumpOk` / `DumpFallido` /
`DumpSinConexion`, `FinIo` / `CaeDispositivo`, `TomarFinalizado` /
`LiberarFinalizado` (reaper). The three steps of `finalizar_proceso` are
`ErrorMarcar` / `ErrorEncolar` / `ErrorAvisar` for the listener of a CPU,
`DumpSinConexion` / `DumpEncolar` / `DumpAvisar` for a dump thread and
`FinalizarCaido` / `CaidoEncolar` / `CaidoAvisar` for the listener of a device. `DespacharANadie`, the branch of an empty
`cola_ready` (879-884), is in the model and never taken: `FichasDeListos` says so.

*Abstractions.* Times are not modelled: a burst measured or executed is any value
of `0 .. MaxEst`, a timer may fire at any moment. `ALFA` is what
`config_get_long_value` leaves of it (0 or 1; line 116 truncates 0.5 to 0). The
order between equal estimates or sizes is any order. Programs are the number of
blocking syscalls they will make and the kinds they use. There is one device
name. Memoria grants an admission exactly when the frames suffice.

### GruposIO

The group of a device name at the level of its instances and messages: the
handshake in its three parts (join under `mutex_colas`, HANDSHAKE_OK, dispatch
under `mutex_grupo`), the request in its two parts, `despachar_io_si_es_posible`
as the operator `Despachar` (the k-th free instance in round-robin order gets the
k-th request), end of I/O, disconnection, and the device program with the
messages on their way to and from it. A group pointer used after the group was
freed is undefined behaviour; the model takes the outcome "nothing happens to the
group" and records the process in `perdidos`.

### Cpu

Several CPU programs, each with its own TLB and cache, over the frames of
Memoria. Programs are sequences of instructions. An instruction with its requests
to Memoria is one action, the look at the interrupt flag another (`Revisar`), the
clean-up and the answer a third (`Terminar`). The kernel appears as `RecibirPcb`
(any ready process goes to any idle CPU, one at a time, as `UnaCpuPorProceso` of
`Planificacion` states) and `Desbloquear`, where Memoria may have moved the pages
to other frames. `get_timestamp` is in milliseconds, so two accesses may have the same
stamp: the order of the stamps is what is kept. `logico`, `ultima` and `siguiente`
are history variables: no guard reads them.

### Memoria

The program of `memoria.c` as one thread per request in service. Line numbers
here are of that file.

| Variables | In the code |
|---|---|
| `bitmap`, `contenido` | `bitmap_marcos` and `memoria_usuario`, frame by frame |
| `bitsSwap`, `maxBit`, `swap` | `bitmap_swap`, its size, and the swap file, slot by slot |
| `dicc`, `tabla`, `asignadas` | `diccionario_procesos`, the leaves of each process's tables (`presente`, `numero_marco`, `offset_swap`), `paginas_asignadas` |
| `alta` | the handler of INIT_PROC or DESUSPENDER_PROCESO: the long-term planner waits for each answer, so there is one |
| `susp`, `volc`, `baja` | the handlers of SUSPENDER_PROCESO and DUMP_MEMORY (one per process) and of FINALIZAR_PROCESO (one: the reaper waits) |
| `dump` | the dump file being written |
| `estado`, `vigilias`, `cpu` | of the kernel and the CPUs: the state and the suspension timers that decide which requests may come, and the translation a CPU is using |

*Granularity.* A section under a mutex that all its users take (`mutex_swap`, the
search and marking of a frame under `mutex_bitmap` in an admission) is one action.
`mutex_memoria_principal` is taken by two handlers only and `mutex_proceso` by
two others, so the recursive walks are split page by page, and a page is split
wherever a thread without the same mutex can look: a suspension of a page is
`EscribirEnSwap`, `QuitarPresente`, `AnotarSlot`, `SoltarMarco`; a return is
`BuscarMarco`, `OcuparMarco`, `TraerDeSwap`, `UbicarPagina`, `SoltarSlot`; a dump
looks (`MirarPagina`) and then copies (`VolcarPagina`). `BuscarMarco` searches and
`OcuparMarco` marks, because `manejar_desuspension_proceso` takes no mutex (1407).

`TablaPaginas` is the arithmetic of the tables: `Indice` is
`obtener_indice_de_pagina`, `Hoja` the descent with it. The leaves are numbered in
the order of the recursive walks, so "the first n pages of the walk" are
`0 .. n-1`; `Indice` is only used where the code uses it, to translate.

*The assumption `Quieto`.* SUSPENDER_PROCESO leaves the kernel after
`mutex_colas` is released. The run `suspension` of `Planificacion` shows that the
request may be overtaken: Memoria is then asked for other things about a process
that it is suspending. The constant `Solapa` says whether the model allows that.
With `Solapa = FALSE`, as in every run and proof, a process leaves its block only
when its suspension is over: what Memoria does when the kernel does not fail it.
Nothing else is excluded. In particular a timer outlives its block (`vigilias`), a
process that waits for a dump may be suspended by it, and the suspension and the
dump then walk the same tables at once; the run `dump_suspendido` shows what comes
of it. The two fields of an entry that a dump reads (1616, 1621) are read in one
step; a read torn between them is not explored.

*Abstractions.* A page holds one value. The file of instructions, the reads and
the free-space query change nothing and have no action. When `bitmap_swap` grows,
the bits that `realloc` adds are any value (1298-1303). When the swap file cannot be
opened for update it is opened again with `w+b`, which empties it (1273): the
constant `SwapSeTrunca` allows that, and `LecturaFalla` a file that cannot be opened
for reading (1330).

## 3. Runs

| Run | Instance | Shows |
|---|---|---|
| `fifo` | 2 processes, 2 CPUs, FIFO/FIFO, I/O, dump, suspension, 3 frames for 2+1 (about 970,000 states) | types; `UnSoloLugar`; `FichasDeCpu`; `EstadoSegunCola`; `BloqueadoConMotivo`; `UnaCpuPorProceso`; refinement of `CicloDeVida` |
| `admision` | 3 processes for 2 frames, 1 CPU, smallest first, suspension, a device that dies (2.1 million) | `CandidatoEnCabeza`, `EstadoSegunCola`, `ExitEsFinal`, `SoloBloqueadoSeSuspende`, refinement of `DispositivoIO` |
| `fallas` | 2 processes, SRT with estimates 1 and 2 so that one preempts the other, 2 CPUs that die, dumps and requests to Memoria that fail, up to the self-deadlock (1.8 million) | `UnSoloLugar`, `FichasDeListos`, `FichasDeSalida`, `CpuSincronizada` under preemption and faults |
| `vivacidad` | 2 processes for 2 frames, 1 CPU, FIFO, every syscall, suspension, fair threads, dumps that cannot connect (18,000) | `DormidoSoloSinLugar`, `FichasDeSalida` (with the dump threads in `finalizar_proceso`), `TodosTerminan` |
| `cpu_mmu` | every pattern of 4 accesses to 3 pages, then I/O and another read, and shorter programs, on 3 CPUs (LRU/CLOCK-M, FIFO/CLOCK, FIFO without cache), 4 frames, 1 interrupt (330,000) | types; `Coherencia`, `VueltaAMemoria`, `ReanudaDondeCorresponde` |
| `dispositivos` | 2 processes with 2 requests each, 2 instances that connect and die, fair (40,000) | types; `UnPedidoPorBloqueado`, `SinInstanciaOciosa`, `InstanciaSincronizada`, `OrdenDeLlegada`, `TodoPedidoTermina`, refinement of `DispositivoIO` |
| `memoria` | processes of 2 and 1 pages in 2 frames, two levels of tables of 2 entries, 1 write, 1 write to swap that fails, 1 suspension timer of each process (930,000) | types; `MarcosPropios`, `SlotsPropios`, `ListoCompleto`, `AltaConLugar`, refinement of `AlmacenPaginas` |

The five runs below are **findings**: the property is what a comment of the code
says, and TLC shows how the code breaks it.

| Run | Comment | What happens |
|---|---|---|
| `carrera_srt` | 673: queues are modified safely, under the mutex | the listener queues a preempted process without the mutex and sets its state afterwards; the short-term planner may dispatch it in between, and a process in `cola_exec` ends up READY |
| `dump_fallido` | 1422: if the dump failed, it goes to EXIT whatever its state | `finalizar_proceso` locks `mutex_colas` again: the kernel waits for itself for ever (same at 987) |
| `suspension` | 1893: only a process that is still BLOCKED is suspended | the request to Memoria leaves after the mutex is released; by then the process may be READY again, and its pages go to swap |
| `dump_suspendido` | 1414: the process was suspended while the dump was made, and the dump is good | the walks of the dump and of the suspension hold different mutexes: a page whose `presente` is false and whose `posicion_swap` is not written yet is left out of the file, and DUMP_OK is sent |
| `syscall_perdida` | `global.h` 113: the instruction caused a block (IO) | a pending interrupt replaces the reason of the burst after IO or DUMP_MEMORY moved the program counter: the process is READY, goes on after the syscall, and nobody made the request |

Three more disagreements of the same kind came up and have no run of their own,
because a run above already shows the same cause or because one call is enough to
see them:

- `finalizar_proceso` writes EXIT before it takes the mutex (1261). Called for a
  dump that cannot connect (1361), with the process still in `cola_blocked`, the
  write can fall between the check (1894) and the write (1895) of an earlier
  timer, which then suspends a finished process, against the comment of 1893:
  `SoloBloqueadoSeSuspende` and `ExitEsFinal` fail with `Fallas = {"dump_con"}`
  and two blocking syscalls per program, and the theorems exclude that fault.
- The interrupt flag outlives the process it was sent for and preempts the next
  one, against the comment of `cpu.c` 877. By itself this costs a preemption
  (`ReanudaDondeCorresponde` holds in `cpu_mmu`); `syscall_perdida` shows the harm.
- A process of more pages than its tables have leaves is accepted by the count of
  frames and recorded with all of them (`memoria.c` 650, against `memoria.h` 46);
  the walk that assigns them stops at the last leaf (`Asignables`), and the mask of
  `obtener_indice_de_pagina` translates the rest to the frames of the first.

*Why the bounds are enough.* Every hazard needs at most two processes at one
point of the kernel (one that is being moved, another that makes the queue or the
CPU busy) and one candidate more for admission, hence 2 and 3 processes. Two CPUs
are needed for a victim and a bystander; with three the planner meets no new
case, because it takes one CPU at a time. One blocking syscall (`Rafagas`) per
program already sends each process round the whole cycle, and with two processes
the timer of one block can meet the state of any other. `MaxInterr = 1` bounds
the interrupts that a CPU has not served. In `fallas` estimates
start at 2 and a burst may measure 1, the least with which a process that comes
back from a dump is shorter than the other and preempts it. Two instances give the three cases of
a disconnection (idle, busy with another left, the last one), and two requests
per process let a process come back to a queue where the other waits. Four
accesses to three pages fill and overflow a cache and a TLB of two entries, with
each combination of use and modified bits. In `memoria` the first process takes both frames (so
each return and admission needs the other's frames, and a suspension has a page
behind it and one ahead), one can be returning while the other is being suspended
or dumped, and `bitmap_swap` of 2 bits (`BitsPorByte`) has to grow for the third
page. One timer per process (`MaxVigilias`) already outlives its block and meets
the dump of the next. That the leaves of several tables are numbered as the walks
meet them is not left to the run: it is the theorem `HojaCorrecta`.
`MaxEscrituras = 1` is one value that differs from
what the others hold, enough to tell a page that was lost or mixed with another;
`MaxFallos = 1` leaves one page in memory in the middle of a suspension.
CHECK_DEADLOCK is FALSE everywhere: the processes end, so the system rests when
all have been freed.

*Symmetry.* CPUs are interchangeable in the runs that only check safety (no
action tells them apart but for the order in which they connect, which is state),
and so are frames in `cpu_mmu`. No liveness run uses symmetry.

*Fairness.* `FairSpec` of `Planificacion` gives weak fairness to each thread: a
thread that has a unit of its semaphore and the mutex available goes on. This
is what the OS gives to pthreads; a semaphore has a single waiter, and the mutex
is only held for the length of an action. Timers elapse, Memoria and devices
answer; `Vigilia` is fair as a whole, so a timer that has looked at the state goes
on to write it. Arrivals and faults are not fair. `FairSpec` of `GruposIO` does the same
for the kernel threads and for a device that is alive. The liveness result on the
kernel has one fault, the dump that cannot connect, whose `finalizar_proceso`
(1361) runs without the mutex: after other faults the code really does stop
(`dump_fallido`). It is about FIFO admission: with smallest first and three
processes the long-term planner misses a wake-up (see the hypotheses in section 4).

Each property of a passing run has a mutant: a definition of the model changed as
a slip in the code would change it (a dropped `sem_post`, a missing check of the
state, an insertion at the wrong end, an index that does not wrap), for which
that property fails in the same run. They stand next to the definition they mutate.

## 4. Proofs

The theorems hold for **every** value of the constants that the named
assumptions of the modules allow; these are the domains of the configuration
values, and TLC evaluates them in every run.

### The scheduling core

`PlanificacionProofs` and `PlanificacionLugares` prove for `Spec` of
`Planificacion`, for any number of processes and CPUs, any sizes and program
lengths, and, where the last column says no more, for all algorithms and faults:

| Theorem | States | Hypothesis |
|---|---|---|
| `TipoCorrecto` | `[]TypeOK` | |
| `CabezaCorrecta` | `[]CandidatoEnCabeza` | |
| `ListosCorrecta` | `[]FichasDeListos` | |
| `SalidaCorrecta` | `[]FichasDeSalida` | |
| `CpuCorrecta` | `[]CpuSincronizada` | |
| `FichasCpuCorrectas` | `[]FichasDeCpu` | no CPU program dies |
| `SuenioCorrecto` | `[]DormidoSoloSinLugar` | FIFO admission; Memoria answers |
| `UnaCpuCorrecta` | `[]UnaCpuPorProceso` | |
| `LugarCorrecto` | `[]UnSoloLugar` | dumps can connect; under SRT the device stays |
| `EstadoCorrecto` | `[]EstadoSegunCola` | no preemption; dumps can connect |
| `MotivoCorrecto` | `[]BloqueadoConMotivo` | no preemption; dumps can connect; the device stays |
| `SalidaFinal` | `ExitEsFinal` | no preemption; dumps can connect |
| `SuspensionCorrecta` | `SoloBloqueadoSeSuspende` | no preemption; dumps can connect |
| `CicloCumplido` | `Spec => CumpleCiclo` | FIFO in both planners; dumps can connect |
| `DispositivoCumplido` | `Spec => CumpleDispositivo` | |

*The hypotheses* are where the code stops being right, and each was found by a
proof step that would not close and confirmed by a behaviour of TLC:

- A CPU that is free and dies keeps its unit of `sem_cpu_libre` until its listener
  notices (973): for a moment the semaphore counts a CPU nobody can use.
- `crear_pcb` wakes the long-term planner only when `cola_new` was empty (273).
  With smallest-first admission and three processes, a small one that arrives
  behind a big one fits, would be first, and nobody looks at the queue until some
  other process ends or is suspended. The theorem and the run `vivacidad` are about
  FIFO, where it does not happen.
- A dump that cannot connect finishes its process (1361) and leaves the pcb in
  `cola_blocked`: the process is in two places, and later freed; and a timer that
  was looking at it overwrites EXIT (section 3). Every other caller of
  `finalizar_proceso` takes the process out of the blocked queues first.
- Under SRT `cambiar_estado` (1111) comes after the `list_add`, so it can be late
  by as much as a whole burst: the process may be in another queue by then (the
  run `carrera_srt`), the state of a blocked process may say READY, and
  `CaeDispositivo`, which looks for the pcb by its state, then leaves it in the
  list of the blocked. Without preemption none of this happens, and the life
  cycle is that of `CicloDeVida`.

*The argument.* None of these is inductive alone. The first five come from

    Inductivo == TypeOK /\ Punteros /\ CandidatoEnCabeza /\ SinOyente
                 /\ CpuSincronizada /\ CpusOrdenadas
                 /\ FichasDeSalida /\ FichasDeListos

- `Punteros`: a listener at work has a process in `enCpu`, so that what it puts
  in a queue is a pid and the type invariant survives.
- `SinOyente`: a CPU that is not connected has no listener and no process.
- `CpusOrdenadas`: a CPU that has died executes nothing, and the listener of a
  free one waits. The planner only dispatches to a free CPU of `lista_cpus`, so
  `CpuSincronizada` is preserved by it.
- `CandidatoEnCabeza` needs only that everything but the long-term planner
  *appends* to `cola_new` and `cola_suspended_ready`.
- The two counting invariants compare a length with a semaphore plus the
  cardinality of the set of listeners that stand between their `list_add` and
  their `sem_post`. A lemma gives that cardinality after one listener moves.

`CpusContadas` adds to it the units of `sem_cpu_libre`: the free CPUs are those in
the semaphore, the one the planner took, and those of the listeners about to post.
That the planner with a unit finds its CPU needs the round robin as well
(`TurnoCompleto`: from any index the walk meets every position of `lista_cpus`).
`PlanificadorAvisado` says who will wake the long-term planner in each place it
may be.

The rest comes from `Inductivo /\ SinDesalojos /\ Ubicado`. `Ubicado` is what
the program never writes down, where a pcb may be:

- `SinRepetir`, `Aparte`: no process twice in a queue, in two queues, or in a queue
  and in the hands of a thread. Only the list of the blocked may share.
- `DuenioUnico`: two listeners are never about to answer for one process; the one
  that waits has its process in `cola_exec`. `UnaCpuPorProceso` follows.
- `MotivoUnico`: a request or a dump is of a blocked process, and of no other.
- `Existentes`, `Existe`, `EstadoConLugar`: a pcb is somewhere from its creation
  until it is freed, unless `mutex_colas` is locked for ever.
- `EstadosExactos`, `MotivosExactos`, `Corriendo`: what the state of a pcb says of
  its place, without preemption.
- `FinSinTrabar`, `TrabadosExactos`, `MotivoPresente`: what the hypotheses above
  add.
- `Vigilando`: without those faults, a process a timer has found BLOCKED is still
  in `cola_blocked` and BLOCKED when the timer writes, so that the two halves of
  the section are one for whoever looks at the state.

There is one lemma per action and invariant: `Tipo...` for the types, and
`Ubicado...` for the places. `CicloPaso` and `DispositivoPaso` map each step to a
step of the abstract specification or to a stutter.

### The I/O groups

`GruposIOProofs` proves for `Spec` of `GruposIO`, for any number of processes, of
devices that connect and die, and of requests:

| Theorem | States |
|---|---|
| `TiposCorrectos` | `[]TypeOK` |
| `UnSoloPedido` | `[]UnPedidoPorBloqueado` |
| `NadieEsperaDeMas` | `[]SinInstanciaOciosa` |
| `KernelYDispositivo` | `[]InstanciaSincronizada` |
| `SeSirveEnOrden` | `OrdenDeLlegada` |
| `ElGrupoEsUnDispositivo` | `Spec => CumpleDispositivo` |

*The dispatch.* `Despachar` says what `despachar_io_si_es_posible` leaves: the
first `n` requests go to `n` free instances, in the order in which the round robin
meets them, and either no request or no free instance is left. `DespacharReparte`
turns that into a set of instances and an injective turn for each, and four
lemmas say what every caller needs: types, requests (none lost, none doubled, none
left while an instance is free), what is on its way to each device, and order.

*The invariant* is

    Inductivo == TypeOK /\ GrupoExacto /\ PedidosExactos /\ Canales
                 /\ SinInstanciaOciosa

- `GrupoExacto`: the instances of the group are those with a listener, each once;
  the group exists while it has one. It is why a thread that dispatches after its
  handshake finds its group alive, and why a busy instance is one of the group.
- `PedidosExactos`: nobody has two requests, and the requests are those of the
  blocked processes but for the ones sent to a destroyed group.
- `Canales`: for each state of a device, what may be between it and the kernel. The
  interesting case is a device whose handshake is not answered yet: the request may
  be before or after HANDSHAKE_OK, and one that reads the request first gives up.

*Order.* `Antes(p, q)` is a relation on the queue and the busy instances. The
queue a caller hands to `Despachar` is the old one, with a request at the end
(`OrdenPedir`) or with the one of a dead instance at the head (`OrdenRecuperar`),
and a dispatch only takes from the head: no two requests change places.

*The refinement.* `Conectar` of the first instance is `Aparecer`, `PedirIo` is
`Pedir` unless its group is gone, `FinIo` is `Servir`, the disconnection of the
last instance is `Caer`, `FinalizarCaido` is `Finalizar`; the others stutter.
With `DispositivoCumplido` the two sides of `DispositivoIO` are proved: what
`Planificacion` asks of the device is what `GruposIO` does.

### The CPU programs

`CpuProofs` proves for `Spec` of `Cpu`, for any number of CPU programs, processes,
pages and frames, any number of entries in each TLB and each cache (none included),
either replacement in each of them and any programs:

| Theorem | States |
|---|---|
| `TiposCorrectos` | `[]TypeOK` |
| `ReanudaBien` | `[]ReanudaDondeCorresponde` |
| `TodoVuelveAMemoria` | `[]VueltaAMemoria` |
| `LoEscritoSeLee` | `[]Coherencia` |

There is no hypothesis but `CpuAssumption`: the domains of the configuration
values, and programs made of `Instrucciones`. A program may jump anywhere with GOTO,
before its first instruction too, because Memoria refuses such a program counter
(457 of `memoria.c`); its addresses are not negative, because `cpu.c` only checks
where an access ends (670, 730) and a negative offset is undefined behaviour. The
kernel sends any number of interrupts. What the theorems take from the rest of the system is in the actions: the kernel gives a
process to one CPU (`UnaCpuPorProceso`, proved), Memoria moves the pages only of
blocked processes and keeps their contents (`AlmacenCumplido`, proved for
`~Solapa`).

*The invariant* is

    Inductivo == TypeOK /\ Duenio /\ Repartidas
                 /\ (\A c \in CPUs : Traza(c) /\ Fiel(c))
                 /\ PaginasFieles /\ ReanudaDondeCorresponde

- `Duenio`: a process in a CPU is in no other one, and the kernel knows it. It is
  why the pages of a CPU's process change under nobody else.
- `Repartidas`: two processes that have not ended share no frame. It is why a
  write-back of one CPU leaves the pages of the processes in the others alone.
- `Traza`: where the program counter is between an instruction and the end of the
  burst, `DondeQuedo`: past it if it was GOTO, IO or DUMP_MEMORY, on it if not. Three
  pieces of code move it (GOTO, the syscalls, `ciclo_instruccion`), and an interrupt
  may replace the reason of a syscall after it moved. `ReanudaDondeCorresponde` is
  what is left of it in the pcb. It does not say that no instruction is lost or
  executed twice: a syscall is lost (`syscall_perdida`), and any other instruction
  under which an interrupt arrives, INIT_PROC included, is executed again.
- `Fiel`: an entry of the TLB in use (`TlbFiel`) has the frame of a page of the
  process in the CPU; an entry of the cache in use (`CacheFiel`) has what the
  process wrote in a page of its own, and what the frame has too unless its
  modified bit is set; and no page is twice in a cache (`CacheSinRepetir`), or an
  old copy could be written back after a new one.
- `PaginasFieles`: a page is in the cache of the CPU that has its process, or its
  frame has what was written. With no cache entry left (`LimpiarForma`) only the
  second is possible, which is `VueltaAMemoria`.

`TypeOK` alone needs the replacement: `PrimeraVueltaEncuentra` shows that the walk
of CLOCK from any pointer meets a position that qualifies when there is one
(`DesdeTodas`: the walk modulo the size meets every position), so each victim is an
entry of the cache. `InsertarFiel` and `LimpiarForma` say what the two operations
that write back leave, whichever the victim; `FielPorLoSuyo` that a step of one
CPU on the pages of its own process leaves every other CPU faithful.

### Memoria

`MemoriaTipos`, `MemoriaProofs` and `MemoriaAlmacen` prove, for any number of
processes and frames, any sizes, any number of levels and of entries in each:

| Theorem | States | Besides the named assumptions |
|---|---|---|
| `HojaCorrecta` | the descent with `obtener_indice_de_pagina` ends in leaf `k % Capacidad` | |
| `TipoCorrecto` | `[]TypeOK` | `~Solapa` |
| `MarcosCorrectos` | `[]MarcosPropios` | `~Solapa` |
| `SlotsCorrectos` | `[]SlotsPropios` | `~Solapa` |
| `ListoCorrecto` | `[]ListoCompleto` | `~Solapa` |
| `AltaCorrecta` | `[]AltaConLugar` | `~Solapa` |
| `AlmacenCumplido` | `Spec => CumpleAlmacen`: Memoria implements `AlmacenPaginas` | `~Solapa`, `~LecturaFalla`, `~SwapSeTrunca` |

`~Solapa` is what Memoria needs of the kernel (see `Quieto` above). `~LecturaFalla`
is what it needs of the disk: when `swapfile.bin` cannot be opened for reading the
code goes on with a page of whatever its buffer held, and the contents are lost.
`~SwapSeTrunca` is the same for an update: the second try empties the file. The
other theorems hold with both faults, and writes to swap that fail are allowed
everywhere, any number of them. `ListoCompleto` and `CumpleAlmacen` are what the
kernel gets only if it sends no suspension late: the run `suspension` shows that it
may.

*The descent.* The recursive functions of `TablaPaginas` are shown to satisfy
their equations by the least number that breaks a claim. `UnNivel` is the
arithmetic of one level: dividing by the size of a table twice is dividing by the
product, and the remainder of the whole is made of the remainders of the parts.

*The invariant.* `MarcosPropios` alone is far from inductive: it says nothing of
where each thread is in its walk. The invariant is

    Inductivo == TypeOK /\ Fases /\ HojasEnOrden /\ SuspEnOrden /\ AltaEnOrden
                 /\ VolcEnOrden /\ NuevosVacios /\ BloqueadoCompleto /\ Alcanza
                 /\ SlotsGrabados /\ MarcosEnOrden /\ SlotsEnOrden

- `Fases`: which handlers may be at work on a process in each state. It is what
  the kernel gives Memoria, and what keeps two walks off the same tables.
- `HojasEnOrden`: a leaf is in a frame or in a slot; only the leaf that a
  suspension is moving may be in between.
- `SuspEnOrden`, `AltaEnOrden`, `VolcEnOrden`: where each walk is with its leaf,
  and what the leaves behind it are like.
- `NuevosVacios`: an admission finds empty tables, so it overwrites no frame.
- `BloqueadoCompleto`: a process that is not suspended is whole, also while it is
  blocked. With it a process that becomes ready needs nothing.
- `Alcanza`: the frames still to be placed are no more than the free ones. The
  count is made without `mutex_bitmap` (523); it holds because nobody but the one
  admission or return in service takes frames. `AltaConLugar` follows from it.
- `SlotsGrabados`: the file has each slot that a page or a thread names, unless it
  may be truncated.
- `MarcosEnOrden`, `SlotsEnOrden`: `MarcosPropios` and `SlotsPropios` as one
  owner, a leaf or a handler, for each marked frame and slot.

`TraduccionEnOrden` adds that a translation in use points to a present leaf (the
process is READY, and nobody moves the pages of a ready process); it is a lemma of
the refinement and no theorem, because what it needs is `~Solapa` itself.
`CopiasFieles` says that a page held in a frame and in a slot at once has the same
contents in both. That a dump is faithful is not claimed: `dump_suspendido` refutes
it even with `~Solapa`.

*The refinement.* Only `RegistrarProceso`, `QuitarPresente` (the first of a walk),
`UbicarPagina` (the last of a walk), `QuitarProceso` and `EscribirMemoria` change
what `AlmacenPaginas` sees; they are its `Admitir`, `Suspender`, `Traer`,
`Destruir` and `Escribir`. Every other action leaves the value of each page
where it was (`CopiasFieles` when the page moves) and its place as well. That an
admitted process fits (`Cabe`) follows from `MarcosEnOrden`: the pages that are
present map one to one into the frames.

### Only model-checked

`TodosTerminan` and `TodoPedidoTermina`, which are liveness under fairness and out
of TLAPS's reach, and the five runs that refute a property. The types and the
other properties of the passing runs are theorems, some under hypotheses that the
runs share.

## 5. Not modelled

- Memoria with requests that overtake each other about one process
  (`Solapa = TRUE`), and a swap file that cannot be opened for reading or for
  update (`LecturaFalla`, `SwapSeTrunca`, where `CumpleAlmacen` is false by design of
  the code): all are in the module and in no run; the theorems without those
  hypotheses cover the last two. A dump file that cannot be opened is only
  an answer, in `Planificacion`. The names of the dump files have the time in
  seconds; files and clock are not modelled.
- A use of freed memory and a simultaneous access to a `t_list` beyond what is
  said above.
- Sockets and serialisation (`utils.c`): connections are reliable and ordered, and
  a packet is one message, although it is sent in three calls without a lock.
- Configuration, logs, metrics, start-up and the debug print of the paging state.
- `manejar_mensaje_io` (1433-1492) and `solicitar_memoria` (1193-1253): no caller.

## 6. Plan

Done, in this order: `Planificacion` with `CicloDeVida`; its proofs; `Cpu`;
`GruposIO` with `DispositivoIO`; `Memoria` with `TablaPaginas` and
`AlmacenPaginas`; the proofs of the three.

Then the proofs of where each pcb is, with the refinements of `CicloDeVida` and
`DispositivoIO`, and those of `GruposIO` and `Cpu`. Every safety property that a
passing run checks is now a theorem, with the hypotheses of section 4.

Next: the safety properties that `Planificacion` keeps without the hypotheses of
its theorems (what is still true of the places of a process under SRT when the
device dies), and an abstract memory of a process that `Cpu` implements.
