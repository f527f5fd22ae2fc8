------------------------------ MODULE Memoria ------------------------------
(***************************************************************************)
(* The Memoria program (src/memoria/src/memoria.c): the bitmap of frames,  *)
(* the page tables of each process, the swap file and its bitmap, and one  *)
(* thread for each request that is being served.  Of the kernel it has     *)
(* what decides which requests may be in flight together: the state of     *)
(* each process, the long-term planner (one admission at a time), the      *)
(* suspension threads, the dump threads and the reaper.                    *)
(*                                                                         *)
(* Granularity.  A section under a mutex that all its users take is one    *)
(* step (mutex_swap, the search and marking of a frame under mutex_bitmap, *)
(* mutex_diccionario_procesos).  mutex_memoria_principal is taken by two   *)
(* handlers only and mutex_proceso by two others, so the walks over the    *)
(* tables are split page by page, and a page is split wherever a thread    *)
(* without the same mutex can look.                                        *)
(***************************************************************************)
EXTENDS TablaPaginas, FiniteSets

CONSTANTS
    Pids,         \* the processes the kernel may create
    NumPaginas,   \* paginas_requeridas: the size of each process, in pages
    NumMarcos,    \* cantidad_marcos
    Datos,        \* contents of a page, Cero the one memset leaves
    Cero,
    Nil,          \* NULL
    BitsPorByte,  \* bits that bitmap_swap grows by
    MaxEscrituras,\* bounds the writes of the CPUs
    MaxFallos,    \* bounds the writes to the swap file that fail
    MaxVigilias,  \* bounds the suspension threads of a process that sleep
    LecturaFalla, \* the swap file may be impossible to open for reading
    SwapSeTrunca, \* it may be impossible to open for update, and made again
    Solapa        \* see Quieto

NADA   == -1
Marcos == 0 .. NumMarcos - 1

ASSUME MarcosAssumption == NumMarcos \in Nat
ASSUME PaginasAssumption == NumPaginas \in [Pids -> Nat]
ASSUME PidsAssumption == IsFiniteSet(Pids) /\ Nil \notin Pids
ASSUME DatosAssumption == Cero \in Datos
ASSUME SwapAssumption == BitsPorByte \in Nat \ {0}
ASSUME CotasAssumption ==
    /\ MaxEscrituras \in Nat /\ MaxFallos \in Nat /\ MaxVigilias \in Nat
    /\ {LecturaFalla, SwapSeTrunca, Solapa} \subseteq BOOLEAN

VARIABLES
    estado,     \* pcb->estado in the kernel; READY stands for RUNNING too
    dicc,       \* diccionario_procesos
    tabla,      \* the leaves of the page tables of each process
    asignadas,  \* proceso->paginas_asignadas
    bitmap,     \* the frames bitmap_marcos marks
    contenido,  \* memoria_usuario, by frames
    bitsSwap,   \* the slots bitmap_swap marks
    maxBit,     \* bitarray_get_max_bit(bitmap_swap)
    swap,       \* the swap file, by slots
    alta,       \* the handler of INIT_PROC or DESUSPENDER_PROCESO
    susp,       \* the handler of SUSPENDER_PROCESO for each process
    volc,       \* the handler of DUMP_MEMORY for each process
    dump,       \* the dump file that is being written for each process
    baja,       \* the handler of FINALIZAR_PROCESO
    cpu,        \* the translation a CPU is using for each process
    vigilias,   \* the suspension threads of each process that still sleep
    escrituras, \* writes made so far
    fallos      \* writes to the swap file that have failed

kernelVars == <<estado, cpu, vigilias, escrituras>>
marcoVars  == <<bitmap, contenido>>
swapVars   == <<bitsSwap, maxBit, swap, fallos>>
procVars   == <<dicc, tabla, asignadas>>
vars == <<kernelVars, marcoVars, swapVars, procVars,
          alta, susp, volc, dump, baja>>

Vacia   == [presente |-> FALSE, marco |-> NADA, slot |-> NADA]
SinAlta == [pc |-> "no", pid |-> Nil, pag |-> 0, marco |-> NADA, slot |-> NADA]
SinSusp == [pc |-> "no", pag |-> 0, slot |-> NADA]
SinVolc == [pc |-> "no", pag |-> 0, lugar |-> NADA]
SinBaja == [pid |-> Nil, pag |-> 0]

\* The leaves the process gets: asignar_paginas_recursivo stops at the last.
\* The other leaves stay empty, so the walks below pass over them in no time.
Asignables(p) ==
    0 .. (IF NumPaginas[p] < Capacidad THEN NumPaginas[p] ELSE Capacidad) - 1

Libres == Marcos \ bitmap
EnSwap(t, desde) ==
    {h \in Hojas : h >= desde /\ ~t[h].presente /\ t[h].slot # NADA}
Menor(S) == CHOOSE m \in S : \A n \in S : m =< n

\* mutex_memoria_principal and mutex_proceso are free.
PrincipalLibre ==
    /\ alta.pc \notin {"asigna", "registra"}
    /\ \A p \in Pids : volc[p].pc \in {"no", "pedido"}
ProcesoLibre(p) == susp[p].pc \in {"no", "pedido"} /\ baja.pid # p

\* The kernel sends SUSPENDER_PROCESO after it releases mutex_colas, so
\* another request about the same process may overtake it.  Quieto is what
\* the rest of the code relies on and the kernel does not ensure: unless
\* Solapa, a process leaves its block only when its suspension is over.
Quieto(p) == Solapa \/ susp[p].pc = "no"

Init ==
    /\ estado = [p \in Pids |-> "NEW"]
    /\ dicc = {}
    /\ tabla = [p \in Pids |-> [h \in Hojas |-> Vacia]]
    /\ asignadas = [p \in Pids |-> 0]
    /\ bitmap = {}
    /\ contenido = [m \in Marcos |-> Cero]
    /\ bitsSwap = {} /\ maxBit = BitsPorByte
    /\ swap = [s \in {} |-> Cero]
    /\ alta = SinAlta
    /\ susp = [p \in Pids |-> SinSusp]
    /\ volc = [p \in Pids |-> SinVolc]
    /\ dump = [p \in Pids |-> [h \in {} |-> Cero]]
    /\ baja = SinBaja
    /\ cpu = [p \in Pids |-> Nil] /\ vigilias = [p \in Pids |-> 0]
    /\ escrituras = 0 /\ fallos = 0

-----------------------------------------------------------------------------
\* INIT_PROC: almacenar_proceso_nuevo.

\* Nothing else is asked while the planner waits for the answer, and what
\* comes back from suspension goes first.
PlanificadorLibre(p) ==
    /\ alta.pc = "no"
    /\ estado[p] = "NEW" => \A q \in Pids : estado[q] # "SUSP_READY"

\* Mutant of ContarParaAlta: the free frames are not counted.
ContarParaAltaSinContar(p) ==
    /\ estado[p] = "NEW" /\ PlanificadorLibre(p)
    /\ alta' = [SinAlta EXCEPT !.pc = "espera", !.pid = p]
    /\ UNCHANGED <<kernelVars, marcoVars, swapVars, procVars, susp, volc, dump,
                   baja>>

\* The count is made, and its mutex released, before the lock of the tables.
\* Without room, or without the file of instructions, Memoria answers with an
\* error and nothing changes: the process stays in NEW.
ContarParaAlta(p) ==
    /\ estado[p] = "NEW" /\ PlanificadorLibre(p)
    /\ NumPaginas[p] =< Cardinality(Libres)
    /\ alta' = [SinAlta EXCEPT !.pc = "espera", !.pid = p]
    /\ UNCHANGED <<kernelVars, marcoVars, swapVars, procVars, susp, volc, dump,
                   baja>>

CrearProceso ==
    /\ alta.pc = "espera" /\ PrincipalLibre
    /\ alta' = [alta EXCEPT !.pc = "asigna"]
    /\ UNCHANGED <<kernelVars, marcoVars, swapVars, procVars, susp, volc, dump,
                   baja>>

\* asignar_paginas_recursivo, one leaf.  The process is not in the dictionary
\* yet: nobody else sees its tables.  When no frame is left the walk ends with
\* false, which almacenar_proceso_nuevo does not look at.
AsignarPagina ==
    /\ alta.pc = "asigna"
    /\ IF alta.pag \notin Asignables(alta.pid) \/ Libres = {}
       THEN /\ alta' = [alta EXCEPT !.pc = "registra"]
            /\ UNCHANGED <<bitmap, tabla>>
       ELSE LET m == Menor(Libres) IN
            /\ bitmap' = bitmap \cup {m}
            /\ tabla' = [tabla EXCEPT ![alta.pid][alta.pag] =
                           [presente |-> TRUE, marco |-> m, slot |-> NADA]]
            /\ alta' = [alta EXCEPT !.pag = @ + 1]
    /\ UNCHANGED <<kernelVars, contenido, swapVars, dicc, asignadas, susp,
                   volc, dump, baja>>

\* Mutant of RegistrarProceso: the process is not put in the dictionary.
RegistrarProcesoSinGuardar ==
    /\ alta.pc = "registra"
    /\ asignadas' = [asignadas EXCEPT ![alta.pid] = NumPaginas[alta.pid]]
    /\ estado' = [estado EXCEPT ![alta.pid] = "READY"]
    /\ alta' = SinAlta
    /\ UNCHANGED <<cpu, vigilias, escrituras, marcoVars, swapVars, tabla, dicc,
                   susp, volc, dump, baja>>

\* paginas_asignadas, dictionary_put and INIT_PROCESO_OK, with which the
\* planner moves the process to READY.
RegistrarProceso ==
    /\ alta.pc = "registra"
    /\ asignadas' = [asignadas EXCEPT ![alta.pid] = NumPaginas[alta.pid]]
    /\ dicc' = dicc \cup {alta.pid}
    /\ estado' = [estado EXCEPT ![alta.pid] = "READY"]
    /\ alta' = SinAlta
    /\ UNCHANGED <<cpu, vigilias, escrituras, marcoVars, swapVars, tabla, susp,
                   volc, dump, baja>>

-----------------------------------------------------------------------------
\* The swap file.

\* buscar_slot_libre_swap: the first unmarked slot, else the first past the end.
SlotLibre ==
    Menor({s \in 0 .. maxBit - 1 : s \notin bitsSwap} \cup {maxBit})

\* Mutant of GrabarEnSwap: the slot is not marked.
GrabarEnSwapSinMarcar(dato, slot) ==
    /\ swap' = [s \in DOMAIN swap \cup {slot} |->
                  IF s = slot THEN dato ELSE swap[s]]
    /\ UNCHANGED <<bitsSwap, maxBit, fallos>>

\* Mutant of GrabarEnSwap: off by one, the bitmap does not grow in time.
GrabarEnSwapSinCrecer(dato, slot) ==
    /\ swap' = [s \in DOMAIN swap \cup {slot} |->
                  IF s = slot THEN dato ELSE swap[s]]
    /\ IF slot =< maxBit
       THEN bitsSwap' = bitsSwap \cup {slot} /\ UNCHANGED maxBit
       ELSE /\ maxBit' = ((slot \div BitsPorByte) + 1) * BitsPorByte
            /\ bitsSwap' = bitsSwap \cup {slot}
    /\ UNCHANGED fallos

\* The file after the write.  The mode "w+b", the second try, empties it: what
\* was in other slots is gone, and the ones before this read as zeros.
Grabado(dato, slot) ==
    {[s \in DOMAIN swap \cup {slot} |-> IF s = slot THEN dato ELSE swap[s]]}
      \cup (IF SwapSeTrunca
            THEN {[s \in 0 .. slot |-> IF s = slot THEN dato ELSE Cero]}
            ELSE {})

\* escribir_en_swap.  When the bitmap has to grow, realloc gives it one more
\* byte that nobody clears: its other bits are whatever was there.
GrabarEnSwap(dato, slot) ==
    /\ swap' \in Grabado(dato, slot)
    /\ IF slot < maxBit
       THEN bitsSwap' = bitsSwap \cup {slot} /\ UNCHANGED maxBit
       ELSE /\ maxBit' = ((slot \div BitsPorByte) + 1) * BitsPorByte
            /\ \E basura \in SUBSET (slot + 1 .. maxBit' - 1) :
                 bitsSwap' = bitsSwap \cup {slot} \cup basura
    /\ UNCHANGED fallos

\* leer_de_swap: what ends in the buffer, which keeps its contents when the
\* file cannot be opened or ends before the slot.
LeidoDeSwap(slot, buffer) ==
    {IF slot \in DOMAIN swap THEN swap[slot] ELSE buffer}
      \cup (IF LecturaFalla THEN {buffer} ELSE {})

-----------------------------------------------------------------------------
\* SUSPENDER_PROCESO: manejar_suspension_proceso, suspender_paginas_recursivo.

TomarSuspension(p) ==
    /\ susp[p].pc = "pedido"
    /\ IF p \in dicc
       THEN ProcesoLibre(p) /\ susp' = [susp EXCEPT ![p].pc = "recorre"]
       ELSE susp' = [susp EXCEPT ![p] = SinSusp]
    /\ UNCHANGED <<kernelVars, marcoVars, swapVars, procVars, alta, volc, dump,
                   baja>>

\* One leaf: a page that is present is written to swap; if that fails it stays
\* where it is and the walk goes on.
EscribirEnSwap(p) ==
    /\ susp[p].pc = "recorre" /\ susp[p].pag \in Asignables(p)
    /\ IF ~tabla[p][susp[p].pag].presente
       THEN /\ susp' = [susp EXCEPT ![p].pag = @ + 1]
            /\ UNCHANGED swapVars
       ELSE \/ /\ fallos < MaxFallos /\ fallos' = fallos + 1
               /\ susp' = [susp EXCEPT ![p].pag = @ + 1]
               /\ UNCHANGED <<bitsSwap, maxBit, swap>>
            \/ /\ susp' = [susp EXCEPT ![p].pc = "escrita",
                                        ![p].slot = SlotLibre]
               /\ GrabarEnSwap(contenido[tabla[p][susp[p].pag].marco],
                               SlotLibre)
    /\ UNCHANGED <<kernelVars, marcoVars, procVars, alta, volc, dump, baja>>

QuitarPresente(p) ==
    /\ susp[p].pc = "escrita"
    /\ tabla' = [tabla EXCEPT ![p][susp[p].pag].presente = FALSE]
    /\ susp' = [susp EXCEPT ![p].pc = "ausente"]
    /\ UNCHANGED <<kernelVars, marcoVars, swapVars, dicc, asignadas, alta,
                   volc, dump, baja>>

AnotarSlot(p) ==
    /\ susp[p].pc = "ausente"
    /\ tabla' = [tabla EXCEPT ![p][susp[p].pag].slot = susp[p].slot]
    /\ susp' = [susp EXCEPT ![p].pc = "anotada", ![p].slot = NADA]
    /\ UNCHANGED <<kernelVars, marcoVars, swapVars, dicc, asignadas, alta,
                   volc, dump, baja>>

\* Mutant of SoltarMarco: the bit of the frame is not cleared.
SoltarMarcoSinLiberar(p) ==
    /\ susp[p].pc = "anotada"
    /\ tabla' = [tabla EXCEPT ![p][susp[p].pag].marco = NADA]
    /\ susp' = [susp EXCEPT ![p].pc = "recorre", ![p].pag = @ + 1]
    /\ UNCHANGED <<kernelVars, contenido, bitmap, swapVars, dicc, asignadas,
                   alta, volc, dump, baja>>

\* liberar_marco reads the frame from the entry again, and takes no mutex.
SoltarMarco(p) ==
    /\ susp[p].pc = "anotada"
    /\ bitmap' = bitmap \ {tabla[p][susp[p].pag].marco}
    /\ tabla' = [tabla EXCEPT ![p][susp[p].pag].marco = NADA]
    /\ susp' = [susp EXCEPT ![p].pc = "recorre", ![p].pag = @ + 1]
    /\ UNCHANGED <<kernelVars, contenido, swapVars, dicc, asignadas, alta,
                   volc, dump, baja>>

ResponderSuspension(p) ==
    /\ susp[p].pc = "recorre" /\ susp[p].pag \notin Asignables(p)
    /\ susp' = [susp EXCEPT ![p] = SinSusp]
    /\ UNCHANGED <<kernelVars, marcoVars, swapVars, procVars, alta, volc, dump,
                   baja>>

-----------------------------------------------------------------------------
\* DESUSPENDER_PROCESO: manejar_desuspension_proceso and
\* desuspender_paginas_recursivo.  Neither mutex_proceso nor mutex_bitmap is
\* taken: only the planner asks for frames, and it waits for each answer.

\* Mutant of ContarParaTraer: the free frames are not counted.
ContarParaTraerSinContar(p) ==
    /\ estado[p] = "SUSP_READY" /\ PlanificadorLibre(p) /\ p \in dicc
    /\ alta' = [SinAlta EXCEPT !.pc = "busca", !.pid = p]
    /\ UNCHANGED <<kernelVars, marcoVars, swapVars, procVars, susp, volc, dump,
                   baja>>

ContarParaTraer(p) ==
    /\ estado[p] = "SUSP_READY" /\ PlanificadorLibre(p) /\ p \in dicc
    /\ Cardinality(EnSwap(tabla[p], 0)) =< Cardinality(Libres)
    /\ alta' = [SinAlta EXCEPT !.pc = "busca", !.pid = p]
    /\ UNCHANGED <<kernelVars, marcoVars, swapVars, procVars, susp, volc, dump,
                   baja>>

\* buscar_marco_libre for one leaf.  With no free frame the walk goes on in the
\* next table (after unlocking a mutex it did not lock); the answer is still OK.
BuscarMarco ==
    /\ alta.pc = "busca" /\ alta.pag \in Asignables(alta.pid)
    /\ alta' =
         IF alta.pag \notin EnSwap(tabla[alta.pid], 0)
         THEN [alta EXCEPT !.pag = @ + 1]
         ELSE IF Libres = {}
         THEN [alta EXCEPT !.pag = Entradas * ((@ \div Entradas) + 1)]
         ELSE [alta EXCEPT !.pc = "ocupa", !.marco = Menor(Libres)]
    /\ UNCHANGED <<kernelVars, marcoVars, swapVars, procVars, susp, volc, dump,
                   baja>>

\* Mutant of OcuparMarco: the frame is not marked.
OcuparMarcoSinMarcar ==
    /\ alta.pc = "ocupa"
    /\ alta' = [alta EXCEPT !.pc = "lee"]
    /\ UNCHANGED <<kernelVars, bitmap, contenido, swapVars, procVars, susp,
                   volc, dump, baja>>

OcuparMarco ==
    /\ alta.pc = "ocupa"
    /\ bitmap' = bitmap \cup {alta.marco}
    /\ alta' = [alta EXCEPT !.pc = "lee"]
    /\ UNCHANGED <<kernelVars, contenido, swapVars, procVars, susp, volc, dump,
                   baja>>

TraerDeSwap ==
    /\ alta.pc = "lee"
    /\ \E d \in LeidoDeSwap(tabla[alta.pid][alta.pag].slot,
                            contenido[alta.marco]) :
         contenido' = [contenido EXCEPT ![alta.marco] = d]
    /\ alta' = [alta EXCEPT !.pc = "ubica"]
    /\ UNCHANGED <<kernelVars, bitmap, swapVars, procVars, susp, volc, dump,
                   baja>>

UbicarPagina ==
    /\ alta.pc = "ubica"
    /\ tabla' = [tabla EXCEPT ![alta.pid][alta.pag] =
                   [presente |-> TRUE, marco |-> alta.marco, slot |-> NADA]]
    /\ alta' = [alta EXCEPT !.pc = "suelta",
                            !.slot = tabla[alta.pid][alta.pag].slot]
    /\ UNCHANGED <<kernelVars, marcoVars, swapVars, dicc, asignadas, susp,
                   volc, dump, baja>>

\* liberar_slot_swap
SoltarSlot ==
    /\ alta.pc = "suelta"
    /\ bitsSwap' = bitsSwap \ {alta.slot}
    /\ alta' = [alta EXCEPT !.pc = "busca", !.pag = @ + 1,
                            !.marco = NADA, !.slot = NADA]
    /\ UNCHANGED <<kernelVars, marcoVars, maxBit, swap, fallos, procVars, susp,
                   volc, dump, baja>>

ResponderTraer ==
    /\ alta.pc = "busca" /\ alta.pag \notin Asignables(alta.pid)
    /\ estado' = [estado EXCEPT ![alta.pid] = "READY"]
    /\ alta' = SinAlta
    /\ UNCHANGED <<cpu, vigilias, escrituras, marcoVars, swapVars, procVars,
                   susp, volc, dump, baja>>

-----------------------------------------------------------------------------
\* DUMP_MEMORY: manejar_solicitud_dump, dumpear_paginas_recursivo.

TomarDump(p) ==
    /\ volc[p].pc = "pedido" /\ p \in dicc /\ PrincipalLibre
    /\ volc' = [volc EXCEPT ![p].pc = "recorre"]
    /\ UNCHANGED <<kernelVars, marcoVars, swapVars, procVars, alta, susp, dump,
                   baja>>

\* Where the page is, looked up without mutex_proceso: a suspension may be at
\* any of its steps.  The fields of the entry are read together here.
MirarPagina(p) ==
    /\ volc[p].pc = "recorre" /\ volc[p].pag \in Asignables(p)
    /\ LET e == tabla[p][volc[p].pag] IN
       volc' = [volc EXCEPT ![p] =
                  IF e.presente
                  THEN [@ EXCEPT !.pc = "marco", !.lugar = e.marco]
                  ELSE IF e.slot # NADA
                  THEN [@ EXCEPT !.pc = "slot", !.lugar = e.slot]
                  ELSE [@ EXCEPT !.pag = volc[p].pag + 1]]
    /\ UNCHANGED <<kernelVars, marcoVars, swapVars, procVars, alta, susp, dump,
                   baja>>

\* fwrite of the frame, or of what leer_de_swap left in a buffer of its own.
VolcarPagina(p) ==
    /\ volc[p].pc \in {"marco", "slot"}
    /\ \E d \in IF volc[p].pc = "marco" THEN {contenido[volc[p].lugar]}
                ELSE LeidoDeSwap(volc[p].lugar, Cero) :
         dump' = [dump EXCEPT ![p] =
                    [h \in DOMAIN @ \cup {volc[p].pag} |->
                       IF h = volc[p].pag THEN d ELSE @[h]]]
    /\ volc' = [volc EXCEPT ![p] = [pc |-> "recorre", pag |-> volc[p].pag + 1,
                                    lugar |-> NADA]]
    /\ UNCHANGED <<kernelVars, marcoVars, swapVars, procVars, alta, susp,
                   baja>>

\* fclose and DUMP_OK.
CerrarDump(p) ==
    /\ volc[p].pc = "recorre" /\ volc[p].pag \notin Asignables(p)
    /\ volc' = [volc EXCEPT ![p] = SinVolc]
    /\ dump' = [dump EXCEPT ![p] = [h \in {} |-> Cero]]
    /\ UNCHANGED <<kernelVars, marcoVars, swapVars, procVars, alta, susp,
                   baja>>

-----------------------------------------------------------------------------
\* FINALIZAR_PROCESO: destruir_proceso, liberar_tablas_proceso.

QuitarProceso(p) ==
    /\ estado[p] = "EXIT" /\ baja = SinBaja /\ p \in dicc /\ ProcesoLibre(p)
    /\ dicc' = dicc \ {p}
    /\ baja' = [SinBaja EXCEPT !.pid = p]
    /\ UNCHANGED <<kernelVars, marcoVars, swapVars, tabla, asignadas, alta,
                   susp, volc, dump>>

\* One leaf.  The tables are out of reach of every other thread by now; a leaf
\* that has been released is shown empty.
LiberarPagina ==
    /\ baja # SinBaja /\ baja.pag \in Asignables(baja.pid)
    /\ LET e == tabla[baja.pid][baja.pag] IN
       /\ bitmap' = IF e.presente THEN bitmap \ {e.marco} ELSE bitmap
       /\ bitsSwap' = IF e.presente THEN bitsSwap ELSE bitsSwap \ {e.slot}
    /\ tabla' = [tabla EXCEPT ![baja.pid][baja.pag] = Vacia]
    /\ baja' = [baja EXCEPT !.pag = @ + 1]
    /\ UNCHANGED <<kernelVars, contenido, maxBit, swap, fallos, dicc,
                   asignadas, alta, susp, volc, dump>>

\* FINALIZACION_OK: the reaper frees the pcb.
ResponderBaja ==
    /\ baja # SinBaja /\ baja.pag \notin Asignables(baja.pid)
    /\ estado' = [estado EXCEPT ![baja.pid] = "LIBERADO"]
    /\ baja' = SinBaja
    /\ UNCHANGED <<cpu, vigilias, escrituras, marcoVars, swapVars, procVars,
                   alta, susp, volc, dump>>

-----------------------------------------------------------------------------
\* TRADUCIR_TABLA and ESCRIBIR_MEMORIA, for the CPU a process runs in.
\* LEER_MEMORIA and PEDIR_INSTRUCCIONES change nothing but counters.

\* manejar_traduccion_tabla: a page in range and present.
Traducir(p) ==
    /\ estado[p] = "READY" /\ p \in dicc
    /\ \E k \in 0 .. NumPaginas[p] - 1 :
         LET e == tabla[p][Hoja(k)] IN
         /\ e.presente
         /\ cpu' = [cpu EXCEPT ![p] = [pag |-> k, marco |-> e.marco]]
    /\ UNCHANGED <<estado, vigilias, escrituras, marcoVars, swapVars, procVars,
                   alta, susp, volc, dump, baja>>

\* escribir_memoria_fisica refuses an address out of memoria_usuario only.  A
\* write that leaves the frame as it was is a stutter.
EscribirMemoria(p) ==
    /\ estado[p] = "READY" /\ cpu[p] # Nil /\ cpu[p].marco \in Marcos
    /\ escrituras < MaxEscrituras
    /\ escrituras' = escrituras + 1
    /\ \E d \in Datos \ {contenido[cpu[p].marco]} :
         contenido' = [contenido EXCEPT ![cpu[p].marco] = d]
    /\ UNCHANGED <<estado, cpu, vigilias, bitmap, swapVars, procVars, alta,
                   susp, volc, dump, baja>>

-----------------------------------------------------------------------------
\* The kernel.  A process that leaves its CPU takes its translations away.

\* Mutant of Bloquear: the CPU keeps its translations.
BloquearSinLimpiar(p) ==
    /\ estado[p] = "READY" /\ vigilias[p] < MaxVigilias
    /\ estado' = [estado EXCEPT ![p] = "BLOCKED"]
    /\ vigilias' = [vigilias EXCEPT ![p] = @ + 1]
    /\ UNCHANGED <<cpu, escrituras, marcoVars, swapVars, procVars, alta, susp,
                   volc, dump, baja>>

\* bloquear_proceso: the process waits for a device, and a suspension thread
\* for its TIEMPO_SUSPENSION.
Bloquear(p) ==
    /\ estado[p] = "READY" /\ vigilias[p] < MaxVigilias
    /\ estado' = [estado EXCEPT ![p] = "BLOCKED"]
    /\ cpu' = [cpu EXCEPT ![p] = Nil]
    /\ vigilias' = [vigilias EXCEPT ![p] = @ + 1]
    /\ UNCHANGED <<escrituras, marcoVars, swapVars, procVars, alta, susp, volc,
                   dump, baja>>

\* bloquear_proceso_por_dump: the process waits for its dump, and no new thread
\* for its suspension.
PedirDump(p) ==
    /\ estado[p] = "READY"
    /\ estado' = [estado EXCEPT ![p] = "BLOCKED"]
    /\ cpu' = [cpu EXCEPT ![p] = Nil]
    /\ volc' = [volc EXCEPT ![p] = [SinVolc EXCEPT !.pc = "pedido"]]
    /\ UNCHANGED <<vigilias, escrituras, marcoVars, swapVars, procVars, alta,
                   susp, dump, baja>>

\* hilo_suspension_proceso wakes up.  Its block, a later one or a dump finds
\* the process BLOCKED and it is suspended; one request at a time for each
\* process is in flight here.
Suspender(p) ==
    /\ estado[p] = "BLOCKED" /\ susp[p].pc = "no" /\ vigilias[p] > 0
    /\ estado' = [estado EXCEPT ![p] = "SUSP_BLOCKED"]
    /\ susp' = [susp EXCEPT ![p] = [SinSusp EXCEPT !.pc = "pedido"]]
    /\ vigilias' = [vigilias EXCEPT ![p] = @ - 1]
    /\ UNCHANGED <<cpu, escrituras, marcoVars, swapVars, procVars, alta, volc,
                   dump, baja>>

\* The process is in another state, or gone: the thread ends.
DejarVigilia(p) ==
    /\ estado[p] # "BLOCKED" /\ vigilias[p] > 0
    /\ vigilias' = [vigilias EXCEPT ![p] = @ - 1]
    /\ UNCHANGED <<estado, cpu, escrituras, marcoVars, swapVars, procVars,
                   alta, susp, volc, dump, baja>>

\* manejar_fin_io and hilo_manejador_dump: the device or the dump has answered.
Desbloquear(p) ==
    /\ volc[p].pc = "no" /\ Quieto(p)
    /\ \/ /\ estado[p] = "BLOCKED"
          /\ estado' = [estado EXCEPT ![p] = "READY"]
       \/ /\ estado[p] = "SUSP_BLOCKED"
          /\ estado' = [estado EXCEPT ![p] = "SUSP_READY"]
    /\ UNCHANGED <<cpu, vigilias, escrituras, marcoVars, swapVars, procVars,
                   alta, susp, volc, dump, baja>>

\* finalizar_proceso: it ends in a CPU, its device died or its dump failed.
Finalizar(p) ==
    /\ \/ estado[p] = "READY"
       \/ estado[p] \in {"BLOCKED", "SUSP_BLOCKED"} /\ volc[p].pc = "no"
    /\ Quieto(p)
    /\ estado' = [estado EXCEPT ![p] = "EXIT"]
    /\ cpu' = [cpu EXCEPT ![p] = Nil]
    /\ UNCHANGED <<vigilias, escrituras, marcoVars, swapVars, procVars, alta,
                   susp, volc, dump, baja>>

Next ==
    \/ CrearProceso \/ AsignarPagina \/ RegistrarProceso
    \/ BuscarMarco \/ OcuparMarco \/ TraerDeSwap \/ UbicarPagina \/ SoltarSlot
    \/ ResponderTraer \/ LiberarPagina \/ ResponderBaja
    \/ \E p \in Pids :
         \/ ContarParaAlta(p) \/ ContarParaTraer(p)
         \/ TomarSuspension(p) \/ EscribirEnSwap(p) \/ QuitarPresente(p)
         \/ AnotarSlot(p) \/ SoltarMarco(p) \/ ResponderSuspension(p)
         \/ TomarDump(p) \/ MirarPagina(p) \/ VolcarPagina(p) \/ CerrarDump(p)
         \/ QuitarProceso(p) \/ Traducir(p) \/ EscribirMemoria(p)
         \/ Bloquear(p) \/ PedirDump(p) \/ Suspender(p) \/ DejarVigilia(p)
         \/ Desbloquear(p) \/ Finalizar(p)

Spec == Init /\ [][Next]_vars

-----------------------------------------------------------------------------
\* Properties

Entrada == [presente : BOOLEAN, marco : Marcos \cup {NADA},
            slot : Nat \cup {NADA}]

TipoKernel ==
    /\ estado \in [Pids -> {"NEW", "READY", "BLOCKED", "SUSP_BLOCKED",
                            "SUSP_READY", "EXIT", "LIBERADO"}]
    /\ cpu \in [Pids -> {Nil} \cup [pag : Nat, marco : Marcos]]
    /\ escrituras \in 0 .. MaxEscrituras
    /\ vigilias \in [Pids -> 0 .. MaxVigilias]

TipoMarcos ==
    /\ bitmap \in SUBSET Marcos
    /\ contenido \in [Marcos -> Datos]

TipoSwap ==
    /\ maxBit \in Nat /\ bitsSwap \in SUBSET (0 .. maxBit - 1)
    /\ \A s \in DOMAIN swap : s \in Nat /\ swap[s] \in Datos
    /\ fallos \in 0 .. MaxFallos

TipoTablas ==
    /\ dicc \in SUBSET Pids
    /\ tabla \in [Pids -> [Hojas -> Entrada]]
    /\ asignadas \in [Pids -> Nat]

TipoAlta ==
    alta \in [pc : {"no", "espera", "asigna", "registra", "busca", "ocupa",
                    "lee", "ubica", "suelta"},
              pid : Pids \cup {Nil}, pag : Nat,
              marco : Marcos \cup {NADA}, slot : Nat \cup {NADA}]

TipoSusp ==
    susp \in [Pids -> [pc : {"no", "pedido", "recorre", "escrita", "ausente",
                             "anotada"},
                       pag : Nat, slot : Nat \cup {NADA}]]

TipoVolc ==
    /\ volc \in [Pids -> [pc : {"no", "pedido", "recorre", "marco", "slot"},
                          pag : Nat, lugar : Nat \cup {NADA}]]
    /\ DOMAIN dump = Pids
    /\ \A p \in Pids : \A h \in DOMAIN dump[p] :
         h \in Hojas /\ dump[p][h] \in Datos

TipoBaja == baja \in [pid : Pids \cup {Nil}, pag : Nat]

\* Types.  The slot that a thread holds and the bitmap that grows are the parts
\* a slip would break: no thread names a slot past the bitmap.
TypeOK ==
    /\ TipoKernel /\ TipoMarcos /\ TipoSwap /\ TipoTablas
    /\ TipoAlta /\ TipoSusp /\ TipoVolc /\ TipoBaja

Ubicadas == {d \in Pids \X Hojas : tabla[d[1]][d[2]].marco # NADA}
MarcoDe(d) == tabla[d[1]][d[2]].marco

\* The bitmap marks exactly the frames that some page, or the page the planner
\* is bringing back, owns, and no frame has two owners: with frames released
\* without mutex_bitmap and searched without it (1374-1405, 973-995, 1451-1500).
MarcosPropios ==
    /\ bitmap = {MarcoDe(d) : d \in Ubicadas}
                  \cup (IF alta.pc \in {"lee", "ubica"}
                        THEN {alta.marco} ELSE {})
    /\ \A d, e \in Ubicadas : MarcoDe(d) = MarcoDe(e) => d = e
    /\ alta.pc \in {"ocupa", "lee", "ubica"} =>
          \A d \in Ubicadas : MarcoDe(d) # alta.marco

SlotsDeTablas == {d \in Pids \X Hojas : tabla[d[1]][d[2]].slot # NADA}
SlotsDeHilos  == {p \in Pids : susp[p].slot # NADA}

\* A slot of the swap file belongs to one page, is marked as long as it does,
\* and is not lost before: whatever the uninitialised bits of a bitmap that
\* grew say (1258-1322).
SlotsPropios ==
    LET slot(d) == tabla[d[1]][d[2]].slot IN
    /\ \A d \in SlotsDeTablas : slot(d) \in bitsSwap /\ slot(d) # alta.slot
    /\ \A p \in SlotsDeHilos :
         susp[p].slot \in bitsSwap /\ susp[p].slot # alta.slot
    /\ \A d, e \in SlotsDeTablas : slot(d) = slot(e) => d = e
    /\ \A p, q \in SlotsDeHilos : susp[p].slot = susp[q].slot => p = q
    /\ \A d \in SlotsDeTablas, p \in SlotsDeHilos : slot(d) # susp[p].slot

\* A process the kernel may run is in the dictionary (line 493 does not look)
\* with all its pages in main memory: the answers INIT_PROCESO_OK and
\* DESUSPENSION_OK, sent whatever the walks returned, are true.
ListoCompleto ==
    \A p \in Pids : estado[p] = "READY" =>
        p \in dicc /\ \A h \in Asignables(p) : tabla[p][h].presente

\* "Esta llamada ahora tiene garantizado el exito porque ya verificamos el
\* espacio" (648): the free frames were counted under a lock that was released,
\* but there is a frame for each page the planner still has to place.
AltaConLugar ==
    /\ alta.pc = "asigna" /\ alta.pag \in Asignables(alta.pid) =>
          Libres # {}
    /\ alta.pc = "busca" /\ alta.pag \in EnSwap(tabla[alta.pid], 0) =>
          Libres # {}

\* What the pages of p hold, wherever they are.
Valor(p) ==
    [h \in Asignables(p) |->
       LET e == tabla[p][h] IN
       IF e.presente THEN contenido[e.marco]
       ELSE IF e.slot # NADA THEN swap[e.slot]
       ELSE swap[susp[p].slot]]

\* A dump that ends, with DUMP_OK, holds every page of the process with its
\* contents, in a frame or in swap; "El proceso FUE suspendido mientras el dump
\* se realizaba" (kernel.c, 1414) is one of the two ends the kernel expects.
DumpFiel ==
    \A p \in Pids :
        volc[p].pc = "recorre" /\ volc[p].pag \notin Asignables(p) =>
            dump[p] = Valor(p)

\* Memoria as the kernel and the CPUs see it: a store that keeps the pages.
Lugar(p) ==
    IF p \notin dicc
    THEN IF p = baja.pid \/ estado[p] = "LIBERADO" THEN "fin" ELSE "no"
    ELSE IF \A h \in Asignables(p) : tabla[p][h].presente THEN "ram" ELSE "swap"

Almacen == INSTANCE AlmacenPaginas
             WITH Paginas <- [p \in Pids |-> Asignables(p)],
                  lugar <- [p \in Pids |-> Lugar(p)],
                  valor <- [p \in Pids |-> IF p \in dicc THEN Valor(p) ELSE Nil]

\* Admissions, suspensions, returns, dumps and ends, in any order and with
\* failed writes to swap, only ever change a page when its process writes it.
CumpleAlmacen == Almacen!Spec

=============================================================================
