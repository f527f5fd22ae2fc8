-------------------------------- MODULE Cpu --------------------------------
(***************************************************************************)
(* The CPU programs (src/cpu/src/cpu.c): the instruction cycle, the thread *)
(* that receives interrupts, the TLB and the page cache, over the page     *)
(* tables and frames Memoria keeps.  Each CPU program has its own          *)
(* configuration, and the kernel gives a process to one CPU at a time      *)
(* (UnaCpuPorProceso of Planificacion).                                    *)
(*                                                                         *)
(* Granularity.  An instruction, with the requests to Memoria it makes, is *)
(* one step: nobody else touches the pages of a process that executes.     *)
(* The look at INTERRUPCION_PENDIENTE that follows it is another, and the  *)
(* clean-up with the answer to the kernel a third.                         *)
(***************************************************************************)
EXTENDS Integers, FiniteSets, Sequences, FiniteSetsExt, Functions

CONSTANTS
    CPUs,           \* the CPU programs
    Pids,           \* the processes
    Nil,            \* the value -1 of a free entry
    Marcos,         \* frames of Memoria
    Desplazamientos,\* the offsets within a page that the programs use
    Valores,        \* what a program writes, and 0
    NumPaginas,     \* pages of each process
    Programas,      \* the programs each process may have
    MaxDesalojos,   \* interrupts the kernel sends in all
    EntradasTlb,    \* ENTRADAS_TLB of each CPU
    EntradasCache,  \* ENTRADAS_CACHE of each CPU
    AlgTlb,         \* REEMPLAZO_TLB of each CPU: "LRU" or "FIFO"
    AlgCache        \* REEMPLAZO_CACHE of each CPU: "CLOCK" or "CLOCK-M"

Paginas == UNION {0 .. NumPaginas[p] - 1 : p \in Pids}
Pagina  == [Desplazamientos -> Valores]
EnBlanco == [d \in Desplazamientos |-> 0]

\* What ejecutar_instruccion tells apart; an unknown opcode is ERROR.  A program
\* may jump anywhere, and its addresses are not negative.
Instrucciones ==
    [op : {"NOOP", "INIT_PROC", "IO", "DUMP_MEMORY", "EXIT", "ERROR"}]
    \cup [op : {"GOTO"}, destino : Int]
    \cup [op : {"READ"}, pagina : Nat, desp : Nat]
    \cup [op : {"WRITE"}, pagina : Nat, desp : Nat, valor : Valores]

\* entrada_tlb and entrada_cache; the pid of a free entry is Nil.
EntradasDeTlb == [pid : Pids \cup {Nil}, pagina : Nat \cup {Nil},
                  marco : Marcos \cup {Nil}, sello : Nat]
EntradasDeCache == [pid : Pids \cup {Nil}, pagina : Nat \cup {Nil},
                    marco : Marcos \cup {Nil}, contenido : Pagina,
                    uso : BOOLEAN, modificado : BOOLEAN]

ASSUME CpuAssumption ==
    /\ Nil \notin CPUs \cup Pids \cup Marcos \cup Nat
    /\ 0 \in Valores
    /\ NumPaginas \in [Pids -> Nat] /\ MaxDesalojos \in Nat
    /\ Programas \in [Pids -> SUBSET Seq(Instrucciones)]
    /\ EntradasTlb \in [CPUs -> Nat] /\ EntradasCache \in [CPUs -> Nat]
    /\ AlgTlb \in [CPUs -> {"LRU", "FIFO"}]
    /\ AlgCache \in [CPUs -> {"CLOCK", "CLOCK-M"}]

VARIABLES
    programa,      \* the instructions Memoria has of each process
    ejec,          \* the process in ciclo_instruccion, or Nil
    etapa,         \* "libre", "ejecutar", "revisar" or "fin" of the cycle
    pc,            \* pcb_recibido->program_counter
    motivo,        \* motivo_finalizacion; "OK" while the burst goes on
    tlb,           \* the entries of the TLB
    punteroTlb,    \* puntero_tlb_fifo
    cache,         \* cache_paginas
    punteroClock,  \* puntero_clock_cache
    pendiente,     \* INTERRUPCION_PENDIENTE
    desalojos,     \* interrupts sent so far
    viaje,         \* an interrupt sent and not received yet
    tabla,         \* the page table of each process
    memoria,       \* the contents of the frames
    situacion,     \* what the kernel does with the process
    contexto,      \* the program counter the kernel keeps in the pcb
    logico,        \* what the program has written, page by page
    ultima,        \* instruccion_actual: the last one fetched of each program
    siguiente      \* the instruction that comes after it in the program

mmuVars   == <<tlb, punteroTlb, cache, punteroClock>>
intVars   == <<pendiente, desalojos, viaje>>
cicloVars == <<ejec, etapa, pc, motivo>>
pcbVars   == <<situacion, contexto>>
trazaVars == <<ultima, siguiente>>
vars == <<programa, cicloVars, mmuVars, intVars, tabla, memoria, pcbVars,
          logico, trazaVars>>

----------------------------------------------------------------------------
\* The TLB.

TlbVacia(c) == [i \in 0 .. EntradasTlb[c] - 1 |->
                  [pid |-> Nil, pagina |-> Nil, marco |-> Nil, sello |-> 0]]

\* buscar_en_tlb: the entries that hold the page.
EnTlb(c, p, g) == {i \in DOMAIN tlb[c] : tlb[c][i].pid = p /\ tlb[c][i].pagina = g}

\* Only LRU reads the timestamps, and only their order matters: they are kept
\* as ranks.  Two accesses may fall in the same millisecond of the clock.
Ordenar(t) == [i \in DOMAIN t |->
    [t[i] EXCEPT !.sello =
        Cardinality({j \in DOMAIN t : t[j].sello < t[i].sello})]]
Sellar(c, t, i) ==
    IF AlgTlb[c] = "FIFO" THEN {t}
    ELSE LET ultimo == Max({t[j].sello : j \in DOMAIN t})
         IN {Ordenar([t EXCEPT ![i].sello = s]) : s \in {ultimo, ultimo + 1}}

\* reemplazar_en_tlb: LRU takes the first of the oldest.
VictimaTlb(c) ==
    IF AlgTlb[c] = "FIFO" THEN punteroTlb[c]
    ELSE Min({i \in DOMAIN tlb[c] : \A j \in DOMAIN tlb[c] :
                 tlb[c][i].sello <= tlb[c][j].sello})

\* Mutant of AgregarATlb: puntero_tlb_fifo does not wrap around.
AgregarATlbSinVuelta(c, p, g, f) ==
    LET libres == {i \in DOMAIN tlb[c] : tlb[c][i].pid = Nil}
        i      == IF libres # {} THEN Min(libres) ELSE VictimaTlb(c)
        nueva  == [pid |-> p, pagina |-> g, marco |-> f, sello |-> 0]
    IN IF EntradasTlb[c] = 0 THEN UNCHANGED <<tlb, punteroTlb>>
       ELSE /\ \E t \in Sellar(c, [tlb[c] EXCEPT ![i] = nueva], i) :
                  tlb' = [tlb EXCEPT ![c] = t]
            /\ punteroTlb' = IF libres = {} /\ AlgTlb[c] = "FIFO"
                             THEN [punteroTlb EXCEPT ![c] = @ + 1]
                             ELSE punteroTlb

\* agregar_a_tlb.
AgregarATlb(c, p, g, f) ==
    LET libres == {i \in DOMAIN tlb[c] : tlb[c][i].pid = Nil}
        i      == IF libres # {} THEN Min(libres) ELSE VictimaTlb(c)
        nueva  == [pid |-> p, pagina |-> g, marco |-> f, sello |-> 0]
    IN IF EntradasTlb[c] = 0 THEN UNCHANGED <<tlb, punteroTlb>>
       ELSE /\ \E t \in Sellar(c, [tlb[c] EXCEPT ![i] = nueva], i) :
                  tlb' = [tlb EXCEPT ![c] = t]
            /\ punteroTlb' = IF libres = {} /\ AlgTlb[c] = "FIFO"
                             THEN [punteroTlb EXCEPT ![c] = (@ + 1) % EntradasTlb[c]]
                             ELSE punteroTlb

\* The frame of the page, from the TLB or from Memoria.
Traducir(c, p, g, f) ==
    \/ \E i \in EnTlb(c, p, g) :
          /\ f = tlb[c][i].marco
          /\ \E t \in Sellar(c, tlb[c], i) : tlb' = [tlb EXCEPT ![c] = t]
          /\ UNCHANGED punteroTlb
    \/ /\ EnTlb(c, p, g) = {}
       /\ f = tabla[p][g]
       /\ AgregarATlb(c, p, g, f)

----------------------------------------------------------------------------
\* The page cache.

EntradaLibre == [pid |-> Nil, pagina |-> Nil, marco |-> Nil,
                 contenido |-> EnBlanco, uso |-> FALSE, modificado |-> FALSE]
Posiciones(c) == 0 .. EntradasCache[c] - 1
EnCache(c, p, g) ==
    {i \in Posiciones(c) : cache[c][i].pid = p /\ cache[c][i].pagina = g}

\* The position k places after the pointer, and the first one that qualifies.
Desde(c, k) == (punteroClock[c] + k) % EntradasCache[c]
PrimeraVuelta(c, S) == Min({k \in Posiciones(c) : Desde(c, k) \in S})
Sin(c, campo) == {i \in Posiciones(c) : ~cache[c][i][campo]}

\* CLOCK clears the use bits it finds up to the first that is clear; when all
\* are set it comes back to where it started.
VictimaClock(c) ==
    IF Sin(c, "uso") # {}
    THEN LET k == PrimeraVuelta(c, Sin(c, "uso"))
         IN [indice |-> Desde(c, k), bajados |-> {Desde(c, j) : j \in 0 .. k - 1}]
    ELSE [indice |-> punteroClock[c], bajados |-> Posiciones(c)]

\* CLOCK-M: (0,0) without touching anything; else (0,1), clearing the use bits
\* on the way; else, all of them clear, the same two searches again.
VictimaClockM(c) ==
    LET limpias == Sin(c, "uso") \cap Sin(c, "modificado")
    IN IF limpias # {}
       THEN [indice |-> Desde(c, PrimeraVuelta(c, limpias)), bajados |-> {}]
       ELSE IF Sin(c, "uso") # {} THEN VictimaClock(c)
       ELSE [indice |-> IF Sin(c, "modificado") # {}
                        THEN Desde(c, PrimeraVuelta(c, Sin(c, "modificado")))
                        ELSE punteroClock[c],
             bajados |-> Posiciones(c)]

\* enviar_pagina_a_memoria_principal for the modified pages among S.
ConVueltas(c, S) ==
    LET sucias == {i \in S : cache[c][i].modificado}
    IN [f \in Marcos |->
          IF \E i \in sucias : cache[c][i].marco = f
          THEN cache[c][CHOOSE i \in sucias : cache[c][i].marco = f].contenido
          ELSE memoria[f]]

\* insertar_en_cache: a free entry, or a victim that is written back if it was
\* modified.  CLOCK leaves the pointer on the victim, CLOCK-M after it.
InsertarEnCache(c, p, g, f, contenido, modificado) ==
    LET libres == {i \in Posiciones(c) : cache[c][i].pid = Nil}
        v      == IF AlgCache[c] = "CLOCK" THEN VictimaClock(c) ELSE VictimaClockM(c)
        nueva  == [pid |-> p, pagina |-> g, marco |-> f, contenido |-> contenido,
                   uso |-> TRUE, modificado |-> modificado]
    IN IF EntradasCache[c] = 0 THEN UNCHANGED <<cache, punteroClock, memoria>>
       ELSE IF libres # {}
       THEN /\ cache' = [cache EXCEPT ![c][Min(libres)] = nueva]
            /\ UNCHANGED <<punteroClock, memoria>>
       ELSE /\ cache' = [cache EXCEPT ![c] = [i \in Posiciones(c) |->
                  IF i = v.indice THEN nueva
                  ELSE IF i \in v.bajados THEN [cache[c][i] EXCEPT !.uso = FALSE]
                  ELSE cache[c][i]]]
            /\ memoria' = ConVueltas(c, {v.indice})
            /\ punteroClock' = [punteroClock EXCEPT ![c] =
                  IF AlgCache[c] = "CLOCK" THEN v.indice
                  ELSE (v.indice + 1) % EntradasCache[c]]

\* Mutant of Limpiar: the TLB is not emptied.
LimpiarSinTlb(c, p) ==
    LET suyas == {i \in Posiciones(c) : cache[c][i].pid = p}
    IN /\ cache' = [cache EXCEPT ![c] = [i \in Posiciones(c) |->
                       IF i \in suyas THEN EntradaLibre ELSE cache[c][i]]]
       /\ memoria' = ConVueltas(c, suyas)
       /\ UNCHANGED <<tlb, punteroTlb, punteroClock>>

\* limpiar_tlb and limpiar_cache_de_proceso: the first empties the TLB, the
\* second writes back and frees the entries of p and of no other process.
Limpiar(c, p) ==
    LET suyas == {i \in Posiciones(c) : cache[c][i].pid = p}
    IN /\ tlb' = [tlb EXCEPT ![c] = TlbVacia(c)]
       /\ punteroTlb' = [punteroTlb EXCEPT ![c] = 0]
       /\ cache' = [cache EXCEPT ![c] = [i \in Posiciones(c) |->
                       IF i \in suyas THEN EntradaLibre ELSE cache[c][i]]]
       /\ memoria' = ConVueltas(c, suyas)
       /\ UNCHANGED punteroClock

----------------------------------------------------------------------------
\* Memoria has the processes in distinct frames, and nothing has run yet.

Asignadas == UNION {Range(tabla[q]) : q \in {r \in Pids : situacion[r] # "fin"}}
Reparto(p, libres) == {t \in [0 .. NumPaginas[p] - 1 -> libres] : IsInjective(t)}

Init ==
    /\ programa \in {f \in [Pids -> UNION {Programas[p] : p \in Pids}] :
                       \A p \in Pids : f[p] \in Programas[p]}
    /\ ejec = [c \in CPUs |-> Nil] /\ etapa = [c \in CPUs |-> "libre"]
    /\ pc = [c \in CPUs |-> 0] /\ motivo = [c \in CPUs |-> "OK"]
    /\ tlb = [c \in CPUs |-> TlbVacia(c)] /\ punteroTlb = [c \in CPUs |-> 0]
    /\ cache = [c \in CPUs |-> [i \in Posiciones(c) |-> EntradaLibre]]
    /\ punteroClock = [c \in CPUs |-> 0]
    /\ pendiente = [c \in CPUs |-> FALSE]
    /\ desalojos = 0
    /\ viaje = [c \in CPUs |-> FALSE]
    /\ tabla \in {t \in [Pids -> UNION {Reparto(p, Marcos) : p \in Pids}] :
                    /\ \A p \in Pids : DOMAIN t[p] = 0 .. NumPaginas[p] - 1
                    /\ \A p, q \in Pids : p # q => Range(t[p]) \cap Range(t[q]) = {}}
    /\ memoria = [f \in Marcos |-> EnBlanco]
    /\ situacion = [p \in Pids |-> "lista"] /\ contexto = [p \in Pids |-> 0]
    /\ logico = [p \in Pids |-> [g \in 0 .. NumPaginas[p] - 1 |-> EnBlanco]]
    /\ ultima = [p \in Pids |-> 0] /\ siguiente = [p \in Pids |-> 0]

----------------------------------------------------------------------------
\* atender_conexiones_dispatch: a pcb arrives.
RecibirPcb(c, p) ==
    /\ etapa[c] = "libre"
    /\ situacion[p] = "lista"
    /\ situacion' = [situacion EXCEPT ![p] = "en_cpu"]
    /\ Limpiar(c, p)
    /\ ejec' = [ejec EXCEPT ![c] = p]
    /\ pc' = [pc EXCEPT ![c] = contexto[p]]
    /\ motivo' = [motivo EXCEPT ![c] = "OK"]
    /\ etapa' = [etapa EXCEPT ![c] = "ejecutar"]
    /\ UNCHANGED <<programa, intVars, tabla, contexto, logico, trazaVars>>

\* fetch: the instruction of Memoria at the program counter.
HayInstruccion(c) == pc[c] \in 0 .. Len(programa[ejec[c]]) - 1
Instruccion(c) == programa[ejec[c]][pc[c] + 1]

\* ERROR_PC_FUERA_DE_RANGO: out of the loop, without the look at the flag.
FetchFallido(c) ==
    /\ etapa[c] = "ejecutar"
    /\ ~HayInstruccion(c)
    /\ motivo' = [motivo EXCEPT ![c] = "ERROR"]
    /\ etapa' = [etapa EXCEPT ![c] = "fin"]
    /\ UNCHANGED <<programa, ejec, pc, mmuVars, intVars, tabla, memoria,
                   pcbVars, logico, trazaVars>>

\* What every instruction does: the program counter moves now for some of them.
Ejecuta(c, op, resultado, nuevoPc) ==
    /\ etapa[c] = "ejecutar"
    /\ HayInstruccion(c)
    /\ Instruccion(c).op = op
    /\ etapa' = [etapa EXCEPT ![c] = "revisar"]
    /\ motivo' = [motivo EXCEPT ![c] = resultado]
    /\ pc' = [pc EXCEPT ![c] = nuevoPc]
    /\ ultima' = [ultima EXCEPT ![ejec[c]] = pc[c]]
    /\ siguiente' = [siguiente EXCEPT ![ejec[c]] =
                        IF op = "GOTO" THEN nuevoPc ELSE pc[c] + 1]
    /\ UNCHANGED <<programa, ejec, intVars, tabla, pcbVars>>

\* An access is legal inside the page and inside the process: otherwise
\* SEGMENTATION_FAULT, before the cache is looked at or when Memoria is asked.
Accesible(c) == /\ Instruccion(c).desp \in Desplazamientos
                /\ Instruccion(c).pagina \in DOMAIN tabla[ejec[c]]

Acceso(c, op) == Ejecuta(c, op, "OK", pc[c]) /\ Accesible(c)

AccesoInvalido(c) ==
    \E op \in {"READ", "WRITE"} :
        /\ Ejecuta(c, op, "SEGMENTATION_FAULT", pc[c])
        /\ ~Accesible(c)
        /\ UNCHANGED <<mmuVars, memoria, logico>>

\* manejar_instruccion_read.
LeerDeCache(c) ==
    /\ Acceso(c, "READ")
    /\ \E i \in EnCache(c, ejec[c], Instruccion(c).pagina) :
          cache' = [cache EXCEPT ![c][i].uso = TRUE]
    /\ UNCHANGED <<tlb, punteroTlb, punteroClock, memoria, logico>>

LeerDeMemoria(c) ==
    /\ Acceso(c, "READ")
    /\ LET p == ejec[c]  g == Instruccion(c).pagina
       IN /\ EnCache(c, p, g) = {}
          /\ \E f \in Marcos :
                /\ Traducir(c, p, g, f)
                /\ InsertarEnCache(c, p, g, f, memoria[f], FALSE)
    /\ UNCHANGED logico

\* manejar_instruccion_write: memcpy of the data over the page.
Escrita(contenido, i) == [contenido EXCEPT ![i.desp] = i.valor]
Anotar(c) == logico' = [logico EXCEPT ![ejec[c]][Instruccion(c).pagina] =
                            Escrita(@, Instruccion(c))]

\* Mutant of EscribirEnCache: bit_modificado is not set.
EscribirEnCacheSinMarcar(c) ==
    /\ Acceso(c, "WRITE")
    /\ \E i \in EnCache(c, ejec[c], Instruccion(c).pagina) :
          cache' = [cache EXCEPT ![c][i] = [cache[c][i] EXCEPT
                       !.contenido = Escrita(@, Instruccion(c)), !.uso = TRUE]]
    /\ Anotar(c)
    /\ UNCHANGED <<tlb, punteroTlb, punteroClock, memoria>>

EscribirEnCache(c) ==
    /\ Acceso(c, "WRITE")
    /\ \E i \in EnCache(c, ejec[c], Instruccion(c).pagina) :
          cache' = [cache EXCEPT ![c][i] = [cache[c][i] EXCEPT
                       !.contenido = Escrita(@, Instruccion(c)),
                       !.modificado = TRUE, !.uso = TRUE]]
    /\ Anotar(c)
    /\ UNCHANGED <<tlb, punteroTlb, punteroClock, memoria>>

\* A write that misses the cache asks Memoria for the frame and not the TLB.
EscribirConFalta(c) ==
    /\ Acceso(c, "WRITE")
    /\ EntradasCache[c] > 0
    /\ LET p == ejec[c]  g == Instruccion(c).pagina  f == tabla[p][g]
       IN /\ EnCache(c, p, g) = {}
          /\ InsertarEnCache(c, p, g, f, Escrita(memoria[f], Instruccion(c)), TRUE)
    /\ Anotar(c)
    /\ UNCHANGED <<tlb, punteroTlb>>

EscribirDirecto(c) ==
    /\ Acceso(c, "WRITE")
    /\ EntradasCache[c] = 0
    /\ \E f \in Marcos :
          /\ Traducir(c, ejec[c], Instruccion(c).pagina, f)
          /\ memoria' = [memoria EXCEPT ![f] = Escrita(@, Instruccion(c))]
    /\ Anotar(c)
    /\ UNCHANGED <<cache, punteroClock>>

\* The instructions that do not touch memory.  IO and DUMP_MEMORY move the
\* program counter themselves; EXIT and an unknown instruction leave it.
OtraInstruccion(c) ==
    /\ \/ \E op \in {"NOOP", "INIT_PROC"} : Ejecuta(c, op, "OK", pc[c])
       \/ Ejecuta(c, "GOTO", "OK", Instruccion(c).destino)
       \/ \E op \in {"IO", "DUMP_MEMORY"} : Ejecuta(c, op, op, pc[c] + 1)
       \/ Ejecuta(c, "EXIT", "EXIT", pc[c])
       \/ Ejecuta(c, "ERROR", "ERROR", pc[c])
    /\ UNCHANGED <<mmuVars, memoria, logico>>

\* Mutant of Revisar: the program counter moves even when the burst ends.
RevisarAvanzando(c) ==
    /\ etapa[c] = "revisar"
    /\ LET sigue == motivo[c] = "OK" /\ ~pendiente[c]
       IN /\ etapa' = [etapa EXCEPT ![c] = IF sigue THEN "ejecutar" ELSE "fin"]
          /\ motivo' = [motivo EXCEPT ![c] =
                           IF pendiente[c] THEN "PROCESO_INTERRUPCION" ELSE @]
          /\ pc' = [pc EXCEPT ![c] =
                       IF programa[ejec[c]][ultima[ejec[c]] + 1].op # "GOTO"
                       THEN @ + 1 ELSE @]
    /\ pendiente' = [pendiente EXCEPT ![c] = FALSE]
    /\ UNCHANGED <<programa, ejec, mmuVars, desalojos, viaje, tabla, memoria,
                   pcbVars, logico, trazaVars>>

\* After each instruction, under mutex_interrupcion_pendiente: a pending
\* interrupt replaces whatever the instruction had to report.
Revisar(c) ==
    /\ etapa[c] = "revisar"
    /\ LET sigue == motivo[c] = "OK" /\ ~pendiente[c]
       IN /\ etapa' = [etapa EXCEPT ![c] = IF sigue THEN "ejecutar" ELSE "fin"]
          /\ motivo' = [motivo EXCEPT ![c] =
                           IF pendiente[c] THEN "PROCESO_INTERRUPCION" ELSE @]
          /\ pc' = [pc EXCEPT ![c] =
                       IF sigue /\ programa[ejec[c]][ultima[ejec[c]] + 1].op # "GOTO"
                       THEN @ + 1 ELSE @]
    /\ pendiente' = [pendiente EXCEPT ![c] = FALSE]
    /\ UNCHANGED <<programa, ejec, mmuVars, desalojos, viaje, tabla, memoria,
                   pcbVars, logico, trazaVars>>

\* The end of the burst: the clean-up, and only then the answer.  The kernel
\* keeps the program counter and decides from the reason.
Terminar(c) ==
    /\ etapa[c] = "fin"
    /\ Limpiar(c, ejec[c])
    /\ contexto' = [contexto EXCEPT ![ejec[c]] = pc[c]]
    /\ situacion' = [situacion EXCEPT ![ejec[c]] =
          CASE motivo[c] \in {"IO", "DUMP_MEMORY"} -> "bloqueada"
            [] motivo[c] = "PROCESO_INTERRUPCION"  -> "lista"
            [] OTHER                               -> "fin"]
    /\ ejec' = [ejec EXCEPT ![c] = Nil]
    /\ etapa' = [etapa EXCEPT ![c] = "libre"]
    /\ UNCHANGED <<programa, pc, motivo, intVars, tabla, logico, trazaVars>>

Ciclo(c) ==
    \/ \E p \in Pids : RecibirPcb(c, p)
    \/ FetchFallido(c) \/ AccesoInvalido(c)
    \/ LeerDeCache(c) \/ LeerDeMemoria(c)
    \/ EscribirEnCache(c) \/ EscribirConFalta(c) \/ EscribirDirecto(c)
    \/ OtraInstruccion(c)
    \/ Revisar(c) \/ Terminar(c)

----------------------------------------------------------------------------
\* Interrupts: desalojar_si_es_necesario_srt sends one for the process it
\* believes in the CPU, one at a time here, and it takes its time to arrive.
EnviarInterrupcion(c) ==
    /\ ejec[c] # Nil /\ ~viaje[c]
    /\ desalojos < MaxDesalojos
    /\ desalojos' = desalojos + 1
    /\ viaje' = [viaje EXCEPT ![c] = TRUE]
    /\ UNCHANGED <<programa, cicloVars, mmuVars, pendiente, tabla, memoria,
                   pcbVars, logico, trazaVars>>

\* hilo_escucha_interrupciones only sets the flag.
RecibirInterrupcion(c) ==
    /\ viaje[c]
    /\ pendiente' = [pendiente EXCEPT ![c] = TRUE]
    /\ viaje' = [viaje EXCEPT ![c] = FALSE]
    /\ UNCHANGED <<programa, cicloVars, mmuVars, desalojos, tabla, memoria,
                   pcbVars, logico, trazaVars>>

\* While a process is blocked Memoria may send its pages to swap and bring them
\* back to other frames; then the kernel makes it ready again.
Desbloquear(p) ==
    /\ situacion[p] = "bloqueada"
    /\ situacion' = [situacion EXCEPT ![p] = "lista"]
    /\ \E t \in Reparto(p, Marcos \ (Asignadas \ Range(tabla[p]))) :
          /\ tabla' = [tabla EXCEPT ![p] = t]
          /\ memoria' = [f \in Marcos |->
                IF f \in Range(t)
                THEN memoria[tabla[p][CHOOSE g \in DOMAIN t : t[g] = f]]
                ELSE memoria[f]]
    /\ UNCHANGED <<programa, cicloVars, mmuVars, intVars, contexto, logico,
                   trazaVars>>

Next == \/ \E c \in CPUs : Ciclo(c) \/ EnviarInterrupcion(c) \/ RecibirInterrupcion(c)
        \/ \E p \in Pids : Desbloquear(p)

Spec == Init /\ [][Next]_vars

----------------------------------------------------------------------------
\* Type invariant: every variable keeps its shape.
Motivos == {"OK", "IO", "DUMP_MEMORY", "EXIT", "ERROR", "SEGMENTATION_FAULT",
            "PROCESO_INTERRUPCION"}
TypeOK ==
    /\ DOMAIN programa = Pids /\ DOMAIN tabla = Pids /\ DOMAIN logico = Pids
    /\ DOMAIN tlb = CPUs /\ DOMAIN cache = CPUs
    /\ ejec \in [CPUs -> Pids \cup {Nil}]
    /\ etapa \in [CPUs -> {"libre", "ejecutar", "revisar", "fin"}]
    /\ pc \in [CPUs -> Int] /\ motivo \in [CPUs -> Motivos]
    /\ punteroTlb \in [CPUs -> Nat] /\ punteroClock \in [CPUs -> Nat]
    /\ \A c \in CPUs :
          /\ (ejec[c] = Nil) = (etapa[c] = "libre")
          /\ tlb[c] \in [0 .. EntradasTlb[c] - 1 -> EntradasDeTlb]
          /\ punteroTlb[c] \in DOMAIN tlb[c] \cup {0}
          /\ cache[c] \in [Posiciones(c) -> EntradasDeCache]
          /\ punteroClock[c] \in Posiciones(c) \cup {0}
    /\ pendiente \in [CPUs -> BOOLEAN] /\ desalojos \in 0 .. MaxDesalojos
    /\ viaje \in [CPUs -> BOOLEAN]
    /\ \A p \in Pids :
          /\ programa[p] \in Seq(Instrucciones)
          /\ tabla[p] \in Reparto(p, Marcos)
          /\ logico[p] \in [0 .. NumPaginas[p] - 1 -> Pagina]
    /\ memoria \in [Marcos -> Pagina]
    /\ situacion \in [Pids -> {"lista", "en_cpu", "bloqueada", "fin"}]
    /\ contexto \in [Pids -> Int]
    /\ ultima \in [Pids -> Int] /\ siguiente \in [Pids -> Int]

\* What c sees of page g of p: the cache first, then the frame the TLB or the
\* page table names.
Vista(c, p, g) ==
    IF EnCache(c, p, g) # {}
    THEN cache[c][CHOOSE i \in EnCache(c, p, g) : TRUE].contenido
    ELSE IF EnTlb(c, p, g) # {}
    THEN memoria[tlb[c][CHOOSE i \in EnTlb(c, p, g) : TRUE].marco]
    ELSE memoria[tabla[p][g]]

\* A program reads what it last wrote, whatever the TLB and the cache replaced,
\* whichever CPUs it went through and wherever its pages were brought back to.
Coherencia ==
    \A c \in CPUs : ejec[c] # Nil =>
        \A g \in DOMAIN tabla[ejec[c]] : Vista(c, ejec[c], g) = logico[ejec[c]][g]

\* When the kernel has a process back, every page it wrote is in Memoria: a
\* suspension, a dump or another CPU finds the last contents.
VueltaAMemoria ==
    \A p \in Pids : situacion[p] \in {"lista", "bloqueada"} =>
        \A g \in DOMAIN tabla[p] : memoria[tabla[p][g]] = logico[p][g]

\* The last instruction of p was one of these.
EsUltima(p, ops) == /\ ultima[p] + 1 \in DOMAIN programa[p]
                    /\ programa[p][ultima[p] + 1].op \in ops

\* Where the cycle leaves the program counter when a burst ends: GOTO, IO and
\* DUMP_MEMORY have moved it, after any other it is still on the instruction.
DondeQuedo(p) == IF EsUltima(p, {"GOTO", "IO", "DUMP_MEMORY"})
                 THEN siguiente[p] ELSE ultima[p]

\* Where a program goes on.  After the syscall that blocked it, at the
\* instruction that follows.  After an interrupt, at the one that was executed
\* last, which is executed again (INIT_PROC too), unless it had moved the program
\* counter: then where it left it, which after IO and DUMP_MEMORY is past a
\* request that nobody made (SyscallBloquea).  A process is blocked only by IO
\* or DUMP_MEMORY.
ReanudaDondeCorresponde ==
    \A p \in Pids :
        /\ situacion[p] = "bloqueada" => EsUltima(p, {"IO", "DUMP_MEMORY"})
        /\ situacion[p] \in {"bloqueada", "lista"} => contexto[p] = DondeQuedo(p)

\* "La instruccion causo un bloqueo (ej: IO)" (global.h, 113): a process that
\* leaves its CPU after an IO or a DUMP_MEMORY is blocked, or it has ended.
SyscallBloquea ==
    [][\A p \in Pids :
          situacion[p] = "en_cpu" /\ EsUltima(p, {"IO", "DUMP_MEMORY"}) =>
              situacion'[p] \in {"en_cpu", "bloqueada", "fin"}]_vars

============================================================================
