------------------------ MODULE PlanificacionLugares ------------------------
(***************************************************************************)
(* Where the pcb of a process may be.  The queues, the three lists and the *)
(* hands of the threads never share a process, whatever the algorithms and *)
(* the faults; what follows from it: one CPU per process, one place per    *)
(* process, states that agree with the queues, a final EXIT, and the       *)
(* refinements of CicloDeVida and DispositivoIO.                           *)
(***************************************************************************)
EXTENDS PlanificacionProofs

\* The processes of a queue.
EnCola(q) == ToSet(cola[q])

\* Listeners whose cpu->pcb_en_ejecucion is in cola_exec, and those that hold
\* a pcb they have taken out of it.
Ejecutando == {"avisar", "espera", "caida_lista", "caida_colas"}
Sosteniendo == {"EXIT", "ERROR", "ERROR_encolar", "IO", "DUMP", "INTERRUPCION"}
Duenios == Ejecutando \cup Sosteniendo \cup {"IO_pedir"}

Trabados == blocked \cup suspBlocked

----------------------------------------------------------------------------
\* The set of a queue, step by step.

LEMMA ConjuntoAlFrente ==
  ASSUME NEW S, NEW s \in Seq(S), NEW i \in DOMAIN s, IsInjective(s)
  PROVE  /\ ToSet(AlFrente(s, i)) = ToSet(s)
         /\ IsInjective(AlFrente(s, i))
  <1> DEFINE r == RemoveAt(s, i)
  <1>1. s[i] \in S /\ s[i] \in ToSet(s)
    BY LenProperties, ElementOfSeq DEF ToSet
  <1>2. r \in Seq(S) /\ ToSet(r) = ToSet(s) \ {s[i]} /\ IsInjective(r)
    BY TipoQuitar, ConjuntoSacar
  <1> HIDE DEF r
  <1>3. /\ ToSet(<<s[i]>> \o r) = ToSet(r) \cup {s[i]}
        /\ IsInjective(<<s[i]>> \o r)
    BY <1>1, <1>2, ConjuntoAnteponer
  <1> QED BY <1>1, <1>2, <1>3 DEF AlFrente, r

----------------------------------------------------------------------------
\* The invariant.

SinRepetir == \A q \in Colas : IsInjective(cola[q])

\* No process in two queues, in a queue and a list, or in the hands of a thread
\* and anywhere else.  Only cola_blocked and cola_suspended_blocked may keep a
\* process that is being finished: DumpSinConexion leaves it there, and so does
\* CaeDispositivo when a late cambiar_estado has hidden that it is blocked.
ColasAparte ==
    /\ \A q, r \in Colas : q # r => EnCola(q) \cap EnCola(r) = {}
    /\ \A q \in Colas : EnCola(q) \cap (exec \cup caidos \cup {liberador}) = {}
    /\ exec \cap caidos = {} /\ liberador \notin exec \cup caidos
TrabadosAparte ==
    /\ blocked \cap suspBlocked = {}
    /\ Trabados \cap exec = {}
    /\ \A q \in Colas \ {"exit"} : Trabados \cap EnCola(q) = {}
ManosAparte ==
    \A c \in CPUs : oyente[c] \in Sosteniendo =>
        /\ enCpu[c] \notin exec \cup Trabados \cup caidos \cup {liberador}
        /\ \A q \in Colas : enCpu[c] \notin EnCola(q)
Aparte == ColasAparte /\ TrabadosAparte /\ ManosAparte

\* Two listeners never answer for the same process, and the one that waits for
\* the answer of its CPU has the process in cola_exec.
DuenioUnico ==
    /\ \A c, d \in CPUs :
          /\ c # d /\ enCpu[c] # Nil /\ enCpu[c] = enCpu[d]
          /\ oyente[c] \in Duenios
          => oyente[d] \notin Duenios
    /\ \A c \in CPUs : oyente[c] \in Ejecutando => enCpu[c] \in exec \cup {Nil}

\* What will unblock a process is one thing only, of a process that is blocked
\* and not being finished.
MotivoUnico ==
    /\ pedidos \cap volcando = {}
    /\ pedidos \cup volcando \subseteq Trabados
    /\ (pedidos \cup volcando) \cap (EnCola("exit") \cup caidos
          \cup {liberador}) = {}
    /\ \A c \in CPUs : oyente[c] = "IO_pedir" =>
          /\ enCpu[c] \in Trabados
          /\ enCpu[c] \notin pedidos \cup volcando
          /\ enCpu[c] \notin EnCola("exit") \cup caidos \cup {liberador}
    /\ dispositivo => caidos = {}
    /\ saliendo \subseteq caidos \cup volcando
    /\ volcando \cap saliendo # {} => "dump_con" \in Fallas

\* A pcb that does not exist is nowhere.
NoExiste(p) ==
    /\ p \notin exec \cup caidos \cup {liberador} \cup pedidos \cup volcando
    /\ \A q \in Colas : p \notin EnCola(q)
    /\ \A c \in CPUs : oyente[c] \in Duenios => enCpu[c] # p

Existentes ==
    /\ \A p \in Pids : estado[p] = "NINGUNO" <=> p >= ultimoPid
    /\ \A p \in Pids : estado[p] \in {"NINGUNO", "LIBERADO"} => NoExiste(p)
    /\ \A p \in Pids : estado[p] = "NINGUNO" =>
          p \notin Trabados /\ \A c \in CPUs : enCpu[c] # p
EstadoConLugar ==
    /\ \A p \in Pids : estado[p] = "BLOCKED" =>
          /\ p \in blocked \cup caidos
          /\ p \in Trabados => p \notin EnCola("exit") \cup caidos \cup {liberador}
          /\ p \notin saliendo
    /\ \A p \in Pids : estado[p] = "SUSP_BLOCKED"
          => p \in suspBlocked \cup (caidos \ saliendo)
    /\ \A c \in CPUs : oyente[c] = "EXIT_avisar" =>
          \/ enCpu[c] \in EnCola("exit") \cup {liberador}
          \/ estado[enCpu[c]] = "LIBERADO"

\* A pcb that exists is somewhere, unless a thread has locked mutex_colas
\* twice.
EnAlgunLado(p) ==
    \/ p \in exec \cup Trabados \cup caidos \cup {liberador}
    \/ \E q \in Colas : p \in EnCola(q)
    \/ \E c \in CPUs : oyente[c] \in Sosteniendo /\ enCpu[c] = p
Existe == colasTrabado \/ \A p \in Pids :
             estado[p] \notin {"NINGUNO", "LIBERADO"} => EnAlgunLado(p)

\* A CPU marked free has no process and a listener that is alive.
LibreSinPcb == \A c \in CPUs : libre[c]
   => enCpu[c] = Nil /\ oyente[c] # "muerto"

\* Only SRT preempts.
SinDesalojos == AlgCorto # "SRT" => \A c \in CPUs :
    /\ interrumpida[c] = 0
    /\ oyente[c] \notin {"INTERRUPCION", "INT_avisar", "INT_desalojar"}

\* Without preemption the state of a process says where it is.
EstadosExactos == AlgCorto # "SRT" => \A p \in Pids :
    /\ p \in exec => estado[p] = "RUNNING"
    /\ \A c \in CPUs : oyente[c] \in Sosteniendo /\ enCpu[c] = p
          => estado[p] = IF oyente[c] = "ERROR_encolar" THEN "EXIT"
                         ELSE "RUNNING"
    /\ p \in EnCola("new") => estado[p] = "NEW"
    /\ p \in EnCola("ready") => estado[p] = "READY"
    /\ p \in EnCola("susp_ready") => estado[p] = "SUSP_READY"
    /\ p \in EnCola("exit") =>
          \/ estado[p] = "EXIT"
          \/ /\ estado[p] = "RUNNING"
             /\ \E c \in CPUs : oyente[c] = "EXIT_avisar" /\ enCpu[c] = p
          \/ "dump_con" \in Fallas
    /\ p = liberador => estado[p] = "EXIT"
    /\ p \in caidos => p \notin Trabados
    /\ p \in caidos \ saliendo => estado[p] \in {"BLOCKED", "SUSP_BLOCKED"}
    /\ p \in caidos \cap saliendo => estado[p] = "EXIT"
MotivosExactos == AlgCorto # "SRT" => \A p \in Pids :
    \/ p \in pedidos \cup (volcando \ saliendo)
    \/ \E c \in CPUs : oyente[c] = "IO_pedir" /\ enCpu[c] = p
    => /\ p \in blocked => estado[p] = "BLOCKED"
       /\ p \in suspBlocked => estado[p] = "SUSP_BLOCKED"

\* ... and a process that is RUNNING is in the hands of one CPU or its
\* listener.
Corriendo == AlgCorto # "SRT" => \A p \in Pids : estado[p] = "RUNNING" =>
    \E c \in CPUs : /\ enCpu[c] = p /\ ~libre[c]
                    /\ oyente[c] \in Ejecutando \cup Sosteniendo
                          \cup {"EXIT_avisar"}

\* Where no process is finished while it is blocked.
FinSinTrabar ==
    "dump_con" \notin Fallas /\ (AlgCorto = "SRT" => "io" \notin Fallas) =>
        /\ Trabados \cap (EnCola("exit") \cup caidos \cup {liberador}) = {}
        /\ \A p \in Pids : estado[p] = "LIBERADO" => p \notin Trabados
TrabadosExactos ==
    AlgCorto # "SRT" /\ "dump_con" \notin Fallas =>
        \A p \in Pids : /\ p \in blocked => estado[p] = "BLOCKED"
                        /\ p \in suspBlocked => estado[p] = "SUSP_BLOCKED"

\* Where no device disappears either, a blocked process has what unblocks it.
MotivoPresente ==
    /\ "io" \notin Fallas => dispositivo
    /\ AlgCorto # "SRT" /\ "dump_con" \notin Fallas /\ "io" \notin Fallas =>
          \A p \in Pids : p \in Trabados =>
              \/ p \in pedidos \cup volcando
              \/ \E c \in CPUs : oyente[c] = "IO_pedir" /\ enCpu[c] = p

\* Between the check of a suspension timer and its write nobody else has
\* mutex_colas: the process is still in cola_blocked and not being freed.
Vigilando == suspensor # Nil =>
    /\ suspensor \in blocked
    /\ suspensor \notin EnCola("exit") \cup caidos \cup {liberador}
    /\ estado[suspensor] # "LIBERADO"

Ubicado == /\ SinRepetir /\ Aparte /\ DuenioUnico /\ MotivoUnico
           /\ Existentes /\ EstadoConLugar /\ Existe /\ LibreSinPcb
           /\ EstadosExactos /\ MotivosExactos /\ Corriendo
           /\ FinSinTrabar /\ TrabadosExactos /\ MotivoPresente

----------------------------------------------------------------------------
\* What a step does to the queues.

LEMMA ColasIguales ==
  ASSUME UNCHANGED cola, SinRepetir
  PROVE  SinRepetir' /\ \A r \in Colas : EnCola(r)' = EnCola(r)
BY DEF SinRepetir, EnCola

LEMMA ColasAgregar ==
  ASSUME TypeOK, SinRepetir, NEW q \in Colas, NEW p \in Pids,
            p \notin EnCola(q),
         cola' = Encolar(q, p)
  PROVE  /\ SinRepetir'
         /\ EnCola(q)' = EnCola(q) \cup {p}
         /\ \A r \in Colas \ {q} : EnCola(r)' = EnCola(r)
  <1>1. cola \in [Colas -> Seq(Pids)]
    BY DEF TypeOK
  <1>2. cola'[q] = Append(cola[q], p) /\ \A r \in Colas \ {q} : cola'[r] =
           cola[r]
    BY <1>1 DEF Encolar
  <1>3. /\ ToSet(Append(cola[q], p)) = ToSet(cola[q]) \cup {p}
        /\ IsInjective(Append(cola[q], p))
    BY <1>1, ConjuntoAgregar DEF SinRepetir, EnCola
  <1>4. SinRepetir'
    BY <1>2, <1>3 DEF SinRepetir
  <1> QED BY <1>2, <1>3, <1>4 DEF EnCola

LEMMA ColasCabeza ==
  ASSUME TypeOK, SinRepetir, NEW q \in Colas, cola[q] # <<>>,
         cola' = [cola EXCEPT ![q] = Tail(@)]
  PROVE  /\ SinRepetir'
         /\ Head(cola[q]) \in EnCola(q)
         /\ EnCola(q)' = EnCola(q) \ {Head(cola[q])}
         /\ \A r \in Colas \ {q} : EnCola(r)' = EnCola(r)
  <1>1. cola \in [Colas -> Seq(Pids)]
    BY DEF TypeOK
  <1>2. cola'[q] = Tail(cola[q]) /\ \A r \in Colas \ {q} : cola'[r] = cola[r]
    BY <1>1
  <1>3. /\ Head(cola[q]) \in ToSet(cola[q])
        /\ ToSet(Tail(cola[q])) = ToSet(cola[q]) \ {Head(cola[q])}
        /\ IsInjective(Tail(cola[q]))
    BY <1>1, ConjuntoCabeza DEF SinRepetir
  <1>4. SinRepetir'
    BY <1>2, <1>3 DEF SinRepetir
  <1> QED BY <1>2, <1>3, <1>4 DEF EnCola

LEMMA ColasSacar ==
  ASSUME TypeOK, SinRepetir, NEW i \in DOMAIN cola["ready"],
         cola' = [cola EXCEPT !["ready"] = RemoveAt(@, i)]
  PROVE  /\ SinRepetir'
         /\ cola["ready"][i] \in EnCola("ready")
         /\ EnCola("ready")' = EnCola("ready") \ {cola["ready"][i]}
         /\ \A r \in Colas \ {"ready"} : EnCola(r)' = EnCola(r)
  <1>1. cola \in [Colas -> Seq(Pids)] /\ "ready" \in Colas
    BY DEF TypeOK, Colas
  <1>2. /\ cola'["ready"] = RemoveAt(cola["ready"], i)
        /\ \A r \in Colas \ {"ready"} : cola'[r] = cola[r]
    BY <1>1
  <1>3. /\ ToSet(RemoveAt(cola["ready"], i)) =
              ToSet(cola["ready"]) \ {cola["ready"][i]}
        /\ IsInjective(RemoveAt(cola["ready"], i))
    BY <1>1, ConjuntoSacar DEF SinRepetir
  <1>4. SinRepetir'
    BY <1>2, <1>3 DEF SinRepetir
  <1>5. cola["ready"][i] \in ToSet(cola["ready"])
    BY DEF ToSet
  <1> QED BY <1>2, <1>3, <1>4, <1>5 DEF EnCola

LEMMA ColasOrdenar ==
  ASSUME TypeOK, SinRepetir, NEW q \in Colas, NEW i \in DOMAIN cola[q],
         cola' = [cola EXCEPT ![q] = AlFrente(@, i)]
  PROVE  SinRepetir' /\ \A r \in Colas : EnCola(r)' = EnCola(r)
  <1>1. cola \in [Colas -> Seq(Pids)]
    BY DEF TypeOK
  <1>2. cola'[q] = AlFrente(cola[q], i) /\ \A r \in Colas \ {q} : cola'[r] =
           cola[r]
    BY <1>1
  <1>3. ToSet(AlFrente(cola[q], i)) = ToSet(cola[q])
           /\ IsInjective(AlFrente(cola[q], i))
    BY <1>1, ConjuntoAlFrente DEF SinRepetir
  <1>4. SinRepetir'
    BY <1>2, <1>3 DEF SinRepetir
  <1> QED BY <1>2, <1>3, <1>4 DEF EnCola

LEMMA ColasIngresar ==
  ASSUME TypeOK, Ubicado, NEW q \in {"new", "susp_ready"}, cola[q] # <<>>,
         NEW p, p = Head(cola[q]),
         cola' = [cola EXCEPT ![q] = Tail(@), !["ready"] = Append(@, p)]
  PROVE  /\ SinRepetir'
         /\ p \in EnCola(q)
         /\ EnCola(q)' = EnCola(q) \ {p}
         /\ EnCola("ready")' = EnCola("ready") \cup {p}
         /\ \A r \in Colas \ {q, "ready"} : EnCola(r)' = EnCola(r)
  <1>1. cola \in [Colas -> Seq(Pids)] /\ {q, "ready"} \subseteq Colas
           /\ q # "ready"
    BY DEF TypeOK, Colas
  <1>2. /\ cola'[q] = Tail(cola[q])
              /\ cola'["ready"] = Append(cola["ready"], p)
        /\ \A r \in Colas \ {q, "ready"} : cola'[r] = cola[r]
    BY <1>1
  <1>3. p \in Pids
    BY <1>1, HeadTailProperties
  <1>4. /\ p \in ToSet(cola[q])
        /\ ToSet(Tail(cola[q])) = ToSet(cola[q]) \ {p}
        /\ IsInjective(Tail(cola[q]))
    BY <1>1, ConjuntoCabeza DEF Ubicado, SinRepetir
  <1>5. p \notin ToSet(cola["ready"])
    BY <1>1, <1>4 DEF Ubicado, Aparte, ColasAparte, EnCola
  <1>6. /\ ToSet(Append(cola["ready"], p)) = ToSet(cola["ready"]) \cup {p}
        /\ IsInjective(Append(cola["ready"], p))
    BY <1>1, <1>3, <1>5, ConjuntoAgregar DEF Ubicado, SinRepetir
  <1>7. SinRepetir'
    BY <1>1, <1>2, <1>4, <1>6 DEF Ubicado, SinRepetir
  <1> QED BY <1>1, <1>2, <1>4, <1>6, <1>7 DEF EnCola

LEMMA EnColaEsPid ==
  ASSUME TypeOK, NEW q \in Colas
  PROVE  EnCola(q) \subseteq Pids
BY ConjuntoElemento DEF EnCola, TypeOK

----------------------------------------------------------------------------
\* One lemma per step that moves a process.  First what the step does to the
\* queues, then to everything else, then each part of the invariant.

LEMMA UbicadoQuieto ==
  ASSUME Ubicado,
         UNCHANGED <<colasTrabado, libre, estado, cola, exec, blocked,
            suspBlocked, enCpu, oyente,
                     ultimoPid, liberador, dispositivo, pedidos, caidos,
                     saliendo, volcando>>
  PROVE  Ubicado'
BY DEF Ubicado, SinRepetir, Aparte, ColasAparte, TrabadosAparte, ManosAparte,
   DuenioUnico, MotivoUnico, Existentes, EstadoConLugar, NoExiste, Trabados,
   EnCola, Existe, EnAlgunLado, LibreSinPcb, EstadosExactos, MotivosExactos,
   Corriendo, FinSinTrabar, TrabadosExactos, MotivoPresente

LEMMA UbicadoConectarDispatch ==
  ASSUME TypeOK, Punteros, Ubicado, SinDesalojos, SinOyente, NEW c \in CPUs,
  ConectarDispatch(c)
  PROVE  Ubicado'
  <1> USE DEF Ubicado, Aparte, Trabados, Duenios, Ejecutando, Sosteniendo,
      Colas
  <1>1. /\ SinRepetir'
        /\ \A r \in Colas : EnCola(r)' = EnCola(r)
    BY ColasIguales DEF ConectarDispatch, colaVars
  <1>2. /\ Nil \notin Pids
        /\ oyente[c] = "no"
        /\ UNCHANGED <<exec, blocked, suspBlocked, caidos, liberador,
           pedidos, volcando, dispositivo, saliendo, ultimoPid>>
        /\ oyente'[c] = "avisar"
        /\ \A d \in CPUs \ {c} : oyente'[d] = oyente[d]
        /\ enCpu'[c] = Nil
        /\ \A d \in CPUs \ {c} : enCpu'[d] = enCpu[d]
        /\ libre'[c] = TRUE
        /\ \A d \in CPUs \ {c} : libre'[d] = libre[d]
        /\ colasTrabado' = colasTrabado
        /\ estado' = estado
    BY CpusAssumption DEF ConectarDispatch, SinOyente, Nueva, TypeOK,
       Punteros, EnManos, colaVars, bolsaVars, cpuVars, semVars, susVars,
       ioVars, finVars, planVars, procVars
  <1>3. ColasAparte'
    BY <1>1, <1>2 DEF ColasAparte
  <1>4. TrabadosAparte'
    BY <1>1, <1>2 DEF TrabadosAparte
  <1>5. ManosAparte'
    BY <1>1, <1>2 DEF ManosAparte
  <1>6. DuenioUnico'
    BY <1>1, <1>2 DEF DuenioUnico
  <1>7. MotivoUnico'
    BY <1>1, <1>2 DEF MotivoUnico
  <1>8. Existentes'
    BY <1>1, <1>2 DEF Existentes, NoExiste
  <1>9. EstadoConLugar'
    BY <1>1, <1>2 DEF EstadoConLugar
  <1>10. Existe'
    BY <1>1, <1>2 DEF Existe, EnAlgunLado
  <1>11. LibreSinPcb'
    BY <1>1, <1>2 DEF LibreSinPcb
  <1>12. EstadosExactos'
    BY <1>1, <1>2 DEF EstadosExactos
  <1>13. MotivosExactos'
    BY <1>1, <1>2 DEF MotivosExactos
  <1>14. Corriendo'
    BY <1>1, <1>2 DEF Corriendo
  <1>15. FinSinTrabar'
    BY <1>1, <1>2 DEF FinSinTrabar
  <1>16. TrabadosExactos'
    BY <1>1, <1>2 DEF TrabadosExactos
  <1>17. MotivoPresente'
    BY <1>1, <1>2 DEF MotivoPresente
  <1> QED BY <1>1, <1>3, <1>4, <1>5, <1>6, <1>7, <1>8, <1>9, <1>10, <1>11,
      <1>12, <1>13, <1>14, <1>15, <1>16, <1>17

LEMMA UbicadoInterrupcionDesalojar ==
  ASSUME TypeOK, Punteros, Ubicado, SinDesalojos, NEW c \in CPUs,
  InterrupcionDesalojar(c)
  PROVE  Ubicado'
  <1> USE DEF Ubicado, Aparte, Trabados, Duenios, Ejecutando, Sosteniendo,
      Colas
  <1>1. /\ SinRepetir'
        /\ \A r \in Colas : EnCola(r)' = EnCola(r)
    BY ColasIguales DEF InterrupcionDesalojar, colaVars
  <1>2. /\ Nil \notin Pids
        /\ oyente[c] = "INT_desalojar"
        /\ UNCHANGED <<exec, blocked, suspBlocked, caidos, liberador,
           pedidos, volcando, dispositivo, saliendo, ultimoPid>>
        /\ oyente'[c] = "soltar"
        /\ \A d \in CPUs \ {c} : oyente'[d] = oyente[d]
        /\ enCpu' = enCpu
        /\ libre' = libre
        /\ colasTrabado' = colasTrabado
        /\ estado' = estado
    BY CpusAssumption DEF InterrupcionDesalojar, Nueva, TypeOK, Punteros,
       EnManos, colaVars, bolsaVars, cpuVars, semVars, susVars, ioVars, finVars,
       planVars, procVars
  <1>3. ColasAparte'
    BY <1>1, <1>2 DEF ColasAparte
  <1>4. TrabadosAparte'
    BY <1>1, <1>2 DEF TrabadosAparte
  <1>5. ManosAparte'
    BY <1>1, <1>2 DEF ManosAparte
  <1>6. DuenioUnico'
    BY <1>1, <1>2 DEF DuenioUnico
  <1>7. MotivoUnico'
    BY <1>1, <1>2 DEF MotivoUnico
  <1>8. Existentes'
    BY <1>1, <1>2 DEF Existentes, NoExiste
  <1>9. EstadoConLugar'
    BY <1>1, <1>2 DEF EstadoConLugar
  <1>10. Existe'
    BY <1>1, <1>2 DEF Existe, EnAlgunLado
  <1>11. LibreSinPcb'
    BY <1>1, <1>2 DEF LibreSinPcb
  <1>12. EstadosExactos'
    BY <1>1, <1>2 DEF EstadosExactos
  <1>13. MotivosExactos'
    BY <1>1, <1>2 DEF MotivosExactos
  <1>14. Corriendo'
    BY <1>1, <1>2 DEF Corriendo
  <1>15. FinSinTrabar'
    BY <1>1, <1>2 DEF FinSinTrabar
  <1>16. TrabadosExactos'
    BY <1>1, <1>2 DEF TrabadosExactos
  <1>17. MotivoPresente'
    BY <1>1, <1>2 DEF MotivoPresente
  <1> QED BY <1>1, <1>3, <1>4, <1>5, <1>6, <1>7, <1>8, <1>9, <1>10, <1>11,
      <1>12, <1>13, <1>14, <1>15, <1>16, <1>17

LEMMA UbicadoSoltarCpu ==
  ASSUME TypeOK, Punteros, Ubicado, SinDesalojos, NEW c \in CPUs, SoltarCpu(c)
  PROVE  Ubicado'
  <1> USE DEF Ubicado, Aparte, Trabados, Duenios, Ejecutando, Sosteniendo,
      Colas
  <1>1. /\ SinRepetir'
        /\ \A r \in Colas : EnCola(r)' = EnCola(r)
    BY ColasIguales DEF SoltarCpu, colaVars
  <1>2. /\ Nil \notin Pids
        /\ oyente[c] = "soltar"
        /\ UNCHANGED <<exec, blocked, suspBlocked, caidos, liberador,
           pedidos, volcando, dispositivo, saliendo, ultimoPid>>
        /\ oyente'[c] = "avisar"
        /\ \A d \in CPUs \ {c} : oyente'[d] = oyente[d]
        /\ enCpu'[c] = Nil
        /\ \A d \in CPUs \ {c} : enCpu'[d] = enCpu[d]
        /\ libre'[c] = TRUE
        /\ \A d \in CPUs \ {c} : libre'[d] = libre[d]
        /\ colasTrabado' = colasTrabado
        /\ estado' = estado
    BY CpusAssumption DEF SoltarCpu, Nueva, TypeOK, Punteros, EnManos,
       colaVars, bolsaVars, cpuVars, semVars, susVars, ioVars, finVars,
       planVars, procVars
  <1>3. ColasAparte'
    BY <1>1, <1>2 DEF ColasAparte
  <1>4. TrabadosAparte'
    BY <1>1, <1>2 DEF TrabadosAparte
  <1>5. ManosAparte'
    BY <1>1, <1>2 DEF ManosAparte
  <1>6. DuenioUnico'
    BY <1>1, <1>2 DEF DuenioUnico
  <1>7. MotivoUnico'
    BY <1>1, <1>2 DEF MotivoUnico
  <1>8. Existentes'
    BY <1>1, <1>2 DEF Existentes, NoExiste
  <1>9. EstadoConLugar'
    BY <1>1, <1>2 DEF EstadoConLugar
  <1>10. Existe'
    BY <1>1, <1>2 DEF Existe, EnAlgunLado
  <1>11. LibreSinPcb'
    BY <1>1, <1>2 DEF LibreSinPcb
  <1>12. EstadosExactos'
    BY <1>1, <1>2 DEF EstadosExactos
  <1>13. MotivosExactos'
    BY <1>1, <1>2 DEF MotivosExactos
  <1>14. Corriendo'
    BY <1>1, <1>2 DEF Corriendo
  <1>15. FinSinTrabar'
    BY <1>1, <1>2 DEF FinSinTrabar
  <1>16. TrabadosExactos'
    BY <1>1, <1>2 DEF TrabadosExactos
  <1>17. MotivoPresente'
    BY <1>1, <1>2 DEF MotivoPresente
  <1> QED BY <1>1, <1>3, <1>4, <1>5, <1>6, <1>7, <1>8, <1>9, <1>10, <1>11,
      <1>12, <1>13, <1>14, <1>15, <1>16, <1>17

LEMMA UbicadoAvisarCpu ==
  ASSUME TypeOK, Punteros, Ubicado, SinDesalojos, NEW c \in CPUs, AvisarCpu(c)
  PROVE  Ubicado'
  <1> USE DEF Ubicado, Aparte, Trabados, Duenios, Ejecutando, Sosteniendo,
      Colas
  <1>1. /\ SinRepetir'
        /\ \A r \in Colas : EnCola(r)' = EnCola(r)
    BY ColasIguales DEF AvisarCpu, colaVars
  <1>2. /\ Nil \notin Pids
        /\ oyente[c] = "avisar"
        /\ UNCHANGED <<exec, blocked, suspBlocked, caidos, liberador,
           pedidos, volcando, dispositivo, saliendo, ultimoPid>>
        /\ oyente'[c] = "espera"
        /\ \A d \in CPUs \ {c} : oyente'[d] = oyente[d]
        /\ enCpu' = enCpu
        /\ libre' = libre
        /\ colasTrabado' = colasTrabado
        /\ estado' = estado
    BY CpusAssumption DEF AvisarCpu, Nueva, TypeOK, Punteros, EnManos,
       colaVars, bolsaVars, cpuVars, semVars, susVars, ioVars, finVars,
       planVars, procVars
  <1>3. ColasAparte'
    BY <1>1, <1>2 DEF ColasAparte
  <1>4. TrabadosAparte'
    BY <1>1, <1>2 DEF TrabadosAparte
  <1>5. ManosAparte'
    BY <1>1, <1>2 DEF ManosAparte
  <1>6. DuenioUnico'
    BY <1>1, <1>2 DEF DuenioUnico
  <1>7. MotivoUnico'
    BY <1>1, <1>2 DEF MotivoUnico
  <1>8. Existentes'
    BY <1>1, <1>2 DEF Existentes, NoExiste
  <1>9. EstadoConLugar'
    BY <1>1, <1>2 DEF EstadoConLugar
  <1>10. Existe'
    BY <1>1, <1>2 DEF Existe, EnAlgunLado
  <1>11. LibreSinPcb'
    BY <1>1, <1>2 DEF LibreSinPcb
  <1>12. EstadosExactos'
    BY <1>1, <1>2 DEF EstadosExactos
  <1>13. MotivosExactos'
    BY <1>1, <1>2 DEF MotivosExactos
  <1>14. Corriendo'
    BY <1>1, <1>2 DEF Corriendo
  <1>15. FinSinTrabar'
    BY <1>1, <1>2 DEF FinSinTrabar
  <1>16. TrabadosExactos'
    BY <1>1, <1>2 DEF TrabadosExactos
  <1>17. MotivoPresente'
    BY <1>1, <1>2 DEF MotivoPresente
  <1> QED BY <1>1, <1>3, <1>4, <1>5, <1>6, <1>7, <1>8, <1>9, <1>10, <1>11,
      <1>12, <1>13, <1>14, <1>15, <1>16, <1>17

LEMMA UbicadoDetectarCaida ==
  ASSUME TypeOK, Punteros, Ubicado, SinDesalojos, NEW c \in CPUs,
  DetectarCaida(c)
  PROVE  Ubicado'
  <1> USE DEF Ubicado, Aparte, Trabados, Duenios, Ejecutando, Sosteniendo,
      Colas
  <1>1. /\ SinRepetir'
        /\ \A r \in Colas : EnCola(r)' = EnCola(r)
    BY ColasIguales DEF DetectarCaida, colaVars
  <1>2. /\ Nil \notin Pids
        /\ oyente[c] = "espera"
        /\ UNCHANGED <<exec, blocked, suspBlocked, caidos, liberador,
           pedidos, volcando, dispositivo, saliendo, ultimoPid>>
        /\ oyente'[c] = "caida_lista"
        /\ \A d \in CPUs \ {c} : oyente'[d] = oyente[d]
        /\ enCpu' = enCpu
        /\ libre' = libre
        /\ colasTrabado' = colasTrabado
        /\ estado' = estado
    BY CpusAssumption DEF DetectarCaida, Nueva, TypeOK, Punteros, EnManos,
       colaVars, bolsaVars, cpuVars, semVars, susVars, ioVars, finVars,
       planVars, procVars
  <1>3. ColasAparte'
    BY <1>1, <1>2 DEF ColasAparte
  <1>4. TrabadosAparte'
    BY <1>1, <1>2 DEF TrabadosAparte
  <1>5. ManosAparte'
    BY <1>1, <1>2 DEF ManosAparte
  <1>6. DuenioUnico'
    BY <1>1, <1>2 DEF DuenioUnico
  <1>7. MotivoUnico'
    BY <1>1, <1>2 DEF MotivoUnico
  <1>8. Existentes'
    BY <1>1, <1>2 DEF Existentes, NoExiste
  <1>9. EstadoConLugar'
    BY <1>1, <1>2 DEF EstadoConLugar
  <1>10. Existe'
    BY <1>1, <1>2 DEF Existe, EnAlgunLado
  <1>11. LibreSinPcb'
    BY <1>1, <1>2 DEF LibreSinPcb
  <1>12. EstadosExactos'
    BY <1>1, <1>2 DEF EstadosExactos
  <1>13. MotivosExactos'
    BY <1>1, <1>2 DEF MotivosExactos
  <1>14. Corriendo'
    BY <1>1, <1>2 DEF Corriendo
  <1>15. FinSinTrabar'
    BY <1>1, <1>2 DEF FinSinTrabar
  <1>16. TrabadosExactos'
    BY <1>1, <1>2 DEF TrabadosExactos
  <1>17. MotivoPresente'
    BY <1>1, <1>2 DEF MotivoPresente
  <1> QED BY <1>1, <1>3, <1>4, <1>5, <1>6, <1>7, <1>8, <1>9, <1>10, <1>11,
      <1>12, <1>13, <1>14, <1>15, <1>16, <1>17

LEMMA UbicadoQuitarCpu ==
  ASSUME TypeOK, Punteros, Ubicado, SinDesalojos, NEW c \in CPUs, QuitarCpu(c)
  PROVE  Ubicado'
  <1> USE DEF Ubicado, Aparte, Trabados, Duenios, Ejecutando, Sosteniendo,
      Colas
  <1>1. /\ SinRepetir'
        /\ \A r \in Colas : EnCola(r)' = EnCola(r)
    BY ColasIguales DEF QuitarCpu, colaVars
  <1>2. /\ Nil \notin Pids
        /\ oyente[c] = "caida_lista"
        /\ UNCHANGED <<exec, blocked, suspBlocked, caidos, liberador,
           pedidos, volcando, dispositivo, saliendo, ultimoPid>>
        /\ oyente'[c] = "caida_colas"
        /\ \A d \in CPUs \ {c} : oyente'[d] = oyente[d]
        /\ enCpu' = enCpu
        /\ libre' = libre
        /\ colasTrabado' = colasTrabado
        /\ estado' = estado
    BY CpusAssumption DEF QuitarCpu, Nueva, TypeOK, Punteros, EnManos,
       colaVars, bolsaVars, cpuVars, semVars, susVars, ioVars, finVars,
       planVars, procVars
  <1>3. ColasAparte'
    BY <1>1, <1>2 DEF ColasAparte
  <1>4. TrabadosAparte'
    BY <1>1, <1>2 DEF TrabadosAparte
  <1>5. ManosAparte'
    BY <1>1, <1>2 DEF ManosAparte
  <1>6. DuenioUnico'
    BY <1>1, <1>2 DEF DuenioUnico
  <1>7. MotivoUnico'
    BY <1>1, <1>2 DEF MotivoUnico
  <1>8. Existentes'
    BY <1>1, <1>2 DEF Existentes, NoExiste
  <1>9. EstadoConLugar'
    BY <1>1, <1>2 DEF EstadoConLugar
  <1>10. Existe'
    BY <1>1, <1>2 DEF Existe, EnAlgunLado
  <1>11. LibreSinPcb'
    BY <1>1, <1>2 DEF LibreSinPcb
  <1>12. EstadosExactos'
    BY <1>1, <1>2 DEF EstadosExactos
  <1>13. MotivosExactos'
    BY <1>1, <1>2 DEF MotivosExactos
  <1>14. Corriendo'
    BY <1>1, <1>2 DEF Corriendo
  <1>15. FinSinTrabar'
    BY <1>1, <1>2 DEF FinSinTrabar
  <1>16. TrabadosExactos'
    BY <1>1, <1>2 DEF TrabadosExactos
  <1>17. MotivoPresente'
    BY <1>1, <1>2 DEF MotivoPresente
  <1> QED BY <1>1, <1>3, <1>4, <1>5, <1>6, <1>7, <1>8, <1>9, <1>10, <1>11,
      <1>12, <1>13, <1>14, <1>15, <1>16, <1>17

LEMMA UbicadoExitAvisar ==
  ASSUME TypeOK, Punteros, Ubicado, SinDesalojos, NEW c \in CPUs,
  ExitAvisar(c)
  PROVE  Ubicado'
  <1> USE DEF Ubicado, Aparte, Trabados, Duenios, Ejecutando, Sosteniendo,
      Colas
  <1>1. /\ SinRepetir'
        /\ \A r \in Colas : EnCola(r)' = EnCola(r)
    BY ColasIguales DEF ExitAvisar, colaVars
  <1>2. /\ Nil \notin Pids
        /\ oyente[c] = "EXIT_avisar"
        /\ enCpu[c] \in Pids
        /\ \A d \in CPUs : oyente[d] = "EXIT_avisar" => enCpu[d] \in Pids
        /\ UNCHANGED <<exec, blocked, suspBlocked, caidos, liberador,
           pedidos, volcando, dispositivo, saliendo, ultimoPid>>
        /\ oyente'[c] = "soltar"
        /\ \A d \in CPUs \ {c} : oyente'[d] = oyente[d]
        /\ enCpu' = enCpu
        /\ libre' = libre
        /\ colasTrabado' = colasTrabado
        /\ estado'[enCpu[c]] = IF estado[enCpu[c]] = "LIBERADO"
              THEN "LIBERADO" ELSE "EXIT"
        /\ \A x \in Pids \ {enCpu[c]} : estado'[x] = estado[x]
    BY CpusAssumption DEF ExitAvisar, Nueva, TypeOK, Punteros, EnManos,
       colaVars, bolsaVars, cpuVars, semVars, susVars, ioVars, finVars,
       planVars, procVars
  <1>3. ColasAparte'
    BY <1>1, <1>2 DEF ColasAparte
  <1>4. TrabadosAparte'
    BY <1>1, <1>2 DEF TrabadosAparte
  <1>5. ManosAparte'
    BY <1>1, <1>2 DEF ManosAparte
  <1>6. DuenioUnico'
    BY <1>1, <1>2 DEF DuenioUnico
  <1>7. MotivoUnico'
    BY <1>1, <1>2 DEF MotivoUnico
  <1>8. Existentes'
    BY <1>1, <1>2 DEF Existentes, NoExiste
  <1>9. EstadoConLugar'
    BY <1>1, <1>2 DEF EstadoConLugar
  <1>10. Existe'
    BY <1>1, <1>2 DEF Existe, EnAlgunLado, Existentes
  <1>11. LibreSinPcb'
    BY <1>1, <1>2 DEF LibreSinPcb
  <1>12. EstadosExactos'
    BY <1>1, <1>2 DEF EstadosExactos, ColasAparte, ManosAparte, EstadoConLugar
  <1>13. MotivosExactos'
    BY <1>1, <1>2 DEF MotivosExactos, MotivoUnico, EstadoConLugar
  <1>14. Corriendo'
    BY <1>1, <1>2 DEF Corriendo
  <1>15. FinSinTrabar'
    BY <1>1, <1>2 DEF FinSinTrabar
  <1>16. TrabadosExactos'
    BY <1>1, <1>2 DEF TrabadosExactos, EstadosExactos, EstadoConLugar
  <1>17. MotivoPresente'
    BY <1>1, <1>2 DEF MotivoPresente
  <1> QED BY <1>1, <1>3, <1>4, <1>5, <1>6, <1>7, <1>8, <1>9, <1>10, <1>11,
      <1>12, <1>13, <1>14, <1>15, <1>16, <1>17

LEMMA UbicadoInterrupcionAvisar ==
  ASSUME TypeOK, Punteros, Ubicado, SinDesalojos, NEW c \in CPUs,
  InterrupcionAvisar(c)
  PROVE  Ubicado'
  <1> USE DEF Ubicado, Aparte, Trabados, Duenios, Ejecutando, Sosteniendo,
      Colas
  <1>1. /\ SinRepetir'
        /\ \A r \in Colas : EnCola(r)' = EnCola(r)
    BY ColasIguales DEF InterrupcionAvisar, colaVars
  <1>2. /\ Nil \notin Pids
        /\ oyente[c] = "INT_avisar"
        /\ enCpu[c] \in Pids
        /\ \A d \in CPUs : oyente[d] = "EXIT_avisar" => enCpu[d] \in Pids
        /\ UNCHANGED <<exec, blocked, suspBlocked, caidos, liberador,
           pedidos, volcando, dispositivo, saliendo, ultimoPid>>
        /\ oyente'[c] = "INT_desalojar"
        /\ \A d \in CPUs \ {c} : oyente'[d] = oyente[d]
        /\ enCpu' = enCpu
        /\ libre' = libre
        /\ colasTrabado' = colasTrabado
        /\ estado'[enCpu[c]] = IF estado[enCpu[c]] = "LIBERADO"
              THEN "LIBERADO" ELSE "READY"
        /\ \A x \in Pids \ {enCpu[c]} : estado'[x] = estado[x]
    BY CpusAssumption DEF InterrupcionAvisar, Nueva, TypeOK, Punteros,
       EnManos, colaVars, bolsaVars, cpuVars, semVars, susVars, ioVars, finVars,
       planVars, procVars
  <1>3. ColasAparte'
    BY <1>1, <1>2 DEF ColasAparte
  <1>4. TrabadosAparte'
    BY <1>1, <1>2 DEF TrabadosAparte
  <1>5. ManosAparte'
    BY <1>1, <1>2 DEF ManosAparte
  <1>6. DuenioUnico'
    BY <1>1, <1>2 DEF DuenioUnico
  <1>7. MotivoUnico'
    BY <1>1, <1>2 DEF MotivoUnico
  <1>8. Existentes'
    BY <1>1, <1>2 DEF Existentes, NoExiste
  <1>9. EstadoConLugar'
    BY <1>1, <1>2 DEF EstadoConLugar
  <1>10. Existe'
    BY <1>1, <1>2 DEF Existe, EnAlgunLado, Existentes
  <1>11. LibreSinPcb'
    BY <1>1, <1>2 DEF LibreSinPcb
  <1>12. EstadosExactos'
    BY <1>1, <1>2 DEF EstadosExactos, SinDesalojos
  <1>13. MotivosExactos'
    BY <1>1, <1>2 DEF MotivosExactos, SinDesalojos
  <1>14. Corriendo'
    BY <1>1, <1>2 DEF Corriendo
  <1>15. FinSinTrabar'
    BY <1>1, <1>2 DEF FinSinTrabar
  <1>16. TrabadosExactos'
    BY <1>1, <1>2 DEF TrabadosExactos, SinDesalojos
  <1>17. MotivoPresente'
    BY <1>1, <1>2 DEF MotivoPresente
  <1> QED BY <1>1, <1>3, <1>4, <1>5, <1>6, <1>7, <1>8, <1>9, <1>10, <1>11,
      <1>12, <1>13, <1>14, <1>15, <1>16, <1>17

LEMMA UbicadoPedirIo ==
  ASSUME TypeOK, Punteros, Ubicado, SinDesalojos, NEW c \in CPUs, PedirIo(c)
  PROVE  Ubicado'
  <1> USE DEF Ubicado, Aparte, Trabados, Duenios, Ejecutando, Sosteniendo,
      Colas
  <1>1. /\ SinRepetir'
        /\ \A r \in Colas : EnCola(r)' = EnCola(r)
    BY ColasIguales DEF PedirIo, colaVars
  <1>2. /\ Nil \notin Pids
        /\ oyente[c] = "IO_pedir"
        /\ enCpu[c] \in Pids
        /\ pedidos' = IF dispositivo THEN pedidos \cup {enCpu[c]} ELSE pedidos
        /\ UNCHANGED <<exec, blocked, suspBlocked, caidos, liberador,
           volcando, dispositivo, saliendo, ultimoPid>>
        /\ oyente'[c] = "soltar"
        /\ \A d \in CPUs \ {c} : oyente'[d] = oyente[d]
        /\ enCpu' = enCpu
        /\ libre' = libre
        /\ colasTrabado' = colasTrabado
        /\ estado' = estado
    BY CpusAssumption DEF PedirIo, Nueva, TypeOK, Punteros, EnManos,
       colaVars, bolsaVars, cpuVars, semVars, susVars, ioVars, finVars,
       planVars, procVars
  <1>3. ColasAparte'
    BY <1>1, <1>2 DEF ColasAparte
  <1>4. TrabadosAparte'
    BY <1>1, <1>2 DEF TrabadosAparte
  <1>5. ManosAparte'
    BY <1>1, <1>2 DEF ManosAparte
  <1>6. DuenioUnico'
    BY <1>1, <1>2 DEF DuenioUnico
  <1>7. MotivoUnico'
    BY <1>1, <1>2 DEF MotivoUnico, DuenioUnico
  <1>8. Existentes'
    BY <1>1, <1>2 DEF Existentes, NoExiste
  <1>9. EstadoConLugar'
    BY <1>1, <1>2 DEF EstadoConLugar
  <1>10. Existe'
    BY <1>1, <1>2 DEF Existe, EnAlgunLado
  <1>11. LibreSinPcb'
    BY <1>1, <1>2 DEF LibreSinPcb
  <1>12. EstadosExactos'
    BY <1>1, <1>2 DEF EstadosExactos
  <1>13. MotivosExactos'
    BY <1>1, <1>2 DEF MotivosExactos
  <1>14. Corriendo'
    BY <1>1, <1>2 DEF Corriendo
  <1>15. FinSinTrabar'
    BY <1>1, <1>2 DEF FinSinTrabar
  <1>16. TrabadosExactos'
    BY <1>1, <1>2 DEF TrabadosExactos
  <1>17. MotivoPresente'
    BY <1>1, <1>2 DEF MotivoPresente
  <1> QED BY <1>1, <1>3, <1>4, <1>5, <1>6, <1>7, <1>8, <1>9, <1>10, <1>11,
      <1>12, <1>13, <1>14, <1>15, <1>16, <1>17

LEMMA UbicadoBloquearPorDump ==
  ASSUME TypeOK, Punteros, Ubicado, SinDesalojos, NEW c \in CPUs,
  BloquearPorDump(c)
  PROVE  Ubicado'
  <1> USE DEF Ubicado, Aparte, Trabados, Duenios, Ejecutando, Sosteniendo,
      Colas
  <1>1. /\ SinRepetir'
        /\ \A r \in Colas : EnCola(r)' = EnCola(r)
    BY ColasIguales DEF BloquearPorDump, colaVars
  <1>2. /\ Nil \notin Pids
        /\ oyente[c] = "DUMP"
        /\ enCpu[c] \in Pids
        /\ \A d \in CPUs : oyente[d] = "EXIT_avisar" => enCpu[d] \in Pids
        /\ exec' = exec \ {enCpu[c]}
        /\ blocked' = blocked \cup {enCpu[c]}
        /\ volcando' = volcando \cup {enCpu[c]}
        /\ UNCHANGED <<suspBlocked, caidos, liberador, pedidos, dispositivo,
           saliendo, ultimoPid>>
        /\ oyente'[c] = "soltar"
        /\ \A d \in CPUs \ {c} : oyente'[d] = oyente[d]
        /\ enCpu' = enCpu
        /\ libre' = libre
        /\ colasTrabado' = colasTrabado
        /\ estado'[enCpu[c]] = "BLOCKED"
        /\ \A x \in Pids \ {enCpu[c]} : estado'[x] = estado[x]
    BY CpusAssumption DEF BloquearPorDump, Nueva, TypeOK, Punteros, EnManos,
       colaVars, bolsaVars, cpuVars, semVars, susVars, ioVars, finVars,
       planVars, procVars
  <1>3. ColasAparte'
    BY <1>1, <1>2 DEF ColasAparte
  <1>4. TrabadosAparte'
    BY <1>1, <1>2 DEF TrabadosAparte, ManosAparte
  <1>5. ManosAparte'
    BY <1>1, <1>2 DEF ManosAparte, DuenioUnico
  <1>6. DuenioUnico'
    BY <1>1, <1>2 DEF DuenioUnico
  <1>7. MotivoUnico'
    BY <1>1, <1>2 DEF MotivoUnico, ManosAparte
  <1>8. Existentes'
    BY <1>1, <1>2 DEF Existentes, NoExiste
  <1>9. EstadoConLugar'
    BY <1>1, <1>2 DEF EstadoConLugar, Existentes, NoExiste, ManosAparte,
       MotivoUnico
  <1>10. Existe'
    BY <1>1, <1>2 DEF Existe, EnAlgunLado
  <1>11. LibreSinPcb'
    BY <1>1, <1>2 DEF LibreSinPcb
  <1>12. EstadosExactos'
    BY <1>1, <1>2 DEF EstadosExactos, ManosAparte, DuenioUnico
  <1>13. MotivosExactos'
    BY <1>1, <1>2 DEF MotivosExactos, ManosAparte
  <1>14. Corriendo'
    BY <1>1, <1>2 DEF Corriendo
  <1>15. FinSinTrabar'
    BY <1>1, <1>2 DEF FinSinTrabar, ManosAparte
  <1>16. TrabadosExactos'
    BY <1>1, <1>2 DEF TrabadosExactos, ManosAparte
  <1>17. MotivoPresente'
    BY <1>1, <1>2 DEF MotivoPresente
  <1> QED BY <1>1, <1>3, <1>4, <1>5, <1>6, <1>7, <1>8, <1>9, <1>10, <1>11,
      <1>12, <1>13, <1>14, <1>15, <1>16, <1>17

LEMMA UbicadoRecibirInterrupcion ==
  ASSUME TypeOK, Punteros, Ubicado, SinDesalojos, NEW c \in CPUs,
  RecibirInterrupcion(c)
  PROVE  Ubicado'
  <1> USE DEF Ubicado, Aparte, Trabados, Duenios, Ejecutando, Sosteniendo,
      Colas
  <1>1. /\ SinRepetir'
        /\ \A r \in Colas : EnCola(r)' = EnCola(r)
    BY ColasIguales DEF RecibirInterrupcion, colaVars
  <1>2. /\ Nil \notin Pids
        /\ oyente[c] = "espera"
        /\ enCpu[c] \in Pids
        /\ exec' = exec \ {enCpu[c]}
        /\ UNCHANGED <<blocked, suspBlocked, caidos, liberador, pedidos,
           volcando, dispositivo, saliendo, ultimoPid>>
        /\ oyente'[c] = "INTERRUPCION"
        /\ \A d \in CPUs \ {c} : oyente'[d] = oyente[d]
        /\ enCpu' = enCpu
        /\ libre' = libre
        /\ colasTrabado' = colasTrabado
        /\ estado' = estado
    BY CpusAssumption DEF RecibirInterrupcion, Nueva, TypeOK, Punteros,
       EnManos, colaVars, bolsaVars, cpuVars, semVars, susVars, ioVars, finVars,
       planVars, procVars
  <1>3. ColasAparte'
    BY <1>1, <1>2 DEF ColasAparte
  <1>4. TrabadosAparte'
    BY <1>1, <1>2 DEF TrabadosAparte
  <1>5. ManosAparte'
    BY <1>1, <1>2 DEF ManosAparte, ColasAparte, TrabadosAparte, DuenioUnico
  <1>6. DuenioUnico'
    BY <1>1, <1>2 DEF DuenioUnico
  <1>7. MotivoUnico'
    BY <1>1, <1>2 DEF MotivoUnico
  <1>8. Existentes'
    BY <1>1, <1>2 DEF Existentes, NoExiste
  <1>9. EstadoConLugar'
    BY <1>1, <1>2 DEF EstadoConLugar
  <1>10. Existe'
    BY <1>1, <1>2 DEF Existe, EnAlgunLado
  <1>11. LibreSinPcb'
    BY <1>1, <1>2 DEF LibreSinPcb
  <1>12. EstadosExactos'
    BY <1>1, <1>2 DEF EstadosExactos, DuenioUnico
  <1>13. MotivosExactos'
    BY <1>1, <1>2 DEF MotivosExactos
  <1>14. Corriendo'
    BY <1>1, <1>2 DEF Corriendo
  <1>15. FinSinTrabar'
    BY <1>1, <1>2 DEF FinSinTrabar
  <1>16. TrabadosExactos'
    BY <1>1, <1>2 DEF TrabadosExactos
  <1>17. MotivoPresente'
    BY <1>1, <1>2 DEF MotivoPresente
  <1> QED BY <1>1, <1>3, <1>4, <1>5, <1>6, <1>7, <1>8, <1>9, <1>10, <1>11,
      <1>12, <1>13, <1>14, <1>15, <1>16, <1>17

LEMMA UbicadoRecibirRespuesta ==
  ASSUME TypeOK, Punteros, Ubicado, SinDesalojos, NEW c \in CPUs,
  NEW m \in {"EXIT", "IO", "DUMP", "ERROR"},
         RecibirRespuesta(c, m)
  PROVE  Ubicado'
  <1> USE DEF Ubicado, Aparte, Trabados, Duenios, Ejecutando, Sosteniendo,
      Colas
  <1>1. /\ SinRepetir'
        /\ \A r \in Colas : EnCola(r)' = EnCola(r)
    BY ColasIguales DEF RecibirRespuesta, colaVars
  <1>2. /\ Nil \notin Pids
        /\ oyente[c] = "espera"
        /\ enCpu[c] \in Pids
        /\ exec' = exec \ {enCpu[c]}
        /\ UNCHANGED <<blocked, suspBlocked, caidos, liberador, pedidos,
           volcando, dispositivo, saliendo, ultimoPid>>
        /\ oyente'[c] = m
        /\ \A d \in CPUs \ {c} : oyente'[d] = oyente[d]
        /\ enCpu' = enCpu
        /\ libre' = libre
        /\ colasTrabado' = colasTrabado
        /\ estado' = estado
    BY CpusAssumption DEF RecibirRespuesta, Nueva, TypeOK, Punteros,
       EnManos, colaVars, bolsaVars, cpuVars, semVars, susVars, ioVars, finVars,
       planVars, procVars
  <1>3. ColasAparte'
    BY <1>1, <1>2 DEF ColasAparte
  <1>4. TrabadosAparte'
    BY <1>1, <1>2 DEF TrabadosAparte
  <1>5. ManosAparte'
    BY <1>1, <1>2 DEF ManosAparte, ColasAparte, TrabadosAparte, DuenioUnico
  <1>6. DuenioUnico'
    BY <1>1, <1>2 DEF DuenioUnico
  <1>7. MotivoUnico'
    BY <1>1, <1>2 DEF MotivoUnico
  <1>8. Existentes'
    BY <1>1, <1>2 DEF Existentes, NoExiste
  <1>9. EstadoConLugar'
    BY <1>1, <1>2 DEF EstadoConLugar
  <1>10. Existe'
    BY <1>1, <1>2 DEF Existe, EnAlgunLado
  <1>11. LibreSinPcb'
    BY <1>1, <1>2 DEF LibreSinPcb
  <1>12. EstadosExactos'
    BY <1>1, <1>2 DEF EstadosExactos, DuenioUnico
  <1>13. MotivosExactos'
    BY <1>1, <1>2 DEF MotivosExactos
  <1>14. Corriendo'
    BY <1>1, <1>2 DEF Corriendo
  <1>15. FinSinTrabar'
    BY <1>1, <1>2 DEF FinSinTrabar
  <1>16. TrabadosExactos'
    BY <1>1, <1>2 DEF TrabadosExactos
  <1>17. MotivoPresente'
    BY <1>1, <1>2 DEF MotivoPresente
  <1> QED BY <1>1, <1>3, <1>4, <1>5, <1>6, <1>7, <1>8, <1>9, <1>10, <1>11,
      <1>12, <1>13, <1>14, <1>15, <1>16, <1>17

LEMMA UbicadoCrearProceso ==
  ASSUME TypeOK, Punteros, Ubicado, SinDesalojos, NEW c \in CPUs,
  CrearProceso(c)
  PROVE  Ubicado'
  <1> USE DEF Ubicado, Aparte, Trabados, Duenios, Ejecutando, Sosteniendo,
      Colas
  <1>0. ultimoPid \in Pids /\ ultimoPid \notin EnCola("new")
    BY DEF CrearProceso, TypeOK, Punteros, EnManos, Existentes, NoExiste
  <1>1. /\ SinRepetir'
        /\ EnCola("new")' = EnCola("new") \cup {ultimoPid}
        /\ \A r \in Colas \ {"new"} : EnCola(r)' = EnCola(r)
    BY <1>0, ColasAgregar DEF CrearProceso
  <1>2. /\ Nil \notin Pids
        /\ ultimoPid \in Pids /\ ultimoPid \in Nat
        /\ estado[ultimoPid] = "NINGUNO"
        /\ ultimoPid \notin Trabados
        /\ \A d \in CPUs : oyente[d] = "EXIT_avisar" => enCpu[d] \in Pids
        /\ ultimoPid' = ultimoPid + 1
        /\ UNCHANGED <<exec, blocked, suspBlocked, caidos, liberador,
           pedidos, volcando, dispositivo, saliendo>>
        /\ oyente' = oyente
        /\ enCpu' = enCpu
        /\ libre' = libre
        /\ colasTrabado' = colasTrabado
        /\ estado'[ultimoPid] = "NEW"
        /\ \A x \in Pids \ {ultimoPid} : estado'[x] = estado[x]
    BY CpusAssumption DEF CrearProceso, Existentes, Nueva, TypeOK, Punteros,
       EnManos, colaVars, bolsaVars, cpuVars, semVars, susVars, ioVars, finVars,
       planVars, procVars
  <1>3. ColasAparte'
    BY <1>1, <1>2 DEF ColasAparte, Existentes, NoExiste
  <1>4. TrabadosAparte'
    BY <1>1, <1>2 DEF TrabadosAparte
  <1>5. ManosAparte'
    BY <1>1, <1>2 DEF ManosAparte, Existentes
  <1>6. DuenioUnico'
    BY <1>1, <1>2 DEF DuenioUnico
  <1>7. MotivoUnico'
    BY <1>1, <1>2 DEF MotivoUnico
  <1>8. Existentes'
    BY <1>1, <1>2 DEF Existentes, NoExiste
  <1>9. EstadoConLugar'
    BY <1>1, <1>2 DEF EstadoConLugar
  <1>10. Existe'
    BY <1>1, <1>2 DEF Existe, EnAlgunLado
  <1>11. LibreSinPcb'
    BY <1>1, <1>2 DEF LibreSinPcb
  <1>12. EstadosExactos'
    BY <1>1, <1>2 DEF EstadosExactos
  <1>13. MotivosExactos'
    BY <1>1, <1>2 DEF MotivosExactos
  <1>14. Corriendo'
    BY <1>1, <1>2 DEF Corriendo
  <1>15. FinSinTrabar'
    BY <1>1, <1>2 DEF FinSinTrabar
  <1>16. TrabadosExactos'
    BY <1>1, <1>2 DEF TrabadosExactos
  <1>17. MotivoPresente'
    BY <1>1, <1>2 DEF MotivoPresente
  <1> QED BY <1>1, <1>3, <1>4, <1>5, <1>6, <1>7, <1>8, <1>9, <1>10, <1>11,
      <1>12, <1>13, <1>14, <1>15, <1>16, <1>17

LEMMA UbicadoExitEncolar ==
  ASSUME TypeOK, Punteros, Ubicado, SinDesalojos, NEW c \in CPUs,
  ExitEncolar(c)
  PROVE  Ubicado'
  <1> USE DEF Ubicado, Aparte, Trabados, Duenios, Ejecutando, Sosteniendo,
      Colas
  <1>0. enCpu[c] \in Pids /\ enCpu[c] \notin EnCola("exit")
    BY DEF ExitEncolar, TypeOK, Punteros, EnManos, ManosAparte
  <1>1. /\ SinRepetir'
        /\ EnCola("exit")' = EnCola("exit") \cup {enCpu[c]}
        /\ \A r \in Colas \ {"exit"} : EnCola(r)' = EnCola(r)
    BY <1>0, ColasAgregar DEF ExitEncolar
  <1>2. /\ Nil \notin Pids
        /\ oyente[c] = "EXIT"
        /\ enCpu[c] \in Pids
        /\ UNCHANGED <<exec, blocked, suspBlocked, caidos, liberador,
           pedidos, volcando, dispositivo, saliendo, ultimoPid>>
        /\ oyente'[c] = "EXIT_avisar"
        /\ \A d \in CPUs \ {c} : oyente'[d] = oyente[d]
        /\ enCpu' = enCpu
        /\ libre' = libre
        /\ colasTrabado' = colasTrabado
        /\ estado' = estado
    BY CpusAssumption DEF ExitEncolar, Nueva, TypeOK, Punteros, EnManos,
       colaVars, bolsaVars, cpuVars, semVars, susVars, ioVars, finVars,
       planVars, procVars
  <1>3. ColasAparte'
    BY <1>1, <1>2 DEF ColasAparte, ManosAparte
  <1>4. TrabadosAparte'
    BY <1>1, <1>2 DEF TrabadosAparte
  <1>5. ManosAparte'
    BY <1>1, <1>2 DEF ManosAparte, DuenioUnico
  <1>6. DuenioUnico'
    BY <1>1, <1>2 DEF DuenioUnico
  <1>7. MotivoUnico'
    BY <1>1, <1>2 DEF MotivoUnico, ManosAparte
  <1>8. Existentes'
    BY <1>1, <1>2 DEF Existentes, NoExiste
  <1>9. EstadoConLugar'
    BY <1>1, <1>2 DEF EstadoConLugar, ManosAparte
  <1>10. Existe'
    BY <1>1, <1>2 DEF Existe, EnAlgunLado
  <1>11. LibreSinPcb'
    BY <1>1, <1>2 DEF LibreSinPcb
  <1>12. EstadosExactos'
    BY <1>1, <1>2 DEF EstadosExactos
  <1>13. MotivosExactos'
    BY <1>1, <1>2 DEF MotivosExactos
  <1>14. Corriendo'
    BY <1>1, <1>2 DEF Corriendo
  <1>15. FinSinTrabar'
    BY <1>1, <1>2 DEF FinSinTrabar, ManosAparte
  <1>16. TrabadosExactos'
    BY <1>1, <1>2 DEF TrabadosExactos
  <1>17. MotivoPresente'
    BY <1>1, <1>2 DEF MotivoPresente
  <1> QED BY <1>1, <1>3, <1>4, <1>5, <1>6, <1>7, <1>8, <1>9, <1>10, <1>11,
      <1>12, <1>13, <1>14, <1>15, <1>16, <1>17

LEMMA UbicadoInterrupcionEncolar ==
  ASSUME TypeOK, Punteros, Ubicado, SinDesalojos, NEW c \in CPUs,
  InterrupcionEncolar(c)
  PROVE  Ubicado'
  <1> USE DEF Ubicado, Aparte, Trabados, Duenios, Ejecutando, Sosteniendo,
      Colas
  <1>0. enCpu[c] \in Pids /\ enCpu[c] \notin EnCola("ready")
    BY DEF InterrupcionEncolar, TypeOK, Punteros, EnManos, ManosAparte
  <1>1. /\ SinRepetir'
        /\ EnCola("ready")' = EnCola("ready") \cup {enCpu[c]}
        /\ \A r \in Colas \ {"ready"} : EnCola(r)' = EnCola(r)
    BY <1>0, ColasAgregar DEF InterrupcionEncolar
  <1>2. /\ Nil \notin Pids
        /\ oyente[c] = "INTERRUPCION"
        /\ enCpu[c] \in Pids
        /\ UNCHANGED <<exec, blocked, suspBlocked, caidos, liberador,
           pedidos, volcando, dispositivo, saliendo, ultimoPid>>
        /\ oyente'[c] = "INT_avisar"
        /\ \A d \in CPUs \ {c} : oyente'[d] = oyente[d]
        /\ enCpu' = enCpu
        /\ libre' = libre
        /\ colasTrabado' = colasTrabado
        /\ estado' = estado
    BY CpusAssumption DEF InterrupcionEncolar, Nueva, TypeOK, Punteros,
       EnManos, colaVars, bolsaVars, cpuVars, semVars, susVars, ioVars, finVars,
       planVars, procVars
  <1>3. ColasAparte'
    BY <1>1, <1>2 DEF ColasAparte, ManosAparte
  <1>4. TrabadosAparte'
    BY <1>1, <1>2 DEF TrabadosAparte, ManosAparte
  <1>5. ManosAparte'
    BY <1>1, <1>2 DEF ManosAparte, DuenioUnico
  <1>6. DuenioUnico'
    BY <1>1, <1>2 DEF DuenioUnico
  <1>7. MotivoUnico'
    BY <1>1, <1>2 DEF MotivoUnico
  <1>8. Existentes'
    BY <1>1, <1>2 DEF Existentes, NoExiste
  <1>9. EstadoConLugar'
    BY <1>1, <1>2 DEF EstadoConLugar
  <1>10. Existe'
    BY <1>1, <1>2 DEF Existe, EnAlgunLado
  <1>11. LibreSinPcb'
    BY <1>1, <1>2 DEF LibreSinPcb
  <1>12. EstadosExactos'
    BY <1>1, <1>2 DEF EstadosExactos, SinDesalojos
  <1>13. MotivosExactos'
    BY <1>1, <1>2 DEF MotivosExactos
  <1>14. Corriendo'
    BY <1>1, <1>2 DEF Corriendo, SinDesalojos
  <1>15. FinSinTrabar'
    BY <1>1, <1>2 DEF FinSinTrabar
  <1>16. TrabadosExactos'
    BY <1>1, <1>2 DEF TrabadosExactos
  <1>17. MotivoPresente'
    BY <1>1, <1>2 DEF MotivoPresente
  <1> QED BY <1>1, <1>3, <1>4, <1>5, <1>6, <1>7, <1>8, <1>9, <1>10, <1>11,
      <1>12, <1>13, <1>14, <1>15, <1>16, <1>17

LEMMA UbicadoErrorMarcar ==
  ASSUME TypeOK, Punteros, Ubicado, SinDesalojos, NEW c \in CPUs,
  ErrorMarcar(c)
  PROVE  Ubicado'
  <1> USE DEF Ubicado, Aparte, Trabados, Duenios, Ejecutando, Sosteniendo,
      Colas
  <1>1. /\ SinRepetir'
        /\ \A r \in Colas : EnCola(r)' = EnCola(r)
    BY ColasIguales DEF ErrorMarcar, colaVars
  <1>2. /\ Nil \notin Pids
        /\ oyente[c] = "ERROR"
        /\ enCpu[c] \in Pids
        /\ \A d \in CPUs : oyente[d] = "EXIT_avisar" => enCpu[d] \in Pids
        /\ UNCHANGED <<exec, blocked, suspBlocked, caidos, liberador,
           pedidos, volcando, dispositivo, saliendo, ultimoPid>>
        /\ oyente'[c] = "ERROR_encolar"
        /\ \A d \in CPUs \ {c} : oyente'[d] = oyente[d]
        /\ enCpu' = enCpu
        /\ libre' = libre
        /\ colasTrabado' = colasTrabado
        /\ estado'[enCpu[c]] = "EXIT"
        /\ \A x \in Pids \ {enCpu[c]} : estado'[x] = estado[x]
    BY CpusAssumption DEF ErrorMarcar, MarcarExit, Nueva, TypeOK,
       Punteros, EnManos, colaVars, bolsaVars, cpuVars, semVars, susVars,
       ioVars, finVars, planVars, procVars
  <1>3. ColasAparte'
    BY <1>1, <1>2 DEF ColasAparte, ManosAparte
  <1>4. TrabadosAparte'
    BY <1>1, <1>2 DEF TrabadosAparte
  <1>5. ManosAparte'
    BY <1>1, <1>2 DEF ManosAparte, DuenioUnico
  <1>6. DuenioUnico'
    BY <1>1, <1>2 DEF DuenioUnico
  <1>7. MotivoUnico'
    BY <1>1, <1>2 DEF MotivoUnico, ManosAparte
  <1>8. Existentes'
    BY <1>1, <1>2 DEF Existentes, NoExiste
  <1>9. EstadoConLugar'
    BY <1>1, <1>2 DEF EstadoConLugar, Existentes, NoExiste
  <1>10. Existe'
    BY <1>1, <1>2 DEF Existe, EnAlgunLado
  <1>11. LibreSinPcb'
    BY <1>1, <1>2 DEF LibreSinPcb
  <1>12. EstadosExactos'
    BY <1>1, <1>2 DEF EstadosExactos, ManosAparte, DuenioUnico
  <1>13. MotivosExactos'
    BY <1>1, <1>2 DEF MotivosExactos, ManosAparte
  <1>14. Corriendo'
    BY <1>1, <1>2 DEF Corriendo
  <1>15. FinSinTrabar'
    BY <1>1, <1>2 DEF FinSinTrabar, ManosAparte
  <1>16. TrabadosExactos'
    BY <1>1, <1>2 DEF TrabadosExactos, ManosAparte
  <1>17. MotivoPresente'
    BY <1>1, <1>2 DEF MotivoPresente
  <1> QED BY <1>1, <1>3, <1>4, <1>5, <1>6, <1>7, <1>8, <1>9, <1>10, <1>11,
      <1>12, <1>13, <1>14, <1>15, <1>16, <1>17

LEMMA UbicadoErrorEncolar ==
  ASSUME TypeOK, Punteros, Ubicado, SinDesalojos, NEW c \in CPUs,
  ErrorEncolar(c)
  PROVE  Ubicado'
  <1> USE DEF Ubicado, Aparte, Trabados, Duenios, Ejecutando, Sosteniendo,
      Colas
  <1>0. enCpu[c] \in Pids /\ enCpu[c] \notin EnCola("exit")
    BY DEF ErrorEncolar, TypeOK, Punteros, EnManos, ManosAparte
  <1>1. /\ SinRepetir'
        /\ EnCola("exit")' = EnCola("exit") \cup {enCpu[c]}
        /\ \A r \in Colas \ {"exit"} : EnCola(r)' = EnCola(r)
    BY <1>0, ColasAgregar DEF ErrorEncolar, EncolarExit
  <1>2. /\ Nil \notin Pids
        /\ oyente[c] = "ERROR_encolar"
        /\ enCpu[c] \in Pids
        /\ \A d \in CPUs : oyente[d] = "EXIT_avisar" => enCpu[d] \in Pids
        /\ UNCHANGED <<exec, blocked, suspBlocked, caidos, liberador,
           pedidos, volcando, dispositivo, saliendo, ultimoPid>>
        /\ oyente'[c] = "ERROR_avisar"
        /\ \A d \in CPUs \ {c} : oyente'[d] = oyente[d]
        /\ enCpu' = enCpu
        /\ libre' = libre
        /\ colasTrabado' = colasTrabado
        /\ estado' = estado
    BY CpusAssumption DEF ErrorEncolar, EncolarExit, Nueva, TypeOK,
       Punteros, EnManos, colaVars, bolsaVars, cpuVars, semVars, susVars,
       ioVars, finVars, planVars, procVars
  <1>3. ColasAparte'
    BY <1>1, <1>2 DEF ColasAparte, ManosAparte
  <1>4. TrabadosAparte'
    BY <1>1, <1>2 DEF TrabadosAparte
  <1>5. ManosAparte'
    BY <1>1, <1>2 DEF ManosAparte, DuenioUnico
  <1>6. DuenioUnico'
    BY <1>1, <1>2 DEF DuenioUnico
  <1>7. MotivoUnico'
    BY <1>1, <1>2 DEF MotivoUnico, ManosAparte
  <1>8. Existentes'
    BY <1>1, <1>2 DEF Existentes, NoExiste
  <1>9. EstadoConLugar'
    BY <1>1, <1>2 DEF EstadoConLugar, ManosAparte
  <1>10. Existe'
    BY <1>1, <1>2 DEF Existe, EnAlgunLado
  <1>11. LibreSinPcb'
    BY <1>1, <1>2 DEF LibreSinPcb
  <1>12. EstadosExactos'
    BY <1>1, <1>2 DEF EstadosExactos, ManosAparte, DuenioUnico
  <1>13. MotivosExactos'
    BY <1>1, <1>2 DEF MotivosExactos, ManosAparte
  <1>14. Corriendo'
    BY <1>1, <1>2 DEF Corriendo, EstadosExactos
  <1>15. FinSinTrabar'
    BY <1>1, <1>2 DEF FinSinTrabar, ManosAparte
  <1>16. TrabadosExactos'
    BY <1>1, <1>2 DEF TrabadosExactos, ManosAparte
  <1>17. MotivoPresente'
    BY <1>1, <1>2 DEF MotivoPresente
  <1> QED BY <1>1, <1>3, <1>4, <1>5, <1>6, <1>7, <1>8, <1>9, <1>10, <1>11,
      <1>12, <1>13, <1>14, <1>15, <1>16, <1>17

LEMMA UbicadoErrorAvisar ==
  ASSUME TypeOK, Punteros, Ubicado, SinDesalojos, NEW c \in CPUs,
  ErrorAvisar(c)
  PROVE  Ubicado'
  <1> USE DEF Ubicado, Aparte, Trabados, Duenios, Ejecutando, Sosteniendo,
      Colas
  <1>1. /\ SinRepetir'
        /\ \A r \in Colas : EnCola(r)' = EnCola(r)
    BY ColasIguales DEF ErrorAvisar, colaVars
  <1>2. /\ Nil \notin Pids
        /\ oyente[c] = "ERROR_avisar"
        /\ UNCHANGED <<exec, blocked, suspBlocked, caidos, liberador,
           pedidos, volcando, dispositivo, saliendo, ultimoPid>>
        /\ oyente'[c] = "soltar"
        /\ \A d \in CPUs \ {c} : oyente'[d] = oyente[d]
        /\ enCpu' = enCpu
        /\ libre' = libre
        /\ colasTrabado' = colasTrabado
        /\ estado' = estado
    BY CpusAssumption DEF ErrorAvisar, Nueva, TypeOK, Punteros,
       EnManos, colaVars, bolsaVars, cpuVars, semVars, susVars, ioVars, finVars,
       planVars, procVars
  <1>3. ColasAparte'
    BY <1>1, <1>2 DEF ColasAparte
  <1>4. TrabadosAparte'
    BY <1>1, <1>2 DEF TrabadosAparte
  <1>5. ManosAparte'
    BY <1>1, <1>2 DEF ManosAparte
  <1>6. DuenioUnico'
    BY <1>1, <1>2 DEF DuenioUnico
  <1>7. MotivoUnico'
    BY <1>1, <1>2 DEF MotivoUnico
  <1>8. Existentes'
    BY <1>1, <1>2 DEF Existentes, NoExiste
  <1>9. EstadoConLugar'
    BY <1>1, <1>2 DEF EstadoConLugar
  <1>10. Existe'
    BY <1>1, <1>2 DEF Existe, EnAlgunLado
  <1>11. LibreSinPcb'
    BY <1>1, <1>2 DEF LibreSinPcb
  <1>12. EstadosExactos'
    BY <1>1, <1>2 DEF EstadosExactos
  <1>13. MotivosExactos'
    BY <1>1, <1>2 DEF MotivosExactos
  <1>14. Corriendo'
    BY <1>1, <1>2 DEF Corriendo
  <1>15. FinSinTrabar'
    BY <1>1, <1>2 DEF FinSinTrabar
  <1>16. TrabadosExactos'
    BY <1>1, <1>2 DEF TrabadosExactos
  <1>17. MotivoPresente'
    BY <1>1, <1>2 DEF MotivoPresente
  <1> QED BY <1>1, <1>3, <1>4, <1>5, <1>6, <1>7, <1>8, <1>9, <1>10, <1>11,
      <1>12, <1>13, <1>14, <1>15, <1>16, <1>17

LEMMA UbicadoDumpSinConexion ==
  ASSUME TypeOK, Punteros, Ubicado, SinDesalojos, NEW p \in Pids,
  DumpSinConexion(p)
  PROVE  Ubicado'
  <1> USE DEF Ubicado, Aparte, Trabados, Duenios, Ejecutando, Sosteniendo,
      Colas
  <1>1. /\ SinRepetir'
        /\ \A r \in Colas : EnCola(r)' = EnCola(r)
    BY ColasIguales DEF DumpSinConexion, colaVars
  <1>2. /\ Nil \notin Pids
        /\ p \in volcando
        /\ "dump_con" \in Fallas
        /\ \A d \in CPUs : oyente[d] = "EXIT_avisar" => enCpu[d] \in Pids
        /\ saliendo' = saliendo \cup {p}
        /\ UNCHANGED <<exec, blocked, suspBlocked, caidos, liberador,
           pedidos, volcando, dispositivo, ultimoPid>>
        /\ oyente' = oyente
        /\ enCpu' = enCpu
        /\ libre' = libre
        /\ colasTrabado' = colasTrabado
        /\ estado'[p] = "EXIT"
        /\ \A x \in Pids \ {p} : estado'[x] = estado[x]
    BY CpusAssumption DEF DumpSinConexion, MarcarExit, Nueva, TypeOK,
       Punteros, EnManos, colaVars, bolsaVars, cpuVars, semVars, susVars,
       ioVars, finVars, planVars, procVars
  <1>3. ColasAparte'
    BY <1>1, <1>2 DEF ColasAparte, TrabadosAparte, MotivoUnico
  <1>4. TrabadosAparte'
    BY <1>1, <1>2 DEF TrabadosAparte
  <1>5. ManosAparte'
    BY <1>1, <1>2 DEF ManosAparte, MotivoUnico
  <1>6. DuenioUnico'
    BY <1>1, <1>2 DEF DuenioUnico
  <1>7. MotivoUnico'
    BY <1>1, <1>2 DEF MotivoUnico
  <1>8. Existentes'
    BY <1>1, <1>2 DEF Existentes, NoExiste
  <1>9. EstadoConLugar'
    BY <1>1, <1>2 DEF EstadoConLugar, Existentes, NoExiste
  <1>10. Existe'
    BY <1>1, <1>2 DEF Existe, EnAlgunLado, MotivoUnico
  <1>11. LibreSinPcb'
    BY <1>1, <1>2 DEF LibreSinPcb
  <1>12. EstadosExactos'
    BY <1>1, <1>2 DEF EstadosExactos, TrabadosAparte, ManosAparte, MotivoUnico
  <1>13. MotivosExactos'
    BY <1>1, <1>2 DEF MotivosExactos, MotivoUnico
  <1>14. Corriendo'
    BY <1>1, <1>2 DEF Corriendo
  <1>15. FinSinTrabar'
    BY <1>1, <1>2 DEF FinSinTrabar
  <1>16. TrabadosExactos'
    BY <1>1, <1>2 DEF TrabadosExactos
  <1>17. MotivoPresente'
    BY <1>1, <1>2 DEF MotivoPresente
  <1> QED BY <1>1, <1>3, <1>4, <1>5, <1>6, <1>7, <1>8, <1>9, <1>10, <1>11,
      <1>12, <1>13, <1>14, <1>15, <1>16, <1>17

LEMMA UbicadoDumpEncolar ==
  ASSUME TypeOK, Punteros, Ubicado, SinDesalojos, NEW p \in Pids,
  DumpEncolar(p)
  PROVE  Ubicado'
  <1> USE DEF Ubicado, Aparte, Trabados, Duenios, Ejecutando, Sosteniendo,
      Colas
  <1>0. p \in Pids /\ p \notin EnCola("exit")
    BY DEF DumpEncolar, TypeOK, Punteros, EnManos, MotivoUnico
  <1>1. /\ SinRepetir'
        /\ EnCola("exit")' = EnCola("exit") \cup {p}
        /\ \A r \in Colas \ {"exit"} : EnCola(r)' = EnCola(r)
    BY <1>0, ColasAgregar DEF DumpEncolar, EncolarExit
  <1>2. /\ Nil \notin Pids
        /\ p \in volcando
        /\ p \in saliendo /\ "dump_con" \in Fallas
        /\ saliendo' = saliendo \ {p}
        /\ \A d \in CPUs : oyente[d] = "EXIT_avisar" => enCpu[d] \in Pids
        /\ volcando' = volcando \ {p}
        /\ UNCHANGED <<exec, blocked, suspBlocked, caidos, liberador,
           pedidos, dispositivo, ultimoPid>>
        /\ oyente' = oyente
        /\ enCpu' = enCpu
        /\ libre' = libre
        /\ colasTrabado' = colasTrabado
        /\ estado' = estado
    BY CpusAssumption DEF DumpEncolar, MotivoUnico, EncolarExit, Nueva, TypeOK,
       Punteros, EnManos, colaVars, bolsaVars, cpuVars, semVars, susVars,
       ioVars, finVars, planVars, procVars
  <1>3. ColasAparte'
    BY <1>1, <1>2 DEF ColasAparte, TrabadosAparte, MotivoUnico
  <1>4. TrabadosAparte'
    BY <1>1, <1>2 DEF TrabadosAparte
  <1>5. ManosAparte'
    BY <1>1, <1>2 DEF ManosAparte, MotivoUnico
  <1>6. DuenioUnico'
    BY <1>1, <1>2 DEF DuenioUnico
  <1>7. MotivoUnico'
    BY <1>1, <1>2 DEF MotivoUnico
  <1>8. Existentes'
    BY <1>1, <1>2 DEF Existentes, NoExiste
  <1>9. EstadoConLugar'
    BY <1>1, <1>2 DEF EstadoConLugar
  <1>10. Existe'
    BY <1>1, <1>2 DEF Existe, EnAlgunLado
  <1>11. LibreSinPcb'
    BY <1>1, <1>2 DEF LibreSinPcb
  <1>12. EstadosExactos'
    BY <1>1, <1>2 DEF EstadosExactos, TrabadosAparte, ManosAparte, MotivoUnico
  <1>13. MotivosExactos'
    BY <1>1, <1>2 DEF MotivosExactos, MotivoUnico
  <1>14. Corriendo'
    BY <1>1, <1>2 DEF Corriendo
  <1>15. FinSinTrabar'
    BY <1>1, <1>2 DEF FinSinTrabar
  <1>16. TrabadosExactos'
    BY <1>1, <1>2 DEF TrabadosExactos
  <1>17. MotivoPresente'
    BY <1>1, <1>2 DEF MotivoPresente
  <1> QED BY <1>1, <1>3, <1>4, <1>5, <1>6, <1>7, <1>8, <1>9, <1>10, <1>11,
      <1>12, <1>13, <1>14, <1>15, <1>16, <1>17

LEMMA UbicadoFinalizarCaido ==
  ASSUME TypeOK, Punteros, Ubicado, SinDesalojos, NEW p \in Pids,
  FinalizarCaido(p)
  PROVE  Ubicado'
  <1> USE DEF Ubicado, Aparte, Trabados, Duenios, Ejecutando, Sosteniendo,
      Colas
  <1>1. /\ SinRepetir'
        /\ \A r \in Colas : EnCola(r)' = EnCola(r)
    BY ColasIguales DEF FinalizarCaido, colaVars
  <1>2. /\ Nil \notin Pids
        /\ p \in caidos
        /\ \A d \in CPUs : oyente[d] = "EXIT_avisar" => enCpu[d] \in Pids
        /\ saliendo' = saliendo \cup {p}
        /\ UNCHANGED <<exec, blocked, suspBlocked, caidos, liberador,
           pedidos, volcando, dispositivo, ultimoPid>>
        /\ oyente' = oyente
        /\ enCpu' = enCpu
        /\ libre' = libre
        /\ colasTrabado' = colasTrabado
        /\ estado'[p] = "EXIT"
        /\ \A x \in Pids \ {p} : estado'[x] = estado[x]
    BY CpusAssumption DEF FinalizarCaido, MarcarExit, Nueva, TypeOK,
       Punteros, EnManos, colaVars, bolsaVars, cpuVars, semVars, susVars,
       ioVars, finVars, planVars, procVars
  <1>3. ColasAparte'
    BY <1>1, <1>2 DEF ColasAparte
  <1>4. TrabadosAparte'
    BY <1>1, <1>2 DEF TrabadosAparte
  <1>5. ManosAparte'
    BY <1>1, <1>2 DEF ManosAparte
  <1>6. DuenioUnico'
    BY <1>1, <1>2 DEF DuenioUnico
  <1>7. MotivoUnico'
    BY <1>1, <1>2 DEF MotivoUnico
  <1>8. Existentes'
    BY <1>1, <1>2 DEF Existentes, NoExiste
  <1>9. EstadoConLugar'
    BY <1>1, <1>2 DEF EstadoConLugar, Existentes, NoExiste
  <1>10. Existe'
    BY <1>1, <1>2 DEF Existe, EnAlgunLado
  <1>11. LibreSinPcb'
    BY <1>1, <1>2 DEF LibreSinPcb
  <1>12. EstadosExactos'
    BY <1>1, <1>2 DEF EstadosExactos
  <1>13. MotivosExactos'
    BY <1>1, <1>2 DEF MotivosExactos, MotivoUnico
  <1>14. Corriendo'
    BY <1>1, <1>2 DEF Corriendo
  <1>15. FinSinTrabar'
    BY <1>1, <1>2 DEF FinSinTrabar
  <1>16. TrabadosExactos'
    BY <1>1, <1>2 DEF TrabadosExactos, EstadosExactos
  <1>17. MotivoPresente'
    BY <1>1, <1>2 DEF MotivoPresente
  <1> QED BY <1>1, <1>3, <1>4, <1>5, <1>6, <1>7, <1>8, <1>9, <1>10, <1>11,
      <1>12, <1>13, <1>14, <1>15, <1>16, <1>17

LEMMA UbicadoCaidoEncolar ==
  ASSUME TypeOK, Punteros, Ubicado, SinDesalojos, NEW p \in Pids,
  CaidoEncolar(p)
  PROVE  Ubicado'
  <1> USE DEF Ubicado, Aparte, Trabados, Duenios, Ejecutando, Sosteniendo,
      Colas
  <1>0. p \in Pids /\ p \notin EnCola("exit")
    BY DEF CaidoEncolar, TypeOK, Punteros, EnManos, ColasAparte
  <1>1. /\ SinRepetir'
        /\ EnCola("exit")' = EnCola("exit") \cup {p}
        /\ \A r \in Colas \ {"exit"} : EnCola(r)' = EnCola(r)
    BY <1>0, ColasAgregar DEF CaidoEncolar, EncolarExit
  <1>2. /\ Nil \notin Pids
        /\ p \in caidos /\ p \in saliendo
        /\ saliendo' = saliendo \ {p}
        /\ \A d \in CPUs : oyente[d] = "EXIT_avisar" => enCpu[d] \in Pids
        /\ caidos' = caidos \ {p}
        /\ UNCHANGED <<exec, blocked, suspBlocked, liberador, pedidos,
           volcando, dispositivo, ultimoPid>>
        /\ oyente' = oyente
        /\ enCpu' = enCpu
        /\ libre' = libre
        /\ colasTrabado' = colasTrabado
        /\ estado' = estado
    BY CpusAssumption DEF CaidoEncolar, EncolarExit, Nueva, TypeOK,
       Punteros, EnManos, colaVars, bolsaVars, cpuVars, semVars, susVars,
       ioVars, finVars, planVars, procVars
  <1>3. ColasAparte'
    BY <1>1, <1>2 DEF ColasAparte
  <1>4. TrabadosAparte'
    BY <1>1, <1>2 DEF TrabadosAparte
  <1>5. ManosAparte'
    BY <1>1, <1>2 DEF ManosAparte
  <1>6. DuenioUnico'
    BY <1>1, <1>2 DEF DuenioUnico
  <1>7. MotivoUnico'
    BY <1>1, <1>2 DEF MotivoUnico
  <1>8. Existentes'
    BY <1>1, <1>2 DEF Existentes, NoExiste
  <1>9. EstadoConLugar'
    BY <1>1, <1>2 DEF EstadoConLugar
  <1>10. Existe'
    BY <1>1, <1>2 DEF Existe, EnAlgunLado
  <1>11. LibreSinPcb'
    BY <1>1, <1>2 DEF LibreSinPcb
  <1>12. EstadosExactos'
    BY <1>1, <1>2 DEF EstadosExactos
  <1>13. MotivosExactos'
    BY <1>1, <1>2 DEF MotivosExactos, MotivoUnico
  <1>14. Corriendo'
    BY <1>1, <1>2 DEF Corriendo
  <1>15. FinSinTrabar'
    BY <1>1, <1>2 DEF FinSinTrabar
  <1>16. TrabadosExactos'
    BY <1>1, <1>2 DEF TrabadosExactos, EstadosExactos
  <1>17. MotivoPresente'
    BY <1>1, <1>2 DEF MotivoPresente
  <1> QED BY <1>1, <1>3, <1>4, <1>5, <1>6, <1>7, <1>8, <1>9, <1>10, <1>11,
      <1>12, <1>13, <1>14, <1>15, <1>16, <1>17

LEMMA UbicadoBloquearPorIo ==
  ASSUME TypeOK, Punteros, Ubicado, SinDesalojos, NEW c \in CPUs,
  BloquearPorIo(c)
  PROVE  Ubicado'
  <1> USE DEF Ubicado, Aparte, Trabados, Duenios, Ejecutando, Sosteniendo,
      Colas
  <1>1. CASE dispositivo
    <2>1. /\ SinRepetir'
          /\ \A r \in Colas : EnCola(r)' = EnCola(r)
      BY ColasIguales DEF BloquearPorIo, colaVars
    <2>2. /\ Nil \notin Pids
          /\ oyente[c] = "IO"
          /\ enCpu[c] \in Pids
          /\ dispositivo
          /\ \A d \in CPUs : oyente[d] = "EXIT_avisar" => enCpu[d] \in Pids
          /\ exec' = exec \ {enCpu[c]}
          /\ blocked' = blocked \cup {enCpu[c]}
          /\ UNCHANGED <<suspBlocked, caidos, liberador, pedidos, volcando,
             dispositivo, saliendo, ultimoPid>>
          /\ oyente'[c] = "IO_pedir"
          /\ \A d \in CPUs \ {c} : oyente'[d] = oyente[d]
          /\ enCpu' = enCpu
          /\ libre' = libre
          /\ colasTrabado' = colasTrabado
          /\ estado'[enCpu[c]] = "BLOCKED"
          /\ \A x \in Pids \ {enCpu[c]} : estado'[x] = estado[x]
      BY <1>1, CpusAssumption DEF BloquearPorIo, Nueva, TypeOK, Punteros,
         EnManos, colaVars, bolsaVars, cpuVars, semVars, susVars, ioVars,
         finVars, planVars, procVars
    <2>3. ColasAparte'
      BY <2>1, <2>2 DEF ColasAparte
    <2>4. TrabadosAparte'
      BY <2>1, <2>2 DEF TrabadosAparte, ManosAparte
    <2>5. ManosAparte'
      BY <2>1, <2>2 DEF ManosAparte, DuenioUnico
    <2>6. DuenioUnico'
      BY <2>1, <2>2 DEF DuenioUnico
    <2>7. MotivoUnico'
      BY <2>1, <2>2 DEF MotivoUnico, ManosAparte
    <2>8. Existentes'
      BY <2>1, <2>2 DEF Existentes, NoExiste
    <2>9. EstadoConLugar'
      BY <2>1, <2>2 DEF EstadoConLugar, Existentes, NoExiste, ManosAparte,
         MotivoUnico
    <2>10. Existe'
      BY <2>1, <2>2 DEF Existe, EnAlgunLado
    <2>11. LibreSinPcb'
      BY <2>1, <2>2 DEF LibreSinPcb
    <2>12. EstadosExactos'
      BY <2>1, <2>2 DEF EstadosExactos, ManosAparte, DuenioUnico
    <2>13. MotivosExactos'
      BY <2>1, <2>2 DEF MotivosExactos, ManosAparte
    <2>14. Corriendo'
      BY <2>1, <2>2 DEF Corriendo
    <2>15. FinSinTrabar'
      BY <2>1, <2>2 DEF FinSinTrabar, ManosAparte
    <2>16. TrabadosExactos'
      BY <2>1, <2>2 DEF TrabadosExactos, ManosAparte
    <2>17. MotivoPresente'
      BY <2>1, <2>2 DEF MotivoPresente
    <2> QED BY <2>1, <2>3, <2>4, <2>5, <2>6, <2>7, <2>8, <2>9, <2>10, <2>11,
        <2>12, <2>13, <2>14, <2>15, <2>16, <2>17
  <1>2. CASE ~dispositivo
    <2>1. /\ SinRepetir'
          /\ \A r \in Colas : EnCola(r)' = EnCola(r)
      BY ColasIguales DEF BloquearPorIo, colaVars
    <2>2. /\ Nil \notin Pids
          /\ oyente[c] = "IO"
          /\ enCpu[c] \in Pids
          /\ UNCHANGED <<exec, blocked, suspBlocked, caidos, liberador,
             pedidos, volcando, dispositivo, saliendo, ultimoPid>>
          /\ oyente'[c] = "ERROR"
          /\ \A d \in CPUs \ {c} : oyente'[d] = oyente[d]
          /\ enCpu' = enCpu
          /\ libre' = libre
          /\ colasTrabado' = colasTrabado
          /\ estado' = estado
      BY <1>2, CpusAssumption DEF BloquearPorIo, Nueva, TypeOK, Punteros,
         EnManos, colaVars, bolsaVars, cpuVars, semVars, susVars, ioVars,
         finVars, planVars, procVars
    <2>3. ColasAparte'
      BY <2>1, <2>2 DEF ColasAparte
    <2>4. TrabadosAparte'
      BY <2>1, <2>2 DEF TrabadosAparte
    <2>5. ManosAparte'
      BY <2>1, <2>2 DEF ManosAparte
    <2>6. DuenioUnico'
      BY <2>1, <2>2 DEF DuenioUnico
    <2>7. MotivoUnico'
      BY <2>1, <2>2 DEF MotivoUnico
    <2>8. Existentes'
      BY <2>1, <2>2 DEF Existentes, NoExiste
    <2>9. EstadoConLugar'
      BY <2>1, <2>2 DEF EstadoConLugar
    <2>10. Existe'
      BY <2>1, <2>2 DEF Existe, EnAlgunLado
    <2>11. LibreSinPcb'
      BY <2>1, <2>2 DEF LibreSinPcb
    <2>12. EstadosExactos'
      BY <2>1, <2>2 DEF EstadosExactos
    <2>13. MotivosExactos'
      BY <2>1, <2>2 DEF MotivosExactos
    <2>14. Corriendo'
      BY <2>1, <2>2 DEF Corriendo
    <2>15. FinSinTrabar'
      BY <2>1, <2>2 DEF FinSinTrabar
    <2>16. TrabadosExactos'
      BY <2>1, <2>2 DEF TrabadosExactos
    <2>17. MotivoPresente'
      BY <2>1, <2>2 DEF MotivoPresente
    <2> QED BY <2>1, <2>3, <2>4, <2>5, <2>6, <2>7, <2>8, <2>9, <2>10, <2>11,
        <2>12, <2>13, <2>14, <2>15, <2>16, <2>17
  <1> QED BY <1>1, <1>2 DEF BloquearPorIo

LEMMA UbicadoFinalizarPorCaida ==
  ASSUME TypeOK, Punteros, Ubicado, SinDesalojos, NEW c \in CPUs,
  FinalizarPorCaida(c)
  PROVE  Ubicado'
  <1> USE DEF Ubicado, Aparte, Trabados, Duenios, Ejecutando, Sosteniendo,
      Colas
  <1>1. CASE enCpu[c] # Nil
    <2>1. /\ SinRepetir'
          /\ \A r \in Colas : EnCola(r)' = EnCola(r)
      BY ColasIguales DEF FinalizarPorCaida, colaVars
    <2>2. /\ Nil \notin Pids
          /\ oyente[c] = "caida_colas"
          /\ enCpu[c] \in Pids
          /\ enCpu[c] \in exec
          /\ \A d \in CPUs : oyente[d] = "EXIT_avisar" => enCpu[d] \in Pids
          /\ exec' = exec \ {enCpu[c]}
          /\ UNCHANGED <<blocked, suspBlocked, caidos, liberador, pedidos,
             volcando, dispositivo, saliendo, ultimoPid>>
          /\ oyente'[c] = "muerto"
          /\ \A d \in CPUs \ {c} : oyente'[d] = oyente[d]
          /\ enCpu' = enCpu
          /\ libre' = libre
          /\ colasTrabado' = TRUE
          /\ estado'[enCpu[c]] = "EXIT"
          /\ \A x \in Pids \ {enCpu[c]} : estado'[x] = estado[x]
      BY <1>1, CpusAssumption DEF FinalizarPorCaida, DuenioUnico, Nueva,
         TypeOK, Punteros, EnManos, colaVars, bolsaVars, cpuVars, semVars,
         susVars, ioVars, finVars, planVars, procVars
    <2>3. ColasAparte'
      BY <2>1, <2>2 DEF ColasAparte
    <2>4. TrabadosAparte'
      BY <2>1, <2>2 DEF TrabadosAparte
    <2>5. ManosAparte'
      BY <2>1, <2>2 DEF ManosAparte
    <2>6. DuenioUnico'
      BY <2>1, <2>2 DEF DuenioUnico
    <2>7. MotivoUnico'
      BY <2>1, <2>2 DEF MotivoUnico
    <2>8. Existentes'
      BY <2>1, <2>2 DEF Existentes, NoExiste
    <2>9. EstadoConLugar'
      BY <2>1, <2>2 DEF EstadoConLugar, Existentes, NoExiste
    <2>10. Existe'
      BY <2>1, <2>2 DEF Existe, EnAlgunLado
    <2>11. LibreSinPcb'
      BY <2>1, <2>2 DEF LibreSinPcb
    <2>12. EstadosExactos'
      BY <2>1, <2>2 DEF EstadosExactos, DuenioUnico
    <2>13. MotivosExactos'
      BY <2>1, <2>2 DEF MotivosExactos, TrabadosAparte
    <2>14. Corriendo'
      BY <2>1, <2>2 DEF Corriendo
    <2>15. FinSinTrabar'
      BY <2>1, <2>2 DEF FinSinTrabar
    <2>16. TrabadosExactos'
      BY <2>1, <2>2 DEF TrabadosExactos, TrabadosAparte
    <2>17. MotivoPresente'
      BY <2>1, <2>2 DEF MotivoPresente
    <2> QED BY <2>1, <2>3, <2>4, <2>5, <2>6, <2>7, <2>8, <2>9, <2>10, <2>11,
        <2>12, <2>13, <2>14, <2>15, <2>16, <2>17
  <1>2. CASE enCpu[c] = Nil
    <2>1. /\ SinRepetir'
          /\ \A r \in Colas : EnCola(r)' = EnCola(r)
      BY ColasIguales DEF FinalizarPorCaida, colaVars
    <2>2. /\ Nil \notin Pids
          /\ oyente[c] = "caida_colas"
          /\ enCpu[c] = Nil
          /\ UNCHANGED <<exec, blocked, suspBlocked, caidos, liberador,
             pedidos, volcando, dispositivo, saliendo, ultimoPid>>
          /\ oyente'[c] = "muerto"
          /\ \A d \in CPUs \ {c} : oyente'[d] = oyente[d]
          /\ enCpu' = enCpu
          /\ libre'[c] = FALSE
          /\ \A d \in CPUs \ {c} : libre'[d] = libre[d]
          /\ colasTrabado' = colasTrabado
          /\ estado' = estado
      BY <1>2, CpusAssumption DEF FinalizarPorCaida, Nueva, TypeOK,
         Punteros, EnManos, colaVars, bolsaVars, cpuVars, semVars, susVars,
         ioVars, finVars, planVars, procVars
    <2>3. ColasAparte'
      BY <2>1, <2>2 DEF ColasAparte
    <2>4. TrabadosAparte'
      BY <2>1, <2>2 DEF TrabadosAparte
    <2>5. ManosAparte'
      BY <2>1, <2>2 DEF ManosAparte
    <2>6. DuenioUnico'
      BY <2>1, <2>2 DEF DuenioUnico
    <2>7. MotivoUnico'
      BY <2>1, <2>2 DEF MotivoUnico
    <2>8. Existentes'
      BY <2>1, <2>2 DEF Existentes, NoExiste
    <2>9. EstadoConLugar'
      BY <2>1, <2>2 DEF EstadoConLugar
    <2>10. Existe'
      BY <2>1, <2>2 DEF Existe, EnAlgunLado
    <2>11. LibreSinPcb'
      BY <2>1, <2>2 DEF LibreSinPcb
    <2>12. EstadosExactos'
      BY <2>1, <2>2 DEF EstadosExactos
    <2>13. MotivosExactos'
      BY <2>1, <2>2 DEF MotivosExactos
    <2>14. Corriendo'
      BY <2>1, <2>2 DEF Corriendo
    <2>15. FinSinTrabar'
      BY <2>1, <2>2 DEF FinSinTrabar
    <2>16. TrabadosExactos'
      BY <2>1, <2>2 DEF TrabadosExactos
    <2>17. MotivoPresente'
      BY <2>1, <2>2 DEF MotivoPresente
    <2> QED BY <2>1, <2>3, <2>4, <2>5, <2>6, <2>7, <2>8, <2>9, <2>10, <2>11,
        <2>12, <2>13, <2>14, <2>15, <2>16, <2>17
  <1> QED BY <1>1, <1>2 DEF FinalizarPorCaida

LEMMA UbicadoSuspender ==
  ASSUME TypeOK, Punteros, Ubicado, Vigilando, SinDesalojos, NEW p \in Pids,
  Suspender(p)
  PROVE  Ubicado'
  <1> USE DEF Ubicado, Aparte, Trabados, Duenios, Ejecutando, Sosteniendo,
      Colas
  <1>1. /\ SinRepetir'
        /\ \A r \in Colas : EnCola(r)' = EnCola(r)
    BY ColasIguales DEF Suspender, colaVars
  <1>2. /\ Nil \notin Pids
        /\ p \in blocked
        /\ p \notin EnCola("exit") \cup caidos \cup {liberador}
        /\ estado[p] # "LIBERADO"
        /\ \A d \in CPUs : oyente[d] = "EXIT_avisar" => enCpu[d] \in Pids
        /\ blocked' = blocked \ {p}
        /\ suspBlocked' = suspBlocked \cup {p}
        /\ UNCHANGED <<exec, caidos, liberador, pedidos, volcando,
           dispositivo, saliendo, ultimoPid>>
        /\ oyente' = oyente
        /\ enCpu' = enCpu
        /\ libre' = libre
        /\ colasTrabado' = colasTrabado
        /\ estado'[p] = "SUSP_BLOCKED"
        /\ \A x \in Pids \ {p} : estado'[x] = estado[x]
    BY CpusAssumption DEF Suspender, Vigilando, EnCola,
       Nueva, TypeOK, Punteros, EnManos, colaVars, bolsaVars, cpuVars,
       semVars, susVars, ioVars, finVars, planVars, procVars
  <1>3. ColasAparte'
    BY <1>1, <1>2 DEF ColasAparte
  <1>4. TrabadosAparte'
    BY <1>1, <1>2 DEF TrabadosAparte, ColasAparte, EstadoConLugar
  <1>5. ManosAparte'
    BY <1>1, <1>2 DEF ManosAparte
  <1>6. DuenioUnico'
    BY <1>1, <1>2 DEF DuenioUnico
  <1>7. MotivoUnico'
    BY <1>1, <1>2 DEF MotivoUnico
  <1>8. Existentes'
    BY <1>1, <1>2 DEF Existentes, NoExiste
  <1>9. EstadoConLugar'
    BY <1>1, <1>2 DEF EstadoConLugar
  <1>10. Existe'
    BY <1>1, <1>2 DEF Existe, EnAlgunLado
  <1>11. LibreSinPcb'
    BY <1>1, <1>2 DEF LibreSinPcb
  <1>12. EstadosExactos'
    BY <1>1, <1>2 DEF EstadosExactos, TrabadosAparte, ManosAparte
  <1>13. MotivosExactos'
    BY <1>1, <1>2 DEF MotivosExactos
  <1>14. Corriendo'
    BY <1>1, <1>2 DEF Corriendo
  <1>15. FinSinTrabar'
    BY <1>1, <1>2 DEF FinSinTrabar, ColasAparte
  <1>16. TrabadosExactos'
    BY <1>1, <1>2 DEF TrabadosExactos
  <1>17. MotivoPresente'
    BY <1>1, <1>2 DEF MotivoPresente, MotivoUnico, EstadoConLugar
  <1> QED BY <1>1, <1>3, <1>4, <1>5, <1>6, <1>7, <1>8, <1>9, <1>10, <1>11,
      <1>12, <1>13, <1>14, <1>15, <1>16, <1>17


LEMMA UbicadoLiberarFinalizado ==
  ASSUME TypeOK, Punteros, Ubicado, SinDesalojos, LiberarFinalizado
  PROVE  Ubicado'
  <1> USE DEF Ubicado, Aparte, Trabados, Duenios, Ejecutando, Sosteniendo,
      Colas
  <1>1. /\ SinRepetir'
        /\ \A r \in Colas : EnCola(r)' = EnCola(r)
    BY ColasIguales DEF LiberarFinalizado, colaVars
  <1>2. /\ Nil \notin Pids
        /\ liberador \in Pids
        /\ exec \cup caidos \cup pedidos \cup volcando
              \cup Trabados \subseteq Pids
        /\ \A q \in Colas : EnCola(q) \subseteq Pids
        /\ \A d \in CPUs : oyente[d] \in Sosteniendo \cup {"IO_pedir"}
              => enCpu[d] # Nil
        /\ \A d \in CPUs : oyente[d] = "EXIT_avisar" => enCpu[d] \in Pids
        /\ liberador' = Nil
        /\ UNCHANGED <<exec, blocked, suspBlocked, caidos, pedidos,
           volcando, dispositivo, saliendo, ultimoPid>>
        /\ oyente' = oyente
        /\ enCpu' = enCpu
        /\ libre' = libre
        /\ colasTrabado' = colasTrabado
        /\ estado'[liberador] = "LIBERADO"
        /\ \A x \in Pids \ {liberador} : estado'[x] = estado[x]
    BY CpusAssumption, EnColaEsPid DEF LiberarFinalizado, Nueva, TypeOK,
       Punteros, EnManos, colaVars, bolsaVars, cpuVars, semVars, susVars,
       ioVars, finVars, planVars, procVars
  <1>3. ColasAparte'
    BY <1>1, <1>2 DEF ColasAparte
  <1>4. TrabadosAparte'
    BY <1>1, <1>2 DEF TrabadosAparte
  <1>5. ManosAparte'
    BY <1>1, <1>2 DEF ManosAparte
  <1>6. DuenioUnico'
    BY <1>1, <1>2 DEF DuenioUnico
  <1>7. MotivoUnico'
    BY <1>1, <1>2 DEF MotivoUnico
  <1>8. Existentes'
    BY <1>1, <1>2 DEF Existentes, NoExiste, ColasAparte, ManosAparte,
       MotivoUnico, DuenioUnico
  <1>9. EstadoConLugar'
    BY <1>1, <1>2 DEF EstadoConLugar
  <1>10. Existe'
    BY <1>1, <1>2 DEF Existe, EnAlgunLado
  <1>11. LibreSinPcb'
    BY <1>1, <1>2 DEF LibreSinPcb
  <1>12. EstadosExactos'
    BY <1>1, <1>2 DEF EstadosExactos, ColasAparte, ManosAparte
  <1>13. MotivosExactos'
    BY <1>1, <1>2 DEF MotivosExactos, MotivoUnico
  <1>14. Corriendo'
    BY <1>1, <1>2 DEF Corriendo
  <1>15. FinSinTrabar'
    BY <1>1, <1>2 DEF FinSinTrabar
  <1>16. TrabadosExactos'
    BY <1>1, <1>2 DEF TrabadosExactos, EstadosExactos
  <1>17. MotivoPresente'
    BY <1>1, <1>2 DEF MotivoPresente
  <1> QED BY <1>1, <1>3, <1>4, <1>5, <1>6, <1>7, <1>8, <1>9, <1>10, <1>11,
      <1>12, <1>13, <1>14, <1>15, <1>16, <1>17

LEMMA UbicadoDumpFallido ==
  ASSUME TypeOK, Punteros, Ubicado, SinDesalojos, NEW p \in Pids,
  DumpFallido(p)
  PROVE  Ubicado'
  <1> USE DEF Ubicado, Aparte, Trabados, Duenios, Ejecutando, Sosteniendo,
      Colas
  <1>1. /\ SinRepetir'
        /\ \A r \in Colas : EnCola(r)' = EnCola(r)
    BY ColasIguales DEF DumpFallido, colaVars
  <1>0. p \in volcando \ saliendo /\ p \in Trabados /\ Encontrado(p)
    BY DEF DumpFallido, MotivoUnico, Encontrado
  <1>2. /\ Nil \notin Pids
        /\ p \in volcando /\ p \notin saliendo
        /\ p \in Trabados
        /\ \A d \in CPUs : oyente[d] = "EXIT_avisar" => enCpu[d] \in Pids
        /\ volcando' = volcando \ {p}
        /\ blocked' = IF estado[p] = "BLOCKED" THEN blocked \ {p} ELSE blocked
        /\ suspBlocked' = IF estado[p] = "SUSP_BLOCKED"
              THEN suspBlocked \ {p} ELSE suspBlocked
        /\ UNCHANGED <<exec, caidos, liberador, pedidos, dispositivo,
           saliendo, ultimoPid>>
        /\ oyente' = oyente
        /\ enCpu' = enCpu
        /\ libre' = libre
        /\ colasTrabado' = TRUE
        /\ estado'[p] = "EXIT"
        /\ \A x \in Pids \ {p} : estado'[x] = estado[x]
    BY <1>0, CpusAssumption DEF DumpFallido, Nueva,
       TypeOK, Punteros, EnManos, colaVars, bolsaVars, cpuVars, semVars,
       susVars, ioVars, finVars, planVars, procVars
  <1>3. ColasAparte'
    BY <1>1, <1>2 DEF ColasAparte
  <1>4. TrabadosAparte'
    BY <1>1, <1>2 DEF TrabadosAparte
  <1>5. ManosAparte'
    BY <1>1, <1>2 DEF ManosAparte
  <1>6. DuenioUnico'
    BY <1>1, <1>2 DEF DuenioUnico
  <1>7. MotivoUnico'
    BY <1>1, <1>2 DEF MotivoUnico
  <1>8. Existentes'
    BY <1>1, <1>2 DEF Existentes, NoExiste
  <1>9. EstadoConLugar'
    BY <1>1, <1>2 DEF EstadoConLugar, Existentes, NoExiste
  <1>10. Existe'
    BY <1>1, <1>2 DEF Existe, EnAlgunLado
  <1>11. LibreSinPcb'
    BY <1>1, <1>2 DEF LibreSinPcb
  <1>12. EstadosExactos'
    BY <1>1, <1>2 DEF EstadosExactos, TrabadosAparte, ManosAparte
  <1>13. MotivosExactos'
    BY <1>1, <1>2 DEF MotivosExactos
  <1>14. Corriendo'
    BY <1>1, <1>2 DEF Corriendo
  <1>15. FinSinTrabar'
    BY <1>1, <1>2 DEF FinSinTrabar
  <1>16. TrabadosExactos'
    BY <1>1, <1>2 DEF TrabadosExactos
  <1>17. MotivoPresente'
    BY <1>1, <1>2 DEF MotivoPresente, TrabadosExactos
  <1> QED BY <1>1, <1>3, <1>4, <1>5, <1>6, <1>7, <1>8, <1>9, <1>10, <1>11,
      <1>12, <1>13, <1>14, <1>15, <1>16, <1>17

LEMMA UbicadoCaeDispositivo ==
  ASSUME TypeOK, Punteros, Ubicado, SinDesalojos, CaeDispositivo
  PROVE  Ubicado'
  <1> USE DEF Ubicado, Aparte, Trabados, Duenios, Ejecutando, Sosteniendo,
      Colas
  <1>1. /\ SinRepetir'
        /\ \A r \in Colas : EnCola(r)' = EnCola(r)
    BY ColasIguales DEF CaeDispositivo, colaVars
  <1>2. /\ Nil \notin Pids
        /\ dispositivo
        /\ pedidos \subseteq Pids
        /\ "io" \in Fallas
        /\ dispositivo' = FALSE
        /\ pedidos' = {}
        /\ caidos' = pedidos
        /\ blocked' =
              {p \in blocked : p \notin pedidos \/ estado[p] # "BLOCKED"}
        /\ suspBlocked' =
              {p \in suspBlocked :
                 p \notin pedidos \/ estado[p] # "SUSP_BLOCKED"}
        /\ UNCHANGED <<exec, liberador, volcando, saliendo, ultimoPid>>
        /\ oyente' = oyente
        /\ enCpu' = enCpu
        /\ libre' = libre
        /\ colasTrabado' = colasTrabado
        /\ estado' = estado
    BY CpusAssumption DEF CaeDispositivo, MotivoUnico, Encontrado, Nueva,
       TypeOK, Punteros, EnManos, colaVars, bolsaVars, cpuVars, semVars,
       susVars, ioVars, finVars, planVars, procVars
  <1>3. ColasAparte'
    BY <1>1, <1>2 DEF ColasAparte, TrabadosAparte, MotivoUnico
  <1>4. TrabadosAparte'
    BY <1>1, <1>2 DEF TrabadosAparte
  <1>5. ManosAparte'
    BY <1>1, <1>2 DEF ManosAparte, MotivoUnico
  <1>6. DuenioUnico'
    BY <1>1, <1>2 DEF DuenioUnico
  <1>7. MotivoUnico'
    BY <1>1, <1>2 DEF MotivoUnico
  <1>8. Existentes'
    BY <1>1, <1>2 DEF Existentes, NoExiste
  <1>9. EstadoConLugar'
    BY <1>1, <1>2 DEF EstadoConLugar, MotivoUnico, TrabadosAparte
  <1>10. Existe'
    BY <1>1, <1>2 DEF Existe, EnAlgunLado, MotivoUnico
  <1>11. LibreSinPcb'
    BY <1>1, <1>2 DEF LibreSinPcb
  <1>12. EstadosExactos'
    BY <1>1, <1>2 DEF EstadosExactos, MotivosExactos, MotivoUnico
  <1>13. MotivosExactos'
    BY <1>1, <1>2 DEF MotivosExactos
  <1>14. Corriendo'
    BY <1>1, <1>2 DEF Corriendo
  <1>15. FinSinTrabar'
    BY <1>1, <1>2 DEF FinSinTrabar, MotivosExactos
  <1>16. TrabadosExactos'
    BY <1>1, <1>2 DEF TrabadosExactos
  <1>17. MotivoPresente'
    BY <1>1, <1>2 DEF MotivoPresente
  <1> QED BY <1>1, <1>3, <1>4, <1>5, <1>6, <1>7, <1>8, <1>9, <1>10, <1>11,
      <1>12, <1>13, <1>14, <1>15, <1>16, <1>17

LEMMA UbicadoTomarFinalizado ==
  ASSUME TypeOK, Punteros, Ubicado, SinDesalojos, TomarFinalizado
  PROVE  Ubicado'
  <1> USE DEF Ubicado, Aparte, Trabados, Duenios, Ejecutando, Sosteniendo,
      Colas
  <1>1. CASE cola["exit"] = <<>>
    BY <1>1, UbicadoQuieto DEF TomarFinalizado, bolsaVars, cpuVars, susVars,
       ioVars, finVars
  <1>2. CASE cola["exit"] # <<>>
    <2> DEFINE p == Head(cola["exit"])
    <2>1. /\ SinRepetir'
          /\ p \in EnCola("exit") /\ p \in Pids
          /\ EnCola("exit")' = EnCola("exit") \ {p}
          /\ \A r \in Colas \ {"exit"} : EnCola(r)' = EnCola(r)
      BY <1>2, ColasCabeza, TipoCola DEF TomarFinalizado
    <2>2. /\ Nil \notin Pids
          /\ liberador = Nil
          /\ p \in Pids
          /\ \A d \in CPUs : oyente[d] = "EXIT_avisar" => enCpu[d] \in Pids
          /\ liberador' = p
          /\ UNCHANGED <<exec, blocked, suspBlocked, caidos, pedidos,
             volcando, dispositivo, saliendo, ultimoPid>>
          /\ oyente' = oyente
          /\ enCpu' = enCpu
          /\ libre' = libre
          /\ colasTrabado' = colasTrabado
          /\ estado'[p] = "EXIT"
          /\ \A x \in Pids \ {p} : estado'[x] = estado[x]
      BY <1>2, CpusAssumption, TipoCola DEF TomarFinalizado, Nueva, TypeOK,
         Punteros, EnManos, colaVars, bolsaVars, cpuVars, semVars, susVars,
         ioVars, finVars, planVars, procVars
    <2>3. ColasAparte'
      BY <2>1, <2>2 DEF ColasAparte
    <2>4. TrabadosAparte'
      BY <2>1, <2>2 DEF TrabadosAparte
    <2>5. ManosAparte'
      BY <2>1, <2>2 DEF ManosAparte
    <2>6. DuenioUnico'
      BY <2>1, <2>2 DEF DuenioUnico
    <2>7. MotivoUnico'
      BY <2>1, <2>2 DEF MotivoUnico
    <2>8. Existentes'
      BY <2>1, <2>2 DEF Existentes, NoExiste
    <2>9. EstadoConLugar'
      BY <2>1, <2>2 DEF EstadoConLugar
    <2>10. Existe'
      BY <2>1, <2>2 DEF Existe, EnAlgunLado
    <2>11. LibreSinPcb'
      BY <2>1, <2>2 DEF LibreSinPcb
    <2>12. EstadosExactos'
      BY <2>1, <2>2 DEF EstadosExactos, ColasAparte, ManosAparte
    <2>13. MotivosExactos'
      BY <2>1, <2>2 DEF MotivosExactos, MotivoUnico
    <2>14. Corriendo'
      BY <2>1, <2>2 DEF Corriendo
    <2>15. FinSinTrabar'
      BY <2>1, <2>2 DEF FinSinTrabar
    <2>16. TrabadosExactos'
      BY <2>1, <2>2 DEF TrabadosExactos, EstadosExactos
    <2>17. MotivoPresente'
      BY <2>1, <2>2 DEF MotivoPresente
    <2> QED BY <2>1, <2>3, <2>4, <2>5, <2>6, <2>7, <2>8, <2>9, <2>10, <2>11,
        <2>12, <2>13, <2>14, <2>15, <2>16, <2>17
  <1> QED BY <1>1, <1>2 DEF TomarFinalizado

LEMMA UbicadoElegirCandidato ==
  ASSUME TypeOK, Punteros, Ubicado, SinDesalojos, ElegirCandidato
  PROVE  Ubicado'
  <1> USE DEF Ubicado, Aparte, Trabados, Duenios, Ejecutando, Sosteniendo,
      Colas
  <1>1. CASE cola' = cola
    BY <1>1, UbicadoQuieto DEF ElegirCandidato, bolsaVars, cpuVars, susVars,
       ioVars, finVars
  <1>2. CASE \E q \in Colas : \E i \in DOMAIN cola[q] : cola' =
                [cola EXCEPT ![q] = AlFrente(@, i)]
    <2>1. /\ SinRepetir'
          /\ \A r \in Colas : EnCola(r)' = EnCola(r)
      BY <1>2, ColasOrdenar
    <2>2. /\ Nil \notin Pids
          /\ UNCHANGED <<exec, blocked, suspBlocked, caidos, liberador,
             pedidos, volcando, dispositivo, saliendo, ultimoPid>>
          /\ oyente' = oyente
          /\ enCpu' = enCpu
          /\ libre' = libre
          /\ colasTrabado' = colasTrabado
          /\ estado' = estado
      BY <1>2, CpusAssumption DEF ElegirCandidato, Nueva, TypeOK, Punteros,
         EnManos, colaVars, bolsaVars, cpuVars, semVars, susVars, ioVars,
         finVars, planVars, procVars
    <2>3. ColasAparte'
      BY <2>1, <2>2 DEF ColasAparte
    <2>4. TrabadosAparte'
      BY <2>1, <2>2 DEF TrabadosAparte
    <2>5. ManosAparte'
      BY <2>1, <2>2 DEF ManosAparte
    <2>6. DuenioUnico'
      BY <2>1, <2>2 DEF DuenioUnico
    <2>7. MotivoUnico'
      BY <2>1, <2>2 DEF MotivoUnico
    <2>8. Existentes'
      BY <2>1, <2>2 DEF Existentes, NoExiste
    <2>9. EstadoConLugar'
      BY <2>1, <2>2 DEF EstadoConLugar
    <2>10. Existe'
      BY <2>1, <2>2 DEF Existe, EnAlgunLado
    <2>11. LibreSinPcb'
      BY <2>1, <2>2 DEF LibreSinPcb
    <2>12. EstadosExactos'
      BY <2>1, <2>2 DEF EstadosExactos
    <2>13. MotivosExactos'
      BY <2>1, <2>2 DEF MotivosExactos
    <2>14. Corriendo'
      BY <2>1, <2>2 DEF Corriendo
    <2>15. FinSinTrabar'
      BY <2>1, <2>2 DEF FinSinTrabar
    <2>16. TrabadosExactos'
      BY <2>1, <2>2 DEF TrabadosExactos
    <2>17. MotivoPresente'
      BY <2>1, <2>2 DEF MotivoPresente
    <2> QED BY <2>1, <2>3, <2>4, <2>5, <2>6, <2>7, <2>8, <2>9, <2>10, <2>11,
        <2>12, <2>13, <2>14, <2>15, <2>16, <2>17
  <1>3. \/ cola' = cola
        \/ \E q \in Colas : \E i \in DOMAIN cola[q] :
              cola' = [cola EXCEPT ![q] = AlFrente(@, i)]
    <2> DEFINE q == ColaDeIngreso(cola["susp_ready"] # <<>>)
    <2>1. q \in Colas
      BY DEF ColaDeIngreso
    <2> HIDE DEF q
    <2>2. CASE cola[q] = <<>>
      BY <2>2 DEF ElegirCandidato, q
    <2>3. CASE cola[q] # <<>>
      <3>1. PICK s \in OrdenesDeIngreso(cola[q]) : cola' =
                    [cola EXCEPT ![q] = s]
        BY <2>3 DEF ElegirCandidato, q
      <3>2. s = cola[q] \/ \E i \in DOMAIN cola[q] : s = AlFrente(cola[q], i)
        BY DEF OrdenesDeIngreso
      <3> QED BY <2>1, <3>1, <3>2 DEF TypeOK
    <2> QED BY <2>2, <2>3
  <1> QED BY <1>1, <1>2, <1>3

LEMMA UbicadoAplicarAdmision ==
  ASSUME TypeOK, Punteros, Ubicado, SinDesalojos, CandidatoEnCabeza,
  AplicarAdmision
  PROVE  Ubicado'
  <1> USE DEF Ubicado, Aparte, Trabados, Duenios, Ejecutando, Sosteniendo,
      Colas
  <1> DEFINE p == largo.cand
  <1>1. CASE largo.susp = FALSE
    <2>0. /\ cola["new"] # <<>> /\ p = Head(cola["new"]) /\ p \in Pids
          /\ cola' = [cola EXCEPT !["new"] = Tail(@), !["ready"] = Append(@,
             p)]
      BY <1>1 DEF AplicarAdmision, CandidatoEnCabeza, ColaDeIngreso, TypeOK,
         Punteros
    <2> HIDE DEF p
    <2>1. /\ SinRepetir'
          /\ p \in EnCola("new")
          /\ EnCola("new")' = EnCola("new") \ {p}
          /\ EnCola("ready")' = EnCola("ready") \cup {p}
          /\ \A r \in Colas \ {"new", "ready"} : EnCola(r)' = EnCola(r)
      BY <2>0, ColasIngresar
    <2>2. /\ Nil \notin Pids
          /\ p \in Pids
          /\ \A d \in CPUs : oyente[d] = "EXIT_avisar" => enCpu[d] \in Pids
          /\ UNCHANGED <<exec, blocked, suspBlocked, caidos, liberador,
             pedidos, volcando, dispositivo, saliendo, ultimoPid>>
          /\ oyente' = oyente
          /\ enCpu' = enCpu
          /\ libre' = libre
          /\ colasTrabado' = colasTrabado
          /\ estado'[p] = "READY"
          /\ \A x \in Pids \ {p} : estado'[x] = estado[x]
      BY <2>0, CpusAssumption DEF AplicarAdmision, p, Nueva, TypeOK,
         Punteros, EnManos, colaVars, bolsaVars, cpuVars, semVars, susVars,
         ioVars, finVars, planVars, procVars
    <2>3. ColasAparte'
      BY <2>1, <2>2 DEF ColasAparte
    <2>4. TrabadosAparte'
      BY <2>1, <2>2 DEF TrabadosAparte
    <2>5. ManosAparte'
      BY <2>1, <2>2 DEF ManosAparte
    <2>6. DuenioUnico'
      BY <2>1, <2>2 DEF DuenioUnico
    <2>7. MotivoUnico'
      BY <2>1, <2>2 DEF MotivoUnico
    <2>8. Existentes'
      BY <2>1, <2>2 DEF Existentes, NoExiste
    <2>9. EstadoConLugar'
      BY <2>1, <2>2 DEF EstadoConLugar, Existentes, NoExiste
    <2>10. Existe'
      BY <2>1, <2>2 DEF Existe, EnAlgunLado
    <2>11. LibreSinPcb'
      BY <2>1, <2>2 DEF LibreSinPcb
    <2>12. EstadosExactos'
      BY <2>1, <2>2 DEF EstadosExactos
    <2>13. MotivosExactos'
      BY <2>1, <2>2 DEF MotivosExactos, TrabadosAparte
    <2>14. Corriendo'
      BY <2>1, <2>2 DEF Corriendo
    <2>15. FinSinTrabar'
      BY <2>1, <2>2 DEF FinSinTrabar
    <2>16. TrabadosExactos'
      BY <2>1, <2>2 DEF TrabadosExactos, TrabadosAparte
    <2>17. MotivoPresente'
      BY <2>1, <2>2 DEF MotivoPresente
    <2> QED BY <2>1, <2>3, <2>4, <2>5, <2>6, <2>7, <2>8, <2>9, <2>10, <2>11,
        <2>12, <2>13, <2>14, <2>15, <2>16, <2>17
  <1>2. CASE largo.susp = TRUE
    <2>0. /\ cola["susp_ready"] # <<>> /\ p = Head(cola["susp_ready"])
                /\ p \in Pids
          /\ cola' = [cola EXCEPT !["susp_ready"] = Tail(@),
             !["ready"] = Append(@, p)]
      BY <1>2 DEF AplicarAdmision, CandidatoEnCabeza, ColaDeIngreso, TypeOK,
         Punteros
    <2> HIDE DEF p
    <2>1. /\ SinRepetir'
          /\ p \in EnCola("susp_ready")
          /\ EnCola("susp_ready")' = EnCola("susp_ready") \ {p}
          /\ EnCola("ready")' = EnCola("ready") \cup {p}
          /\ \A r \in Colas \ {"susp_ready", "ready"} : EnCola(r)' = EnCola(r)
      BY <2>0, ColasIngresar
    <2>2. /\ Nil \notin Pids
          /\ p \in Pids
          /\ \A d \in CPUs : oyente[d] = "EXIT_avisar" => enCpu[d] \in Pids
          /\ UNCHANGED <<exec, blocked, suspBlocked, caidos, liberador,
             pedidos, volcando, dispositivo, saliendo, ultimoPid>>
          /\ oyente' = oyente
          /\ enCpu' = enCpu
          /\ libre' = libre
          /\ colasTrabado' = colasTrabado
          /\ estado'[p] = "READY"
          /\ \A x \in Pids \ {p} : estado'[x] = estado[x]
      BY <2>0, CpusAssumption DEF AplicarAdmision, p, Nueva, TypeOK,
         Punteros, EnManos, colaVars, bolsaVars, cpuVars, semVars, susVars,
         ioVars, finVars, planVars, procVars
    <2>3. ColasAparte'
      BY <2>1, <2>2 DEF ColasAparte
    <2>4. TrabadosAparte'
      BY <2>1, <2>2 DEF TrabadosAparte
    <2>5. ManosAparte'
      BY <2>1, <2>2 DEF ManosAparte
    <2>6. DuenioUnico'
      BY <2>1, <2>2 DEF DuenioUnico
    <2>7. MotivoUnico'
      BY <2>1, <2>2 DEF MotivoUnico
    <2>8. Existentes'
      BY <2>1, <2>2 DEF Existentes, NoExiste
    <2>9. EstadoConLugar'
      BY <2>1, <2>2 DEF EstadoConLugar, Existentes, NoExiste
    <2>10. Existe'
      BY <2>1, <2>2 DEF Existe, EnAlgunLado
    <2>11. LibreSinPcb'
      BY <2>1, <2>2 DEF LibreSinPcb
    <2>12. EstadosExactos'
      BY <2>1, <2>2 DEF EstadosExactos
    <2>13. MotivosExactos'
      BY <2>1, <2>2 DEF MotivosExactos, TrabadosAparte
    <2>14. Corriendo'
      BY <2>1, <2>2 DEF Corriendo
    <2>15. FinSinTrabar'
      BY <2>1, <2>2 DEF FinSinTrabar
    <2>16. TrabadosExactos'
      BY <2>1, <2>2 DEF TrabadosExactos, TrabadosAparte
    <2>17. MotivoPresente'
      BY <2>1, <2>2 DEF MotivoPresente
    <2> QED BY <2>1, <2>3, <2>4, <2>5, <2>6, <2>7, <2>8, <2>9, <2>10, <2>11,
        <2>12, <2>13, <2>14, <2>15, <2>16, <2>17
  <1> QED BY <1>1, <1>2 DEF TypeOK

LEMMA UbicadoDespacharA ==
  ASSUME TypeOK, Punteros, Ubicado, SinDesalojos, CpusOrdenadas,
         UNCHANGED <<blocked, suspBlocked, caidos, liberador, pedidos,
         volcando,
                     dispositivo, saliendo, ultimoPid, oyente, colasTrabado>>,
                     NEW i \in DOMAIN cola["ready"], NEW k \in Nat,
         listaCpus[k] \in CPUs, libre[listaCpus[k]],
         DespacharA(k, i)
  PROVE  Ubicado'
  <1> USE DEF Ubicado, Aparte, Trabados, Duenios, Ejecutando, Sosteniendo,
      Colas
  <1> DEFINE c == listaCpus[k]
             p == cola["ready"][i]
  <1>0. p \in Pids
    BY LenProperties, ElementOfSeq DEF TypeOK
  <1>a. \A d \in CPUs : oyente[d] = "EXIT_avisar" => enCpu[d] \in Pids
    BY DEF TypeOK, Punteros, EnManos
  <1>b. enCpu'[c] = p /\ \A d \in CPUs \ {c} : enCpu'[d] = enCpu[d]
    BY <1>0 DEF DespacharA, TypeOK
  <1>d. libre'[c] = FALSE /\ \A d \in CPUs \ {c} : libre'[d] = libre[d]
    BY DEF DespacharA, TypeOK
  <1>c. estado'[p] = "RUNNING" /\ \A x \in Pids \ {p} : estado'[x] = estado[x]
    BY <1>0 DEF DespacharA, TypeOK
  <1>1. /\ SinRepetir'
        /\ p \in EnCola("ready") /\ p \in Pids
        /\ EnCola("ready")' = EnCola("ready") \ {p}
        /\ \A r \in Colas \ {"ready"} : EnCola(r)' = EnCola(r)
    BY ColasSacar, <1>0 DEF DespacharA
  <1>2. /\ Nil \notin Pids
        /\ p \in Pids
        /\ c \in CPUs
        /\ oyente[c] \in Ejecutando \cup {"muerto"}
        /\ \A d \in CPUs : oyente[d] = "EXIT_avisar" => enCpu[d] \in Pids
        /\ exec' = exec \cup {p}
        /\ UNCHANGED <<blocked, suspBlocked, caidos, liberador, pedidos,
           volcando, dispositivo, saliendo, ultimoPid>>
        /\ oyente' = oyente
        /\ enCpu'[c] = p
        /\ \A d \in CPUs \ {c} : enCpu'[d] = enCpu[d]
        /\ libre'[c] = FALSE
        /\ \A d \in CPUs \ {c} : libre'[d] = libre[d]
        /\ colasTrabado' = colasTrabado
        /\ estado'[p] = "RUNNING"
        /\ \A x \in Pids \ {p} : estado'[x] = estado[x]
    BY CpusAssumption, <1>0, <1>a, <1>b, <1>c, <1>d DEF DespacharA,
       CpusOrdenadas, Nueva, TypeOK, Punteros, EnManos, colaVars, bolsaVars,
       cpuVars, semVars, susVars, ioVars, finVars, planVars, procVars
  <1>3. ColasAparte'
    BY <1>1, <1>2 DEF ColasAparte
  <1>4. TrabadosAparte'
    BY <1>1, <1>2 DEF TrabadosAparte
  <1>5. ManosAparte'
    BY <1>1, <1>2 DEF ManosAparte
  <1>6. DuenioUnico'
    BY <1>1, <1>2 DEF DuenioUnico, ManosAparte, ColasAparte, TrabadosAparte,
       MotivoUnico
  <1>7. MotivoUnico'
    BY <1>1, <1>2 DEF MotivoUnico
  <1>8. Existentes'
    BY <1>1, <1>2 DEF Existentes, NoExiste
  <1>9. EstadoConLugar'
    BY <1>1, <1>2 DEF EstadoConLugar, Existentes, NoExiste
  <1>10. Existe'
    BY <1>1, <1>2 DEF Existe, EnAlgunLado
  <1>11. LibreSinPcb'
    BY <1>1, <1>2 DEF LibreSinPcb
  <1>12. EstadosExactos'
    BY <1>1, <1>2 DEF EstadosExactos
  <1>13. MotivosExactos'
    BY <1>1, <1>2 DEF MotivosExactos, TrabadosAparte
  <1>14. Corriendo'
    BY <1>1, <1>2 DEF Corriendo, LibreSinPcb
  <1>15. FinSinTrabar'
    BY <1>1, <1>2 DEF FinSinTrabar
  <1>16. TrabadosExactos'
    BY <1>1, <1>2 DEF TrabadosExactos, TrabadosAparte
  <1>17. MotivoPresente'
    BY <1>1, <1>2 DEF MotivoPresente
  <1> QED BY <1>1, <1>3, <1>4, <1>5, <1>6, <1>7, <1>8, <1>9, <1>10, <1>11,
      <1>12, <1>13, <1>14, <1>15, <1>16, <1>17

LEMMA UbicadoDespachar ==
  ASSUME TypeOK, Punteros, Ubicado, SinDesalojos, CpusOrdenadas, Despachar
  PROVE  Ubicado'
  <1> USE DEF Ubicado, Aparte, Trabados, Duenios, Ejecutando, Sosteniendo,
      Colas
  <1>1. CASE cola' = cola /\ UNCHANGED <<estado, exec, enCpu, libre>>
    BY <1>1, UbicadoQuieto DEF Despachar, susVars, ioVars, finVars
  <1>2. CASE \E i \in DOMAIN cola["ready"] : DespacharSinCpu(i)
    <2>1. /\ SinRepetir'
          /\ \A r \in Colas : EnCola(r)' = EnCola(r)
      BY <1>2, ColasOrdenar DEF DespacharSinCpu
    <2>2. /\ Nil \notin Pids
          /\ UNCHANGED <<exec, blocked, suspBlocked, caidos, liberador,
             pedidos, volcando, dispositivo, saliendo, ultimoPid>>
          /\ oyente' = oyente
          /\ enCpu' = enCpu
          /\ libre' = libre
          /\ colasTrabado' = colasTrabado
          /\ estado' = estado
      BY <1>2, CpusAssumption DEF Despachar, DespacharSinCpu, Nueva, TypeOK,
         Punteros, EnManos, colaVars, bolsaVars, cpuVars, semVars, susVars,
         ioVars, finVars, planVars, procVars
    <2>3. ColasAparte'
      BY <2>1, <2>2 DEF ColasAparte
    <2>4. TrabadosAparte'
      BY <2>1, <2>2 DEF TrabadosAparte
    <2>5. ManosAparte'
      BY <2>1, <2>2 DEF ManosAparte
    <2>6. DuenioUnico'
      BY <2>1, <2>2 DEF DuenioUnico
    <2>7. MotivoUnico'
      BY <2>1, <2>2 DEF MotivoUnico
    <2>8. Existentes'
      BY <2>1, <2>2 DEF Existentes, NoExiste
    <2>9. EstadoConLugar'
      BY <2>1, <2>2 DEF EstadoConLugar
    <2>10. Existe'
      BY <2>1, <2>2 DEF Existe, EnAlgunLado
    <2>11. LibreSinPcb'
      BY <2>1, <2>2 DEF LibreSinPcb
    <2>12. EstadosExactos'
      BY <2>1, <2>2 DEF EstadosExactos
    <2>13. MotivosExactos'
      BY <2>1, <2>2 DEF MotivosExactos
    <2>14. Corriendo'
      BY <2>1, <2>2 DEF Corriendo
    <2>15. FinSinTrabar'
      BY <2>1, <2>2 DEF FinSinTrabar
    <2>16. TrabadosExactos'
      BY <2>1, <2>2 DEF TrabadosExactos
    <2>17. MotivoPresente'
      BY <2>1, <2>2 DEF MotivoPresente
    <2> QED BY <2>1, <2>3, <2>4, <2>5, <2>6, <2>7, <2>8, <2>9, <2>10, <2>11,
        <2>12, <2>13, <2>14, <2>15, <2>16, <2>17
  <1>3. CASE \E i \in DOMAIN cola["ready"],
  t \in PrimerTurno : DespacharA(Turno(t), i)
    BY <1>3, CpuElegida, UbicadoDespacharA DEF Despachar, susVars, ioVars,
       finVars
  <1> QED BY <1>1, <1>2, <1>3 DEF Despachar, DespacharANadie, Elegibles

LEMMA UbicadoDesbloquear ==
  ASSUME TypeOK, Punteros, Ubicado, SinDesalojos, NEW p \in Pids,
  p \in pedidos \cup volcando, p \notin saliendo,
         pedidos' = pedidos \ {p}, volcando' = volcando \ {p},
         UNCHANGED <<exec, caidos, liberador, dispositivo, saliendo, ultimoPid, oyente,
                     enCpu, libre, colasTrabado>>,
         Desbloquear(p)
  PROVE  Ubicado'
  <1> USE DEF Ubicado, Aparte, Trabados, Duenios, Ejecutando, Sosteniendo,
      Colas
  <1>1. CASE Encontrado(p) /\ estado[p] = "BLOCKED"
    <2>0. p \in blocked /\ p \notin EnCola("ready") /\ p \in Trabados
      BY <1>1 DEF MotivoUnico, EstadoConLugar, TrabadosAparte
    <2>1. /\ SinRepetir'
          /\ EnCola("ready")' = EnCola("ready") \cup {p}
          /\ \A r \in Colas \ {"ready"} : EnCola(r)' = EnCola(r)
      BY <1>1, <2>0, ColasAgregar DEF Desbloquear
    <2>2. /\ p \in blocked
          /\ Nil \notin Pids
          /\ p \in Pids
          /\ \A d \in CPUs : oyente[d] = "EXIT_avisar" => enCpu[d] \in Pids
          /\ pedidos' = pedidos \ {p}
          /\ volcando' = volcando \ {p}
          /\ blocked' = blocked \ {p}
          /\ UNCHANGED <<exec, suspBlocked, caidos, liberador, dispositivo,
             saliendo, ultimoPid>>
          /\ oyente' = oyente
          /\ enCpu' = enCpu
          /\ libre' = libre
          /\ colasTrabado' = colasTrabado
          /\ estado'[p] = "READY"
          /\ \A x \in Pids \ {p} : estado'[x] = estado[x]
      BY <1>1, <2>0, CpusAssumption DEF Desbloquear, TypeOK, Punteros, EnManos
    <2>3. ColasAparte'
      BY <2>1, <2>2 DEF ColasAparte, TrabadosAparte, MotivoUnico
    <2>4. TrabadosAparte'
      BY <2>1, <2>2 DEF TrabadosAparte
    <2>5. ManosAparte'
      BY <2>1, <2>2 DEF ManosAparte
    <2>6. DuenioUnico'
      BY <2>1, <2>2 DEF DuenioUnico
    <2>7. MotivoUnico'
      BY <2>1, <2>2 DEF MotivoUnico
    <2>8. Existentes'
      BY <2>1, <2>2 DEF Existentes, NoExiste
    <2>9. EstadoConLugar'
      BY <2>1, <2>2 DEF EstadoConLugar, Existentes, NoExiste
    <2>10. Existe'
      BY <2>1, <2>2 DEF Existe, EnAlgunLado
    <2>11. LibreSinPcb'
      BY <2>1, <2>2 DEF LibreSinPcb
    <2>12. EstadosExactos'
      BY <2>1, <2>2 DEF EstadosExactos, TrabadosAparte, ManosAparte,
         MotivoUnico
    <2>13. MotivosExactos'
      BY <2>1, <2>2 DEF MotivosExactos
    <2>14. Corriendo'
      BY <2>1, <2>2 DEF Corriendo
    <2>15. FinSinTrabar'
      BY <2>1, <2>2 DEF FinSinTrabar
    <2>16. TrabadosExactos'
      BY <2>1, <2>2 DEF TrabadosExactos
    <2>17. MotivoPresente'
      BY <2>1, <2>2 DEF MotivoPresente, TrabadosAparte
    <2> QED BY <2>1, <2>3, <2>4, <2>5, <2>6, <2>7, <2>8, <2>9, <2>10, <2>11,
        <2>12, <2>13, <2>14, <2>15, <2>16, <2>17
  <1>2. CASE Encontrado(p) /\ estado[p] = "SUSP_BLOCKED"
    <2>0. p \in suspBlocked /\ p \notin EnCola("susp_ready") /\ p \in Trabados
      BY <1>2 DEF MotivoUnico, EstadoConLugar, TrabadosAparte
    <2>1. /\ SinRepetir'
          /\ EnCola("susp_ready")' = EnCola("susp_ready") \cup {p}
          /\ \A r \in Colas \ {"susp_ready"} : EnCola(r)' = EnCola(r)
      BY <1>2, <2>0, ColasAgregar DEF Desbloquear
    <2>2. /\ p \in suspBlocked
          /\ Nil \notin Pids
          /\ p \in Pids
          /\ \A d \in CPUs : oyente[d] = "EXIT_avisar" => enCpu[d] \in Pids
          /\ pedidos' = pedidos \ {p}
          /\ volcando' = volcando \ {p}
          /\ suspBlocked' = suspBlocked \ {p}
          /\ UNCHANGED <<exec, blocked, caidos, liberador, dispositivo,
             saliendo, ultimoPid>>
          /\ oyente' = oyente
          /\ enCpu' = enCpu
          /\ libre' = libre
          /\ colasTrabado' = colasTrabado
          /\ estado'[p] = "SUSP_READY"
          /\ \A x \in Pids \ {p} : estado'[x] = estado[x]
      <3>1. /\ suspBlocked' = suspBlocked \ {p} /\ blocked' = blocked
            /\ estado' = [estado EXCEPT ![p] = "SUSP_READY"]
        BY <1>2 DEF Desbloquear
      <3>2. \A d \in CPUs : oyente[d] = "EXIT_avisar" => enCpu[d] \in Pids
        BY DEF TypeOK, Punteros, EnManos
      <3> QED BY <2>0, <3>1, <3>2, CpusAssumption DEF TypeOK
    <2>3. ColasAparte'
      BY <2>1, <2>2 DEF ColasAparte, TrabadosAparte, MotivoUnico
    <2>4. TrabadosAparte'
      BY <2>1, <2>2 DEF TrabadosAparte
    <2>5. ManosAparte'
      BY <2>1, <2>2 DEF ManosAparte
    <2>6. DuenioUnico'
      BY <2>1, <2>2 DEF DuenioUnico
    <2>7. MotivoUnico'
      BY <2>1, <2>2 DEF MotivoUnico
    <2>8. Existentes'
      BY <2>1, <2>2 DEF Existentes, NoExiste
    <2>9. EstadoConLugar'
      BY <2>1, <2>2 DEF EstadoConLugar, Existentes, NoExiste
    <2>10. Existe'
      BY <2>1, <2>2 DEF Existe, EnAlgunLado
    <2>11. LibreSinPcb'
      BY <2>1, <2>2 DEF LibreSinPcb
    <2>12. EstadosExactos'
      BY <2>1, <2>2 DEF EstadosExactos, TrabadosAparte, ManosAparte,
         MotivoUnico
    <2>13. MotivosExactos'
      BY <2>1, <2>2 DEF MotivosExactos
    <2>14. Corriendo'
      BY <2>1, <2>2 DEF Corriendo
    <2>15. FinSinTrabar'
      BY <2>1, <2>2 DEF FinSinTrabar
    <2>16. TrabadosExactos'
      BY <2>1, <2>2 DEF TrabadosExactos
    <2>17. MotivoPresente'
      BY <2>1, <2>2 DEF MotivoPresente, TrabadosAparte
    <2> QED BY <2>1, <2>3, <2>4, <2>5, <2>6, <2>7, <2>8, <2>9, <2>10, <2>11,
        <2>12, <2>13, <2>14, <2>15, <2>16, <2>17
  <1>3. CASE /\ ~(Encontrado(p) /\ estado[p] \in {"BLOCKED", "SUSP_BLOCKED"})
           /\ UNCHANGED <<estado, cola, blocked, suspBlocked>>
    <2>1. /\ SinRepetir'
          /\ \A r \in Colas : EnCola(r)' = EnCola(r)
      BY <1>3, ColasIguales
    <2>2. /\ Nil \notin Pids
          /\ p \in Trabados /\ p \in Pids
          /\ estado[p] \notin {"BLOCKED", "SUSP_BLOCKED"}
          /\ pedidos' = pedidos \ {p}
          /\ volcando' = volcando \ {p}
          /\ UNCHANGED <<exec, blocked, suspBlocked, caidos, liberador,
             dispositivo, saliendo, ultimoPid>>
          /\ oyente' = oyente
          /\ enCpu' = enCpu
          /\ libre' = libre
          /\ colasTrabado' = colasTrabado
          /\ estado' = estado
      BY <1>3, CpusAssumption DEF MotivoUnico, Encontrado
    <2>3. ColasAparte'
      BY <2>1, <2>2 DEF ColasAparte
    <2>4. TrabadosAparte'
      BY <2>1, <2>2 DEF TrabadosAparte
    <2>5. ManosAparte'
      BY <2>1, <2>2 DEF ManosAparte
    <2>6. DuenioUnico'
      BY <2>1, <2>2 DEF DuenioUnico
    <2>7. MotivoUnico'
      BY <2>1, <2>2 DEF MotivoUnico
    <2>8. Existentes'
      BY <2>1, <2>2 DEF Existentes, NoExiste
    <2>9. EstadoConLugar'
      BY <2>1, <2>2 DEF EstadoConLugar
    <2>10. Existe'
      BY <2>1, <2>2 DEF Existe, EnAlgunLado
    <2>11. LibreSinPcb'
      BY <2>1, <2>2 DEF LibreSinPcb
    <2>12. EstadosExactos'
      BY <2>1, <2>2 DEF EstadosExactos
    <2>13. MotivosExactos'
      BY <2>1, <2>2 DEF MotivosExactos
    <2>14. Corriendo'
      BY <2>1, <2>2 DEF Corriendo
    <2>15. FinSinTrabar'
      BY <2>1, <2>2 DEF FinSinTrabar
    <2>16. TrabadosExactos'
      BY <2>1, <2>2 DEF TrabadosExactos
    <2>17. MotivoPresente'
      BY <2>1, <2>2 DEF MotivoPresente, TrabadosExactos
    <2> QED BY <2>1, <2>3, <2>4, <2>5, <2>6, <2>7, <2>8, <2>9, <2>10, <2>11,
        <2>12, <2>13, <2>14, <2>15, <2>16, <2>17
  <1> QED BY <1>1, <1>2, <1>3 DEF Desbloquear

----------------------------------------------------------------------------
\* The invariant holds in every state.

LEMMA SinDesalojosPaso ==
  ASSUME TypeOK, SinDesalojos, Next
  PROVE  SinDesalojos'
  <1> SUFFICES ASSUME AlgCorto # "SRT"
               PROVE  SinDesalojos'
    BY DEF SinDesalojos
  <1> DEFINE Calla(c) ==
               /\ interrumpida[c] = 0
               /\ oyente[c] \notin {"INTERRUPCION", "INT_avisar",
                     "INT_desalojar"}
  <1>1. \A c \in CPUs : Calla(c)
    BY DEF SinDesalojos
  <1>2. ASSUME UNCHANGED oyente, UNCHANGED interrumpida
        PROVE  SinDesalojos'
    BY <1>1, <1>2 DEF SinDesalojos
  <1>3. CASE Conexiones
    <2>1. PICK c \in CPUs : ConectarDispatch(c) \/ ConectarInterrupt(c)
                  \/ CaeCpu(c)
      BY <1>3 DEF Conexiones
    <2>2. \A d \in CPUs : /\ interrumpida'[d] \in {0, interrumpida[d]}
                          /\ oyente'[d] \in {"avisar", oyente[d]}
      BY <2>1 DEF ConectarDispatch, ConectarInterrupt, CaeCpu, TypeOK
    <2> QED BY <1>1, <2>2 DEF SinDesalojos
  <1>4. CASE LargoPlazo
    BY <1>2, <1>4 DEF LargoPlazo, IniciarLargoPlazo, EsperarNuevo,
       ElegirCandidato, AdmitirEnMemoria, RechazarAdmision, AplicarAdmision,
       DesalojarSiEsNecesario
  <1>5. CASE CortoPlazo
    BY <1>2, <1>5 DEF CortoPlazo, EsperarListo, EsperarCpu, Despachar
  <1>6. ASSUME NEW c \in CPUs, Oyente(c)
        PROVE  SinDesalojos'
    <2>1. /\ ~RecibirInterrupcion(c) /\ ~InterrupcionEncolar(c)
          /\ ~InterrupcionAvisar(c) /\ ~InterrupcionDesalojar(c)
      BY <1>1 DEF RecibirInterrupcion, InterrupcionEncolar, InterrupcionAvisar,
         InterrupcionDesalojar
    <2>2. /\ UNCHANGED interrumpida
          /\ \/ UNCHANGED oyente
             \/ \E l \in {"EXIT", "IO", "DUMP", "ERROR", "EXIT_avisar",
                   "ERROR_encolar", "ERROR_avisar", "soltar", "IO_pedir",
                         "avisar", "espera", "caida_lista",
                         "caida_colas", "muerto"} : Nueva(c, l)
      <3>1. CASE CrearProceso(c)
        BY <3>1 DEF CrearProceso
      <3>2. CASE \E m \in {"EXIT", "IO", "DUMP", "ERROR"} :
                    RecibirRespuesta(c, m)
        BY <3>2 DEF RecibirRespuesta
      <3>3. CASE \/ ExitEncolar(c) \/ ExitAvisar(c) \/ ErrorMarcar(c)
                 \/ ErrorEncolar(c) \/ ErrorAvisar(c)
        BY <3>3 DEF ExitEncolar, ExitAvisar, ErrorMarcar, ErrorEncolar,
           ErrorAvisar
      <3>4. CASE BloquearPorIo(c) \/ PedirIo(c) \/ BloquearPorDump(c)
        BY <3>4 DEF BloquearPorIo, PedirIo, BloquearPorDump
      <3>5. CASE SoltarCpu(c) \/ AvisarCpu(c) \/ DetectarCaida(c)
                 \/ QuitarCpu(c) \/ FinalizarPorCaida(c)
        BY <3>5 DEF SoltarCpu, AvisarCpu, DetectarCaida, QuitarCpu,
           FinalizarPorCaida
      <3> QED BY <1>6, <2>1, <3>1, <3>2, <3>3, <3>4, <3>5 DEF Oyente
    <2>3. \A d \in CPUs : oyente'[d] = oyente[d]
            \/ oyente'[d] \notin {"INTERRUPCION", "INT_avisar",
                  "INT_desalojar"}
      BY <2>2 DEF Nueva, TypeOK
    <2> QED BY <1>1, <2>2, <2>3 DEF SinDesalojos
  <1>7. CASE Liberador
    BY <1>2, <1>7 DEF Liberador, TomarFinalizado, LiberarFinalizado
  <1>8. ASSUME NEW p \in Pids, HilosDe(p)
        PROVE  SinDesalojos'
    BY <1>2, <1>8 DEF HilosDe, Vigilia, Dump, DispararVigilia, Suspender,
       SuspenderEnMemoria, DumpOk, DumpFallido, DumpSinConexion, DumpEncolar,
       FinIo, FinalizarCaido, CaidoEncolar, DesalojarSiEsNecesario
  <1>9. CASE CaeDispositivo
    BY <1>2, <1>9 DEF CaeDispositivo
  <1>10. CASE Avisos
    BY <1>2, <1>10 DEF Avisos, DumpAvisar, CaidoAvisar
  <1> QED BY <1>3, <1>4, <1>5, <1>6, <1>7, <1>8, <1>9, <1>10 DEF Next

LEMMA UbicadoPaso ==
  ASSUME Inductivo, SinDesalojos, Ubicado, Vigilando, Next
  PROVE  Ubicado'
  <1> USE DEF Inductivo
  <1>1. ASSUME NEW c \in CPUs, ConectarDispatch(c)
        PROVE  Ubicado'
    BY <1>1, UbicadoConectarDispatch
  <1>2. ASSUME NEW c \in CPUs, ConectarInterrupt(c)
        PROVE  Ubicado'
    BY <1>2, UbicadoQuieto DEF ConectarInterrupt, colaVars, bolsaVars, cpuVars,
       planVars, susVars, ioVars, finVars
  <1>3. ASSUME NEW c \in CPUs, CaeCpu(c)
        PROVE  Ubicado'
    BY <1>3, UbicadoQuieto DEF CaeCpu, colaVars, bolsaVars, cpuVars,
       planVars, susVars, ioVars, finVars
  <1>4. CASE IniciarLargoPlazo
    BY <1>4, UbicadoQuieto DEF IniciarLargoPlazo, colaVars, bolsaVars, cpuVars,
       planVars, susVars, ioVars, finVars
  <1>5. CASE EsperarNuevo
    BY <1>5, UbicadoQuieto DEF EsperarNuevo, colaVars, bolsaVars, cpuVars,
       planVars, susVars, ioVars, finVars
  <1>6. CASE ElegirCandidato
    BY <1>6, UbicadoElegirCandidato
  <1>7. CASE AdmitirEnMemoria
    BY <1>7, UbicadoQuieto DEF AdmitirEnMemoria, colaVars, bolsaVars, cpuVars,
       planVars, susVars, ioVars, finVars
  <1>8. CASE RechazarAdmision
    BY <1>8, UbicadoQuieto DEF RechazarAdmision, colaVars, bolsaVars, cpuVars,
       planVars, susVars, ioVars, finVars
  <1>9. CASE AplicarAdmision
    BY <1>9, UbicadoAplicarAdmision
  <1>10. CASE EsperarListo
    BY <1>10, UbicadoQuieto DEF EsperarListo, colaVars, bolsaVars, cpuVars,
       planVars, susVars, ioVars, finVars
  <1>11. CASE EsperarCpu
    BY <1>11, UbicadoQuieto DEF EsperarCpu, colaVars, bolsaVars, cpuVars,
       planVars, susVars, ioVars, finVars
  <1>12. CASE Despachar
    BY <1>12, UbicadoDespachar
  <1>13. ASSUME NEW c \in CPUs, CrearProceso(c)
         PROVE  Ubicado'
    BY <1>13, UbicadoCrearProceso
  <1>14. ASSUME NEW c \in CPUs, NEW m \in {"EXIT", "IO", "DUMP", "ERROR"},
                RecibirRespuesta(c, m)
         PROVE  Ubicado'
    BY <1>14, UbicadoRecibirRespuesta
  <1>15. ASSUME NEW c \in CPUs, RecibirInterrupcion(c)
         PROVE  Ubicado'
    BY <1>15, UbicadoRecibirInterrupcion
  <1>16. ASSUME NEW c \in CPUs, ExitEncolar(c)
         PROVE  Ubicado'
    BY <1>16, UbicadoExitEncolar
  <1>17. ASSUME NEW c \in CPUs, ExitAvisar(c)
         PROVE  Ubicado'
    BY <1>17, UbicadoExitAvisar
  <1>18. ASSUME NEW c \in CPUs, ErrorMarcar(c)
         PROVE  Ubicado'
    BY <1>18, UbicadoErrorMarcar
  <1>19. ASSUME NEW c \in CPUs, BloquearPorIo(c)
         PROVE  Ubicado'
    BY <1>19, UbicadoBloquearPorIo
  <1>20. ASSUME NEW c \in CPUs, PedirIo(c)
         PROVE  Ubicado'
    BY <1>20, UbicadoPedirIo
  <1>21. ASSUME NEW c \in CPUs, BloquearPorDump(c)
         PROVE  Ubicado'
    BY <1>21, UbicadoBloquearPorDump
  <1>22. ASSUME NEW c \in CPUs, InterrupcionEncolar(c)
         PROVE  Ubicado'
    BY <1>22, UbicadoInterrupcionEncolar
  <1>23. ASSUME NEW c \in CPUs, InterrupcionAvisar(c)
         PROVE  Ubicado'
    BY <1>23, UbicadoInterrupcionAvisar
  <1>24. ASSUME NEW c \in CPUs, InterrupcionDesalojar(c)
         PROVE  Ubicado'
    BY <1>24, UbicadoInterrupcionDesalojar
  <1>25. ASSUME NEW c \in CPUs, SoltarCpu(c)
         PROVE  Ubicado'
    BY <1>25, UbicadoSoltarCpu
  <1>26. ASSUME NEW c \in CPUs, AvisarCpu(c)
         PROVE  Ubicado'
    BY <1>26, UbicadoAvisarCpu
  <1>27. ASSUME NEW c \in CPUs, DetectarCaida(c)
         PROVE  Ubicado'
    BY <1>27, UbicadoDetectarCaida
  <1>28. ASSUME NEW c \in CPUs, QuitarCpu(c)
         PROVE  Ubicado'
    BY <1>28, UbicadoQuitarCpu
  <1>29. ASSUME NEW c \in CPUs, FinalizarPorCaida(c)
         PROVE  Ubicado'
    BY <1>29, UbicadoFinalizarPorCaida
  <1>30. CASE TomarFinalizado
    BY <1>30, UbicadoTomarFinalizado
  <1>31. CASE LiberarFinalizado
    BY <1>31, UbicadoLiberarFinalizado
  <1>32. ASSUME NEW p \in Pids, DispararVigilia(p)
         PROVE  Ubicado'
    BY <1>32, UbicadoQuieto DEF DispararVigilia, colaVars, bolsaVars, cpuVars,
       planVars, ioVars, finVars
  <1>33. ASSUME NEW p \in Pids, SuspenderEnMemoria(p)
         PROVE  Ubicado'
    BY <1>33, UbicadoQuieto
       DEF SuspenderEnMemoria, colaVars, bolsaVars, cpuVars,
       planVars, susVars, ioVars, finVars
  <1>34. ASSUME NEW p \in Pids, DumpOk(p)
         PROVE  Ubicado'
    <2>1. p \in volcando /\ p \notin pedidos /\ p \notin saliendo
      BY <1>34 DEF DumpOk, Ubicado, MotivoUnico
    <2>2. /\ pedidos' = pedidos \ {p} /\ volcando' = volcando \ {p}
          /\ Desbloquear(p)
          /\ UNCHANGED <<exec, caidos, liberador, dispositivo, saliendo, ultimoPid,
                oyente,
                         enCpu, libre, colasTrabado>>
      BY <1>34, <2>1 DEF DumpOk, cpuVars, planVars, susVars, ioVars, finVars
    <2> QED BY <2>1, <2>2, UbicadoDesbloquear
  <1>35. ASSUME NEW p \in Pids, DumpFallido(p)
         PROVE  Ubicado'
    BY <1>35, UbicadoDumpFallido
  <1>36. ASSUME NEW p \in Pids, DumpSinConexion(p)
         PROVE  Ubicado'
    BY <1>36, UbicadoDumpSinConexion
  <1>37. ASSUME NEW p \in Pids, FinIo(p)
         PROVE  Ubicado'
    <2>1. p \in pedidos /\ p \notin volcando /\ p \notin saliendo
      BY <1>37 DEF FinIo, Ubicado, MotivoUnico
    <2>2. /\ pedidos' = pedidos \ {p} /\ volcando' = volcando \ {p}
          /\ Desbloquear(p)
          /\ UNCHANGED <<exec, caidos, liberador, dispositivo, saliendo, ultimoPid,
                oyente,
                         enCpu, libre, colasTrabado>>
      BY <1>37, <2>1 DEF FinIo, cpuVars, planVars, susVars, ioVars, finVars
    <2> QED BY <2>1, <2>2, UbicadoDesbloquear
  <1>38. ASSUME NEW p \in Pids, FinalizarCaido(p)
         PROVE  Ubicado'
    BY <1>38, UbicadoFinalizarCaido
  <1>39. CASE CaeDispositivo
    BY <1>39, UbicadoCaeDispositivo
  <1>40. ASSUME NEW c \in CPUs, ErrorEncolar(c)
         PROVE  Ubicado'
    BY <1>40, UbicadoErrorEncolar
  <1>41. ASSUME NEW c \in CPUs, ErrorAvisar(c)
         PROVE  Ubicado'
    BY <1>41, UbicadoErrorAvisar
  <1>42. ASSUME NEW p \in Pids, Suspender(p)
         PROVE  Ubicado'
    BY <1>42, UbicadoSuspender
  <1>43. ASSUME NEW p \in Pids, DumpEncolar(p)
         PROVE  Ubicado'
    BY <1>43, UbicadoDumpEncolar
  <1>44. CASE DumpAvisar
    BY <1>44, UbicadoQuieto DEF DumpAvisar, colaVars, bolsaVars, cpuVars,
       planVars, susVars
  <1>45. ASSUME NEW p \in Pids, CaidoEncolar(p)
         PROVE  Ubicado'
    BY <1>45, UbicadoCaidoEncolar
  <1>46. CASE CaidoAvisar
    BY <1>46, UbicadoQuieto DEF CaidoAvisar, colaVars, bolsaVars, cpuVars,
       planVars, susVars
  <1> QED
    BY <1>1, <1>2, <1>3, <1>4, <1>5, <1>6, <1>7, <1>8, <1>9, <1>10, <1>11,
       <1>12, <1>13, <1>14, <1>15, <1>16, <1>17, <1>18, <1>19, <1>20, <1>21,
       <1>22, <1>23, <1>24, <1>25, <1>26, <1>27, <1>28, <1>29, <1>30, <1>31,
       <1>32, <1>33, <1>34, <1>35, <1>36, <1>37, <1>38, <1>39, <1>40, <1>41,
       <1>42, <1>43, <1>44, <1>45, <1>46 DEF Next, Conexiones, LargoPlazo,
       CortoPlazo, Oyente, Liberador, HilosDe, Vigilia, Dump, Avisos

\* What the steps that do not take mutex_colas may do while a timer has it.
SinMutex ==
    /\ UNCHANGED <<suspensor, blocked, caidos>>
    /\ liberador' \in {liberador, Nil}
    /\ \/ cola'["exit"] = cola["exit"]
       \/ \E c \in CPUs : oyente[c] = "EXIT" /\ cola' = Encolar("exit", enCpu[c])
    /\ \A p \in Pids : estado'[p] = "LIBERADO" =>
          estado[p] = "LIBERADO" \/ p = liberador

LEMMA SinMutexOyente ==
  ASSUME TypeOK, ~ColasLibres, NEW c \in CPUs, Oyente(c)
  PROVE  SinMutex
  <1> USE DEF SinMutex
  <1>1. CASE \E m \in {"EXIT", "IO", "DUMP", "ERROR"} : RecibirRespuesta(c, m)
    BY <1>1 DEF RecibirRespuesta, susVars, ioVars, planVars
  <1>2. CASE RecibirInterrupcion(c)
    BY <1>2 DEF RecibirInterrupcion, susVars, ioVars, planVars
  <1>3. CASE ExitEncolar(c)
    BY <1>3 DEF ExitEncolar, susVars, ioVars, planVars, bolsaVars
  <1>4. CASE ExitAvisar(c)
    BY <1>4 DEF ExitAvisar, susVars, ioVars, planVars, bolsaVars, colaVars,
       TypeOK
  <1>5. CASE ErrorMarcar(c)
    BY <1>5 DEF ErrorMarcar, MarcarExit, susVars, ioVars, planVars, bolsaVars,
       colaVars, TypeOK
  <1>6. CASE ErrorAvisar(c)
    BY <1>6 DEF ErrorAvisar, susVars, ioVars, planVars, bolsaVars, colaVars
  <1>7. CASE PedirIo(c)
    BY <1>7 DEF PedirIo, susVars, planVars, bolsaVars, colaVars
  <1>8. CASE InterrupcionEncolar(c)
    BY <1>8 DEF InterrupcionEncolar, Encolar, TypeOK, Colas, susVars, ioVars,
       planVars, bolsaVars
  <1>9. CASE InterrupcionAvisar(c)
    BY <1>9 DEF InterrupcionAvisar, susVars, ioVars, planVars, bolsaVars,
       colaVars, TypeOK
  <1>10. CASE InterrupcionDesalojar(c)
    BY <1>10 DEF InterrupcionDesalojar, susVars, ioVars, planVars, bolsaVars,
       colaVars
  <1>11. CASE SoltarCpu(c) \/ AvisarCpu(c)
    BY <1>11 DEF SoltarCpu, AvisarCpu, susVars, ioVars, planVars, bolsaVars,
       colaVars
  <1>12. CASE DetectarCaida(c) \/ QuitarCpu(c)
    BY <1>12 DEF DetectarCaida, QuitarCpu, susVars, ioVars, planVars,
       bolsaVars, colaVars
  <1>13. /\ ~CrearProceso(c) /\ ~ErrorEncolar(c) /\ ~BloquearPorIo(c)
         /\ ~BloquearPorDump(c) /\ ~FinalizarPorCaida(c)
    BY DEF CrearProceso, ErrorEncolar, EncolarExit, BloquearPorIo,
       BloquearPorDump, FinalizarPorCaida
  <1> QED BY <1>1, <1>2, <1>3, <1>4, <1>5, <1>6, <1>7, <1>8, <1>9, <1>10,
      <1>11, <1>12, <1>13 DEF Oyente

LEMMA SinMutexPaso ==
  ASSUME TypeOK, Next, suspensor # Nil, suspensor' # Nil
  PROVE  SinMutex
  <1> USE DEF SinMutex
  <1>0. ~ColasLibres
    BY DEF ColasLibres
  <1>1. CASE Conexiones
    BY <1>1 DEF Conexiones, ConectarDispatch, ConectarInterrupt, CaeCpu,
       susVars, ioVars, planVars, bolsaVars, colaVars
  <1>2. CASE LargoPlazo
    BY <1>0, <1>2 DEF LargoPlazo, IniciarLargoPlazo, EsperarNuevo,
       ElegirCandidato, AdmitirEnMemoria, RechazarAdmision, AplicarAdmision,
       susVars, ioVars, bolsaVars, colaVars
  <1>3. CASE CortoPlazo
    BY <1>0, <1>3 DEF CortoPlazo, EsperarListo, EsperarCpu, Despachar,
       susVars, ioVars, bolsaVars, colaVars
  <1>4. ASSUME NEW c \in CPUs, Oyente(c)
        PROVE  SinMutex
    BY <1>0, <1>4, SinMutexOyente
  <1>5. CASE Liberador
    <2>1. LiberarFinalizado
      BY <1>0, <1>5 DEF Liberador, TomarFinalizado
    <2> QED BY <2>1 DEF LiberarFinalizado, TypeOK, susVars, ioVars, bolsaVars,
        colaVars
  <1>6. ASSUME NEW p \in Pids, HilosDe(p)
        PROVE  SinMutex
    <2>1. /\ ~DispararVigilia(p) /\ ~Suspender(p) /\ ~DumpOk(p)
          /\ ~DumpFallido(p) /\ ~DumpEncolar(p) /\ ~FinIo(p)
          /\ ~CaidoEncolar(p)
      BY <1>0 DEF DispararVigilia, Suspender, DumpOk, DumpFallido, DumpEncolar,
         FinIo, CaidoEncolar, EncolarExit
    <2>2. CASE SuspenderEnMemoria(p)
      BY <2>2 DEF SuspenderEnMemoria, ioVars, planVars, bolsaVars, colaVars
    <2>3. CASE DumpSinConexion(p) \/ FinalizarCaido(p)
      BY <2>3 DEF DumpSinConexion, FinalizarCaido, MarcarExit, TypeOK, susVars,
         planVars, bolsaVars, colaVars
    <2> QED BY <1>6, <2>1, <2>2, <2>3 DEF HilosDe, Vigilia, Dump
  <1>7. CASE Avisos
    BY <1>7 DEF Avisos, DumpAvisar, CaidoAvisar, susVars, planVars, bolsaVars,
       colaVars
  <1>8. ~CaeDispositivo
    BY <1>0 DEF CaeDispositivo
  <1> QED BY <1>1, <1>2, <1>3, <1>4, <1>5, <1>6, <1>7, <1>8 DEF Next

LEMMA VigiliaDispara ==
  ASSUME Next, suspensor = Nil, suspensor' # Nil
  PROVE  \E p \in Pids : DispararVigilia(p)
  <1>1. UNCHANGED suspensor => FALSE
    OBVIOUS
  <1>2. /\ ~Conexiones /\ ~LargoPlazo /\ ~CortoPlazo /\ ~Liberador /\ ~Avisos
        /\ ~CaeDispositivo
    BY <1>1 DEF Conexiones, ConectarDispatch, ConectarInterrupt, CaeCpu,
       LargoPlazo, IniciarLargoPlazo, EsperarNuevo, ElegirCandidato,
       AdmitirEnMemoria, RechazarAdmision, AplicarAdmision, CortoPlazo,
       EsperarListo, EsperarCpu, Despachar, Liberador, TomarFinalizado,
       LiberarFinalizado, Avisos, DumpAvisar, CaidoAvisar, CaeDispositivo,
       susVars
  <1>3. \A c \in CPUs : ~Oyente(c)
    BY <1>1 DEF Oyente, CrearProceso, RecibirRespuesta, RecibirInterrupcion,
       ExitEncolar, ExitAvisar, ErrorMarcar, ErrorEncolar, ErrorAvisar,
       BloquearPorIo, PedirIo, BloquearPorDump, InterrupcionEncolar,
       InterrupcionAvisar, InterrupcionDesalojar, SoltarCpu, AvisarCpu,
       DetectarCaida, QuitarCpu, FinalizarPorCaida, susVars
  <1>4. PICK p \in Pids : HilosDe(p)
    BY <1>2, <1>3 DEF Next
  <1>5. DispararVigilia(p)
    BY <1>1, <1>4 DEF HilosDe, Vigilia, Dump, Suspender, SuspenderEnMemoria,
       DumpOk, DumpFallido, DumpSinConexion, DumpEncolar, FinIo,
       FinalizarCaido, CaidoEncolar, susVars
  <1> QED BY <1>5

LEMMA VigilandoPaso ==
  ASSUME Inductivo, Ubicado, Vigilando, Next
  PROVE  Vigilando'
  <1> USE DEF Inductivo
  <1>1. CASE suspensor' = Nil
    BY <1>1 DEF Vigilando
  <1>2. CASE suspensor = Nil /\ suspensor' # Nil
    <2>1. PICK p \in Pids : DispararVigilia(p)
      BY <1>2, VigiliaDispara
    <2>2. /\ suspensor' = p /\ Encontrado(p) /\ estado[p] = "BLOCKED"
          /\ UNCHANGED <<estado, cola, exec, blocked, suspBlocked, caidos,
                liberador>>
      BY <1>2, <2>1 DEF DispararVigilia, colaVars, bolsaVars, planVars, ioVars
    <2>3. p \in blocked /\ p \notin EnCola("exit") \cup caidos \cup {liberador}
      BY <2>2 DEF Encontrado, Ubicado, EstadoConLugar, Trabados, Aparte,
         ColasAparte, TrabadosAparte, EnCola, Colas
    <2> QED BY <2>2, <2>3 DEF Vigilando, EnCola
  <1>3. CASE suspensor # Nil /\ suspensor' # Nil
    <2>1. SinMutex
      BY <1>3, SinMutexPaso
    <2>2. /\ suspensor \in blocked /\ suspensor \in Pids
          /\ suspensor \notin EnCola("exit") \cup caidos \cup {liberador}
          /\ estado[suspensor] # "LIBERADO"
      BY <1>3 DEF Vigilando, TypeOK
    <2>3. suspensor \notin EnCola("exit")'
      <3>1. CASE cola'["exit"] = cola["exit"]
        BY <2>2, <3>1 DEF EnCola
      <3>2. ASSUME NEW c \in CPUs, oyente[c] = "EXIT",
                   cola' = Encolar("exit", enCpu[c])
            PROVE  suspensor \notin EnCola("exit")'
        <4>1. /\ enCpu[c] \in Pids /\ enCpu[c] \notin EnCola("exit")
              /\ enCpu[c] \notin Trabados
          BY <3>2 DEF TypeOK, Punteros, EnManos, Ubicado, Aparte, ManosAparte,
             Sosteniendo, Colas
        <4>2. EnCola("exit")' = EnCola("exit") \cup {enCpu[c]}
          BY <3>2, <4>1, ColasAgregar DEF Ubicado, Colas
        <4> QED BY <2>2, <4>1, <4>2 DEF Trabados
      <3> QED BY <2>1, <3>1, <3>2 DEF SinMutex
    <2>4. estado'[suspensor] # "LIBERADO" /\ suspensor # Nil
      BY <1>3, <2>1, <2>2 DEF SinMutex
    <2> QED BY <2>1, <2>2, <2>3, <2>4 DEF SinMutex, Vigilando
  <1> QED BY <1>1, <1>2, <1>3

LEMMA UbicadoInit == Init => Ubicado /\ SinDesalojos /\ Vigilando
  <1> SUFFICES ASSUME Init PROVE Ubicado /\ SinDesalojos /\ Vigilando
    OBVIOUS
  <1>1. /\ 0 \in Pids /\ Pids \subseteq Nat /\ \A p \in Pids : p >= 1 <=> p # 0
        /\ Nil \notin Pids
    BY PidsAssumption, CpusAssumption DEF Pids
  <1>2. \A q \in Colas : EnCola(q) = IF q = "new" THEN {0} ELSE {}
    BY DEF Init, EnCola, ToSet
  <1>3. SinRepetir
    BY DEF Init, SinRepetir, IsInjective
  <1>4. /\ exec = {} /\ blocked = {} /\ suspBlocked = {} /\ Trabados = {}
        /\ caidos = {} /\ pedidos = {} /\ volcando = {} /\ saliendo = {}
    BY DEF Init, Trabados
  <1>5. \A c \in CPUs : oyente[c] = "no" /\ enCpu[c] = Nil /\ libre[c] = FALSE
    BY DEF Init
  <1>6. /\ ultimoPid = 1 /\ liberador = Nil /\ dispositivo = TRUE
        /\ \A p \in Pids : estado[p] = IF p = 0 THEN "NEW" ELSE "NINGUNO"
    BY DEF Init
  <1>7. Aparte
    BY <1>1, <1>2, <1>4, <1>5, <1>6 DEF Aparte, ColasAparte, TrabadosAparte,
       ManosAparte, Sosteniendo
  <1>8. DuenioUnico
    BY <1>5 DEF DuenioUnico, Duenios, Ejecutando, Sosteniendo
  <1>9. MotivoUnico
    BY <1>4, <1>5 DEF MotivoUnico
  <1>10. Existentes
    BY <1>1, <1>2, <1>4, <1>5, <1>6 DEF Existentes, NoExiste, Duenios,
       Ejecutando, Sosteniendo
  <1>11. EstadoConLugar /\ LibreSinPcb
    BY <1>1, <1>2, <1>4, <1>5, <1>6 DEF EstadoConLugar, LibreSinPcb
  <1>12. Existe
    <2>1. \A p \in Pids : estado[p] # "NINGUNO" => p \in EnCola("new")
      BY <1>2, <1>6 DEF Colas
    <2> QED BY <2>1 DEF Existe, EnAlgunLado, Colas
  <1>13. EstadosExactos /\ MotivosExactos /\ Corriendo /\ SinDesalojos
    <2>1. \A c \in CPUs : interrumpida[c] = 0
      BY DEF Init
    <2> QED BY <1>1, <1>2, <1>4, <1>5, <1>6, <2>1 DEF EstadosExactos,
        MotivosExactos, Corriendo, SinDesalojos, Sosteniendo, Colas, Trabados
  <1>14. FinSinTrabar /\ TrabadosExactos /\ MotivoPresente
    BY <1>1, <1>4, <1>6 DEF FinSinTrabar, TrabadosExactos, MotivoPresente,
       Trabados
  <1>15. Vigilando
    BY DEF Init, Vigilando
  <1> QED BY <1>3, <1>7, <1>8, <1>9, <1>10, <1>11, <1>12, <1>13, <1>14, <1>15
     DEF Ubicado

LEMMA LugaresInvariante == Spec => [](Inductivo /\ SinDesalojos /\ Ubicado /\ Vigilando)
  <1>1. Init => Inductivo /\ SinDesalojos /\ Ubicado /\ Vigilando
    BY InductivoInit, UbicadoInit
  <1>2. /\ Inductivo /\ SinDesalojos /\ Ubicado /\ Vigilando
        /\ [Next]_vars
        => (Inductivo /\ SinDesalojos /\ Ubicado /\ Vigilando)'
    <2> SUFFICES ASSUME Inductivo, SinDesalojos, Ubicado,
                        Vigilando, [Next]_vars
                 PROVE  (Inductivo /\ SinDesalojos /\ Ubicado /\ Vigilando)'
      OBVIOUS
    <2>1. Inductivo'
      BY InductivoPaso
    <2>2. CASE Next
      <3>1. SinDesalojos' /\ Ubicado' /\ Vigilando'
        BY <2>2, SinDesalojosPaso, UbicadoPaso, VigilandoPaso DEF Inductivo
      <3> QED BY <2>1, <3>1
    <2>3. CASE UNCHANGED vars
      <3>1. SinDesalojos'
        BY <2>3 DEF vars, SinDesalojos
      <3>2. Ubicado'
        BY <2>3, UbicadoQuieto DEF vars, colaVars, bolsaVars, cpuVars,
           planVars, susVars, ioVars, finVars
      <3>3. Vigilando'
        BY <2>3 DEF vars, Vigilando, EnCola, susVars, colaVars, bolsaVars,
           planVars, ioVars
      <3> QED BY <2>1, <3>1, <3>2, <3>3
    <2> QED BY <2>2, <2>3
  <1> QED BY <1>1, <1>2, PTL DEF Spec

----------------------------------------------------------------------------
\* What the places of a process say.

\* No process is executed by two CPUs, and the one a CPU executes is in
\* cola_exec: for every algorithm, every fault and any number of CPUs.
THEOREM UnaCpuCorrecta == Spec => []UnaCpuPorProceso
  <1>1. Inductivo /\ SinDesalojos /\ Ubicado => UnaCpuPorProceso
    <2> SUFFICES ASSUME CpuSincronizada, DuenioUnico,
                        NEW c \in CPUs, enviado[c] # Nil
                 PROVE  /\ enviado[c] \in exec
                        /\ \A d \in CPUs \ {c} : enviado[d] # enviado[c]
      BY DEF Inductivo, Ubicado, UnaCpuPorProceso
    <2>1. \A d \in CPUs : enviado[d] # Nil =>
            enCpu[d] = enviado[d] /\ oyente[d] \in Ejecutando
      BY DEF CpuSincronizada, Ejecutando
    <2> QED BY <2>1 DEF DuenioUnico, Duenios
  <1> QED BY <1>1, LugaresInvariante, PTL

LEMMA LugaresDe ==
  ASSUME NEW p
  PROVE  \A l : l \in Lugares(p) <=>
            \/ \E q \in Colas : \E i \in DOMAIN cola[q] :
                  cola[q][i] = p /\ l = <<q, i>>
            \/ p \in exec /\ l = <<"exec", 0>>
            \/ p \in blocked /\ l = <<"blocked", 0>>
            \/ p \in suspBlocked /\ l = <<"susp_blocked", 0>>
            \/ p \in caidos /\ l = <<"caidos", 0>>
            \/ p = liberador /\ l = <<"liberador", 0>>
            \/ \E c \in CPUs : /\ oyente[c] \in Sosteniendo /\ enCpu[c] = p
                              /\ l = <<c, 0>>
  <1> DEFINE De(e, S) == {<<e, 0>> : x \in S \cap {p}}
             colas == UNION {{<<q,
                i>> : i \in {j \in DOMAIN cola[q] : cola[q][j] = p}}
                             : q \in Colas}
             manos == {<<c, 0>> : c \in {d \in EnVentana({"EXIT", "ERROR",
                            "ERROR_encolar", "IO", "DUMP", "INTERRUPCION"}) :
                               enCpu[d] = p}}
  <1>3. Lugares(p) = colas \cup De("exec", exec) \cup De("blocked", blocked)
                     \cup De("susp_blocked", suspBlocked)
                     \cup De("caidos", caidos)
                        \cup De("liberador", {liberador})
                     \cup manos
    BY Zenon DEF Lugares
  <1>4. \A l : l \in colas <=> \E q \in Colas : \E i \in DOMAIN cola[q] :
                                  cola[q][i] = p /\ l = <<q, i>>
    OBVIOUS
  <1>5. \A e, S, l : l \in De(e, S) <=> p \in S /\ l = <<e, 0>>
    OBVIOUS
  <1>6. \A l : l \in manos <=> \E c \in CPUs : /\ oyente[c] \in Sosteniendo
                                               /\ enCpu[c] = p /\ l = <<c, 0>>
    BY DEF EnVentana, Sosteniendo
  <1> HIDE DEF De, colas, manos
  <1> QED BY <1>3, <1>4, <1>5, <1>6

\* No pcb is lost and none is queued twice, while mutex_colas works: a process
\* that exists is in one place and any other is in none.  A dump that fails to
\* reach Memoria, and a device that disappears under SRT, finish a process
\* that stays in the list of the blocked.
THEOREM LugarCorrecto ==
  ASSUME "dump_con" \notin Fallas, AlgCorto = "SRT" => "io" \notin Fallas
  PROVE  Spec => []UnSoloLugar
  <1>1. ASSUME Inductivo, Ubicado
        PROVE  UnSoloLugar
    <2> SUFFICES ASSUME ~colasTrabado, NEW p \in Pids
                 PROVE  Cardinality(Lugares(p)) =
                          IF estado[p] \in {"NINGUNO", "LIBERADO"}
                             THEN 0 ELSE 1
      BY DEF UnSoloLugar
    <2>1. /\ \A q \in Colas : p \in EnCola(q) <=>
                \E i \in DOMAIN cola[q] : cola[q][i] = p
          /\ \A q \in Colas : \A i, j \in DOMAIN cola[q] :
                cola[q][i] = cola[q][j] => i = j
      BY <1>1 DEF EnCola, ToSet, Ubicado, SinRepetir, IsInjective
    <2>2. Trabados \cap (EnCola("exit") \cup caidos \cup {liberador}) = {}
      BY <1>1 DEF Ubicado, FinSinTrabar
    <2>3. CASE estado[p] \in {"NINGUNO", "LIBERADO"}
      <3>1. NoExiste(p) /\ p \notin Trabados
        BY <1>1, <2>3 DEF Ubicado, Existentes, FinSinTrabar
      <3>2. \A l : l \notin Lugares(p)
        BY <2>1, <3>1, LugaresDe DEF NoExiste, Trabados, Duenios
      <3>3. Lugares(p) = {}
        BY <3>2
      <3> QED BY <2>3, <3>3, FS_EmptySet
    <2>4. CASE estado[p] \notin {"NINGUNO", "LIBERADO"}
      <3>1. EnAlgunLado(p)
        BY <1>1, <2>4 DEF Ubicado, Existe
      <3>2. PICK l : l \in Lugares(p)
        <4>1. ASSUME NEW q \in Colas, p \in EnCola(q)
              PROVE  \E l : l \in Lugares(p)
          <5>1. PICK i \in DOMAIN cola[q] : cola[q][i] = p
            BY <2>1, <4>1
          <5>2. <<q, i>> \in Lugares(p)
            BY <5>1, LugaresDe
          <5> QED BY <5>2
        <4>2. ASSUME NEW c \in CPUs, oyente[c] \in Sosteniendo, enCpu[c] = p
              PROVE  \E l : l \in Lugares(p)
          <5>1. <<c, 0>> \in Lugares(p)
            BY <4>2, LugaresDe
          <5> QED BY <5>1
        <4>3. /\ p \in exec => <<"exec", 0>> \in Lugares(p)
              /\ p \in blocked => <<"blocked", 0>> \in Lugares(p)
              /\ p \in suspBlocked => <<"susp_blocked", 0>> \in Lugares(p)
              /\ p \in caidos => <<"caidos", 0>> \in Lugares(p)
              /\ p = liberador => <<"liberador", 0>> \in Lugares(p)
          BY LugaresDe
        <4> QED BY <3>1, <4>1, <4>2, <4>3 DEF EnAlgunLado, Trabados
      <3>3. ASSUME NEW m \in Lugares(p)
            PROVE  m = l
        <4>1. ASSUME NEW q \in Colas, p \in EnCola(q)
              PROVE  /\ p \notin exec \cup Trabados \cup caidos
                           \cup {liberador}
                     /\ \A r \in Colas \ {q} : p \notin EnCola(r)
                     /\ \A c \in CPUs : oyente[c] \in Sosteniendo
                           => enCpu[c] # p
          BY <1>1, <2>2, <4>1
             DEF Ubicado, Aparte, ColasAparte, TrabadosAparte, ManosAparte
        <4>2. ASSUME NEW c \in CPUs, oyente[c] \in Sosteniendo, enCpu[c] = p
              PROVE  /\ p \notin exec \cup Trabados \cup caidos
                           \cup {liberador}
                     /\ \A d \in CPUs \ {c} : oyente[d] \in Sosteniendo =>
                           enCpu[d] # p
          <5>1. p # Nil
            BY <1>1, CpusAssumption DEF Inductivo, TypeOK
          <5> QED BY <1>1, <4>2, <5>1
                 DEF Ubicado, Aparte, ManosAparte, DuenioUnico, Duenios
        <4>3. /\ exec \cap (Trabados \cup caidos \cup {liberador}) = {}
              /\ blocked \cap suspBlocked = {}
              /\ Trabados \cap (caidos \cup {liberador}) = {}
          BY <1>1, <2>2 DEF Ubicado, Aparte, ColasAparte, TrabadosAparte
        <4>4. liberador \notin caidos
          BY <1>1 DEF Ubicado, Aparte, ColasAparte
        <4> QED BY <2>1, <3>2, <3>3, <4>1, <4>2, <4>3, <4>4, LugaresDe
               DEF Trabados
      <3>4. Lugares(p) = {l}
        BY <3>2, <3>3
      <3> QED BY <2>4, <3>4, FS_Singleton
    <2> QED BY <2>3, <2>4
  <1> QED BY <1>1, LugaresInvariante, PTL

\* Every queue and every list holds processes in its own state, unless a late
\* cambiar_estado of a preemption (SRT) or a dump that cannot reach Memoria
\* changes the state of a process that is elsewhere by then.
THEOREM EstadoCorrecto ==
  ASSUME AlgCorto # "SRT", "dump_con" \notin Fallas
  PROVE  Spec => []EstadoSegunCola
  <1>1. ASSUME Inductivo, Ubicado
        PROVE  EstadoSegunCola
    <2>1. /\ exec \subseteq Pids /\ blocked \subseteq Pids
          /\ suspBlocked \subseteq Pids
      BY <1>1 DEF Inductivo, TypeOK
    <2>2. \A q \in Colas : ToSet(cola[q]) \subseteq Pids
      BY <1>1, EnColaEsPid DEF EnCola, Inductivo
    <2>3. EstadosExactos /\ TrabadosExactos
      BY <1>1 DEF Ubicado
    <2> QED BY <2>1, <2>2, <2>3 DEF EstadoSegunCola, EstadosExactos,
        TrabadosExactos, EnCola, EnVentana, Colas
  <1> QED BY <1>1, LugaresInvariante, PTL

\* Without preemption and without those two faults, a process is blocked
\* exactly while a request, a dump or its own listener will unblock it.
THEOREM MotivoCorrecto ==
  ASSUME AlgCorto # "SRT", "dump_con" \notin Fallas, "io" \notin Fallas
  PROVE  Spec => []BloqueadoConMotivo
  <1>1. ASSUME Inductivo, Ubicado
        PROVE  BloqueadoConMotivo
    <2>1. Trabados \subseteq Pids
      BY <1>1 DEF Inductivo, TypeOK, Trabados
    <2>2. MotivoUnico /\ MotivoPresente
      BY <1>1 DEF Ubicado
    <2> QED BY <2>1, <2>2 DEF BloqueadoConMotivo, MotivoUnico, MotivoPresente,
        Trabados, EnVentana
  <1> QED BY <1>1, LugaresInvariante, PTL

LEMMA ColaSinCabeza ==
  ASSUME NEW S, NEW s \in Seq(S), s # <<>>
  PROVE  /\ s[1] = Head(s)
         /\ RemoveAt(s, 1) = Tail(s)
         /\ <<s[1]>> \o Tail(s) = s
  <1>1. Len(s) \in Nat \ {0} /\ DOMAIN s = 1 .. Len(s)
    BY EmptySeq, LenProperties
  <1>2. 1 \in DOMAIN s /\ Head(s) = s[1]
    BY <1>1
  <1>3. RemoveAt(s, 1) = Tail(s)
    <2>1. SubSeq(s, 1, 0) = <<>>
      BY SubSeqEmpty
    <2>2. Tail(s) = SubSeq(s, 2, Len(s)) /\ Tail(s) \in Seq(S)
      BY TailIsSubSeq, HeadTailProperties
    <2> QED BY <2>1, <2>2, ConcatEmptySeq DEF RemoveAt
  <1>4. <<s[1]>> \o Tail(s) = s
    BY <1>2, HeadTailProperties, ConcatProperties
  <1> QED BY <1>2, <1>3, <1>4

----------------------------------------------------------------------------
\* The life cycle.  Without preemption every step is one of CicloDeVida, with
\* the orders of the queues that the algorithms keep.

QuietoCiclo == /\ UNCHANGED estado
               /\ AlgLargo = "FIFO" => cola'["new"] = cola["new"]
               /\ AlgCorto = "FIFO" => cola'["ready"] = cola["ready"]
DespachaUno(p) == /\ Ciclo!Pasar(p, {"READY"}, "RUNNING")
                  /\ AlgCorto = "FIFO" => Ciclo!Despachar(p)
PasoCiclo ==
    \/ QuietoCiclo
    \/ \E p \in Pids : \/ Ciclo!Crear(p) \/ Ciclo!Admitir(p) \/ Ciclo!Volver(p)
                       \/ DespachaUno(p) \/ Ciclo!Cambiar(p)

LEMMA CicloCambiar ==
  ASSUME NEW p \in Pids, NEW desde, NEW hasta,
         <<desde, hasta>> \in Ciclo!Cambios, estado[p] = desde,
         estado' = [estado EXCEPT ![p] = hasta],
         cola'["new"] = cola["new"], cola'["ready"] = cola["ready"]
  PROVE  PasoCiclo
  <1> DEFINE c == <<desde, hasta>>
  <1>1. c[1] = desde /\ c[2] = hasta
    OBVIOUS
  <1>2. Ciclo!Pasar(p, {c[1]}, c[2])
    BY <1>1 DEF Ciclo!Pasar
  <1>3. Ciclo!Cambiar(p)
    BY <1>2 DEF Ciclo!Cambiar
  <1> QED BY <1>3 DEF PasoCiclo

LEMMA CicloMarcar ==
  ASSUME NEW p \in Pids, MarcarExit(p), UNCHANGED cola,
         estado[p] \in {"RUNNING", "BLOCKED", "SUSP_BLOCKED"}
  PROVE  PasoCiclo
  <1>1. <<estado[p], "EXIT">> \in Ciclo!Cambios
    BY DEF Ciclo!Cambios
  <1>2. estado' = [estado EXCEPT ![p] = "EXIT"]
    BY DEF MarcarExit
  <1> QED BY <1>1, <1>2, CicloCambiar

LEMMA CicloEncolarExit ==
  ASSUME TypeOK, NEW p \in Pids, EncolarExit(p), UNCHANGED estado
  PROVE  PasoCiclo
BY DEF EncolarExit, Encolar, TypeOK, Colas, PasoCiclo, QuietoCiclo

LEMMA CicloDesbloquear ==
  ASSUME TypeOK, NEW p \in Pids, Desbloquear(p)
  PROVE  PasoCiclo
  <1>1. cola \in [Colas -> Seq(Pids)]
    BY DEF TypeOK
  <1>2. CASE UNCHANGED <<estado, cola>>
    BY <1>2 DEF PasoCiclo, QuietoCiclo
  <1>3. CASE /\ estado[p] = "BLOCKED" /\ cola' = Encolar("ready", p)
             /\ estado' = [estado EXCEPT ![p] = "READY"]
    <2>1. cola'["new"] = cola["new"]
             /\ cola'["ready"] = Append(cola["ready"], p)
      BY <1>1, <1>3 DEF Encolar, Colas
    <2>2. Ciclo!Volver(p)
      BY <1>3, <2>1 DEF Ciclo!Volver, Ciclo!Pasar
    <2> QED BY <2>2 DEF PasoCiclo
  <1>4. CASE /\ estado[p] = "SUSP_BLOCKED" /\ cola' = Encolar("susp_ready", p)
             /\ estado' = [estado EXCEPT ![p] = "SUSP_READY"]
    <2>1. cola'["new"] = cola["new"] /\ cola'["ready"] = cola["ready"]
      BY <1>1, <1>4 DEF Encolar, Colas
    <2>2. <<"SUSP_BLOCKED", "SUSP_READY">> \in Ciclo!Cambios
      BY DEF Ciclo!Cambios
    <2> QED BY <1>4, <2>1, <2>2, CicloCambiar
  <1> QED BY <1>2, <1>3, <1>4 DEF Desbloquear

LEMMA CicloElegirCandidato ==
  ASSUME TypeOK, ElegirCandidato
  PROVE  PasoCiclo
  <1> DEFINE q == ColaDeIngreso(cola["susp_ready"] # <<>>)
  <1>1. q \in {"new", "susp_ready"} /\ cola \in [Colas -> Seq(Pids)]
    BY DEF ColaDeIngreso, TypeOK
  <1>2. \/ cola' = cola
        \/ \E s \in OrdenesDeIngreso(cola[q]) : cola' = [cola EXCEPT ![q] = s]
    BY DEF ElegirCandidato
  <1> HIDE DEF q
  <1>3. cola'["ready"] = cola["ready"]
    BY <1>1, <1>2 DEF Colas
  <1>4. AlgLargo = "FIFO" => cola'["new"] = cola["new"]
    BY <1>1, <1>2 DEF Colas, OrdenesDeIngreso
  <1> QED BY <1>3, <1>4 DEF PasoCiclo, QuietoCiclo, ElegirCandidato

LEMMA CicloAplicarAdmision ==
  ASSUME TypeOK, Ubicado, CandidatoEnCabeza, AlgCorto # "SRT", AplicarAdmision
  PROVE  PasoCiclo
  <1> DEFINE q == ColaDeIngreso(largo.susp)
             p == largo.cand
  <1>1. /\ q \in {"new", "susp_ready"} /\ cola \in [Colas -> Seq(Pids)]
        /\ q \in Colas /\ "ready" \in Colas
        /\ cola[q] # <<>> /\ p = Head(cola[q])
    BY DEF ColaDeIngreso, TypeOK, Colas, CandidatoEnCabeza, AplicarAdmision
  <1>2. /\ cola' = [cola EXCEPT ![q] = Tail(@), !["ready"] = Append(@, p)]
        /\ estado' = [estado EXCEPT ![p] = "READY"]
    BY DEF AplicarAdmision
  <1> HIDE DEF q
  <1>3. cola[q] \in Seq(Pids)
    BY <1>1
  <1>4. p \in Pids /\ p \in EnCola(q)
    BY <1>1, <1>3, HeadTailProperties, ConjuntoCabeza
       DEF EnCola, Ubicado, SinRepetir
  <1> HIDE DEF p
  <1>5. cola'["ready"] = Append(cola["ready"], p)
    BY <1>1, <1>2
  <1>6. CASE q = "new"
    <2>1. estado[p] = "NEW" /\ cola'["new"] = Tail(cola["new"])
      BY <1>1, <1>2, <1>4, <1>6 DEF Ubicado, EstadosExactos
    <2>2. Ciclo!Admitir(p)
      BY <1>1, <1>2, <1>5, <1>6, <2>1 DEF Ciclo!Admitir, Ciclo!Pasar
    <2> QED BY <1>4, <2>2 DEF PasoCiclo
  <1>7. CASE q = "susp_ready"
    <2>1. estado[p] = "SUSP_READY" /\ cola'["new"] = cola["new"]
      BY <1>1, <1>2, <1>4, <1>7 DEF Ubicado, EstadosExactos, Colas
    <2>2. Ciclo!Volver(p)
      BY <1>2, <1>5, <2>1 DEF Ciclo!Volver, Ciclo!Pasar
    <2> QED BY <1>4, <2>2 DEF PasoCiclo
  <1> QED BY <1>1, <1>6, <1>7

LEMMA MismoCardinal == \A S : Ciclo!Cardinality(S) = Cardinality(S)
  BY Zenon DEF Ciclo!Cardinality, Cardinality

\* The processes that are RUNNING are those of the CPUs that are not free.
LEMMA CicloCorriendo ==
  ASSUME TypeOK, Corriendo, AlgCorto # "SRT", NEW c \in CPUs, libre[c]
  PROVE  Cardinality(Ciclo!En("RUNNING")) < Cardinality(CPUs)
  <1> DEFINE R  == Ciclo!En("RUNNING")
             D  == {d \in CPUs : ~libre[d]}
  <1>1. IsFiniteSet(CPUs) /\ D \subseteq CPUs \ {c}
    BY CpusAssumption
  <1>2. /\ IsFiniteSet(D) /\ Cardinality(D) \in Nat
        /\ Cardinality(D) <= Cardinality(CPUs) - 1
        /\ Cardinality(CPUs) \in Nat
    <2>1. /\ IsFiniteSet(CPUs \ {c}) /\ Cardinality(CPUs) \in Nat
          /\ Cardinality(CPUs \ {c}) = Cardinality(CPUs) - 1
      BY <1>1, FS_RemoveElement, FS_CardinalityType
    <2> QED BY <1>1, <2>1, FS_Subset, FS_CardinalityType
  <1>3. R \subseteq {enCpu[d] : d \in D}
    BY DEF Ciclo!En, Corriendo
  <1>4. /\ IsFiniteSet({enCpu[d] : d \in D})
        /\ Cardinality({enCpu[d] : d \in D}) <= Cardinality(D)
    <2> DEFINE f == [d \in D |-> enCpu[d]]
               I == {enCpu[d] : d \in D}
    <2>1. f \in Surjection(D, I)
      BY DEF Surjection
    <2> HIDE DEF f, I
    <2> QED BY <1>2, <2>1, FS_Surjection DEF I
  <1>5. /\ Cardinality(R) \in Nat
        /\ Cardinality(R) <= Cardinality({enCpu[d] : d \in D})
        /\ Cardinality({enCpu[d] : d \in D}) \in Nat
    BY <1>3, <1>4, FS_Subset, FS_CardinalityType
  <1> QED BY <1>2, <1>4, <1>5

LEMMA CicloDespachar ==
  ASSUME TypeOK, Ubicado, CpusOrdenadas, AlgCorto # "SRT", Despachar
  PROVE  PasoCiclo
  <1>1. cola \in [Colas -> Seq(Pids)] /\ "ready" \in Colas /\ "new" \in Colas
    BY DEF TypeOK, Colas
  <1>2. CASE DespacharANadie
    BY <1>2 DEF DespacharANadie, PasoCiclo, QuietoCiclo
  <1>3. ASSUME NEW i \in Elegibles(cola["ready"])
        PROVE  /\ i \in DOMAIN cola["ready"] /\ i \in 1 .. Len(cola["ready"])
               /\ AlgCorto = "FIFO" => i = 1
               /\ cola["ready"][i] \in Pids
                     /\ cola["ready"][i] \in EnCola("ready")
    BY <1>1, <1>3 DEF Elegibles, EnCola, ToSet
  <1>4. cola["ready"] # <<>> =>
          /\ RemoveAt(cola["ready"], 1) = Tail(cola["ready"])
          /\ AlFrente(cola["ready"], 1) = cola["ready"]
          /\ cola["ready"][1] = Head(cola["ready"])
    BY <1>1, ColaSinCabeza DEF AlFrente
  <1>5. ASSUME NEW i \in Elegibles(cola["ready"]), DespacharSinCpu(i)
        PROVE  PasoCiclo
    <2>1. /\ cola'["new"] = cola["new"] /\ estado' = estado
          /\ cola'["ready"] = AlFrente(cola["ready"], i)
      BY <1>1, <1>5 DEF DespacharSinCpu, Colas
    <2>2. cola["ready"] # <<>>
      BY <1>3
    <2>3. AlgCorto = "FIFO" => cola'["ready"] = cola["ready"]
      BY <1>3, <1>4, <2>1, <2>2
    <2> QED BY <2>1, <2>3 DEF PasoCiclo, QuietoCiclo
  <1>6. ASSUME NEW i \in Elegibles(cola["ready"]), NEW t \in PrimerTurno,
               DespacharA(Turno(t), i)
        PROVE  PasoCiclo
    <2> DEFINE p == cola["ready"][i]
               c == listaCpus[Turno(t)]
    <2>1. /\ cola'["new"] = cola["new"]
          /\ cola'["ready"] = RemoveAt(cola["ready"], i)
          /\ estado' = [estado EXCEPT ![p] = "RUNNING"]
      BY <1>1, <1>6 DEF DespacharA, Colas
    <2>2. c \in CPUs /\ libre[c]
      BY <1>6, CpuElegida DEF PrimerTurno, TurnosLibres
    <2>3. estado[p] = "READY" /\ p \in Pids
      BY <1>3 DEF Ubicado, EstadosExactos
    <2>4. Cardinality(Ciclo!En("RUNNING")) < Cardinality(CPUs)
      BY <2>2, CicloCorriendo DEF Ubicado
    <2>5. cola["ready"] # <<>>
      BY <1>3
    <2>6. AlgCorto = "FIFO" =>
            p = Head(cola["ready"]) /\ cola'["ready"] = Tail(cola["ready"])
      BY <1>3, <1>4, <2>1, <2>5
    <2> HIDE DEF p
    <2>7. Ciclo!Pasar(p, {"READY"}, "RUNNING")
      BY <2>1, <2>3 DEF Ciclo!Pasar
    <2>8. DespachaUno(p)
      BY <2>1, <2>4, <2>5, <2>6, <2>7, MismoCardinal
         DEF DespachaUno, Ciclo!Despachar
    <2> QED BY <2>3, <2>8 DEF PasoCiclo
  <1> QED BY <1>2, <1>5, <1>6 DEF Despachar

LEMMA CicloPaso ==
  ASSUME Inductivo, SinDesalojos, Ubicado, Vigilando, AlgCorto # "SRT",
         "dump_con" \notin Fallas, Next
  PROVE  PasoCiclo
  <1> USE DEF Inductivo
  <1>1. ASSUME NEW c \in CPUs, ConectarDispatch(c)
        PROVE  PasoCiclo
    BY <1>1 DEF ConectarDispatch, PasoCiclo, QuietoCiclo, colaVars
  <1>2. ASSUME NEW c \in CPUs, ConectarInterrupt(c)
        PROVE  PasoCiclo
    BY <1>2 DEF ConectarInterrupt, PasoCiclo, QuietoCiclo, colaVars
  <1>3. ASSUME NEW c \in CPUs, CaeCpu(c)
        PROVE  PasoCiclo
    BY <1>3 DEF CaeCpu, PasoCiclo, QuietoCiclo, colaVars
  <1>4. CASE IniciarLargoPlazo
    BY <1>4 DEF IniciarLargoPlazo, PasoCiclo, QuietoCiclo, colaVars
  <1>5. CASE EsperarNuevo
    BY <1>5 DEF EsperarNuevo, PasoCiclo, QuietoCiclo, colaVars
  <1>6. CASE ElegirCandidato
    BY <1>6, CicloElegirCandidato
  <1>7. CASE AdmitirEnMemoria
    BY <1>7 DEF AdmitirEnMemoria, PasoCiclo, QuietoCiclo, colaVars
  <1>8. CASE RechazarAdmision
    BY <1>8 DEF RechazarAdmision, PasoCiclo, QuietoCiclo, colaVars
  <1>9. CASE AplicarAdmision
    BY <1>9, CicloAplicarAdmision
  <1>10. CASE EsperarListo
    BY <1>10 DEF EsperarListo, PasoCiclo, QuietoCiclo, colaVars
  <1>11. CASE EsperarCpu
    BY <1>11 DEF EsperarCpu, PasoCiclo, QuietoCiclo, colaVars
  <1>12. CASE Despachar
    BY <1>12, CicloDespachar
  <1>13. ASSUME NEW c \in CPUs, CrearProceso(c)
         PROVE  PasoCiclo
    <2>1. /\ ultimoPid \in Pids
                /\ estado' = [estado EXCEPT ![ultimoPid] = "NEW"]
          /\ cola'["new"] = Append(cola["new"], ultimoPid)
          /\ cola'["ready"] = cola["ready"]
      BY <1>13 DEF CrearProceso, Encolar, TypeOK, Colas
    <2>2. estado[ultimoPid] = "NINGUNO"
      BY <2>1 DEF Ubicado, Existentes, Pids
    <2>3. Ciclo!Crear(ultimoPid)
      BY <2>1, <2>2 DEF Ciclo!Crear, Ciclo!Pasar
    <2> QED BY <2>1, <2>3 DEF PasoCiclo
  <1>14. ASSUME NEW c \in CPUs, NEW m \in {"EXIT", "IO", "DUMP", "ERROR"},
                RecibirRespuesta(c, m)
         PROVE  PasoCiclo
    BY <1>14 DEF RecibirRespuesta, PasoCiclo, QuietoCiclo, colaVars
  <1>15. ASSUME NEW c \in CPUs, RecibirInterrupcion(c)
         PROVE  PasoCiclo
    BY <1>15 DEF RecibirInterrupcion, SinDesalojos
  <1>16. ASSUME NEW c \in CPUs, ExitEncolar(c)
         PROVE  PasoCiclo
    BY <1>16 DEF ExitEncolar, Encolar, TypeOK, Colas, PasoCiclo, QuietoCiclo
  <1>17. ASSUME NEW c \in CPUs, ExitAvisar(c)
         PROVE  PasoCiclo
    <2>1. /\ cola' = cola /\ enCpu[c] \in Pids
          /\ estado' = [estado EXCEPT
                          ![enCpu[c]] = IF @ = "LIBERADO" THEN @ ELSE "EXIT"]
      BY <1>17 DEF ExitAvisar, colaVars, Punteros, EnManos, TypeOK
    <2>2. estado[enCpu[c]] \in {"EXIT", "LIBERADO", "RUNNING"}
      BY <1>17, <2>1 DEF ExitAvisar, Ubicado, EstadoConLugar, EstadosExactos
    <2>3. CASE estado[enCpu[c]] = "RUNNING"
      <3>1. <<"RUNNING", "EXIT">> \in Ciclo!Cambios
        BY DEF Ciclo!Cambios
      <3> QED BY <2>1, <2>3, <3>1, CicloCambiar
    <2>4. CASE estado[enCpu[c]] # "RUNNING"
      BY <2>1, <2>2, <2>4 DEF TypeOK, PasoCiclo, QuietoCiclo
    <2> QED BY <2>3, <2>4
  <1>18. ASSUME NEW c \in CPUs, ErrorMarcar(c)
         PROVE  PasoCiclo
    <2>1. enCpu[c] \in Pids /\ estado[enCpu[c]] = "RUNNING"
      BY <1>18 DEF ErrorMarcar, Punteros, EnManos, TypeOK, Ubicado,
         EstadosExactos, Sosteniendo
    <2> QED BY <1>18, <2>1, CicloMarcar DEF ErrorMarcar, colaVars
  <1>19. ASSUME NEW c \in CPUs, BloquearPorIo(c)
         PROVE  PasoCiclo
    <2>1. enCpu[c] \in Pids /\ estado[enCpu[c]] = "RUNNING"
      BY <1>19
         DEF BloquearPorIo, Punteros, EnManos, TypeOK, Ubicado, EstadosExactos,
         Sosteniendo
    <2>2. <<"RUNNING", "BLOCKED">> \in Ciclo!Cambios
      BY DEF Ciclo!Cambios
    <2>3. /\ cola' = cola
          /\ estado' = estado
                \/ estado' = [estado EXCEPT ![enCpu[c]] = "BLOCKED"]
      BY <1>19 DEF BloquearPorIo
    <2>4. CASE estado' = estado
      BY <2>3, <2>4 DEF PasoCiclo, QuietoCiclo
    <2> QED BY <2>1, <2>2, <2>3, <2>4, CicloCambiar
  <1>20. ASSUME NEW c \in CPUs, PedirIo(c)
         PROVE  PasoCiclo
    BY <1>20 DEF PedirIo, PasoCiclo, QuietoCiclo, colaVars
  <1>21. ASSUME NEW c \in CPUs, BloquearPorDump(c)
         PROVE  PasoCiclo
    <2>1. enCpu[c] \in Pids /\ estado[enCpu[c]] = "RUNNING"
      BY <1>21
         DEF BloquearPorDump, Punteros, EnManos, TypeOK, Ubicado,
            EstadosExactos,
         Sosteniendo
    <2>2. <<"RUNNING", "BLOCKED">> \in Ciclo!Cambios
      BY DEF Ciclo!Cambios
    <2>3. /\ cola' = cola
          /\ estado' = estado
                \/ estado' = [estado EXCEPT ![enCpu[c]] = "BLOCKED"]
      BY <1>21 DEF BloquearPorDump
    <2>4. CASE estado' = estado
      BY <2>3, <2>4 DEF PasoCiclo, QuietoCiclo
    <2> QED BY <2>1, <2>2, <2>3, <2>4, CicloCambiar
  <1>22. ASSUME NEW c \in CPUs, InterrupcionEncolar(c)
         PROVE  PasoCiclo
    BY <1>22 DEF InterrupcionEncolar, SinDesalojos
  <1>23. ASSUME NEW c \in CPUs, InterrupcionAvisar(c)
         PROVE  PasoCiclo
    BY <1>23 DEF InterrupcionAvisar, SinDesalojos
  <1>24. ASSUME NEW c \in CPUs, InterrupcionDesalojar(c)
         PROVE  PasoCiclo
    BY <1>24 DEF InterrupcionDesalojar, SinDesalojos
  <1>25. ASSUME NEW c \in CPUs, SoltarCpu(c)
         PROVE  PasoCiclo
    BY <1>25 DEF SoltarCpu, PasoCiclo, QuietoCiclo, colaVars
  <1>26. ASSUME NEW c \in CPUs, AvisarCpu(c)
         PROVE  PasoCiclo
    BY <1>26 DEF AvisarCpu, PasoCiclo, QuietoCiclo, colaVars
  <1>27. ASSUME NEW c \in CPUs, DetectarCaida(c)
         PROVE  PasoCiclo
    BY <1>27 DEF DetectarCaida, PasoCiclo, QuietoCiclo, colaVars
  <1>28. ASSUME NEW c \in CPUs, QuitarCpu(c)
         PROVE  PasoCiclo
    BY <1>28 DEF QuitarCpu, PasoCiclo, QuietoCiclo, colaVars
  <1>29. ASSUME NEW c \in CPUs, FinalizarPorCaida(c)
         PROVE  PasoCiclo
    <2>1. CASE estado' = estado
      BY <1>29, <2>1 DEF FinalizarPorCaida, PasoCiclo, QuietoCiclo
    <2>2. CASE enCpu[c] # Nil /\ estado' = [estado EXCEPT ![enCpu[c]] = "EXIT"]
      <3>1. enCpu[c] \in Pids /\ estado[enCpu[c]] = "RUNNING"
        BY <1>29, <2>2 DEF FinalizarPorCaida, TypeOK, Ubicado, DuenioUnico,
           Ejecutando, EstadosExactos
      <3>2. <<"RUNNING", "EXIT">> \in Ciclo!Cambios
        BY DEF Ciclo!Cambios
      <3>3. cola' = cola
        BY <1>29 DEF FinalizarPorCaida
      <3> QED BY <2>2, <3>1, <3>2, <3>3, CicloCambiar
    <2> QED BY <1>29, <2>1, <2>2 DEF FinalizarPorCaida
  <1>30. CASE TomarFinalizado
    <2>1. CASE cola["exit"] = <<>>
      BY <1>30, <2>1 DEF TomarFinalizado, PasoCiclo, QuietoCiclo
    <2>2. CASE cola["exit"] # <<>>
      <3> DEFINE p == Head(cola["exit"])
      <3>1. /\ estado' = [estado EXCEPT ![p] = "EXIT"]
            /\ cola'["new"] = cola["new"] /\ cola'["ready"] = cola["ready"]
        BY <1>30, <2>2 DEF TomarFinalizado, TypeOK, Colas
      <3>2. p \in Pids /\ p \in EnCola("exit")
        BY <2>2, ConjuntoCabeza, HeadTailProperties
           DEF TypeOK, Colas, Ubicado, SinRepetir, EnCola
      <3>3. estado[p] \in {"EXIT", "RUNNING"}
        BY <3>2 DEF Ubicado, EstadosExactos
      <3> HIDE DEF p
      <3>4. CASE estado[p] = "EXIT"
        BY <3>1, <3>2, <3>4 DEF TypeOK, PasoCiclo, QuietoCiclo
      <3>5. CASE estado[p] = "RUNNING"
        <4>1. <<"RUNNING", "EXIT">> \in Ciclo!Cambios
          BY DEF Ciclo!Cambios
        <4> QED BY <3>1, <3>2, <3>5, <4>1, CicloCambiar
      <3> QED BY <3>3, <3>4, <3>5
    <2> QED BY <2>1, <2>2
  <1>31. CASE LiberarFinalizado
    <2>1. liberador \in Pids /\ estado[liberador] = "EXIT"
      BY <1>31 DEF LiberarFinalizado, TypeOK, Ubicado, EstadosExactos
    <2>2. <<"EXIT", "LIBERADO">> \in Ciclo!Cambios
      BY DEF Ciclo!Cambios
    <2>3. cola' = cola /\ estado' = [estado EXCEPT ![liberador] = "LIBERADO"]
      BY <1>31 DEF LiberarFinalizado, colaVars
    <2> QED BY <2>1, <2>2, <2>3, CicloCambiar
  <1>32. ASSUME NEW p \in Pids, DispararVigilia(p)
         PROVE  PasoCiclo
    BY <1>32 DEF DispararVigilia, PasoCiclo, QuietoCiclo, colaVars
  <1>33. ASSUME NEW p \in Pids, SuspenderEnMemoria(p)
         PROVE  PasoCiclo
    BY <1>33 DEF SuspenderEnMemoria, PasoCiclo, QuietoCiclo, colaVars
  <1>34. ASSUME NEW p \in Pids, DumpOk(p)
         PROVE  PasoCiclo
    BY <1>34, CicloDesbloquear DEF DumpOk
  <1>35. ASSUME NEW p \in Pids, DumpFallido(p)
         PROVE  PasoCiclo
    <2>1. cola' = cola
      BY <1>35 DEF DumpFallido
    <2>2. CASE Encontrado(p)
      <3>1. p \in Trabados /\ p \in volcando \ saliendo
        BY <1>35 DEF DumpFallido, Ubicado, MotivoUnico
      <3>2. estado[p] \in {"BLOCKED", "SUSP_BLOCKED"}
        BY <3>1 DEF Trabados, Ubicado, MotivosExactos
      <3>3. <<estado[p], "EXIT">> \in Ciclo!Cambios
        BY <3>2 DEF Ciclo!Cambios
      <3>4. estado' = [estado EXCEPT ![p] = "EXIT"]
        BY <1>35, <2>2 DEF DumpFallido
      <3> QED BY <2>1, <3>3, <3>4, CicloCambiar
    <2>3. CASE ~Encontrado(p)
      BY <1>35, <2>1, <2>3 DEF DumpFallido, TypeOK, PasoCiclo, QuietoCiclo
    <2> QED BY <2>2, <2>3
  <1>36. ASSUME NEW p \in Pids, DumpSinConexion(p)
         PROVE  PasoCiclo
    BY <1>36 DEF DumpSinConexion
  <1>37. ASSUME NEW p \in Pids, FinIo(p)
         PROVE  PasoCiclo
    BY <1>37, CicloDesbloquear DEF FinIo
  <1>38. ASSUME NEW p \in Pids, FinalizarCaido(p)
         PROVE  PasoCiclo
    <2>1. estado[p] \in {"BLOCKED", "SUSP_BLOCKED"}
      BY <1>38 DEF FinalizarCaido, Ubicado, EstadosExactos
    <2> QED BY <1>38, <2>1, CicloMarcar DEF FinalizarCaido, colaVars
  <1>39. CASE CaeDispositivo
    BY <1>39 DEF CaeDispositivo, PasoCiclo, QuietoCiclo, colaVars
  <1>40. ASSUME NEW c \in CPUs, ErrorEncolar(c)
         PROVE  PasoCiclo
    <2>1. enCpu[c] \in Pids
      BY <1>40 DEF ErrorEncolar, Punteros, EnManos, TypeOK
    <2> QED BY <1>40, <2>1, CicloEncolarExit DEF ErrorEncolar
  <1>41. ASSUME NEW c \in CPUs, ErrorAvisar(c)
         PROVE  PasoCiclo
    BY <1>41 DEF ErrorAvisar, PasoCiclo, QuietoCiclo, colaVars
  <1>42. ASSUME NEW p \in Pids, Suspender(p)
         PROVE  PasoCiclo
    <2>1. p # Nil /\ cola' = cola
      BY <1>42, CpusAssumption DEF Suspender
    <2>2. /\ estado[p] = "BLOCKED"
          /\ estado' = [estado EXCEPT ![p] = "SUSP_BLOCKED"]
      BY <1>42, <2>1 DEF Suspender, Vigilando, Ubicado, TrabadosExactos
    <2>3. <<"BLOCKED", "SUSP_BLOCKED">> \in Ciclo!Cambios
      BY DEF Ciclo!Cambios
    <2> QED BY <2>1, <2>2, <2>3, CicloCambiar
  <1>43. ASSUME NEW p \in Pids, DumpEncolar(p)
         PROVE  PasoCiclo
    BY <1>43, CicloEncolarExit DEF DumpEncolar
  <1>44. CASE DumpAvisar
    BY <1>44 DEF DumpAvisar, PasoCiclo, QuietoCiclo, colaVars
  <1>45. ASSUME NEW p \in Pids, CaidoEncolar(p)
         PROVE  PasoCiclo
    BY <1>45, CicloEncolarExit DEF CaidoEncolar
  <1>46. CASE CaidoAvisar
    BY <1>46 DEF CaidoAvisar, PasoCiclo, QuietoCiclo, colaVars
  <1> QED
    BY <1>1, <1>2, <1>3, <1>4, <1>5, <1>6, <1>7, <1>8, <1>9, <1>10, <1>11,
       <1>12, <1>13, <1>14, <1>15, <1>16, <1>17, <1>18, <1>19, <1>20, <1>21,
       <1>22, <1>23, <1>24, <1>25, <1>26, <1>27, <1>28, <1>29, <1>30, <1>31,
       <1>32, <1>33, <1>34, <1>35, <1>36, <1>37, <1>38, <1>39, <1>40, <1>41,
       <1>42, <1>43, <1>44, <1>45, <1>46 DEF Next, Conexiones, LargoPlazo,
       CortoPlazo, Oyente, Liberador, HilosDe, Vigilia, Dump, Avisos

\* EXIT is final: without preemption no late timer, end of I/O, failed dump or
\* death of a device or of a CPU brings a finished process back, although the
\* timers and finalizar_proceso are not one step.  Only a dump thread that
\* cannot connect finishes a process that is still in cola_blocked, and there a
\* timer between its check and its write may overwrite EXIT: that fault is left
\* out.
THEOREM SalidaFinal ==
  ASSUME AlgCorto # "SRT", "dump_con" \notin Fallas
  PROVE  Spec => ExitEsFinal
  <1>1. ASSUME Inductivo, SinDesalojos, Ubicado, Vigilando, [Next]_vars
        PROVE  [\A p \in Pids :
                  /\ estado[p] = "EXIT" => estado'[p] \in {"EXIT", "LIBERADO"}
                  /\ estado[p] = "LIBERADO" => estado'[p] = "LIBERADO"]_estado
    <2>1. CASE UNCHANGED vars
      BY <2>1 DEF vars
    <2>2. CASE QuietoCiclo
      BY <2>2 DEF QuietoCiclo
    <2>3. ASSUME NEW p \in Pids,
                 \/ Ciclo!Crear(p) \/ Ciclo!Admitir(p) \/ Ciclo!Volver(p)
                 \/ DespachaUno(p) \/ Ciclo!Cambiar(p)
          PROVE  /\ \A r \in Pids \ {p} : estado'[r] = estado[r]
                 /\ estado[p] # "LIBERADO"
                 /\ estado[p] = "EXIT" => estado'[p] = "LIBERADO"
      <3>1. /\ estado \in [Pids -> Estados]
            /\ \A desde, hasta : Ciclo!Pasar(p, desde, hasta) =>
                 /\ \A r \in Pids \ {p} : estado'[r] = estado[r]
                 /\ estado[p] \in desde /\ estado'[p] = hasta
        BY <1>1 DEF Inductivo, TypeOK, Ciclo!Pasar
      <3>2. CASE Ciclo!Cambiar(p)
        <4>1. PICK c \in Ciclo!Cambios : Ciclo!Pasar(p, {c[1]}, c[2])
          BY <3>2 DEF Ciclo!Cambiar
        <4>2. /\ c[1] # "LIBERADO"
              /\ c[1] = "EXIT" => c[2] = "LIBERADO"
          BY DEF Ciclo!Cambios
        <4> QED BY <3>1, <4>1, <4>2
      <3> QED BY <2>3, <3>1, <3>2
             DEF Ciclo!Crear, Ciclo!Admitir, Ciclo!Volver, DespachaUno
    <2>4. CASE Next
      <3>1. PasoCiclo
        BY <1>1, <2>4, CicloPaso
      <3> QED BY <2>2, <2>3, <3>1 DEF PasoCiclo
    <2> QED BY <1>1, <2>1, <2>4
  <1> QED BY <1>1, LugaresInvariante, PTL DEF Spec, ExitEsFinal

\* Without preemption, and unless a dump cannot connect, a timer suspends only a
\* process that is still BLOCKED when the state is written, and not only when
\* hilo_suspension_proceso looked at it.
THEOREM SuspensionCorrecta ==
  ASSUME AlgCorto # "SRT", "dump_con" \notin Fallas
  PROVE  Spec => SoloBloqueadoSeSuspende
  <1>1. ASSUME Inductivo, SinDesalojos, Ubicado, Vigilando, [Next]_vars
        PROVE  [\A p \in Pids :
                  estado'[p] = "SUSP_BLOCKED" =>
                     estado[p] \in {"BLOCKED", "SUSP_BLOCKED"}]_estado
    <2>1. CASE UNCHANGED vars
      BY <2>1 DEF vars
    <2>2. CASE QuietoCiclo
      BY <2>2 DEF QuietoCiclo
    <2>3. ASSUME NEW p \in Pids,
                 \/ Ciclo!Crear(p) \/ Ciclo!Admitir(p) \/ Ciclo!Volver(p)
                 \/ DespachaUno(p) \/ Ciclo!Cambiar(p)
          PROVE  /\ \A r \in Pids \ {p} : estado'[r] = estado[r]
                 /\ estado'[p] = "SUSP_BLOCKED" => estado[p] = "BLOCKED"
      <3>1. /\ estado \in [Pids -> Estados]
            /\ \A desde, hasta : Ciclo!Pasar(p, desde, hasta) =>
                 /\ \A r \in Pids \ {p} : estado'[r] = estado[r]
                 /\ estado[p] \in desde /\ estado'[p] = hasta
        BY <1>1 DEF Inductivo, TypeOK, Ciclo!Pasar
      <3>2. CASE Ciclo!Cambiar(p)
        <4>1. PICK c \in Ciclo!Cambios : Ciclo!Pasar(p, {c[1]}, c[2])
          BY <3>2 DEF Ciclo!Cambiar
        <4>2. c[2] = "SUSP_BLOCKED" => c[1] = "BLOCKED"
          BY DEF Ciclo!Cambios
        <4> QED BY <3>1, <4>1, <4>2
      <3> QED BY <2>3, <3>1, <3>2
             DEF Ciclo!Crear, Ciclo!Admitir, Ciclo!Volver, DespachaUno
    <2>4. CASE Next
      <3>1. PasoCiclo
        BY <1>1, <2>4, CicloPaso
      <3> QED BY <2>2, <2>3, <3>1 DEF PasoCiclo
    <2> QED BY <1>1, <2>1, <2>4
  <1> QED BY <1>1, LugaresInvariante, PTL DEF Spec, SoloBloqueadoSeSuspende

\* The kernel implements the life cycle of CicloDeVida under FIFO, for any
\* number of processes and of CPUs, whatever dies or fails but the connection of
\* a dump: admission in order of creation, dispatch in order of arrival, no more
\* running than CPUs, one end.
THEOREM CicloCumplido ==
  ASSUME AlgCorto = "FIFO", AlgLargo = "FIFO", "dump_con" \notin Fallas
  PROVE  Spec => CumpleCiclo
  <1>1. Init => Ciclo!Init
    <2> SUFFICES ASSUME Init PROVE Ciclo!Init
      OBVIOUS
    <2>1. 0 \in Pids
      BY PidsAssumption DEF Pids
    <2>2. cola["new"] = <<0>> /\ cola["ready"] = <<>>
      BY DEF Init, Colas
    <2> QED BY <2>1, <2>2 DEF Init, Ciclo!Init
  <1>2. ASSUME Inductivo, SinDesalojos, Ubicado, Vigilando, [Next]_vars
        PROVE  [Ciclo!Next]_(Ciclo!vars)
    <2>1. CASE UNCHANGED vars
      BY <2>1 DEF vars, colaVars, Ciclo!vars
    <2>2. CASE QuietoCiclo
      BY <2>2 DEF QuietoCiclo, Ciclo!vars
    <2>3. CASE Next
      <3>1. PasoCiclo
        BY <1>2, <2>3, CicloPaso
      <3> QED BY <2>2, <3>1 DEF PasoCiclo, DespachaUno, Ciclo!Next
    <2> QED BY <1>2, <2>1, <2>3
  <1> QED BY <1>1, <1>2, LugaresInvariante, PTL
         DEF Spec, CumpleCiclo, Ciclo!Spec

----------------------------------------------------------------------------
\* The I/O device, as DispositivoIO has it.

QuietoDispositivo == UNCHANGED <<dispositivo, pedidos, caidos>>

LEMMA DispositivoPaso ==
  ASSUME Inductivo, Ubicado, Next
  PROVE  Dispositivo!Next \/ QuietoDispositivo
  <1> USE DEF Inductivo, QuietoDispositivo, ioVars
  <1>1. CASE Conexiones
    BY <1>1 DEF Conexiones, ConectarDispatch, ConectarInterrupt, CaeCpu
  <1>2. CASE LargoPlazo
    BY <1>2 DEF LargoPlazo, IniciarLargoPlazo, EsperarNuevo, ElegirCandidato,
       AdmitirEnMemoria, RechazarAdmision, AplicarAdmision
  <1>3. CASE CortoPlazo
    BY <1>3 DEF CortoPlazo, EsperarListo, EsperarCpu, Despachar
  <1>4. ASSUME NEW c \in CPUs, Oyente(c)
        PROVE  Dispositivo!Next \/ QuietoDispositivo
    <2>1. CASE PedirIo(c)
      <3>1. enCpu[c] \in Pids /\ enCpu[c] \notin pedidos
        BY <2>1 DEF PedirIo, Punteros, EnManos, TypeOK, Ubicado, MotivoUnico
      <3>2. CASE dispositivo
        <4>1. Dispositivo!Pedir(enCpu[c])
          BY <2>1, <3>1, <3>2 DEF PedirIo, Dispositivo!Pedir
        <4> QED BY <3>1, <4>1 DEF Dispositivo!Next
      <3>3. CASE ~dispositivo
        BY <2>1, <3>3 DEF PedirIo, ioVars, finVars
      <3> QED BY <3>2, <3>3
    <2>2. CASE ~PedirIo(c)
      BY <1>4, <2>2 DEF Oyente, CrearProceso, RecibirRespuesta,
         RecibirInterrupcion, ExitEncolar, ExitAvisar, ErrorMarcar,
         ErrorEncolar, ErrorAvisar, BloquearPorIo, BloquearPorDump,
         InterrupcionEncolar, InterrupcionAvisar, InterrupcionDesalojar,
         SoltarCpu, AvisarCpu, DetectarCaida, QuitarCpu, FinalizarPorCaida
    <2> QED BY <2>1, <2>2
  <1>5. CASE Liberador
    BY <1>5 DEF Liberador, TomarFinalizado, LiberarFinalizado
  <1>6. ASSUME NEW p \in Pids, HilosDe(p)
        PROVE  Dispositivo!Next \/ QuietoDispositivo
    <2>1. CASE FinIo(p)
      <3>1. Dispositivo!Servir(p)
        BY <2>1 DEF FinIo, Dispositivo!Servir
      <3> QED BY <3>1 DEF Dispositivo!Next
    <2>2. CASE CaidoEncolar(p)
      <3>1. Dispositivo!Finalizar(p)
        BY <2>2 DEF CaidoEncolar, Dispositivo!Finalizar
      <3> QED BY <3>1 DEF Dispositivo!Next
    <2>3. CASE ~FinIo(p) /\ ~CaidoEncolar(p)
      BY <1>6, <2>3 DEF HilosDe, Vigilia, Dump, DispararVigilia, Suspender,
         SuspenderEnMemoria, DumpOk, DumpFallido, DumpSinConexion, DumpEncolar,
         FinalizarCaido
    <2> QED BY <2>1, <2>2, <2>3
  <1>7. CASE CaeDispositivo
    <2>1. caidos = {} /\ pedidos \subseteq Pids
             /\ \A p \in pedidos : Encontrado(p)
      BY <1>7 DEF CaeDispositivo, Ubicado, MotivoUnico, Trabados, Encontrado,
         TypeOK
    <2>2. Dispositivo!Caer
      BY <1>7, <2>1 DEF CaeDispositivo, Dispositivo!Caer
    <2> QED BY <2>2 DEF Dispositivo!Next
  <1>8. CASE Avisos
    BY <1>8 DEF Avisos, DumpAvisar, CaidoAvisar
  <1> QED BY <1>1, <1>2, <1>3, <1>4, <1>5, <1>6, <1>7, <1>8 DEF Next

\* The kernel uses its device as DispositivoIO allows, for all algorithms and
\* faults: a request is made once, served once or dropped with all the others,
\* and each process of a dropped request is finished once.
THEOREM DispositivoCumplido == Spec => CumpleDispositivo
  <1>1. Init => Dispositivo!Init
    BY DEF Init, Dispositivo!Init
  <1>2. ASSUME Inductivo, SinDesalojos, Ubicado, Vigilando, [Next]_vars
        PROVE  [Dispositivo!Next]_(Dispositivo!vars)
    BY <1>2, DispositivoPaso DEF vars, ioVars, QuietoDispositivo,
       Dispositivo!vars
  <1> QED BY <1>1, <1>2, LugaresInvariante, PTL
          DEF Spec, CumpleDispositivo, Dispositivo!Spec

==============================================================================
