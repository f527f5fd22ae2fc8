------------------------- MODULE PlanificacionProofs -------------------------
(***************************************************************************)
(* What is proved of Planificacion for every number of processes, CPUs and *)
(* frames, every algorithm and every set of faults: its variables keep     *)
(* their types, the long-term planner finds its candidate where it left    *)
(* it, its semaphores count what they stand for, and the long-term planner *)
(* sleeps only when nobody fits.                                           *)
(***************************************************************************)
EXTENDS Planificacion, Secuencias

\* TypeOK is not inductive by itself: the actions of a listener that holds a
\* process use enCpu[c] as a pid, and those of the long-term planner use its
\* candidate, so Punteros says where those pointers are not Nil.
EnManos == {"EXIT", "EXIT_avisar", "ERROR", "ERROR_encolar", "IO", "IO_pedir", "DUMP",
            "INTERRUPCION", "INT_avisar", "INT_desalojar"}
Punteros ==
    /\ \A c \in CPUs : oyente[c] \in EnManos => enCpu[c] # Nil
    /\ largo.pc \in {"memoria", "admitido"} => largo.cand # Nil
Tipado == TypeOK /\ Punteros

----------------------------------------------------------------------------
\* Operators of the model.

LEMMA TipoEncolar ==
  ASSUME NEW q \in Colas, NEW p \in Pids, TypeOK
  PROVE  Encolar(q, p) \in [Colas -> Seq(Pids)]
BY DEF Encolar, TypeOK

LEMMA TipoAlFrente ==
  ASSUME NEW S, NEW s \in Seq(S), NEW i \in DOMAIN s
  PROVE  /\ AlFrente(s, i) \in Seq(S)
         /\ Len(AlFrente(s, i)) = Len(s)
         /\ AlFrente(s, i) # <<>>
         /\ Head(AlFrente(s, i)) = s[i]
  <1>1. s[i] \in S /\ Len(s) \in Nat
    BY LenProperties, ElementOfSeq
  <1>2. RemoveAt(s, i) \in Seq(S) /\ Len(RemoveAt(s, i)) = Len(s) - 1
    BY TipoQuitar
  <1> DEFINE r == RemoveAt(s, i)
  <1> HIDE DEF r
  <1>3. <<s[i]>> \in Seq(S) /\ Len(<<s[i]>>) = 1 /\ <<s[i]>>[1] = s[i]
    BY <1>1
  <1>4. /\ <<s[i]>> \o r \in Seq(S)
        /\ Len(<<s[i]>> \o r) = 1 + Len(r)
        /\ (<<s[i]>> \o r)[1] = s[i]
    BY <1>2, <1>3, ConcatProperties DEF r
  <1>5. Len(<<s[i]>> \o r) # 0
    BY <1>1, <1>2, <1>4 DEF r
  <1>6. <<s[i]>> \o r # <<>> /\ Head(<<s[i]>> \o r) = (<<s[i]>> \o r)[1]
    BY <1>4, <1>5
  <1> QED BY <1>1, <1>2, <1>4, <1>5, <1>6 DEF AlFrente, r

LEMMA TipoOrdenes ==
  ASSUME NEW s \in Seq(Pids), s # <<>>, NEW t \in OrdenesDeIngreso(s)
  PROVE  t \in Seq(Pids) /\ t # <<>> /\ Head(t) \in Pids /\ Len(t) = Len(s)
  <1>1. CASE AlgLargo = "FIFO"
    BY <1>1, HeadTailProperties DEF OrdenesDeIngreso
  <1>2. CASE AlgLargo # "FIFO"
    <2>1. PICK i \in DOMAIN s : t = AlFrente(s, i)
      BY <1>2 DEF OrdenesDeIngreso
    <2> QED BY <2>1, TipoAlFrente, HeadTailProperties
  <1> QED BY <1>1, <1>2

LEMMA TipoSumar ==
  ASSUME NEW S, NEW f \in [S -> Nat], NEW x \in S
  PROVE  /\ [f EXCEPT ![x] = @ + 1] \in [S -> Nat]
         /\ f[x] > 0 => [f EXCEPT ![x] = @ - 1] \in [S -> Nat]
OBVIOUS

LEMMA TipoCola ==
  ASSUME NEW q \in Colas, TypeOK, cola[q] # <<>>
  PROVE  Head(cola[q]) \in Pids /\ Tail(cola[q]) \in Seq(Pids)
  <1>1. cola[q] \in Seq(Pids)
    BY DEF TypeOK
  <1> QED BY <1>1, HeadTailProperties

LEMMA TipoInterrumpir ==
  ASSUME TypeOK, NEW p \in Pids, DesalojarSiEsNecesario(p)
  PROVE  interrumpida' \in [CPUs -> Nat]
  <1>1. CASE UNCHANGED interrumpida
    BY <1>1 DEF TypeOK
  <1>2. CASE \E c \in Victimas(p) : Interrumpir(c)
    <2>1. PICK c \in Victimas(p) : Interrumpir(c)
      BY <1>2
    <2>2. c \in CPUs
      <3>1. PICK i \in DOMAIN listaCpus : c = listaCpus[i]
        BY DEF Victimas, ToSet
      <3> QED BY <3>1, LenProperties, ElementOfSeq DEF TypeOK
    <2>3. [interrumpida EXCEPT ![c] = @ + 1] \in [CPUs -> Nat]
      BY <2>2, TipoSumar DEF TypeOK
    <2> QED BY <2>1, <2>3 DEF Interrumpir, TypeOK
  <1> QED BY <1>1, <1>2 DEF DesalojarSiEsNecesario

LEMMA TipoAMediasIgual ==
  ASSUME TipoAMedias, UNCHANGED <<suspensor, finVars>>
  PROVE  TipoAMedias'
BY DEF TipoAMedias, finVars

----------------------------------------------------------------------------
\* Initial states and connections.

LEMMA TipoInit == Init => Tipado
  <1> SUFFICES ASSUME Init PROVE Tipado
    OBVIOUS
  <1>1. 0 \in Pids /\ 1 \in Nat
    BY PidsAssumption DEF Pids
  <1>2. cola \in [Colas -> Seq(Pids)]
    BY <1>1 DEF Init
  <1>3. listaCpus \in Seq(CPUs)
    BY DEF Init
  <1>4. /\ estado \in [Pids -> Estados]
        /\ exec \in SUBSET Pids /\ blocked \in SUBSET Pids
        /\ suspBlocked \in SUBSET Pids
        /\ semNuevo \in Nat /\ semListo \in Nat /\ semCpu \in Nat /\ semExit \in Nat
        /\ ultimoPid \in Nat /\ ultimoCpu \in Nat /\ colasTrabado \in BOOLEAN
    BY DEF Init, Estados
  <1>5. /\ libre \in [CPUs -> BOOLEAN]
        /\ enCpu \in [CPUs -> Pids \cup {Nil}]
        /\ conexion \in [CPUs -> {"no", "dispatch", "completa", "caida"}]
        /\ enviado \in [CPUs -> Pids \cup {Nil}]
        /\ interrumpida \in [CPUs -> Nat]
        /\ oyente \in [CPUs -> LugaresOyente]
    BY DEF Init, LugaresOyente
  <1>6. /\ largo \in [pc : {"arranque", "espera", "elegir", "memoria", "admitido"},
                       cand : Pids \cup {Nil}, susp : BOOLEAN]
        /\ corto \in {"listo", "cpu", "despacho"}
        /\ liberador \in Pids \cup {Nil}
    BY DEF Init
  <1>7. /\ vigilias \in [Pids -> Nat] /\ suspendiendo \in [Pids -> Nat]
        /\ volcando \in SUBSET Pids /\ dispositivo \in BOOLEAN
        /\ suspensor \in Pids \cup {Nil}
        /\ pedidos \in SUBSET Pids /\ caidos \in SUBSET Pids
        /\ saliendo \in SUBSET Pids /\ avisosDump \in Nat /\ avisoIo \in BOOLEAN
        /\ memoria \in [Pids -> {"no", "ram", "swap"}]
        /\ estimacion \in [Pids -> Est] /\ rafagas \in [Pids -> Nat]
    BY EstimacionAssumption, CotasAssumption DEF Init, Est
  <1>8. Punteros
    BY DEF Init, Punteros, EnManos
  <1> QED BY <1>2, <1>3, <1>4, <1>5, <1>6, <1>7, <1>8 DEF Tipado, TypeOK,
     TipoAMedias

LEMMA TipoConectarDispatch ==
  ASSUME TypeOK, Punteros, NEW c \in CPUs, ConectarDispatch(c)
  PROVE  TypeOK' /\ Punteros'
  <1>1. conexion' \in [CPUs -> {"no", "dispatch", "completa", "caida"}]
    BY DEF ConectarDispatch, TypeOK
  <1>2. listaCpus' \in Seq(CPUs)
    BY AppendProperties DEF ConectarDispatch, TypeOK
  <1>3. libre' \in [CPUs -> BOOLEAN]
    BY DEF ConectarDispatch, TypeOK
  <1>4. enCpu' \in [CPUs -> Pids \cup {Nil}]
    BY DEF ConectarDispatch, TypeOK
  <1>5. oyente' \in [CPUs -> LugaresOyente]
    BY DEF ConectarDispatch, TypeOK, LugaresOyente
  <1>6. Punteros'
    BY DEF ConectarDispatch, Punteros, EnManos, TypeOK, planVars
  <1> QED
    BY <1>1, <1>2, <1>3, <1>4, <1>5, <1>6, TipoAMediasIgual DEF
       ConectarDispatch, TypeOK, colaVars, bolsaVars, semVars, susVars, ioVars,
       planVars, procVars

LEMMA TipoConectarInterrupt ==
  ASSUME TypeOK, Punteros, NEW c \in CPUs, ConectarInterrupt(c)
  PROVE  TypeOK' /\ Punteros'
BY TipoAMediasIgual DEF ConectarInterrupt, TypeOK, Punteros, EnManos,
   colaVars, bolsaVars, semVars, susVars, ioVars, planVars, procVars

LEMMA TipoCaeCpu ==
  ASSUME TypeOK, Punteros, NEW c \in CPUs, CaeCpu(c)
  PROVE  TypeOK' /\ Punteros'
BY TipoAMediasIgual DEF CaeCpu, TypeOK, Punteros, EnManos, colaVars,
   bolsaVars, semVars, susVars, ioVars, planVars, procVars

----------------------------------------------------------------------------
\* The long-term planner.

LEMMA TipoIniciarLargoPlazo ==
  ASSUME TypeOK, Punteros, IniciarLargoPlazo
  PROVE  TypeOK' /\ Punteros'
BY TipoAMediasIgual DEF IniciarLargoPlazo, TypeOK, Punteros, EnManos,
   colaVars, bolsaVars, cpuVars, semVars, susVars, ioVars, procVars

LEMMA TipoEsperarNuevo ==
  ASSUME TypeOK, Punteros, EsperarNuevo
  PROVE  TypeOK' /\ Punteros'
  <1>1. semNuevo' \in Nat
    BY DEF EsperarNuevo, TypeOK
  <1>2. largo' \in [pc : {"arranque", "espera", "elegir", "memoria", "admitido"},
                       cand : Pids \cup {Nil}, susp : BOOLEAN]
    BY DEF EsperarNuevo, TypeOK
  <1>3. Punteros'
    BY DEF EsperarNuevo, Punteros, EnManos, TypeOK, cpuVars
  <1> QED
    BY <1>1, <1>2, <1>3, TipoAMediasIgual DEF EsperarNuevo, TypeOK, colaVars,
       bolsaVars, cpuVars, susVars, ioVars, procVars

LEMMA TipoElegirCandidato ==
  ASSUME TypeOK, Punteros, ElegirCandidato
  PROVE  TypeOK' /\ Punteros'
  <1> DEFINE susp == cola["susp_ready"] # <<>>
             q    == ColaDeIngreso(susp)
  <1>1. q \in Colas /\ cola[q] \in Seq(Pids)
    BY DEF ColaDeIngreso, TypeOK, Colas
  <1> HIDE DEF q
  <1>2. CASE cola[q] = <<>>
    <2>1. largo' = [pc |-> "espera", cand |-> Nil, susp |-> FALSE] /\ cola' = cola
      BY <1>2 DEF ElegirCandidato, q
    <2> QED
      BY <2>1, TipoAMediasIgual DEF ElegirCandidato, TypeOK, Punteros, EnManos,
         bolsaVars, semVars, cpuVars, susVars, ioVars, procVars
  <1>3. CASE cola[q] # <<>>
    <2>1. PICK s \in OrdenesDeIngreso(cola[q]) :
            /\ largo' = [pc |-> "memoria", cand |-> Head(s), susp |-> susp]
            /\ cola' = [cola EXCEPT ![q] = s]
      BY <1>3 DEF ElegirCandidato, q
    <2>2. s \in Seq(Pids) /\ Head(s) \in Pids
      BY <1>1, <1>3, TipoOrdenes
    <2>3. cola' \in [Colas -> Seq(Pids)]
      BY <1>1, <2>1, <2>2 DEF TypeOK
    <2>4. largo' \in [pc : {"arranque", "espera", "elegir", "memoria", "admitido"},
                      cand : Pids \cup {Nil}, susp : BOOLEAN]
      BY <2>1, <2>2
    <2>5. Punteros'
      BY <2>1, <2>2, CpusAssumption
         DEF ElegirCandidato, Punteros, EnManos, cpuVars
    <2> QED
      BY <2>3, <2>4, <2>5, TipoAMediasIgual DEF ElegirCandidato, TypeOK,
         bolsaVars, semVars, cpuVars, susVars, ioVars, procVars
  <1> QED BY <1>2, <1>3

LEMMA TipoAdmitirEnMemoria ==
  ASSUME TypeOK, Punteros, AdmitirEnMemoria
  PROVE  TypeOK' /\ Punteros'
BY TipoAMediasIgual DEF AdmitirEnMemoria, TypeOK, Punteros, EnManos,
   colaVars, bolsaVars, cpuVars, semVars, susVars, ioVars, procVars

LEMMA TipoRechazarAdmision ==
  ASSUME TypeOK, Punteros, RechazarAdmision
  PROVE  TypeOK' /\ Punteros'
BY TipoAMediasIgual DEF RechazarAdmision, TypeOK, Punteros, EnManos,
   colaVars, bolsaVars, cpuVars, semVars, susVars, ioVars, procVars

LEMMA TipoAplicarAdmision ==
  ASSUME TypeOK, Punteros, CandidatoEnCabeza, AplicarAdmision
  PROVE  TypeOK' /\ Punteros'
  <1> DEFINE q == ColaDeIngreso(largo.susp)
             t == [cola EXCEPT ![q] = Tail(@)]
  <1>1. largo.cand \in Pids /\ q \in {"new", "susp_ready"} /\ cola[q] # <<>>
    BY DEF AplicarAdmision, Punteros, TypeOK, CandidatoEnCabeza, ColaDeIngreso
  <1>2. q \in Colas /\ "ready" \in Colas /\ q # "ready"
    BY <1>1 DEF Colas
  <1>3. Tail(cola[q]) \in Seq(Pids)
    BY <1>1, <1>2, TipoCola
  <1>4. cola' = [cola EXCEPT ![q] = Tail(@), !["ready"] = Append(@, largo.cand)]
    BY DEF AplicarAdmision
  <1> HIDE DEF q
  <1>5. cola' \in [Colas -> Seq(Pids)]
    <2>1. Append(cola["ready"], largo.cand) \in Seq(Pids)
      BY <1>1, <1>2, AppendProperties DEF TypeOK
    <2> QED BY <1>2, <1>3, <1>4, <2>1 DEF TypeOK
  <1>6. estado' \in [Pids -> Estados]
    BY <1>1 DEF AplicarAdmision, TypeOK, Estados
  <1>7. interrumpida' \in [CPUs -> Nat]
    BY <1>1, TipoInterrumpir DEF AplicarAdmision
  <1>8. Punteros'
    BY DEF AplicarAdmision, Punteros, EnManos, cpuVars
  <1>9. /\ largo' \in [pc : {"arranque", "espera", "elegir", "memoria", "admitido"},
                       cand : Pids \cup {Nil}, susp : BOOLEAN]
        /\ semListo' \in Nat
    BY DEF AplicarAdmision, TypeOK
  <1> QED
    BY <1>5, <1>6, <1>7, <1>8, <1>9, TipoAMediasIgual DEF AplicarAdmision,
       TypeOK, bolsaVars, cpuVars, susVars, ioVars, procVars

----------------------------------------------------------------------------
\* The short-term planner.

LEMMA TipoEsperarListo ==
  ASSUME TypeOK, Punteros, EsperarListo
  PROVE  TypeOK' /\ Punteros'
BY TipoAMediasIgual DEF EsperarListo, TypeOK, Punteros, EnManos, colaVars,
   bolsaVars, cpuVars, susVars, ioVars, procVars

LEMMA TipoEsperarCpu ==
  ASSUME TypeOK, Punteros, EsperarCpu
  PROVE  TypeOK' /\ Punteros'
BY TipoAMediasIgual DEF EsperarCpu, TypeOK, Punteros, EnManos, colaVars,
   bolsaVars, cpuVars, susVars, ioVars, procVars

LEMMA CpuElegida ==
  ASSUME TypeOK, NEW t \in PrimerTurno
  PROVE  /\ Turno(t) \in Nat
         /\ listaCpus[Turno(t)] \in CPUs /\ libre[listaCpus[Turno(t)]]
  <1>1. t \in 0 .. Len(listaCpus) - 1 /\ Len(listaCpus) \in Nat
    BY LenProperties DEF PrimerTurno, TurnosLibres, TypeOK
  <1>2. Len(listaCpus) > 0 /\ ultimoCpu + t \in Nat
    BY <1>1 DEF TypeOK
  <1>3. (ultimoCpu + t) % Len(listaCpus) \in 0 .. Len(listaCpus) - 1
    BY <1>1, <1>2
  <1>4. Turno(t) \in 1 .. Len(listaCpus)
    BY <1>1, <1>3 DEF Turno
  <1>5. libre[listaCpus[Turno(t)]]
    BY DEF PrimerTurno, TurnosLibres
  <1> QED BY <1>1, <1>4, <1>5, ElementOfSeq DEF TypeOK

LEMMA TipoDespachar ==
  ASSUME TypeOK, Punteros, Despachar
  PROVE  TypeOK' /\ Punteros'
  <1> USE DEF bolsaVars, semVars, cpuVars, susVars, ioVars, procVars
  <1>1. cola["ready"] \in Seq(Pids)
    BY DEF TypeOK, Colas
  <1>2. CASE DespacharANadie
    BY <1>2, TipoAMediasIgual DEF Despachar, DespacharANadie, TypeOK,
       Punteros, EnManos
  <1>3. ASSUME NEW i \in Elegibles(cola["ready"]), DespacharSinCpu(i)
        PROVE  TypeOK' /\ Punteros'
    <2>1. i \in DOMAIN cola["ready"]
      BY DEF Elegibles
    <2>2. cola' \in [Colas -> Seq(Pids)]
      BY <1>1, <1>3, <2>1, TipoAlFrente DEF DespacharSinCpu, TypeOK
    <2> QED BY <1>3, <2>2, TipoAMediasIgual DEF Despachar, DespacharSinCpu,
       TypeOK, Punteros, EnManos
  <1>4. ASSUME NEW i \in Elegibles(cola["ready"]), NEW t \in PrimerTurno,
               DespacharA(Turno(t), i)
        PROVE  TypeOK' /\ Punteros'
    <2> DEFINE k == Turno(t)
               c == listaCpus[k]
               p == cola["ready"][i]
    <2>1. i \in DOMAIN cola["ready"]
      BY DEF Elegibles
    <2>2. p \in Pids
      BY <1>1, <2>1, LenProperties, ElementOfSeq
    <2>3. c \in CPUs /\ k \in Nat
      BY CpuElegida
    <2> HIDE DEF k
    <2>4. DespacharA(k, i)
      BY <1>4 DEF k
    <2> HIDE DEF c, p
    <2>5. /\ cola' = [cola EXCEPT !["ready"] = RemoveAt(@, i)]
          /\ exec' = exec \cup {p}
          /\ estado' = [estado EXCEPT ![p] = "RUNNING"]
          /\ libre' = [libre EXCEPT ![c] = FALSE]
          /\ ultimoCpu' = k
          /\ enCpu' = [enCpu EXCEPT ![c] = p]
          /\ enviado' = [enviado EXCEPT ![c] = IF conexion[c] = "caida" THEN Nil ELSE p]
          /\ UNCHANGED <<semListo, semCpu>>
      BY <2>4 DEF DespacharA, c, p
    <2>6. cola' \in [Colas -> Seq(Pids)]
      BY <1>1, <2>1, <2>5, TipoQuitar DEF TypeOK
    <2>7. estado' \in [Pids -> Estados] /\ exec' \in SUBSET Pids
      BY <2>2, <2>5 DEF TypeOK, Estados
    <2>8. /\ libre' \in [CPUs -> BOOLEAN] /\ enCpu' \in [CPUs -> Pids \cup {Nil}]
          /\ enviado' \in [CPUs -> Pids \cup {Nil}]
      BY <2>2, <2>3, <2>5 DEF TypeOK
    <2>9. Punteros'
      BY <2>2, <2>3, <2>5, CpusAssumption DEF Despachar, Punteros, EnManos,
         TypeOK
    <2> QED
      BY <2>3, <2>5, <2>6, <2>7, <2>8, <2>9, TipoAMediasIgual DEF Despachar,
         TypeOK
  <1> QED BY <1>2, <1>3, <1>4 DEF Despachar

----------------------------------------------------------------------------
\* The listener of a CPU.

LEMMA TipoCrearProceso ==
  ASSUME TypeOK, Punteros, NEW c \in CPUs, CrearProceso(c)
  PROVE  TypeOK' /\ Punteros'
  <1>1. estado' \in [Pids -> Estados]
    BY DEF CrearProceso, TypeOK, Estados
  <1>2. cola' \in [Colas -> Seq(Pids)]
    BY TipoEncolar DEF CrearProceso, TypeOK, Colas
  <1>3. semNuevo' \in Nat
    BY DEF CrearProceso, TypeOK
  <1>4. ultimoPid' \in Nat
    BY DEF CrearProceso, TypeOK
  <1>5. Punteros'
    BY DEF CrearProceso, Punteros, EnManos, TypeOK, cpuVars, planVars
  <1> QED
    BY <1>1, <1>2, <1>3, <1>4, <1>5, TipoAMediasIgual DEF CrearProceso,
       TypeOK, bolsaVars, cpuVars, susVars, ioVars, planVars, procVars

LEMMA TipoRecibirRespuesta ==
  ASSUME TypeOK, Punteros, NEW c \in CPUs, NEW m \in {"EXIT", "IO", "DUMP", "ERROR"},
         RecibirRespuesta(c, m)
  PROVE  TypeOK' /\ Punteros'
  <1>1. enCpu[c] \in Pids
    BY DEF RecibirRespuesta, TypeOK
  <1>2. exec' \in SUBSET Pids
    BY DEF RecibirRespuesta, TypeOK
  <1>3. rafagas' \in [Pids -> Nat]
    <2>1. CASE m \in {"IO", "DUMP"}
      <3>1. rafagas[enCpu[c]] > 0
        BY <2>1 DEF RecibirRespuesta, Motivo
      <3>2. rafagas' = [rafagas EXCEPT ![enCpu[c]] = @ - 1]
        BY <2>1 DEF RecibirRespuesta
      <3> QED BY <1>1, <3>1, <3>2, TipoSumar DEF TypeOK
    <2>2. CASE m \notin {"IO", "DUMP"}
      <3>1. rafagas' = [rafagas EXCEPT ![enCpu[c]] = @]
        BY <2>2 DEF RecibirRespuesta
      <3> QED BY <1>1, <3>1 DEF TypeOK
    <2> QED BY <2>1, <2>2
  <1>4. estimacion' \in [Pids -> Est]
    <2>1. CASE AlgCorto = "FIFO"
      BY <2>1 DEF RecibirRespuesta, TypeOK
    <2>2. CASE AlgCorto # "FIFO"
      <3>1. PICK real \in Est : estimacion' =
              [estimacion EXCEPT ![enCpu[c]] = SiguienteEstimacion(enCpu[c], real)]
        BY <2>2 DEF RecibirRespuesta
      <3>2. SiguienteEstimacion(enCpu[c], real) \in Est
        <4>1. estimacion[enCpu[c]] \in Est
          BY <1>1 DEF TypeOK
        <4>2. \/ ALFA * real + (1 - ALFA) * estimacion[enCpu[c]] = real
              \/ ALFA * real + (1 - ALFA) * estimacion[enCpu[c]] = estimacion[enCpu[c]]
          <5>1. CASE ALFA = 0
            BY <4>1, <5>1 DEF Est
          <5>2. CASE ALFA = 1
            BY <4>1, <5>2 DEF Est
          <5> QED BY <5>1, <5>2, EstimacionAssumption
        <4> QED BY <4>1, <4>2, EstimacionAssumption DEF SiguienteEstimacion, Est
      <3> QED BY <1>1, <3>1, <3>2 DEF TypeOK
    <2> QED BY <2>1, <2>2
  <1>5. enviado' \in [CPUs -> Pids \cup {Nil}]
    BY DEF RecibirRespuesta, TypeOK
  <1>6. oyente' \in [CPUs -> LugaresOyente]
    BY DEF RecibirRespuesta, TypeOK, LugaresOyente, Nueva
  <1>7. Punteros'
    BY <1>1, CpusAssumption
       DEF RecibirRespuesta, Punteros, EnManos, TypeOK, Nueva, cpuVars, planVars
  <1> QED
    BY <1>2, <1>3, <1>4, <1>5, <1>6, <1>7, TipoAMediasIgual DEF
       RecibirRespuesta, TypeOK, semVars, cpuVars, planVars, susVars, ioVars

LEMMA TipoRecibirInterrupcion ==
  ASSUME TypeOK, Punteros, NEW c \in CPUs, RecibirInterrupcion(c)
  PROVE  TypeOK' /\ Punteros'
  <1>1. enCpu[c] \in Pids
    BY DEF RecibirInterrupcion, TypeOK
  <1>2. exec' \in SUBSET Pids
    BY DEF RecibirInterrupcion, TypeOK
  <1>3. interrumpida' \in [CPUs -> Nat]
    <2>1. PICK k \in 1 .. interrumpida[c] :
            interrumpida' = [interrumpida EXCEPT ![c] = @ - k]
      BY DEF RecibirInterrupcion
    <2>2. interrumpida[c] \in Nat /\ interrumpida[c] - k \in Nat
      BY DEF TypeOK
    <2> QED BY <2>1, <2>2 DEF TypeOK
  <1>4. estimacion' \in [Pids -> Est]
    <2>1. PICK real \in Est : estimacion' = [estimacion EXCEPT ![enCpu[c]] =
            IF real > estimacion[enCpu[c]] THEN 0 ELSE @ - real]
      BY DEF RecibirInterrupcion
    <2>2. (IF real > estimacion[enCpu[c]] THEN 0 ELSE estimacion[enCpu[c]] - real) \in Est
      <3>1. estimacion[enCpu[c]] \in Est
        BY <1>1 DEF TypeOK
      <3> QED BY <3>1, EstimacionAssumption DEF Est
    <2> QED BY <1>1, <2>1, <2>2 DEF TypeOK
  <1>5. enviado' \in [CPUs -> Pids \cup {Nil}]
    BY DEF RecibirInterrupcion, TypeOK
  <1>6. oyente' \in [CPUs -> LugaresOyente]
    BY DEF RecibirInterrupcion, TypeOK, LugaresOyente, Nueva
  <1>7. Punteros'
    BY <1>1, CpusAssumption DEF RecibirInterrupcion, Punteros, EnManos,
       TypeOK, Nueva, cpuVars, planVars
  <1> QED
    BY <1>2, <1>3, <1>4, <1>5, <1>6, <1>7, TipoAMediasIgual DEF
       RecibirInterrupcion, TypeOK, semVars, cpuVars, planVars, susVars, ioVars

LEMMA TipoExitEncolar ==
  ASSUME TypeOK, Punteros, NEW c \in CPUs, ExitEncolar(c)
  PROVE  TypeOK' /\ Punteros'
  <1>1. enCpu[c] \in Pids
    BY DEF ExitEncolar, TypeOK, Punteros, EnManos
  <1>2. cola' \in [Colas -> Seq(Pids)]
    BY <1>1, TipoEncolar DEF ExitEncolar, TypeOK, Nueva, Colas
  <1>3. oyente' \in [CPUs -> LugaresOyente]
    BY <1>1 DEF ExitEncolar, TypeOK, Nueva, LugaresOyente
  <1>4. Punteros'
    BY <1>1, CpusAssumption DEF ExitEncolar, Punteros, EnManos, TypeOK, Nueva,
       cpuVars, planVars
  <1> QED
    BY <1>1, <1>2, <1>3, <1>4, TipoAMediasIgual DEF ExitEncolar, TypeOK,
       Nueva, bolsaVars, cpuVars, semVars, susVars, ioVars, planVars, procVars

LEMMA TipoExitAvisar ==
  ASSUME TypeOK, Punteros, NEW c \in CPUs, ExitAvisar(c)
  PROVE  TypeOK' /\ Punteros'
  <1>1. enCpu[c] \in Pids
    BY DEF ExitAvisar, TypeOK, Punteros, EnManos
  <1>2. estado' \in [Pids -> Estados]
    BY <1>1 DEF ExitAvisar, TypeOK, Nueva, Estados
  <1>3. semExit' \in Nat
    BY <1>1 DEF ExitAvisar, TypeOK, Nueva
  <1>4. oyente' \in [CPUs -> LugaresOyente]
    BY <1>1 DEF ExitAvisar, TypeOK, Nueva, LugaresOyente
  <1>5. Punteros'
    BY <1>1 DEF ExitAvisar, Punteros, EnManos, TypeOK, Nueva, cpuVars,
       planVars
  <1> QED
    BY <1>1, <1>2, <1>3, <1>4, <1>5, TipoAMediasIgual DEF ExitAvisar, TypeOK,
       Nueva, colaVars, bolsaVars, cpuVars, susVars, ioVars, planVars, procVars

LEMMA TipoErrorMarcar ==
  ASSUME TypeOK, Punteros, NEW c \in CPUs, ErrorMarcar(c)
  PROVE  TypeOK' /\ Punteros'
  <1>1. enCpu[c] \in Pids
    BY DEF ErrorMarcar, TypeOK, Punteros, EnManos
  <1>2. estado' \in [Pids -> Estados]
    BY <1>1 DEF ErrorMarcar, MarcarExit, TypeOK, Estados
  <1>3. oyente' \in [CPUs -> LugaresOyente]
    BY DEF ErrorMarcar, TypeOK, Nueva, LugaresOyente
  <1>4. Punteros'
    BY <1>1, CpusAssumption DEF ErrorMarcar, Punteros, EnManos, TypeOK, Nueva,
       cpuVars, planVars
  <1> QED
    BY <1>2, <1>3, <1>4, TipoAMediasIgual DEF ErrorMarcar, TypeOK, colaVars,
       bolsaVars, cpuVars, semVars, susVars, ioVars, planVars, procVars

LEMMA TipoErrorEncolar ==
  ASSUME TypeOK, Punteros, NEW c \in CPUs, ErrorEncolar(c)
  PROVE  TypeOK' /\ Punteros'
  <1>1. enCpu[c] \in Pids
    BY DEF ErrorEncolar, TypeOK, Punteros, EnManos
  <1>2. cola' \in [Colas -> Seq(Pids)]
    BY <1>1, TipoEncolar DEF ErrorEncolar, EncolarExit, Colas
  <1>3. oyente' \in [CPUs -> LugaresOyente]
    BY DEF ErrorEncolar, TypeOK, Nueva, LugaresOyente
  <1>4. Punteros'
    BY DEF ErrorEncolar, Punteros, EnManos, TypeOK, Nueva, cpuVars, planVars
  <1> QED
    BY <1>2, <1>3, <1>4, TipoAMediasIgual DEF ErrorEncolar, TypeOK,
       bolsaVars, cpuVars, semVars, susVars, ioVars, planVars, procVars

LEMMA TipoErrorAvisar ==
  ASSUME TypeOK, Punteros, NEW c \in CPUs, ErrorAvisar(c)
  PROVE  TypeOK' /\ Punteros'
  <1>1. semExit' \in Nat
    BY DEF ErrorAvisar, TypeOK
  <1>2. oyente' \in [CPUs -> LugaresOyente]
    BY DEF ErrorAvisar, TypeOK, Nueva, LugaresOyente
  <1>3. Punteros'
    BY DEF ErrorAvisar, Punteros, EnManos, TypeOK, Nueva, cpuVars, planVars
  <1> QED
    BY <1>1, <1>2, <1>3, TipoAMediasIgual DEF ErrorAvisar, TypeOK, colaVars,
       bolsaVars, cpuVars, susVars, ioVars, planVars, procVars

LEMMA TipoBloquearPorIo ==
  ASSUME TypeOK, Punteros, NEW c \in CPUs, BloquearPorIo(c)
  PROVE  TypeOK' /\ Punteros'
  <1>1. enCpu[c] \in Pids
    BY DEF BloquearPorIo, TypeOK, Punteros, EnManos
  <1>2. \/ /\ oyente' = [oyente EXCEPT ![c] = "IO_pedir"]
           /\ vigilias' = [vigilias EXCEPT ![enCpu[c]] = @ + 1]
        \/ /\ oyente' = [oyente EXCEPT ![c] = "ERROR"]
           /\ vigilias' = vigilias
    BY DEF BloquearPorIo, Nueva
  <1>3. estado' \in [Pids -> Estados]
    BY <1>1 DEF BloquearPorIo, TypeOK, Estados
  <1>4. exec' \in SUBSET Pids /\ blocked' \in SUBSET Pids
    BY <1>1 DEF BloquearPorIo, TypeOK
  <1>5. vigilias' \in [Pids -> Nat]
    <2>1. [vigilias EXCEPT ![enCpu[c]] = @ + 1] \in [Pids -> Nat]
      BY <1>1, TipoSumar DEF TypeOK
    <2> QED BY <1>2, <2>1 DEF TypeOK
  <1>6. oyente' \in [CPUs -> LugaresOyente]
    BY <1>2 DEF TypeOK, LugaresOyente
  <1>7. Punteros'
    BY <1>1, <1>2 DEF BloquearPorIo, Punteros, EnManos, TypeOK, planVars,
       cpuVars
  <1> QED
    BY <1>3, <1>4, <1>5, <1>6, <1>7, TipoAMediasIgual DEF BloquearPorIo,
       TypeOK, semVars, cpuVars, planVars, procVars, ioVars

LEMMA TipoPedirIo ==
  ASSUME TypeOK, Punteros, NEW c \in CPUs, PedirIo(c)
  PROVE  TypeOK' /\ Punteros'
  <1>1. enCpu[c] \in Pids
    BY DEF PedirIo, TypeOK, Punteros, EnManos
  <1>2. pedidos' \in SUBSET Pids
    BY <1>1 DEF PedirIo, TypeOK, Nueva
  <1>3. oyente' \in [CPUs -> LugaresOyente]
    BY <1>1 DEF PedirIo, TypeOK, Nueva, LugaresOyente
  <1>4. Punteros'
    BY <1>1 DEF PedirIo, Punteros, EnManos, TypeOK, Nueva, cpuVars, planVars
  <1> QED
    BY <1>1, <1>2, <1>3, <1>4, TipoAMediasIgual DEF PedirIo, TypeOK, Nueva,
       colaVars, bolsaVars, cpuVars, semVars, susVars, planVars, procVars

LEMMA TipoBloquearPorDump ==
  ASSUME TypeOK, Punteros, NEW c \in CPUs, BloquearPorDump(c)
  PROVE  TypeOK' /\ Punteros'
  <1>1. enCpu[c] \in Pids
    BY DEF BloquearPorDump, TypeOK, Punteros, EnManos
  <1>2. estado' \in [Pids -> Estados]
    BY <1>1 DEF BloquearPorDump, TypeOK, Nueva, Estados
  <1>3. exec' \in SUBSET Pids
    BY <1>1 DEF BloquearPorDump, TypeOK, Nueva
  <1>4. blocked' \in SUBSET Pids
    BY <1>1 DEF BloquearPorDump, TypeOK, Nueva
  <1>5. volcando' \in SUBSET Pids
    BY <1>1 DEF BloquearPorDump, TypeOK, Nueva
  <1>6. oyente' \in [CPUs -> LugaresOyente]
    BY <1>1 DEF BloquearPorDump, TypeOK, Nueva, LugaresOyente
  <1>7. Punteros'
    BY <1>1 DEF BloquearPorDump, Punteros, EnManos, TypeOK, Nueva, cpuVars,
       planVars
  <1> QED
    BY <1>1, <1>2, <1>3, <1>4, <1>5, <1>6, <1>7, TipoAMediasIgual DEF
       BloquearPorDump, TypeOK, Nueva, cpuVars, semVars, ioVars, planVars,
       procVars

LEMMA TipoInterrupcionEncolar ==
  ASSUME TypeOK, Punteros, NEW c \in CPUs, InterrupcionEncolar(c)
  PROVE  TypeOK' /\ Punteros'
  <1>1. enCpu[c] \in Pids
    BY DEF InterrupcionEncolar, TypeOK, Punteros, EnManos
  <1>2. cola' \in [Colas -> Seq(Pids)]
    BY <1>1, TipoEncolar DEF InterrupcionEncolar, TypeOK, Nueva, Colas
  <1>3. oyente' \in [CPUs -> LugaresOyente]
    BY <1>1 DEF InterrupcionEncolar, TypeOK, Nueva, LugaresOyente
  <1>4. Punteros'
    BY <1>1, CpusAssumption DEF InterrupcionEncolar, Punteros, EnManos,
       TypeOK, Nueva, cpuVars, planVars
  <1> QED
    BY <1>1, <1>2, <1>3, <1>4, TipoAMediasIgual DEF InterrupcionEncolar,
       TypeOK, Nueva, bolsaVars, cpuVars, semVars, susVars, ioVars, planVars,
       procVars

LEMMA TipoInterrupcionAvisar ==
  ASSUME TypeOK, Punteros, NEW c \in CPUs, InterrupcionAvisar(c)
  PROVE  TypeOK' /\ Punteros'
  <1>1. enCpu[c] \in Pids
    BY DEF InterrupcionAvisar, TypeOK, Punteros, EnManos
  <1>2. estado' \in [Pids -> Estados]
    BY <1>1 DEF InterrupcionAvisar, TypeOK, Nueva, Estados
  <1>3. semListo' \in Nat
    BY <1>1 DEF InterrupcionAvisar, TypeOK, Nueva
  <1>4. oyente' \in [CPUs -> LugaresOyente]
    BY <1>1 DEF InterrupcionAvisar, TypeOK, Nueva, LugaresOyente
  <1>5. Punteros'
    BY <1>1, CpusAssumption DEF InterrupcionAvisar, Punteros, EnManos, TypeOK,
       Nueva, cpuVars, planVars
  <1> QED
    BY <1>1, <1>2, <1>3, <1>4, <1>5, TipoAMediasIgual DEF InterrupcionAvisar,
       TypeOK, Nueva, colaVars, bolsaVars, cpuVars, susVars, ioVars, planVars,
       procVars

LEMMA TipoInterrupcionDesalojar ==
  ASSUME TypeOK, Punteros, NEW c \in CPUs, InterrupcionDesalojar(c)
  PROVE  TypeOK' /\ Punteros'
  <1>1. enCpu[c] \in Pids
    BY DEF InterrupcionDesalojar, TypeOK, Punteros, EnManos
  <1>2. interrumpida' \in [CPUs -> Nat]
    BY <1>1, TipoInterrumpir DEF InterrupcionDesalojar, TypeOK, Nueva
  <1>3. oyente' \in [CPUs -> LugaresOyente]
    BY <1>1 DEF InterrupcionDesalojar, TypeOK, Nueva, LugaresOyente
  <1>4. Punteros'
    BY <1>1 DEF InterrupcionDesalojar, Punteros, EnManos, TypeOK, Nueva,
       cpuVars, planVars
  <1> QED
    BY <1>1, <1>2, <1>3, <1>4, TipoAMediasIgual DEF InterrupcionDesalojar,
       TypeOK, Nueva, colaVars, bolsaVars, cpuVars, semVars, susVars, ioVars,
       planVars, procVars

LEMMA TipoSoltarCpu ==
  ASSUME TypeOK, Punteros, NEW c \in CPUs, SoltarCpu(c)
  PROVE  TypeOK' /\ Punteros'
  <1>1. enCpu' \in [CPUs -> Pids \cup {Nil}]
    BY DEF SoltarCpu, TypeOK, Nueva
  <1>2. libre' \in [CPUs -> BOOLEAN]
    BY DEF SoltarCpu, TypeOK, Nueva
  <1>3. oyente' \in [CPUs -> LugaresOyente]
    BY DEF SoltarCpu, TypeOK, Nueva, LugaresOyente
  <1>4. Punteros'
    BY DEF SoltarCpu, Punteros, EnManos, TypeOK, Nueva, planVars
  <1> QED
    BY <1>1, <1>2, <1>3, <1>4, TipoAMediasIgual DEF SoltarCpu, TypeOK, Nueva,
       colaVars, bolsaVars, semVars, susVars, ioVars, planVars, procVars

LEMMA TipoAvisarCpu ==
  ASSUME TypeOK, Punteros, NEW c \in CPUs, AvisarCpu(c)
  PROVE  TypeOK' /\ Punteros'
  <1>1. semCpu' \in Nat
    BY DEF AvisarCpu, TypeOK, Nueva
  <1>2. oyente' \in [CPUs -> LugaresOyente]
    BY DEF AvisarCpu, TypeOK, Nueva, LugaresOyente
  <1>3. Punteros'
    BY DEF AvisarCpu, Punteros, EnManos, TypeOK, Nueva, cpuVars, planVars
  <1> QED
    BY <1>1, <1>2, <1>3, TipoAMediasIgual DEF AvisarCpu, TypeOK, Nueva,
       colaVars, bolsaVars, cpuVars, susVars, ioVars, planVars, procVars

LEMMA TipoCaida ==
  ASSUME TypeOK, Punteros, NEW c \in CPUs,
         DetectarCaida(c) \/ QuitarCpu(c) \/ FinalizarPorCaida(c)
  PROVE  TypeOK' /\ Punteros'
  <1> USE DEF colaVars, bolsaVars, semVars, cpuVars, susVars, ioVars, planVars, procVars
  <1>1. oyente' \in [CPUs -> LugaresOyente]
    <2>1. PICK l \in {"caida_lista", "caida_colas", "muerto"} :
            oyente' = [oyente EXCEPT ![c] = l]
      BY DEF DetectarCaida, QuitarCpu, FinalizarPorCaida, Nueva
    <2> QED BY <2>1 DEF TypeOK, LugaresOyente
  <1>2. Punteros'
    BY DEF DetectarCaida, QuitarCpu, FinalizarPorCaida, Nueva, TypeOK,
       Punteros, EnManos
  <1>3. CASE DetectarCaida(c)
    BY <1>1, <1>2, <1>3, TipoAMediasIgual DEF DetectarCaida, TypeOK
  <1>4. CASE QuitarCpu(c)
    <2>1. PICK i \in DOMAIN listaCpus : listaCpus' = RemoveAt(listaCpus, i)
      BY <1>4 DEF QuitarCpu
    <2>2. listaCpus' \in Seq(CPUs)
      BY <2>1, TipoQuitar DEF TypeOK
    <2> QED BY <1>1, <1>2, <1>4, <2>2, TipoAMediasIgual DEF QuitarCpu, TypeOK
  <1>5. CASE FinalizarPorCaida(c)
    <2>1. CASE enCpu[c] # Nil
      <3>1. estado' \in [Pids -> Estados]
        BY <1>5, <2>1 DEF FinalizarPorCaida, TypeOK, Estados
      <3> QED BY <1>1, <1>2, <1>5, <2>1, <3>1, TipoAMediasIgual DEF
         FinalizarPorCaida, TypeOK
    <2>2. CASE enCpu[c] = Nil
      BY <1>1, <1>2, <1>5, <2>2, TipoAMediasIgual DEF FinalizarPorCaida, TypeOK
    <2> QED BY <2>1, <2>2
  <1> QED BY <1>3, <1>4, <1>5

----------------------------------------------------------------------------
\* The reaper, the timers, the dump threads and the device.

LEMMA TipoTomarFinalizado ==
  ASSUME TypeOK, Punteros, TomarFinalizado
  PROVE  TypeOK' /\ Punteros'
  <1> USE DEF bolsaVars, cpuVars, susVars, ioVars, procVars
  <1>1. semExit' \in Nat
    BY DEF TomarFinalizado, TypeOK
  <1>2. CASE cola["exit"] = <<>>
    BY <1>1, <1>2, TipoAMediasIgual
       DEF TomarFinalizado, TypeOK, Punteros, EnManos
  <1>3. CASE cola["exit"] # <<>>
    <2>1. Head(cola["exit"]) \in Pids /\ Tail(cola["exit"]) \in Seq(Pids)
      BY <1>3, TipoCola DEF Colas
    <2>2. /\ liberador' = Head(cola["exit"])
          /\ cola' = [cola EXCEPT !["exit"] = Tail(@)]
          /\ estado' = [estado EXCEPT ![Head(cola["exit"])] = "EXIT"]
      BY <1>3 DEF TomarFinalizado
    <2>3. cola' \in [Colas -> Seq(Pids)]
      BY <2>1, <2>2 DEF TypeOK
    <2>4. estado' \in [Pids -> Estados]
      BY <2>1, <2>2 DEF TypeOK, Estados
    <2> QED BY <1>1, <2>1, <2>2, <2>3, <2>4, TipoAMediasIgual DEF
       TomarFinalizado, TypeOK, Punteros, EnManos
  <1> QED BY <1>2, <1>3

LEMMA TipoLiberarFinalizado ==
  ASSUME TypeOK, Punteros, LiberarFinalizado
  PROVE  TypeOK' /\ Punteros'
  <1>1. memoria' \in [Pids -> {"no", "ram", "swap"}] /\ semNuevo' \in Nat
    <2>1. \/ memoria' = memoria /\ semNuevo' = semNuevo
          \/ /\ memoria' = [memoria EXCEPT ![liberador] = "no"]
             /\ semNuevo' = semNuevo + 1
      BY DEF LiberarFinalizado
    <2>2. liberador \in Pids
      BY DEF LiberarFinalizado, TypeOK
    <2>3. [memoria EXCEPT ![liberador] = "no"] \in [Pids -> {"no", "ram", "swap"}]
      BY <2>2 DEF TypeOK
    <2>4. memoria' \in [Pids -> {"no", "ram", "swap"}]
      BY <2>1, <2>3 DEF TypeOK
    <2> QED BY <2>1, <2>4 DEF TypeOK
  <1>2. estado' \in [Pids -> Estados]
    BY DEF LiberarFinalizado, TypeOK, Estados
  <1>3. Punteros'
    BY DEF LiberarFinalizado, Punteros, cpuVars
  <1> QED BY <1>1, <1>2, <1>3, TipoAMediasIgual DEF LiberarFinalizado,
     TypeOK, colaVars, bolsaVars, cpuVars, susVars, ioVars, procVars

LEMMA TipoDispararVigilia ==
  ASSUME TypeOK, Punteros, NEW p \in Pids, DispararVigilia(p)
  PROVE  TypeOK' /\ Punteros'
  <1>1. vigilias' \in [Pids -> Nat]
    BY TipoSumar DEF DispararVigilia, TypeOK
  <1>2. TipoAMedias'
    BY DEF DispararVigilia, TypeOK, TipoAMedias, ioVars, finVars
  <1>3. Punteros'
    BY DEF DispararVigilia, Punteros, cpuVars, planVars
  <1> QED BY <1>1, <1>2, <1>3
          DEF DispararVigilia, TypeOK, colaVars, bolsaVars, semVars, cpuVars,
              planVars, ioVars, procVars

LEMMA TipoSuspender ==
  ASSUME TypeOK, Punteros, NEW p \in Pids, Suspender(p)
  PROVE  TypeOK' /\ Punteros'
  <1>1. suspendiendo' \in [Pids -> Nat]
    <2>1. [suspendiendo EXCEPT ![p] = @ + 1] \in [Pids -> Nat]
      BY TipoSumar DEF TypeOK
    <2> QED BY <2>1 DEF Suspender
  <1>2. estado' \in [Pids -> Estados]
    BY DEF Suspender, TypeOK, Estados
  <1>3. blocked' \in SUBSET Pids /\ suspBlocked' \in SUBSET Pids
    BY DEF Suspender, TypeOK
  <1>4. TipoAMedias'
    BY DEF Suspender, TypeOK, TipoAMedias, ioVars, finVars
  <1>5. Punteros'
    BY DEF Suspender, Punteros, cpuVars, planVars
  <1> QED BY <1>1, <1>2, <1>3, <1>4, <1>5
          DEF Suspender, TypeOK, semVars, cpuVars, planVars, ioVars, procVars

LEMMA TipoSuspenderEnMemoria ==
  ASSUME TypeOK, Punteros, NEW p \in Pids, SuspenderEnMemoria(p)
  PROVE  TypeOK' /\ Punteros'
  <1>1. suspendiendo' \in [Pids -> Nat]
    BY TipoSumar DEF SuspenderEnMemoria, TypeOK
  <1>2. memoria' \in [Pids -> {"no", "ram", "swap"}] /\ semNuevo' \in Nat
    <2>1. \/ memoria' = memoria /\ semNuevo' = semNuevo
          \/ /\ memoria' = [memoria EXCEPT ![p] = "swap"]
             /\ semNuevo' = semNuevo + 1
      BY DEF SuspenderEnMemoria
    <2>2. [memoria EXCEPT ![p] = "swap"] \in [Pids -> {"no", "ram", "swap"}]
      BY DEF TypeOK
    <2>3. memoria' \in [Pids -> {"no", "ram", "swap"}]
      BY <2>1, <2>2 DEF TypeOK
    <2> QED BY <2>1, <2>3 DEF TypeOK
  <1>3. Punteros'
    BY DEF SuspenderEnMemoria, Punteros, cpuVars, planVars
  <1> QED BY <1>1, <1>2, <1>3, TipoAMediasIgual DEF SuspenderEnMemoria,
     TypeOK, colaVars, bolsaVars, cpuVars, planVars, ioVars, procVars

LEMMA TipoDesbloquear ==
  ASSUME TypeOK, NEW p \in Pids, Desbloquear(p)
  PROVE  /\ estado' \in [Pids -> Estados]
         /\ cola' \in [Colas -> Seq(Pids)]
         /\ blocked' \in SUBSET Pids /\ suspBlocked' \in SUBSET Pids
         /\ semListo' \in Nat /\ semNuevo' \in Nat
  <1>1. Encolar("ready", p) \in [Colas -> Seq(Pids)]
    BY TipoEncolar DEF Colas
  <1>2. Encolar("susp_ready", p) \in [Colas -> Seq(Pids)]
    BY TipoEncolar DEF Colas
  <1>3. estado' \in [Pids -> Estados]
    <2>1. \/ estado' = [estado EXCEPT ![p] = "READY"]
          \/ estado' = [estado EXCEPT ![p] = "SUSP_READY"]
          \/ estado' = estado
      BY DEF Desbloquear
    <2> QED BY <2>1 DEF TypeOK, Estados
  <1>4. cola' \in [Colas -> Seq(Pids)]
    BY <1>1, <1>2 DEF Desbloquear, TypeOK
  <1> QED BY <1>3, <1>4 DEF Desbloquear, TypeOK

LEMMA TipoDump ==
  ASSUME TypeOK, Punteros, NEW p \in Pids, Dump(p)
  PROVE  TypeOK' /\ Punteros'
  <1> USE DEF colaVars, bolsaVars, semVars, cpuVars, susVars, ioVars,
             planVars, procVars
  <1>1. CASE DumpOk(p)
    <2>1. Desbloquear(p) /\ volcando' \in SUBSET Pids
      BY <1>1 DEF DumpOk, TypeOK
    <2>2. /\ estado' \in [Pids -> Estados]
          /\ cola' \in [Colas -> Seq(Pids)]
          /\ blocked' \in SUBSET Pids /\ suspBlocked' \in SUBSET Pids
          /\ semListo' \in Nat /\ semNuevo' \in Nat
      BY <2>1, TipoDesbloquear
    <2>3. Punteros'
      BY <1>1 DEF DumpOk, Punteros
    <2> QED BY <1>1, <2>1, <2>2, <2>3, TipoAMediasIgual DEF DumpOk, TypeOK
  <1>2. CASE DumpFallido(p)
    <2>1. estado' \in [Pids -> Estados] /\ volcando' \in SUBSET Pids
      BY <1>2 DEF DumpFallido, TypeOK, Estados
    <2>2. /\ blocked' \in SUBSET Pids /\ suspBlocked' \in SUBSET Pids
          /\ colasTrabado' \in BOOLEAN
      BY <1>2 DEF DumpFallido, TypeOK, Encontrado
    <2>3. Punteros'
      BY <1>2 DEF DumpFallido, Punteros
    <2> QED BY <1>2, <2>1, <2>2, <2>3, TipoAMediasIgual DEF DumpFallido, TypeOK
  <1>3. CASE DumpSinConexion(p)
    <2>1. estado' \in [Pids -> Estados] /\ TipoAMedias'
      BY <1>3 DEF DumpSinConexion, MarcarExit, TypeOK, TipoAMedias, Estados
    <2>2. Punteros'
      BY <1>3 DEF DumpSinConexion, Punteros
    <2> QED BY <1>3, <2>1, <2>2 DEF DumpSinConexion, TypeOK
  <1>4. CASE DumpEncolar(p)
    <2>1. cola' \in [Colas -> Seq(Pids)]
      BY <1>4, TipoEncolar DEF DumpEncolar, EncolarExit, Colas
    <2>2. volcando' \in SUBSET Pids /\ TipoAMedias'
      BY <1>4 DEF DumpEncolar, TypeOK, TipoAMedias
    <2>3. Punteros'
      BY <1>4 DEF DumpEncolar, Punteros
    <2> QED BY <1>4, <2>1, <2>2, <2>3 DEF DumpEncolar, TypeOK
  <1> QED BY <1>1, <1>2, <1>3, <1>4 DEF Dump

LEMMA TipoAvisos ==
  ASSUME TypeOK, Punteros, Avisos
  PROVE  TypeOK' /\ Punteros'
  <1>1. semExit \in Nat /\ TipoAMedias
    BY DEF TypeOK
  <1>2. semExit' \in Nat /\ TipoAMedias'
    <2>1. CASE DumpAvisar
      BY <1>1, <2>1 DEF DumpAvisar, TipoAMedias, susVars
    <2>2. CASE CaidoAvisar
      <3>1. semExit' = semExit + 1 /\ avisoIo' = FALSE /\ saliendo' = saliendo
            /\ avisosDump' = avisosDump /\ suspensor' = suspensor
        BY ONLY <2>2 DEF CaidoAvisar, susVars
      <3>2. semExit' \in Nat
        BY ONLY <1>1, <3>1
      <3>3. avisoIo' \in BOOLEAN
        BY ONLY <3>1
      <3>4. suspensor' \in Pids \cup {Nil} /\ saliendo' \in SUBSET Pids
            /\ avisosDump' \in Nat
        BY ONLY <1>1, <3>1 DEF TipoAMedias
      <3> QED BY ONLY <3>2, <3>3, <3>4 DEF TipoAMedias
    <2> QED BY <2>1, <2>2 DEF Avisos
  <1>3. Punteros'
    BY DEF Avisos, DumpAvisar, CaidoAvisar, Punteros, cpuVars, planVars
  <1> QED BY <1>2, <1>3 DEF Avisos, DumpAvisar, CaidoAvisar, TypeOK, colaVars,
             bolsaVars, cpuVars, planVars, susVars, procVars

LEMMA TipoFinIo ==
  ASSUME TypeOK, Punteros, NEW p \in Pids, FinIo(p)
  PROVE  TypeOK' /\ Punteros'
  <1>1. /\ estado' \in [Pids -> Estados]
        /\ cola' \in [Colas -> Seq(Pids)]
        /\ blocked' \in SUBSET Pids /\ suspBlocked' \in SUBSET Pids
        /\ semListo' \in Nat /\ semNuevo' \in Nat
    BY TipoDesbloquear DEF FinIo
  <1>2. interrumpida' \in [CPUs -> Nat]
    <2>1. CASE Encontrado(p) /\ estado[p] = "BLOCKED"
      BY <2>1, TipoInterrumpir DEF FinIo
    <2>2. CASE ~(Encontrado(p) /\ estado[p] = "BLOCKED")
      BY <2>2 DEF FinIo, TypeOK
    <2> QED BY <2>1, <2>2
  <1>3. Punteros'
    BY DEF FinIo, Punteros, cpuVars, planVars
  <1> QED BY <1>1, <1>2, <1>3, TipoAMediasIgual DEF FinIo, TypeOK, cpuVars,
     planVars, susVars, procVars

LEMMA TipoCaeDispositivo ==
  ASSUME TypeOK, Punteros, CaeDispositivo
  PROVE  TypeOK' /\ Punteros'
  <1>1. Punteros'
    BY DEF CaeDispositivo, Punteros, cpuVars, planVars
  <1> QED BY <1>1, TipoAMediasIgual DEF CaeDispositivo, TypeOK, semVars,
     cpuVars, planVars, susVars, procVars

LEMMA TipoFinalizarCaido ==
  ASSUME TypeOK, Punteros, NEW p \in Pids, FinalizarCaido(p)
  PROVE  TypeOK' /\ Punteros'
  <1>1. estado' \in [Pids -> Estados] /\ TipoAMedias'
    BY DEF FinalizarCaido, MarcarExit, TypeOK, TipoAMedias, Estados, susVars
  <1>2. Punteros'
    BY DEF FinalizarCaido, Punteros, cpuVars, planVars
  <1> QED BY <1>1, <1>2 DEF FinalizarCaido, TypeOK, colaVars, bolsaVars,
             semVars, cpuVars, planVars, susVars, procVars

LEMMA TipoCaidoEncolar ==
  ASSUME TypeOK, Punteros, NEW p \in Pids, CaidoEncolar(p)
  PROVE  TypeOK' /\ Punteros'
  <1>1. cola' \in [Colas -> Seq(Pids)]
    BY TipoEncolar DEF CaidoEncolar, EncolarExit, Colas
  <1>2. caidos' \in SUBSET Pids /\ TipoAMedias'
    BY DEF CaidoEncolar, TypeOK, TipoAMedias, susVars
  <1>3. Punteros'
    BY DEF CaidoEncolar, Punteros, cpuVars, planVars
  <1> QED BY <1>1, <1>2, <1>3 DEF CaidoEncolar, TypeOK, bolsaVars, semVars,
             cpuVars, planVars, susVars, procVars

----------------------------------------------------------------------------
\* Types, step by step.

LEMMA TipoPaso ==
  ASSUME TypeOK, Punteros, CandidatoEnCabeza, Next
  PROVE  TypeOK' /\ Punteros'
  <1>1. ASSUME NEW c \in CPUs, ConectarDispatch(c)
        PROVE  TypeOK' /\ Punteros'
    BY <1>1, TipoConectarDispatch
  <1>2. ASSUME NEW c \in CPUs, ConectarInterrupt(c)
        PROVE  TypeOK' /\ Punteros'
    BY <1>2, TipoConectarInterrupt
  <1>3. ASSUME NEW c \in CPUs, CaeCpu(c)
        PROVE  TypeOK' /\ Punteros'
    BY <1>3, TipoCaeCpu
  <1>4. CASE IniciarLargoPlazo
    BY <1>4, TipoIniciarLargoPlazo
  <1>5. CASE EsperarNuevo
    BY <1>5, TipoEsperarNuevo
  <1>6. CASE ElegirCandidato
    BY <1>6, TipoElegirCandidato
  <1>7. CASE AdmitirEnMemoria
    BY <1>7, TipoAdmitirEnMemoria
  <1>8. CASE RechazarAdmision
    BY <1>8, TipoRechazarAdmision
  <1>9. CASE AplicarAdmision
    BY <1>9, TipoAplicarAdmision
  <1>10. CASE EsperarListo
    BY <1>10, TipoEsperarListo
  <1>11. CASE EsperarCpu
    BY <1>11, TipoEsperarCpu
  <1>12. CASE Despachar
    BY <1>12, TipoDespachar
  <1>13. ASSUME NEW c \in CPUs, CrearProceso(c)
         PROVE  TypeOK' /\ Punteros'
    BY <1>13, TipoCrearProceso
  <1>14. ASSUME NEW c \in CPUs, NEW m \in {"EXIT", "IO", "DUMP", "ERROR"},
                RecibirRespuesta(c, m)
         PROVE  TypeOK' /\ Punteros'
    BY <1>14, TipoRecibirRespuesta
  <1>15. ASSUME NEW c \in CPUs, RecibirInterrupcion(c)
         PROVE  TypeOK' /\ Punteros'
    BY <1>15, TipoRecibirInterrupcion
  <1>16. ASSUME NEW c \in CPUs, ExitEncolar(c)
         PROVE  TypeOK' /\ Punteros'
    BY <1>16, TipoExitEncolar
  <1>17. ASSUME NEW c \in CPUs, ExitAvisar(c)
         PROVE  TypeOK' /\ Punteros'
    BY <1>17, TipoExitAvisar
  <1>18. ASSUME NEW c \in CPUs, ErrorMarcar(c)
         PROVE  TypeOK' /\ Punteros'
    BY <1>18, TipoErrorMarcar
  <1>19. ASSUME NEW c \in CPUs, BloquearPorIo(c)
         PROVE  TypeOK' /\ Punteros'
    BY <1>19, TipoBloquearPorIo
  <1>20. ASSUME NEW c \in CPUs, PedirIo(c)
         PROVE  TypeOK' /\ Punteros'
    BY <1>20, TipoPedirIo
  <1>21. ASSUME NEW c \in CPUs, BloquearPorDump(c)
         PROVE  TypeOK' /\ Punteros'
    BY <1>21, TipoBloquearPorDump
  <1>22. ASSUME NEW c \in CPUs, InterrupcionEncolar(c)
         PROVE  TypeOK' /\ Punteros'
    BY <1>22, TipoInterrupcionEncolar
  <1>23. ASSUME NEW c \in CPUs, InterrupcionAvisar(c)
         PROVE  TypeOK' /\ Punteros'
    BY <1>23, TipoInterrupcionAvisar
  <1>24. ASSUME NEW c \in CPUs, InterrupcionDesalojar(c)
         PROVE  TypeOK' /\ Punteros'
    BY <1>24, TipoInterrupcionDesalojar
  <1>25. ASSUME NEW c \in CPUs, SoltarCpu(c)
         PROVE  TypeOK' /\ Punteros'
    BY <1>25, TipoSoltarCpu
  <1>26. ASSUME NEW c \in CPUs, AvisarCpu(c)
         PROVE  TypeOK' /\ Punteros'
    BY <1>26, TipoAvisarCpu
  <1>27. ASSUME NEW c \in CPUs, DetectarCaida(c)
         PROVE  TypeOK' /\ Punteros'
    BY <1>27, TipoCaida
  <1>28. ASSUME NEW c \in CPUs, QuitarCpu(c)
         PROVE  TypeOK' /\ Punteros'
    BY <1>28, TipoCaida
  <1>29. ASSUME NEW c \in CPUs, FinalizarPorCaida(c)
         PROVE  TypeOK' /\ Punteros'
    BY <1>29, TipoCaida
  <1>30. CASE TomarFinalizado
    BY <1>30, TipoTomarFinalizado
  <1>31. CASE LiberarFinalizado
    BY <1>31, TipoLiberarFinalizado
  <1>32. ASSUME NEW p \in Pids, DispararVigilia(p)
         PROVE  TypeOK' /\ Punteros'
    BY <1>32, TipoDispararVigilia
  <1>33. ASSUME NEW p \in Pids, SuspenderEnMemoria(p)
         PROVE  TypeOK' /\ Punteros'
    BY <1>33, TipoSuspenderEnMemoria
  <1>34. ASSUME NEW p \in Pids, DumpOk(p)
         PROVE  TypeOK' /\ Punteros'
    BY <1>34, TipoDump DEF Dump
  <1>35. ASSUME NEW p \in Pids, DumpFallido(p)
         PROVE  TypeOK' /\ Punteros'
    BY <1>35, TipoDump DEF Dump
  <1>36. ASSUME NEW p \in Pids, DumpSinConexion(p)
         PROVE  TypeOK' /\ Punteros'
    BY <1>36, TipoDump DEF Dump
  <1>37. ASSUME NEW p \in Pids, FinIo(p)
         PROVE  TypeOK' /\ Punteros'
    BY <1>37, TipoFinIo
  <1>38. ASSUME NEW p \in Pids, FinalizarCaido(p)
         PROVE  TypeOK' /\ Punteros'
    BY <1>38, TipoFinalizarCaido
  <1>39. CASE CaeDispositivo
    BY <1>39, TipoCaeDispositivo
  <1>40. ASSUME NEW c \in CPUs, ErrorEncolar(c)
         PROVE  TypeOK' /\ Punteros'
    BY <1>40, TipoErrorEncolar
  <1>41. ASSUME NEW c \in CPUs, ErrorAvisar(c)
         PROVE  TypeOK' /\ Punteros'
    BY <1>41, TipoErrorAvisar
  <1>42. ASSUME NEW p \in Pids, Suspender(p)
         PROVE  TypeOK' /\ Punteros'
    BY <1>42, TipoSuspender
  <1>43. ASSUME NEW p \in Pids, DumpEncolar(p)
         PROVE  TypeOK' /\ Punteros'
    BY <1>43, TipoDump DEF Dump
  <1>44. CASE DumpAvisar
    BY <1>44, TipoAvisos DEF Avisos
  <1>45. ASSUME NEW p \in Pids, CaidoEncolar(p)
         PROVE  TypeOK' /\ Punteros'
    BY <1>45, TipoCaidoEncolar
  <1>46. CASE CaidoAvisar
    BY <1>46, TipoAvisos DEF Avisos
  <1> QED
    BY <1>1, <1>2, <1>3, <1>4, <1>5, <1>6, <1>7, <1>8, <1>9, <1>10, <1>11,
       <1>12, <1>13, <1>14, <1>15, <1>16, <1>17, <1>18, <1>19, <1>20, <1>21,
       <1>22, <1>23, <1>24, <1>25, <1>26, <1>27, <1>28, <1>29, <1>30, <1>31,
       <1>32, <1>33, <1>34, <1>35, <1>36, <1>37, <1>38, <1>39, <1>40, <1>41,
       <1>42, <1>43, <1>44, <1>45, <1>46 DEF Next, Conexiones, LargoPlazo,
       CortoPlazo, Oyente, Liberador, HilosDe, Vigilia, Dump, Avisos

----------------------------------------------------------------------------
\* The candidate of the long-term planner.
\*
\* Every other thread only appends to cola_new and cola_suspended_ready, and
\* the planner is the only one that removes from them.

LEMMA ColaDesbloquear ==
  ASSUME TypeOK, NEW p \in Pids, Desbloquear(p)
  PROVE  /\ cola'["new"] = cola["new"] /\ cola'["exit"] = cola["exit"]
         /\ \/ cola'["susp_ready"] = cola["susp_ready"]
            \/ cola'["susp_ready"] = Append(cola["susp_ready"], p)
         /\ \/ cola'["ready"] = cola["ready"] /\ semListo' = semListo
            \/ /\ cola'["ready"] = Append(cola["ready"], p)
               /\ semListo' = semListo + 1
  <1>1. \/ cola' = cola /\ semListo' = semListo
        \/ cola' = Encolar("ready", p) /\ semListo' = semListo + 1
        \/ cola' = Encolar("susp_ready", p) /\ semListo' = semListo
    BY DEF Desbloquear
  <1>2. cola \in [Colas -> Seq(Pids)]
    BY DEF TypeOK
  <1> QED BY <1>1, <1>2 DEF Encolar, Colas

LEMMA CabezaEstable ==
  ASSUME TypeOK, CandidatoEnCabeza, UNCHANGED largo,
         \A q \in {"new", "susp_ready"} :
            cola'[q] = cola[q] \/ \E p \in Pids : cola'[q] = Append(cola[q], p)
  PROVE  CandidatoEnCabeza'
  <1> SUFFICES ASSUME largo.pc \in {"memoria", "admitido"}
               PROVE  LET q == ColaDeIngreso(largo.susp)
                      IN cola'[q] # <<>> /\ Head(cola'[q]) = largo.cand
    BY DEF CandidatoEnCabeza, ColaDeIngreso
  <1> DEFINE q == ColaDeIngreso(largo.susp)
  <1>1. q \in {"new", "susp_ready"} /\ q \in Colas
    BY DEF ColaDeIngreso, Colas
  <1>2. cola[q] \in Seq(Pids) /\ cola[q] # <<>> /\ Head(cola[q]) = largo.cand
    BY <1>1 DEF CandidatoEnCabeza, TypeOK
  <1> HIDE DEF q
  <1>3. CASE cola'[q] = cola[q]
    BY <1>2, <1>3 DEF q
  <1>4. ASSUME NEW p \in Pids, cola'[q] = Append(cola[q], p)
        PROVE  cola'[q] # <<>> /\ Head(cola'[q]) = largo.cand
    BY <1>2, <1>4, HeadTailAppend, AppendProperties
  <1> QED BY <1>1, <1>3, <1>4 DEF q

LEMMA CabezaPaso ==
  ASSUME TypeOK, Punteros, CandidatoEnCabeza, Next
  PROVE  CandidatoEnCabeza'
  <1>1. ASSUME NEW c \in CPUs, ConectarDispatch(c)
        PROVE  CandidatoEnCabeza'
    BY <1>1, CabezaEstable DEF ConectarDispatch, TypeOK, colaVars, planVars
  <1>2. ASSUME NEW c \in CPUs, ConectarInterrupt(c)
        PROVE  CandidatoEnCabeza'
    BY <1>2, CabezaEstable DEF ConectarInterrupt, TypeOK, colaVars, planVars
  <1>3. ASSUME NEW c \in CPUs, CaeCpu(c)
        PROVE  CandidatoEnCabeza'
    BY <1>3, CabezaEstable DEF CaeCpu, TypeOK, colaVars, planVars
  <1>4. CASE IniciarLargoPlazo
    BY <1>4 DEF IniciarLargoPlazo, CandidatoEnCabeza, colaVars
  <1>5. CASE EsperarNuevo
    BY <1>5 DEF EsperarNuevo, CandidatoEnCabeza, colaVars
  <1>6. CASE ElegirCandidato
    <2> DEFINE susp == cola["susp_ready"] # <<>>
               q    == ColaDeIngreso(susp)
    <2>1. q \in Colas /\ cola[q] \in Seq(Pids)
      BY DEF ColaDeIngreso, TypeOK, Colas
    <2> HIDE DEF q
    <2>2. CASE cola[q] = <<>>
      BY <1>6, <2>2 DEF ElegirCandidato, CandidatoEnCabeza, q
    <2>3. CASE cola[q] # <<>>
      <3>1. PICK s \in OrdenesDeIngreso(cola[q]) :
              /\ largo' = [pc |-> "memoria", cand |-> Head(s), susp |-> susp]
              /\ cola' = [cola EXCEPT ![q] = s]
        BY <1>6, <2>3 DEF ElegirCandidato, q
      <3>2. s # <<>> /\ cola'[q] = s
        BY <2>1, <2>3, <3>1, TipoOrdenes DEF TypeOK
      <3>3. largo'.cand = Head(s) /\ ColaDeIngreso(largo'.susp) = q
        BY <3>1 DEF q
      <3> QED BY <3>2, <3>3 DEF CandidatoEnCabeza, ColaDeIngreso
    <2> QED BY <2>2, <2>3
  <1>7. CASE AdmitirEnMemoria
    BY <1>7 DEF AdmitirEnMemoria, CandidatoEnCabeza, colaVars
  <1>8. CASE RechazarAdmision
    BY <1>8 DEF RechazarAdmision, CandidatoEnCabeza, colaVars
  <1>9. CASE AplicarAdmision
    BY <1>9 DEF AplicarAdmision, CandidatoEnCabeza
  <1>10. CASE EsperarListo
    BY <1>10, CabezaEstable DEF EsperarListo, TypeOK, colaVars
  <1>11. CASE EsperarCpu
    BY <1>11, CabezaEstable DEF EsperarCpu, TypeOK, colaVars
  <1>12. CASE Despachar
    <2>1. cola'["new"] = cola["new"] /\ cola'["susp_ready"] = cola["susp_ready"]
      <3>1. \/ cola' = cola
            \/ \E s : cola' = [cola EXCEPT !["ready"] = s]
        BY <1>12 DEF Despachar, DespacharANadie, DespacharSinCpu, DespacharA
      <3> QED BY <3>1 DEF TypeOK, Colas
    <2>2. largo' = largo
      BY <1>12 DEF Despachar
    <2> QED BY <2>1, <2>2, CabezaEstable
  <1>13. ASSUME NEW c \in CPUs, CrearProceso(c)
         PROVE  CandidatoEnCabeza'
    <2>1. /\ cola'["susp_ready"] = cola["susp_ready"]
          /\ cola'["new"] = Append(cola["new"], ultimoPid)
      BY <1>13 DEF CrearProceso, Encolar, TypeOK, Colas
    <2>2. ultimoPid \in Pids /\ largo' = largo
      BY <1>13 DEF CrearProceso, planVars
    <2> QED BY <2>1, <2>2, CabezaEstable
  <1>14. ASSUME NEW c \in CPUs, NEW m \in {"EXIT", "IO", "DUMP", "ERROR"},
                RecibirRespuesta(c, m)
         PROVE  CandidatoEnCabeza'
    BY <1>14, CabezaEstable DEF RecibirRespuesta, Nueva, TypeOK, planVars
  <1>15. ASSUME NEW c \in CPUs, RecibirInterrupcion(c)
         PROVE  CandidatoEnCabeza'
    BY <1>15, CabezaEstable DEF RecibirInterrupcion, Nueva, TypeOK, planVars
  <1>16. ASSUME NEW c \in CPUs, ExitEncolar(c)
         PROVE  CandidatoEnCabeza'
    BY <1>16, CabezaEstable DEF ExitEncolar, Nueva, Encolar, TypeOK, planVars
  <1>17. ASSUME NEW c \in CPUs, ExitAvisar(c)
         PROVE  CandidatoEnCabeza'
    BY <1>17, CabezaEstable DEF ExitAvisar, Nueva, TypeOK, colaVars, planVars
  <1>18. ASSUME NEW c \in CPUs, ErrorMarcar(c)
         PROVE  CandidatoEnCabeza'
    BY <1>18, CabezaEstable DEF ErrorMarcar, Nueva, TypeOK, colaVars,
       planVars, semVars
  <1>19. ASSUME NEW c \in CPUs, BloquearPorIo(c)
         PROVE  CandidatoEnCabeza'
    BY <1>19, CabezaEstable DEF BloquearPorIo, Nueva, TypeOK, planVars
  <1>20. ASSUME NEW c \in CPUs, PedirIo(c)
         PROVE  CandidatoEnCabeza'
    BY <1>20, CabezaEstable DEF PedirIo, Nueva, TypeOK, colaVars, planVars
  <1>21. ASSUME NEW c \in CPUs, BloquearPorDump(c)
         PROVE  CandidatoEnCabeza'
    BY <1>21, CabezaEstable DEF BloquearPorDump, Nueva, TypeOK, planVars
  <1>22. ASSUME NEW c \in CPUs, InterrupcionEncolar(c)
         PROVE  CandidatoEnCabeza'
    BY <1>22, CabezaEstable DEF InterrupcionEncolar, Nueva, Encolar, TypeOK,
       planVars
  <1>23. ASSUME NEW c \in CPUs, InterrupcionAvisar(c)
         PROVE  CandidatoEnCabeza'
    BY <1>23, CabezaEstable DEF InterrupcionAvisar, Nueva, TypeOK, colaVars,
       planVars
  <1>24. ASSUME NEW c \in CPUs, InterrupcionDesalojar(c)
         PROVE  CandidatoEnCabeza'
    BY <1>24, CabezaEstable DEF InterrupcionDesalojar, Nueva, TypeOK,
       colaVars, planVars
  <1>25. ASSUME NEW c \in CPUs, SoltarCpu(c)
         PROVE  CandidatoEnCabeza'
    BY <1>25, CabezaEstable DEF SoltarCpu, Nueva, TypeOK, colaVars, planVars
  <1>26. ASSUME NEW c \in CPUs, AvisarCpu(c)
         PROVE  CandidatoEnCabeza'
    BY <1>26, CabezaEstable DEF AvisarCpu, Nueva, TypeOK, colaVars, planVars
  <1>27. ASSUME NEW c \in CPUs, DetectarCaida(c)
         PROVE  CandidatoEnCabeza'
    BY <1>27, CabezaEstable DEF DetectarCaida, Nueva, TypeOK, colaVars,
       planVars
  <1>28. ASSUME NEW c \in CPUs, QuitarCpu(c)
         PROVE  CandidatoEnCabeza'
    BY <1>28, CabezaEstable DEF QuitarCpu, Nueva, TypeOK, colaVars, planVars
  <1>29. ASSUME NEW c \in CPUs, FinalizarPorCaida(c)
         PROVE  CandidatoEnCabeza'
    BY <1>29, CabezaEstable DEF FinalizarPorCaida, Nueva, TypeOK, planVars
  <1>30. CASE TomarFinalizado
    <2>1. cola'["new"] = cola["new"] /\ cola'["susp_ready"] = cola["susp_ready"]
      <3>1. \/ cola' = cola
            \/ cola' = [cola EXCEPT !["exit"] = Tail(@)]
        BY <1>30 DEF TomarFinalizado
      <3> QED BY <3>1 DEF TypeOK, Colas
    <2>2. largo' = largo
      BY <1>30 DEF TomarFinalizado
    <2> QED BY <2>1, <2>2, CabezaEstable
  <1>31. CASE LiberarFinalizado
    BY <1>31, CabezaEstable DEF LiberarFinalizado, TypeOK, colaVars
  <1>32. ASSUME NEW p \in Pids, DispararVigilia(p)
         PROVE  CandidatoEnCabeza'
    BY <1>32, CabezaEstable DEF DispararVigilia, TypeOK, planVars, colaVars,
       semVars
  <1>33. ASSUME NEW p \in Pids, SuspenderEnMemoria(p)
         PROVE  CandidatoEnCabeza'
    BY <1>33, CabezaEstable DEF SuspenderEnMemoria, TypeOK, colaVars, planVars
  <1>34. ASSUME NEW p \in Pids, DumpOk(p)
         PROVE  CandidatoEnCabeza'
    <2>1. Desbloquear(p) /\ largo' = largo
      BY <1>34 DEF DumpOk, planVars
    <2>2. /\ cola'["new"] = cola["new"]
          /\ \/ cola'["susp_ready"] = cola["susp_ready"]
             \/ cola'["susp_ready"] = Append(cola["susp_ready"], p)
      BY <2>1, ColaDesbloquear
    <2> QED BY <2>1, <2>2, CabezaEstable
  <1>35. ASSUME NEW p \in Pids, DumpFallido(p)
         PROVE  CandidatoEnCabeza'
    BY <1>35, CabezaEstable DEF DumpFallido, TypeOK, planVars
  <1>36. ASSUME NEW p \in Pids, DumpSinConexion(p)
         PROVE  CandidatoEnCabeza'
    BY <1>36, CabezaEstable DEF DumpSinConexion, MarcarExit, TypeOK, planVars,
       colaVars, semVars
  <1>37. ASSUME NEW p \in Pids, FinIo(p)
         PROVE  CandidatoEnCabeza'
    <2>1. Desbloquear(p) /\ largo' = largo
      BY <1>37 DEF FinIo, planVars
    <2>2. /\ cola'["new"] = cola["new"]
          /\ \/ cola'["susp_ready"] = cola["susp_ready"]
             \/ cola'["susp_ready"] = Append(cola["susp_ready"], p)
      BY <2>1, ColaDesbloquear
    <2> QED BY <2>1, <2>2, CabezaEstable
  <1>38. ASSUME NEW p \in Pids, FinalizarCaido(p)
         PROVE  CandidatoEnCabeza'
    BY <1>38, CabezaEstable DEF FinalizarCaido, MarcarExit, TypeOK, planVars,
       colaVars, semVars
  <1>39. CASE CaeDispositivo
    BY <1>39, CabezaEstable DEF CaeDispositivo, TypeOK, planVars
  <1>40. ASSUME NEW c \in CPUs, ErrorEncolar(c)
         PROVE  CandidatoEnCabeza'
    BY <1>40, CabezaEstable DEF ErrorEncolar, EncolarExit, Encolar, Nueva,
       TypeOK, Colas, colaVars, planVars
  <1>41. ASSUME NEW c \in CPUs, ErrorAvisar(c)
         PROVE  CandidatoEnCabeza'
    BY <1>41, CabezaEstable DEF ErrorAvisar, Nueva, TypeOK, Colas, colaVars,
       planVars
  <1>42. ASSUME NEW p \in Pids, Suspender(p)
         PROVE  CandidatoEnCabeza'
    BY <1>42, CabezaEstable DEF Suspender, TypeOK, Colas, colaVars, planVars
  <1>43. ASSUME NEW p \in Pids, DumpEncolar(p)
         PROVE  CandidatoEnCabeza'
    BY <1>43, CabezaEstable DEF DumpEncolar, EncolarExit, Encolar, TypeOK,
       Colas, colaVars, planVars
  <1>44. CASE DumpAvisar
    BY <1>44, CabezaEstable DEF DumpAvisar, TypeOK, Colas, colaVars, planVars
  <1>45. ASSUME NEW p \in Pids, CaidoEncolar(p)
         PROVE  CandidatoEnCabeza'
    BY <1>45, CabezaEstable DEF CaidoEncolar, EncolarExit, Encolar, TypeOK,
       Colas, colaVars, planVars
  <1>46. CASE CaidoAvisar
    BY <1>46, CabezaEstable DEF CaidoAvisar, TypeOK, Colas, colaVars, planVars
  <1> QED
    BY <1>1, <1>2, <1>3, <1>4, <1>5, <1>6, <1>7, <1>8, <1>9, <1>10, <1>11,
       <1>12, <1>13, <1>14, <1>15, <1>16, <1>17, <1>18, <1>19, <1>20, <1>21,
       <1>22, <1>23, <1>24, <1>25, <1>26, <1>27, <1>28, <1>29, <1>30, <1>31,
       <1>32, <1>33, <1>34, <1>35, <1>36, <1>37, <1>38, <1>39, <1>40, <1>41,
       <1>42, <1>43, <1>44, <1>45, <1>46 DEF Next, Conexiones, LargoPlazo,
       CortoPlazo, Oyente, Liberador, HilosDe, Vigilia, Dump, Avisos

----------------------------------------------------------------------------
\* Listeners between two of their steps.

LEMMA VentanaFinita ==
  ASSUME NEW L
  PROVE  IsFiniteSet(EnVentana(L)) /\ Cardinality(EnVentana(L)) \in Nat
  <1>1. EnVentana(L) \subseteq CPUs
    BY DEF EnVentana
  <1>2. IsFiniteSet(EnVentana(L))
    BY <1>1, CpusAssumption, FS_Subset
  <1> QED BY <1>2, FS_CardinalityType

LEMMA VentanaFinitaProxima ==
  ASSUME NEW L
  PROVE  Cardinality(EnVentana(L)') \in Nat
  <1>1. EnVentana(L)' \subseteq CPUs
    BY DEF EnVentana
  <1>2. IsFiniteSet(EnVentana(L)')
    BY <1>1, CpusAssumption, FS_Subset
  <1> QED BY <1>2, FS_CardinalityType

LEMMA VentanaIgual ==
  ASSUME TypeOK, NEW L, NEW c \in CPUs, NEW l,
         oyente' = [oyente EXCEPT ![c] = l], oyente[c] \in L <=> l \in L
  PROVE  EnVentana(L)' = EnVentana(L)
BY DEF EnVentana, TypeOK

LEMMA VentanaEntra ==
  ASSUME TypeOK, NEW L, NEW c \in CPUs, NEW l,
         oyente' = [oyente EXCEPT ![c] = l], oyente[c] \notin L, l \in L
  PROVE  Cardinality(EnVentana(L)') = Cardinality(EnVentana(L)) + 1
  <1>1. EnVentana(L)' = EnVentana(L) \cup {c}
    BY DEF EnVentana, TypeOK
  <1>2. c \notin EnVentana(L)
    BY DEF EnVentana
  <1> QED BY <1>1, <1>2, VentanaFinita, FS_AddElement

LEMMA VentanaSale ==
  ASSUME TypeOK, NEW L, NEW c \in CPUs, NEW l,
         oyente' = [oyente EXCEPT ![c] = l], oyente[c] \in L, l \notin L
  PROVE  Cardinality(EnVentana(L)') = Cardinality(EnVentana(L)) - 1
  <1>1. EnVentana(L)' = EnVentana(L) \ {c}
    BY DEF EnVentana, TypeOK
  <1>2. c \in EnVentana(L)
    BY DEF EnVentana
  <1> QED BY <1>1, <1>2, VentanaFinita, FS_RemoveElement

\* A CPU that has not connected has no listener.
SinOyente == \A c \in CPUs : conexion[c] = "no" => oyente[c] = "no"

LEMMA SinOyentePaso ==
  ASSUME TypeOK, SinOyente, Next
  PROVE  SinOyente'
  <1>1. ASSUME NEW c \in CPUs, ConectarDispatch(c)
        PROVE  SinOyente'
    BY <1>1 DEF ConectarDispatch, SinOyente, TypeOK
  <1>2. ASSUME NEW c \in CPUs, ConectarInterrupt(c)
        PROVE  SinOyente'
    BY <1>2 DEF ConectarInterrupt, SinOyente, TypeOK
  <1>3. ASSUME NEW c \in CPUs, CaeCpu(c)
        PROVE  SinOyente'
    BY <1>3 DEF CaeCpu, SinOyente, TypeOK
  <1>4. CASE IniciarLargoPlazo
    BY <1>4 DEF IniciarLargoPlazo, SinOyente, TypeOK, cpuVars
  <1>5. CASE EsperarNuevo
    BY <1>5 DEF EsperarNuevo, SinOyente, TypeOK, cpuVars
  <1>6. CASE ElegirCandidato
    BY <1>6 DEF ElegirCandidato, SinOyente, TypeOK, cpuVars
  <1>7. CASE AdmitirEnMemoria
    BY <1>7 DEF AdmitirEnMemoria, SinOyente, TypeOK, cpuVars
  <1>8. CASE RechazarAdmision
    BY <1>8 DEF RechazarAdmision, SinOyente, TypeOK, cpuVars
  <1>9. CASE AplicarAdmision
    BY <1>9 DEF AplicarAdmision, SinOyente, TypeOK, cpuVars
  <1>10. CASE EsperarListo
    BY <1>10 DEF EsperarListo, SinOyente, TypeOK, cpuVars
  <1>11. CASE EsperarCpu
    BY <1>11 DEF EsperarCpu, SinOyente, TypeOK, cpuVars
  <1>12. CASE Despachar
    BY <1>12 DEF Despachar, DespacharANadie, DespacharSinCpu, DespacharA,
       SinOyente, TypeOK
  <1>13. ASSUME NEW c \in CPUs, CrearProceso(c)
         PROVE  SinOyente'
    BY <1>13 DEF CrearProceso, Encolar, SinOyente, TypeOK, cpuVars
  <1>14. ASSUME NEW c \in CPUs, NEW m \in {"EXIT", "IO", "DUMP", "ERROR"},
                RecibirRespuesta(c, m)
         PROVE  SinOyente'
    BY <1>14 DEF RecibirRespuesta, Nueva, SinOyente, TypeOK, cpuVars
  <1>15. ASSUME NEW c \in CPUs, RecibirInterrupcion(c)
         PROVE  SinOyente'
    BY <1>15 DEF RecibirInterrupcion, Nueva, SinOyente, TypeOK, cpuVars
  <1>16. ASSUME NEW c \in CPUs, ExitEncolar(c)
         PROVE  SinOyente'
    BY <1>16 DEF ExitEncolar, Nueva, Encolar, SinOyente, TypeOK, cpuVars
  <1>17. ASSUME NEW c \in CPUs, ExitAvisar(c)
         PROVE  SinOyente'
    BY <1>17 DEF ExitAvisar, Nueva, SinOyente, TypeOK, cpuVars
  <1>18. ASSUME NEW c \in CPUs, ErrorMarcar(c)
         PROVE  SinOyente'
    BY <1>18 DEF ErrorMarcar, MarcarExit, Nueva, Encolar, SinOyente,
       TypeOK, cpuVars
  <1>19. ASSUME NEW c \in CPUs, BloquearPorIo(c)
         PROVE  SinOyente'
    BY <1>19 DEF BloquearPorIo, Nueva, SinOyente, TypeOK, cpuVars
  <1>20. ASSUME NEW c \in CPUs, PedirIo(c)
         PROVE  SinOyente'
    BY <1>20 DEF PedirIo, Nueva, SinOyente, TypeOK, cpuVars
  <1>21. ASSUME NEW c \in CPUs, BloquearPorDump(c)
         PROVE  SinOyente'
    BY <1>21 DEF BloquearPorDump, Nueva, SinOyente, TypeOK, cpuVars
  <1>22. ASSUME NEW c \in CPUs, InterrupcionEncolar(c)
         PROVE  SinOyente'
    BY <1>22 DEF InterrupcionEncolar, Nueva, Encolar, SinOyente, TypeOK,
       cpuVars
  <1>23. ASSUME NEW c \in CPUs, InterrupcionAvisar(c)
         PROVE  SinOyente'
    BY <1>23 DEF InterrupcionAvisar, Nueva, SinOyente, TypeOK, cpuVars
  <1>24. ASSUME NEW c \in CPUs, InterrupcionDesalojar(c)
         PROVE  SinOyente'
    BY <1>24 DEF InterrupcionDesalojar, Nueva, SinOyente, TypeOK, cpuVars
  <1>25. ASSUME NEW c \in CPUs, SoltarCpu(c)
         PROVE  SinOyente'
    BY <1>25 DEF SoltarCpu, Nueva, SinOyente, TypeOK
  <1>26. ASSUME NEW c \in CPUs, AvisarCpu(c)
         PROVE  SinOyente'
    BY <1>26 DEF AvisarCpu, Nueva, SinOyente, TypeOK, cpuVars
  <1>27. ASSUME NEW c \in CPUs, DetectarCaida(c)
         PROVE  SinOyente'
    BY <1>27 DEF DetectarCaida, Nueva, SinOyente, TypeOK, cpuVars
  <1>28. ASSUME NEW c \in CPUs, QuitarCpu(c)
         PROVE  SinOyente'
    BY <1>28 DEF QuitarCpu, Nueva, SinOyente, TypeOK
  <1>29. ASSUME NEW c \in CPUs, FinalizarPorCaida(c)
         PROVE  SinOyente'
    BY <1>29 DEF FinalizarPorCaida, Nueva, SinOyente, TypeOK
  <1>30. CASE TomarFinalizado
    BY <1>30 DEF TomarFinalizado, SinOyente, TypeOK, cpuVars
  <1>31. CASE LiberarFinalizado
    BY <1>31 DEF LiberarFinalizado, SinOyente, TypeOK, cpuVars
  <1>32. ASSUME NEW p \in Pids, DispararVigilia(p)
         PROVE  SinOyente'
    BY <1>32 DEF DispararVigilia, SinOyente, TypeOK, cpuVars
  <1>33. ASSUME NEW p \in Pids, SuspenderEnMemoria(p)
         PROVE  SinOyente'
    BY <1>33 DEF SuspenderEnMemoria, SinOyente, TypeOK, cpuVars
  <1>34. ASSUME NEW p \in Pids, DumpOk(p)
         PROVE  SinOyente'
    BY <1>34 DEF DumpOk, Desbloquear, Encolar, SinOyente, TypeOK, cpuVars
  <1>35. ASSUME NEW p \in Pids, DumpFallido(p)
         PROVE  SinOyente'
    BY <1>35 DEF DumpFallido, SinOyente, TypeOK, cpuVars
  <1>36. ASSUME NEW p \in Pids, DumpSinConexion(p)
         PROVE  SinOyente'
    BY <1>36 DEF DumpSinConexion, MarcarExit, SinOyente, TypeOK,
       cpuVars
  <1>37. ASSUME NEW p \in Pids, FinIo(p)
         PROVE  SinOyente'
    BY <1>37 DEF FinIo, Desbloquear, Encolar, SinOyente, TypeOK, cpuVars
  <1>38. ASSUME NEW p \in Pids, FinalizarCaido(p)
         PROVE  SinOyente'
    BY <1>38 DEF FinalizarCaido, MarcarExit, SinOyente, TypeOK,
       cpuVars
  <1>39. CASE CaeDispositivo
    BY <1>39 DEF CaeDispositivo, SinOyente, TypeOK, cpuVars
  <1>40. ASSUME NEW c \in CPUs, ErrorEncolar(c)
         PROVE  SinOyente'
    BY <1>40 DEF ErrorEncolar, EncolarExit, Encolar, Nueva, SinOyente, TypeOK,
       cpuVars
  <1>41. ASSUME NEW c \in CPUs, ErrorAvisar(c)
         PROVE  SinOyente'
    BY <1>41 DEF ErrorAvisar, Nueva, SinOyente, TypeOK, cpuVars
  <1>42. ASSUME NEW p \in Pids, Suspender(p)
         PROVE  SinOyente'
    BY <1>42 DEF Suspender, SinOyente, TypeOK, cpuVars
  <1>43. ASSUME NEW p \in Pids, DumpEncolar(p)
         PROVE  SinOyente'
    BY <1>43 DEF DumpEncolar, EncolarExit, Encolar, SinOyente, TypeOK, cpuVars
  <1>44. CASE DumpAvisar
    BY <1>44 DEF DumpAvisar, SinOyente, TypeOK, cpuVars
  <1>45. ASSUME NEW p \in Pids, CaidoEncolar(p)
         PROVE  SinOyente'
    BY <1>45 DEF CaidoEncolar, EncolarExit, Encolar, SinOyente, TypeOK,
       cpuVars
  <1>46. CASE CaidoAvisar
    BY <1>46 DEF CaidoAvisar, SinOyente, TypeOK, cpuVars
  <1> QED
    BY <1>1, <1>2, <1>3, <1>4, <1>5, <1>6, <1>7, <1>8, <1>9, <1>10, <1>11,
       <1>12, <1>13, <1>14, <1>15, <1>16, <1>17, <1>18, <1>19, <1>20, <1>21,
       <1>22, <1>23, <1>24, <1>25, <1>26, <1>27, <1>28, <1>29, <1>30, <1>31,
       <1>32, <1>33, <1>34, <1>35, <1>36, <1>37, <1>38, <1>39, <1>40, <1>41,
       <1>42, <1>43, <1>44, <1>45, <1>46 DEF Next, Conexiones, LargoPlazo,
       CortoPlazo, Oyente, Liberador, HilosDe, Vigilia, Dump, Avisos

----------------------------------------------------------------------------
\* What the kernel believes of each CPU.

\* What the kernel knows of a CPU follows where its listener is: it is free only
\* while its listener waits, and a CPU that died executes nothing.
CpusOrdenadas == \A c \in CPUs :
    /\ conexion[c] = "caida" => enviado[c] = Nil
    /\ oyente[c] \in {"caida_lista", "caida_colas", "muerto"} => conexion[c] = "caida"
    /\ libre[c] => oyente[c] \in {"avisar", "espera", "caida_lista",
                                  "caida_colas", "muerto"}

LEMMA SincronizadaPaso ==
  ASSUME TypeOK, SinOyente,
         CpuSincronizada, CpusOrdenadas, Next
  PROVE  CpuSincronizada' /\ CpusOrdenadas'
  <1>1. ASSUME NEW c \in CPUs, ConectarDispatch(c)
        PROVE  CpuSincronizada' /\ CpusOrdenadas'
    BY <1>1 DEF ConectarDispatch, CpuSincronizada, CpusOrdenadas, SinOyente,
       TypeOK
  <1>2. ASSUME NEW c \in CPUs, ConectarInterrupt(c)
        PROVE  CpuSincronizada' /\ CpusOrdenadas'
    BY <1>2 DEF ConectarInterrupt, CpuSincronizada, CpusOrdenadas, SinOyente,
       TypeOK
  <1>3. ASSUME NEW c \in CPUs, CaeCpu(c)
        PROVE  CpuSincronizada' /\ CpusOrdenadas'
    BY <1>3 DEF CaeCpu, CpuSincronizada, CpusOrdenadas, SinOyente, TypeOK
  <1>4. CASE IniciarLargoPlazo
    BY <1>4 DEF IniciarLargoPlazo, CpuSincronizada, CpusOrdenadas, SinOyente,
       TypeOK, cpuVars
  <1>5. CASE EsperarNuevo
    BY <1>5 DEF EsperarNuevo, CpuSincronizada, CpusOrdenadas, SinOyente,
       TypeOK, cpuVars
  <1>6. CASE ElegirCandidato
    BY <1>6 DEF ElegirCandidato, CpuSincronizada, CpusOrdenadas, SinOyente,
       TypeOK, cpuVars
  <1>7. CASE AdmitirEnMemoria
    BY <1>7 DEF AdmitirEnMemoria, CpuSincronizada, CpusOrdenadas, SinOyente,
       TypeOK, cpuVars
  <1>8. CASE RechazarAdmision
    BY <1>8 DEF RechazarAdmision, CpuSincronizada, CpusOrdenadas, SinOyente,
       TypeOK, cpuVars
  <1>9. CASE AplicarAdmision
    BY <1>9 DEF AplicarAdmision, CpuSincronizada, CpusOrdenadas, SinOyente,
       TypeOK, cpuVars
  <1>10. CASE EsperarListo
    BY <1>10 DEF EsperarListo, CpuSincronizada, CpusOrdenadas, SinOyente,
       TypeOK, cpuVars
  <1>11. CASE EsperarCpu
    BY <1>11 DEF EsperarCpu, CpuSincronizada, CpusOrdenadas, SinOyente,
       TypeOK, cpuVars
  <1>12. CASE Despachar
    <2>1. CASE DespacharANadie
      BY <1>12, <2>1 DEF Despachar, DespacharANadie, CpuSincronizada,
         CpusOrdenadas
    <2>2. ASSUME NEW i \in Elegibles(cola["ready"]), DespacharSinCpu(i)
          PROVE  CpuSincronizada' /\ CpusOrdenadas'
      BY <1>12, <2>2 DEF Despachar, DespacharSinCpu, CpuSincronizada,
         CpusOrdenadas
    <2>3. ASSUME NEW i \in Elegibles(cola["ready"]), NEW t \in PrimerTurno,
                 DespacharA(Turno(t), i)
          PROVE  CpuSincronizada' /\ CpusOrdenadas'
      <3> DEFINE c == listaCpus[Turno(t)]
                 p == cola["ready"][i]
      <3>1. c \in CPUs /\ libre[c]
        BY CpuElegida
      <3>2. /\ libre' = [libre EXCEPT ![c] = FALSE]
            /\ enCpu' = [enCpu EXCEPT ![c] = p]
            /\ enviado' = [enviado EXCEPT ![c] = IF conexion[c] = "caida" THEN Nil ELSE p]
        BY <2>3 DEF DespacharA
      <3>3. oyente' = oyente /\ conexion' = conexion
        BY <1>12 DEF Despachar
      <3> HIDE DEF c, p
      <3> QED BY <3>1, <3>2, <3>3 DEF CpuSincronizada, CpusOrdenadas, TypeOK
    <2> QED BY <1>12, <2>1, <2>2, <2>3 DEF Despachar
  <1>13. ASSUME NEW c \in CPUs, CrearProceso(c)
         PROVE  CpuSincronizada' /\ CpusOrdenadas'
    BY <1>13 DEF CrearProceso, Encolar, CpuSincronizada, CpusOrdenadas,
       SinOyente, TypeOK, cpuVars
  <1>14. ASSUME NEW c \in CPUs, NEW m \in {"EXIT", "IO", "DUMP", "ERROR"},
                RecibirRespuesta(c, m)
         PROVE  CpuSincronizada' /\ CpusOrdenadas'
    BY <1>14 DEF RecibirRespuesta, Nueva, CpuSincronizada, CpusOrdenadas,
       SinOyente, TypeOK, cpuVars
  <1>15. ASSUME NEW c \in CPUs, RecibirInterrupcion(c)
         PROVE  CpuSincronizada' /\ CpusOrdenadas'
    BY <1>15 DEF RecibirInterrupcion, Nueva, CpuSincronizada, CpusOrdenadas,
       SinOyente, TypeOK, cpuVars
  <1>16. ASSUME NEW c \in CPUs, ExitEncolar(c)
         PROVE  CpuSincronizada' /\ CpusOrdenadas'
    BY <1>16 DEF ExitEncolar, Nueva, Encolar, CpuSincronizada, CpusOrdenadas,
       SinOyente, TypeOK, cpuVars
  <1>17. ASSUME NEW c \in CPUs, ExitAvisar(c)
         PROVE  CpuSincronizada' /\ CpusOrdenadas'
    BY <1>17 DEF ExitAvisar, Nueva, CpuSincronizada, CpusOrdenadas, SinOyente,
       TypeOK, cpuVars
  <1>18. ASSUME NEW c \in CPUs, ErrorMarcar(c)
         PROVE  CpuSincronizada' /\ CpusOrdenadas'
    BY <1>18 DEF ErrorMarcar, MarcarExit, Nueva, Encolar,
       CpuSincronizada, CpusOrdenadas, SinOyente, TypeOK, cpuVars
  <1>19. ASSUME NEW c \in CPUs, BloquearPorIo(c)
         PROVE  CpuSincronizada' /\ CpusOrdenadas'
    <2>1. PICK l \in {"IO_pedir", "ERROR"} : oyente' = [oyente EXCEPT ![c] = l]
      BY <1>19 DEF BloquearPorIo, Nueva
    <2>2. oyente[c] = "IO" /\ UNCHANGED <<conexion, enviado, libre, enCpu>>
      BY <1>19 DEF BloquearPorIo, cpuVars
    <2> QED BY <2>1, <2>2 DEF CpuSincronizada, CpusOrdenadas, TypeOK
  <1>20. ASSUME NEW c \in CPUs, PedirIo(c)
         PROVE  CpuSincronizada' /\ CpusOrdenadas'
    BY <1>20 DEF PedirIo, Nueva, CpuSincronizada, CpusOrdenadas, SinOyente,
       TypeOK, cpuVars
  <1>21. ASSUME NEW c \in CPUs, BloquearPorDump(c)
         PROVE  CpuSincronizada' /\ CpusOrdenadas'
    BY <1>21 DEF BloquearPorDump, Nueva, CpuSincronizada, CpusOrdenadas,
       SinOyente, TypeOK, cpuVars
  <1>22. ASSUME NEW c \in CPUs, InterrupcionEncolar(c)
         PROVE  CpuSincronizada' /\ CpusOrdenadas'
    BY <1>22 DEF InterrupcionEncolar, Nueva, Encolar, CpuSincronizada,
       CpusOrdenadas, SinOyente, TypeOK, cpuVars
  <1>23. ASSUME NEW c \in CPUs, InterrupcionAvisar(c)
         PROVE  CpuSincronizada' /\ CpusOrdenadas'
    BY <1>23 DEF InterrupcionAvisar, Nueva, CpuSincronizada, CpusOrdenadas,
       SinOyente, TypeOK, cpuVars
  <1>24. ASSUME NEW c \in CPUs, InterrupcionDesalojar(c)
         PROVE  CpuSincronizada' /\ CpusOrdenadas'
    BY <1>24 DEF InterrupcionDesalojar, Nueva, CpuSincronizada, CpusOrdenadas,
       SinOyente, TypeOK, cpuVars
  <1>25. ASSUME NEW c \in CPUs, SoltarCpu(c)
         PROVE  CpuSincronizada' /\ CpusOrdenadas'
    BY <1>25 DEF SoltarCpu, Nueva, CpuSincronizada, CpusOrdenadas, SinOyente,
       TypeOK
  <1>26. ASSUME NEW c \in CPUs, AvisarCpu(c)
         PROVE  CpuSincronizada' /\ CpusOrdenadas'
    BY <1>26 DEF AvisarCpu, Nueva, CpuSincronizada, CpusOrdenadas, SinOyente,
       TypeOK, cpuVars
  <1>27. ASSUME NEW c \in CPUs, DetectarCaida(c)
         PROVE  CpuSincronizada' /\ CpusOrdenadas'
    BY <1>27 DEF DetectarCaida, Nueva, CpuSincronizada, CpusOrdenadas,
       SinOyente, TypeOK, cpuVars
  <1>28. ASSUME NEW c \in CPUs, QuitarCpu(c)
         PROVE  CpuSincronizada' /\ CpusOrdenadas'
    BY <1>28 DEF QuitarCpu, Nueva, CpuSincronizada, CpusOrdenadas, SinOyente,
       TypeOK
  <1>29. ASSUME NEW c \in CPUs, FinalizarPorCaida(c)
         PROVE  CpuSincronizada' /\ CpusOrdenadas'
    BY <1>29 DEF FinalizarPorCaida, Nueva, CpuSincronizada, CpusOrdenadas,
       SinOyente, TypeOK
  <1>30. CASE TomarFinalizado
    BY <1>30 DEF TomarFinalizado, CpuSincronizada, CpusOrdenadas, SinOyente,
       TypeOK, cpuVars
  <1>31. CASE LiberarFinalizado
    BY <1>31 DEF LiberarFinalizado, CpuSincronizada, CpusOrdenadas, SinOyente,
       TypeOK, cpuVars
  <1>32. ASSUME NEW p \in Pids, DispararVigilia(p)
         PROVE  CpuSincronizada' /\ CpusOrdenadas'
    BY <1>32 DEF DispararVigilia, CpuSincronizada, CpusOrdenadas, SinOyente,
       TypeOK, cpuVars
  <1>33. ASSUME NEW p \in Pids, SuspenderEnMemoria(p)
         PROVE  CpuSincronizada' /\ CpusOrdenadas'
    BY <1>33 DEF SuspenderEnMemoria, CpuSincronizada, CpusOrdenadas,
       SinOyente, TypeOK, cpuVars
  <1>34. ASSUME NEW p \in Pids, DumpOk(p)
         PROVE  CpuSincronizada' /\ CpusOrdenadas'
    BY <1>34 DEF DumpOk, Desbloquear, Encolar, CpuSincronizada, CpusOrdenadas,
       SinOyente, TypeOK, cpuVars
  <1>35. ASSUME NEW p \in Pids, DumpFallido(p)
         PROVE  CpuSincronizada' /\ CpusOrdenadas'
    BY <1>35 DEF DumpFallido, CpuSincronizada, CpusOrdenadas, SinOyente,
       TypeOK, cpuVars
  <1>36. ASSUME NEW p \in Pids, DumpSinConexion(p)
         PROVE  CpuSincronizada' /\ CpusOrdenadas'
    BY <1>36 DEF DumpSinConexion, MarcarExit, CpuSincronizada,
       CpusOrdenadas, SinOyente, TypeOK, cpuVars
  <1>37. ASSUME NEW p \in Pids, FinIo(p)
         PROVE  CpuSincronizada' /\ CpusOrdenadas'
    BY <1>37 DEF FinIo, Desbloquear, Encolar, CpuSincronizada, CpusOrdenadas,
       SinOyente, TypeOK, cpuVars
  <1>38. ASSUME NEW p \in Pids, FinalizarCaido(p)
         PROVE  CpuSincronizada' /\ CpusOrdenadas'
    BY <1>38 DEF FinalizarCaido, MarcarExit, CpuSincronizada,
       CpusOrdenadas, SinOyente, TypeOK, cpuVars
  <1>39. CASE CaeDispositivo
    BY <1>39 DEF CaeDispositivo, CpuSincronizada, CpusOrdenadas, SinOyente,
       TypeOK, cpuVars
  <1>40. ASSUME NEW c \in CPUs, ErrorEncolar(c)
         PROVE  CpuSincronizada' /\ CpusOrdenadas'
    BY <1>40 DEF ErrorEncolar, EncolarExit, Encolar, Nueva, CpuSincronizada,
       CpusOrdenadas, SinOyente, TypeOK, cpuVars
  <1>41. ASSUME NEW c \in CPUs, ErrorAvisar(c)
         PROVE  CpuSincronizada' /\ CpusOrdenadas'
    BY <1>41 DEF ErrorAvisar, Nueva, CpuSincronizada, CpusOrdenadas,
       SinOyente, TypeOK, cpuVars
  <1>42. ASSUME NEW p \in Pids, Suspender(p)
         PROVE  CpuSincronizada' /\ CpusOrdenadas'
    BY <1>42 DEF Suspender, CpuSincronizada, CpusOrdenadas, SinOyente, TypeOK,
       cpuVars
  <1>43. ASSUME NEW p \in Pids, DumpEncolar(p)
         PROVE  CpuSincronizada' /\ CpusOrdenadas'
    BY <1>43 DEF DumpEncolar, EncolarExit, Encolar, CpuSincronizada,
       CpusOrdenadas, SinOyente, TypeOK, cpuVars
  <1>44. CASE DumpAvisar
    BY <1>44 DEF DumpAvisar, CpuSincronizada, CpusOrdenadas, SinOyente,
       TypeOK, cpuVars
  <1>45. ASSUME NEW p \in Pids, CaidoEncolar(p)
         PROVE  CpuSincronizada' /\ CpusOrdenadas'
    BY <1>45 DEF CaidoEncolar, EncolarExit, Encolar, CpuSincronizada,
       CpusOrdenadas, SinOyente, TypeOK, cpuVars
  <1>46. CASE CaidoAvisar
    BY <1>46 DEF CaidoAvisar, CpuSincronizada, CpusOrdenadas, SinOyente,
       TypeOK, cpuVars
  <1> QED
    BY <1>1, <1>2, <1>3, <1>4, <1>5, <1>6, <1>7, <1>8, <1>9, <1>10, <1>11,
       <1>12, <1>13, <1>14, <1>15, <1>16, <1>17, <1>18, <1>19, <1>20, <1>21,
       <1>22, <1>23, <1>24, <1>25, <1>26, <1>27, <1>28, <1>29, <1>30, <1>31,
       <1>32, <1>33, <1>34, <1>35, <1>36, <1>37, <1>38, <1>39, <1>40, <1>41,
       <1>42, <1>43, <1>44, <1>45, <1>46 DEF Next, Conexiones, LargoPlazo,
       CortoPlazo, Oyente, Liberador, HilosDe, Vigilia, Dump, Avisos

----------------------------------------------------------------------------
\* sem_procesos_en_exit and cola_exit.

\* The listeners about to post sem_procesos_en_exit.
VentanaSalida == EnVentana({"EXIT_avisar", "ERROR_avisar"})

LEMMA SinAnunciarNat ==
  ASSUME TypeOK
  PROVE  SinAnunciar \in Nat /\ Cardinality(VentanaSalida) \in Nat
  <1>1. Cardinality(EnVentana({"EXIT_avisar", "ERROR_avisar"})) \in Nat
    BY VentanaFinita
  <1>2. avisosDump \in Nat
    BY DEF TypeOK, TipoAMedias
  <1> QED BY <1>1, <1>2 DEF SinAnunciar, VentanaSalida

LEMMA SalidaIgual ==
  ASSUME FichasDeSalida, cola'["exit"] = cola["exit"], semExit' = semExit,
         VentanaSalida' = VentanaSalida, UNCHANGED <<avisosDump, avisoIo>>
  PROVE  FichasDeSalida'
BY DEF FichasDeSalida, SinAnunciar, VentanaSalida

LEMMA SalidaSuma ==
  ASSUME TypeOK, FichasDeSalida,
         \/ /\ Len(cola'["exit"]) = Len(cola["exit"]) + 1
            /\ semExit' = semExit
            /\ SinAnunciar' = SinAnunciar + 1
         \/ /\ Len(cola'["exit"]) = Len(cola["exit"])
            /\ semExit' = semExit + 1
            /\ SinAnunciar' = SinAnunciar - 1
  PROVE  FichasDeSalida'
  <1>1. PICK a \in Nat, n \in Nat : a = semExit /\ n = SinAnunciar
    BY SinAnunciarNat DEF TypeOK
  <1>2. Len(cola["exit"]) = a + n
    BY <1>1 DEF FichasDeSalida
  <1>3. Len(cola'["exit"]) = semExit' + SinAnunciar'
    BY <1>1, <1>2
  <1> QED BY <1>3 DEF FichasDeSalida

\* A thread that is not a listener comes or goes.
LEMMA AvisosSuma ==
  ASSUME TypeOK, VentanaSalida' = VentanaSalida
  PROVE  /\ \/ avisosDump' = avisosDump + 1 /\ avisoIo' = avisoIo
            \/ avisosDump' = avisosDump /\ ~avisoIo /\ avisoIo'
            => SinAnunciar' = SinAnunciar + 1
         /\ \/ avisosDump' = avisosDump - 1 /\ avisoIo' = avisoIo
            \/ avisosDump' = avisosDump /\ avisoIo /\ ~avisoIo'
            => SinAnunciar' = SinAnunciar - 1
  <1>1. PICK v \in Nat : v = Cardinality(VentanaSalida)
    BY SinAnunciarNat
  <1>2. SinAnunciar = v + avisosDump + (IF avisoIo THEN 1 ELSE 0)
    BY <1>1 DEF SinAnunciar, VentanaSalida
  <1>3. SinAnunciar' = v + avisosDump' + (IF avisoIo' THEN 1 ELSE 0)
    BY <1>1 DEF SinAnunciar, VentanaSalida
  <1>4. avisosDump \in Nat
    BY DEF TypeOK, TipoAMedias
  <1> QED BY <1>2, <1>3, <1>4

LEMMA SalidaEncolar ==
  ASSUME TypeOK, NEW p \in Pids, cola' = Encolar("exit", p)
  PROVE  Len(cola'["exit"]) = Len(cola["exit"]) + 1
  <1>1. cola'["exit"] = Append(cola["exit"], p)
    BY DEF Encolar, TypeOK, Colas
  <1> QED BY <1>1, AppendProperties DEF TypeOK, Colas

LEMMA CuentaSalida ==
  ASSUME TypeOK, UNCHANGED <<avisosDump, avisoIo>>
  PROVE  /\ Cardinality(VentanaSalida') = Cardinality(VentanaSalida) + 1
               => SinAnunciar' = SinAnunciar + 1
         /\ Cardinality(VentanaSalida') = Cardinality(VentanaSalida) - 1
               => SinAnunciar' = SinAnunciar - 1
  <1>1. PICK v \in Nat : v = Cardinality(VentanaSalida)
    BY SinAnunciarNat
  <1>2. SinAnunciar = v + avisosDump + (IF avisoIo THEN 1 ELSE 0)
    BY <1>1 DEF SinAnunciar, VentanaSalida
  <1>3. PICK w : w = Cardinality(VentanaSalida')
    OBVIOUS
  <1>4. SinAnunciar' = w + avisosDump + (IF avisoIo THEN 1 ELSE 0)
    BY <1>3 DEF SinAnunciar, VentanaSalida
  <1>5. avisosDump \in Nat
    BY DEF TypeOK, TipoAMedias
  <1> QED BY <1>1, <1>2, <1>3, <1>4, <1>5

LEMMA SalidaEntra ==
  ASSUME TypeOK, NEW c \in CPUs, NEW l \in {"EXIT_avisar", "ERROR_avisar"},
         oyente[c] \notin {"EXIT_avisar", "ERROR_avisar"}, Nueva(c, l),
         UNCHANGED <<avisosDump, avisoIo>>
  PROVE  SinAnunciar' = SinAnunciar + 1
  <1>1. Cardinality(VentanaSalida') = Cardinality(VentanaSalida) + 1
    BY VentanaEntra DEF VentanaSalida, Nueva
  <1> QED BY <1>1, CuentaSalida

LEMMA SalidaSale ==
  ASSUME TypeOK, NEW c \in CPUs, Nueva(c, "soltar"),
         oyente[c] \in {"EXIT_avisar", "ERROR_avisar"},
         UNCHANGED <<avisosDump, avisoIo>>
  PROVE  SinAnunciar' = SinAnunciar - 1
  <1>1. "soltar" \notin {"EXIT_avisar", "ERROR_avisar"}
    OBVIOUS
  <1>2. Cardinality(VentanaSalida') = Cardinality(VentanaSalida) - 1
    BY <1>1, VentanaSale DEF VentanaSalida, Nueva
  <1> QED BY <1>2, CuentaSalida

LEMMA SalidaPaso ==
  ASSUME TypeOK, Punteros, SinOyente, FichasDeSalida, Next
  PROVE  FichasDeSalida'
  <1> USE DEF ioVars, finVars
  <1>1. ASSUME NEW c \in CPUs, ConectarDispatch(c)
        PROVE  FichasDeSalida'
    <2>1. VentanaSalida' = VentanaSalida
      BY <1>1, VentanaIgual DEF ConectarDispatch, SinOyente, VentanaSalida
    <2> QED BY <1>1, <2>1, SalidaIgual DEF ConectarDispatch, colaVars,
       semVars, planVars
  <1>2. ASSUME NEW c \in CPUs, ConectarInterrupt(c)
        PROVE  FichasDeSalida'
    BY <1>2, SalidaIgual DEF ConectarInterrupt, EnVentana, VentanaSalida,
       TypeOK, Colas, colaVars, semVars
  <1>3. ASSUME NEW c \in CPUs, CaeCpu(c)
        PROVE  FichasDeSalida'
    BY <1>3, SalidaIgual DEF CaeCpu, EnVentana, VentanaSalida, TypeOK, Colas,
       colaVars, semVars
  <1>4. CASE IniciarLargoPlazo
    BY <1>4, SalidaIgual DEF IniciarLargoPlazo, EnVentana, VentanaSalida,
       TypeOK, Colas, colaVars, semVars
  <1>5. CASE EsperarNuevo
    BY <1>5, SalidaIgual DEF EsperarNuevo, EnVentana, VentanaSalida, TypeOK,
       Colas, colaVars
  <1>6. CASE ElegirCandidato
    <2>1. cola' = cola \/ \E q \in {"new", "susp_ready"} : \E s : cola' = [cola EXCEPT ![q] = s]
      BY <1>6 DEF ElegirCandidato, ColaDeIngreso
    <2>2. cola'["exit"] = cola["exit"]
      BY <2>1 DEF TypeOK, Colas
    <2> QED BY <1>6, <2>2, SalidaIgual DEF ElegirCandidato, EnVentana,
       VentanaSalida, semVars
  <1>7. CASE AdmitirEnMemoria
    BY <1>7, SalidaIgual DEF AdmitirEnMemoria, EnVentana, VentanaSalida,
       TypeOK, Colas, colaVars, semVars
  <1>8. CASE RechazarAdmision
    BY <1>8, SalidaIgual DEF RechazarAdmision, EnVentana, VentanaSalida,
       TypeOK, Colas, colaVars, semVars
  <1>9. CASE AplicarAdmision
    <2>1. cola'["exit"] = cola["exit"]
      BY <1>9 DEF AplicarAdmision, ColaDeIngreso, TypeOK, Colas
    <2> QED BY <1>9, <2>1, SalidaIgual DEF AplicarAdmision, EnVentana,
       VentanaSalida
  <1>10. CASE EsperarListo
    BY <1>10, SalidaIgual DEF EsperarListo, EnVentana, VentanaSalida, TypeOK,
       Colas, colaVars
  <1>11. CASE EsperarCpu
    BY <1>11, SalidaIgual DEF EsperarCpu, EnVentana, VentanaSalida, TypeOK,
       Colas, colaVars
  <1>12. CASE Despachar
    <2>1. \/ cola' = cola
          \/ \E s : cola' = [cola EXCEPT !["ready"] = s]
      BY <1>12 DEF Despachar, DespacharANadie, DespacharSinCpu, DespacharA
    <2>2. cola'["exit"] = cola["exit"]
      BY <2>1 DEF TypeOK, Colas
    <2> QED BY <1>12, <2>2, SalidaIgual DEF Despachar, EnVentana, VentanaSalida
  <1>13. ASSUME NEW c \in CPUs, CrearProceso(c)
         PROVE  FichasDeSalida'
    BY <1>13, SalidaIgual DEF CrearProceso, Encolar, EnVentana,
       VentanaSalida, TypeOK, Colas
  <1>14. ASSUME NEW c \in CPUs, NEW m \in {"EXIT", "IO", "DUMP", "ERROR"},
                RecibirRespuesta(c, m)
         PROVE  FichasDeSalida'
    BY <1>14, SalidaIgual DEF RecibirRespuesta, Nueva, EnVentana,
       VentanaSalida, TypeOK, Colas, semVars
  <1>15. ASSUME NEW c \in CPUs, RecibirInterrupcion(c)
         PROVE  FichasDeSalida'
    BY <1>15, SalidaIgual DEF RecibirInterrupcion, Nueva, EnVentana,
       VentanaSalida, TypeOK, Colas, semVars
  <1>16. ASSUME NEW c \in CPUs, ExitEncolar(c)
         PROVE  FichasDeSalida'
    <2>1. Len(cola'["exit"]) = Len(cola["exit"]) + 1
      BY <1>16, SalidaEncolar DEF ExitEncolar, TypeOK, Punteros, EnManos
    <2>2. SinAnunciar' = SinAnunciar + 1
      BY <1>16, SalidaEntra DEF ExitEncolar
    <2> QED BY <1>16, <2>1, <2>2, SalidaSuma DEF ExitEncolar, semVars
  <1>17. ASSUME NEW c \in CPUs, ExitAvisar(c)
         PROVE  FichasDeSalida'
    <2>1. SinAnunciar' = SinAnunciar - 1
      BY <1>17, SalidaSale DEF ExitAvisar
    <2> QED BY <1>17, <2>1, SalidaSuma DEF ExitAvisar, colaVars
  <1>18. ASSUME NEW c \in CPUs, ErrorMarcar(c)
         PROVE  FichasDeSalida'
    BY <1>18, SalidaIgual DEF ErrorMarcar, Nueva, EnVentana, VentanaSalida,
       TypeOK, Colas, colaVars, semVars
  <1>19. ASSUME NEW c \in CPUs, BloquearPorIo(c)
         PROVE  FichasDeSalida'
    BY <1>19, SalidaIgual DEF BloquearPorIo, Nueva, EnVentana, VentanaSalida,
       TypeOK, Colas, semVars
  <1>20. ASSUME NEW c \in CPUs, PedirIo(c)
         PROVE  FichasDeSalida'
    BY <1>20, SalidaIgual DEF PedirIo, Nueva, EnVentana, VentanaSalida,
       TypeOK, Colas, colaVars, semVars
  <1>21. ASSUME NEW c \in CPUs, BloquearPorDump(c)
         PROVE  FichasDeSalida'
    BY <1>21, SalidaIgual DEF BloquearPorDump, Nueva, EnVentana,
       VentanaSalida, TypeOK, Colas, semVars
  <1>22. ASSUME NEW c \in CPUs, InterrupcionEncolar(c)
         PROVE  FichasDeSalida'
    <2>1. cola'["exit"] = cola["exit"]
      BY <1>22 DEF InterrupcionEncolar, Encolar, TypeOK, Colas
    <2>2. VentanaSalida' = VentanaSalida
      BY <1>22, VentanaIgual DEF InterrupcionEncolar, Nueva, VentanaSalida
    <2> QED BY <1>22, <2>1, <2>2, SalidaIgual DEF InterrupcionEncolar, semVars
  <1>23. ASSUME NEW c \in CPUs, InterrupcionAvisar(c)
         PROVE  FichasDeSalida'
    BY <1>23, SalidaIgual DEF InterrupcionAvisar, Nueva, EnVentana,
       VentanaSalida, TypeOK, Colas, colaVars
  <1>24. ASSUME NEW c \in CPUs, InterrupcionDesalojar(c)
         PROVE  FichasDeSalida'
    BY <1>24, SalidaIgual DEF InterrupcionDesalojar, Nueva, EnVentana,
       VentanaSalida, TypeOK, Colas, colaVars, semVars
  <1>25. ASSUME NEW c \in CPUs, SoltarCpu(c)
         PROVE  FichasDeSalida'
    BY <1>25, SalidaIgual DEF SoltarCpu, Nueva, EnVentana, VentanaSalida,
       TypeOK, Colas, colaVars, semVars
  <1>26. ASSUME NEW c \in CPUs, AvisarCpu(c)
         PROVE  FichasDeSalida'
    BY <1>26, SalidaIgual DEF AvisarCpu, Nueva, EnVentana, VentanaSalida,
       TypeOK, Colas, colaVars
  <1>27. ASSUME NEW c \in CPUs, DetectarCaida(c)
         PROVE  FichasDeSalida'
    BY <1>27, SalidaIgual DEF DetectarCaida, Nueva, EnVentana, VentanaSalida,
       TypeOK, Colas, colaVars
  <1>28. ASSUME NEW c \in CPUs, QuitarCpu(c)
         PROVE  FichasDeSalida'
    BY <1>28, SalidaIgual DEF QuitarCpu, Nueva, EnVentana, VentanaSalida,
       TypeOK, Colas, colaVars, semVars
  <1>29. ASSUME NEW c \in CPUs, FinalizarPorCaida(c)
         PROVE  FichasDeSalida'
    BY <1>29, SalidaIgual DEF FinalizarPorCaida, Nueva, EnVentana,
       VentanaSalida, TypeOK, Colas, semVars
  <1>30. CASE TomarFinalizado
    <2>1. cola["exit"] \in Seq(Pids) /\ semExit > 0 /\ semExit' = semExit - 1
      BY <1>30 DEF TomarFinalizado, TypeOK, Colas
    <2>2. UNCHANGED <<VentanaSalida, avisosDump, avisoIo>>
      BY <1>30 DEF TomarFinalizado, EnVentana, VentanaSalida
    <2>3. cola["exit"] # <<>>
      BY <2>1, SinAnunciarNat, EmptySeq DEF FichasDeSalida, TypeOK
    <2>4. cola'["exit"] = Tail(cola["exit"])
      BY <1>30, <2>3 DEF TomarFinalizado, TypeOK, Colas
    <2>5. Len(cola'["exit"]) = Len(cola["exit"]) - 1
      BY <2>1, <2>3, <2>4, HeadTailProperties
    <2>6. SinAnunciar' = SinAnunciar
      BY <2>2 DEF SinAnunciar, VentanaSalida
    <2>7. PICK n \in Nat : n = SinAnunciar
      BY SinAnunciarNat
    <2>8. semExit \in Nat /\ Len(cola["exit"]) = semExit + n
      BY <2>7 DEF FichasDeSalida, TypeOK
    <2>9. Len(cola'["exit"]) = semExit' + n
      BY <2>1, <2>5, <2>8
    <2> QED BY <2>6, <2>7, <2>9 DEF FichasDeSalida
  <1>31. CASE LiberarFinalizado
    BY <1>31, SalidaIgual DEF LiberarFinalizado, EnVentana, VentanaSalida,
       TypeOK, Colas, colaVars
  <1>32. ASSUME NEW p \in Pids, DispararVigilia(p)
         PROVE  FichasDeSalida'
    BY <1>32, SalidaIgual DEF DispararVigilia, EnVentana, VentanaSalida,
       TypeOK, Colas, semVars, colaVars
  <1>33. ASSUME NEW p \in Pids, SuspenderEnMemoria(p)
         PROVE  FichasDeSalida'
    BY <1>33, SalidaIgual DEF SuspenderEnMemoria, EnVentana, VentanaSalida,
       TypeOK, Colas, colaVars
  <1>34. ASSUME NEW p \in Pids, DumpOk(p)
         PROVE  FichasDeSalida'
    BY <1>34, ColaDesbloquear, SalidaIgual DEF DumpOk, EnVentana, VentanaSalida
  <1>35. ASSUME NEW p \in Pids, DumpFallido(p)
         PROVE  FichasDeSalida'
    BY <1>35, SalidaIgual DEF DumpFallido, EnVentana, VentanaSalida, TypeOK,
       Colas, semVars
  <1>36. ASSUME NEW p \in Pids, DumpSinConexion(p)
         PROVE  FichasDeSalida'
    BY <1>36, SalidaIgual DEF DumpSinConexion, EnVentana, VentanaSalida,
       colaVars, semVars
  <1>37. ASSUME NEW p \in Pids, FinIo(p)
         PROVE  FichasDeSalida'
    BY <1>37, ColaDesbloquear, SalidaIgual DEF FinIo, EnVentana, VentanaSalida
  <1>38. ASSUME NEW p \in Pids, FinalizarCaido(p)
         PROVE  FichasDeSalida'
    BY <1>38, SalidaIgual DEF FinalizarCaido, EnVentana, VentanaSalida,
       colaVars, semVars
  <1>39. CASE CaeDispositivo
    BY <1>39, SalidaIgual DEF CaeDispositivo, EnVentana, VentanaSalida,
       TypeOK, Colas, semVars
  <1>40. ASSUME NEW c \in CPUs, ErrorEncolar(c)
         PROVE  FichasDeSalida'
    <2>1. Len(cola'["exit"]) = Len(cola["exit"]) + 1
      BY <1>40, SalidaEncolar DEF ErrorEncolar, EncolarExit, TypeOK, Punteros,
         EnManos
    <2>2. SinAnunciar' = SinAnunciar + 1
      BY <1>40, SalidaEntra DEF ErrorEncolar
    <2> QED BY <1>40, <2>1, <2>2, SalidaSuma DEF ErrorEncolar, semVars
  <1>41. ASSUME NEW c \in CPUs, ErrorAvisar(c)
         PROVE  FichasDeSalida'
    <2>1. SinAnunciar' = SinAnunciar - 1
      BY <1>41, SalidaSale DEF ErrorAvisar
    <2> QED BY <1>41, <2>1, SalidaSuma DEF ErrorAvisar, colaVars
  <1>42. ASSUME NEW p \in Pids, Suspender(p)
         PROVE  FichasDeSalida'
    BY <1>42, SalidaIgual DEF Suspender, EnVentana, VentanaSalida, semVars
  <1>43. ASSUME NEW p \in Pids, DumpEncolar(p)
         PROVE  FichasDeSalida'
    <2>1. Len(cola'["exit"]) = Len(cola["exit"]) + 1
      BY <1>43, SalidaEncolar DEF DumpEncolar, EncolarExit
    <2>2. SinAnunciar' = SinAnunciar + 1
      <3>1. VentanaSalida' = VentanaSalida
        BY <1>43 DEF DumpEncolar, EnVentana, VentanaSalida
      <3> QED BY <1>43, <3>1, AvisosSuma DEF DumpEncolar
    <2> QED BY <1>43, <2>1, <2>2, SalidaSuma DEF DumpEncolar, semVars
  <1>44. CASE DumpAvisar
    <2>1. SinAnunciar' = SinAnunciar - 1
      <3>1. VentanaSalida' = VentanaSalida
        BY <1>44 DEF DumpAvisar, EnVentana, VentanaSalida
      <3> QED BY <1>44, <3>1, AvisosSuma DEF DumpAvisar
    <2> QED BY <1>44, <2>1, SalidaSuma DEF DumpAvisar, colaVars
  <1>45. ASSUME NEW p \in Pids, CaidoEncolar(p)
         PROVE  FichasDeSalida'
    <2>1. Len(cola'["exit"]) = Len(cola["exit"]) + 1
      BY <1>45, SalidaEncolar DEF CaidoEncolar, EncolarExit
    <2>2. SinAnunciar' = SinAnunciar + 1
      <3>1. VentanaSalida' = VentanaSalida
        BY <1>45 DEF CaidoEncolar, EnVentana, VentanaSalida
      <3> QED BY <1>45, <3>1, AvisosSuma DEF CaidoEncolar
    <2> QED BY <1>45, <2>1, <2>2, SalidaSuma DEF CaidoEncolar, semVars
  <1>46. CASE CaidoAvisar
    <2>1. SinAnunciar' = SinAnunciar - 1
      <3>1. VentanaSalida' = VentanaSalida
        BY <1>46 DEF CaidoAvisar, EnVentana, VentanaSalida
      <3> QED BY <1>46, <3>1, AvisosSuma DEF CaidoAvisar
    <2> QED BY <1>46, <2>1, SalidaSuma DEF CaidoAvisar, colaVars
  <1> QED
    BY <1>1, <1>2, <1>3, <1>4, <1>5, <1>6, <1>7, <1>8, <1>9, <1>10, <1>11,
       <1>12, <1>13, <1>14, <1>15, <1>16, <1>17, <1>18, <1>19, <1>20, <1>21,
       <1>22, <1>23, <1>24, <1>25, <1>26, <1>27, <1>28, <1>29, <1>30, <1>31,
       <1>32, <1>33, <1>34, <1>35, <1>36, <1>37, <1>38, <1>39, <1>40, <1>41,
       <1>42, <1>43, <1>44, <1>45, <1>46 DEF Next, Conexiones, LargoPlazo,
       CortoPlazo, Oyente, Liberador, HilosDe, Vigilia, Dump, Avisos

----------------------------------------------------------------------------
\* sem_procesos_ready and cola_ready.

LEMMA ListosIgual ==
  ASSUME FichasDeListos, cola'["ready"] = cola["ready"], semListo' = semListo, corto' = corto,
         EnVentana({"INT_avisar"})' = EnVentana({"INT_avisar"})
  PROVE  FichasDeListos'
BY DEF FichasDeListos

LEMMA ListosMas ==
  ASSUME TypeOK, TypeOK', FichasDeListos, corto' = corto,
         \/ /\ Len(cola'["ready"]) = Len(cola["ready"]) + 1
            /\ semListo' = semListo + 1
            /\ Cardinality(EnVentana({"INT_avisar"})') =
                  Cardinality(EnVentana({"INT_avisar"}))
         \/ /\ Len(cola'["ready"]) = Len(cola["ready"]) + 1
            /\ semListo' = semListo
            /\ Cardinality(EnVentana({"INT_avisar"})') =
                  Cardinality(EnVentana({"INT_avisar"})) + 1
         \/ /\ Len(cola'["ready"]) = Len(cola["ready"])
            /\ semListo' = semListo + 1
            /\ Cardinality(EnVentana({"INT_avisar"})') =
                  Cardinality(EnVentana({"INT_avisar"})) - 1
  PROVE  FichasDeListos'
  <1>1. PICK a \in Nat, s \in Nat, n \in Nat :
          /\ a = Len(cola["ready"]) /\ s = semListo
          /\ n = Cardinality(EnVentana({"INT_avisar"}))
    BY VentanaFinita, LenProperties DEF TypeOK, Colas
  <1>2. PICK b \in Nat, r \in Nat, m \in Nat :
          /\ b = Len(cola'["ready"]) /\ r = semListo'
          /\ m = Cardinality(EnVentana({"INT_avisar"})')
    BY VentanaFinitaProxima, LenProperties DEF TypeOK, Colas
  <1>3. PICK t \in Nat : t = IF corto = "listo" THEN 0 ELSE 1
    OBVIOUS
  <1>4. a = s + t + n
    BY <1>1, <1>3 DEF FichasDeListos
  <1>5. \/ b = a + 1 /\ r = s + 1 /\ m = n
        \/ b = a + 1 /\ r = s /\ m = n + 1
        \/ b = a /\ r = s + 1 /\ m = n - 1
    BY <1>1, <1>2
  <1>6. b = r + t + m
    BY <1>4, <1>5
  <1> QED BY <1>2, <1>3, <1>6 DEF FichasDeListos

LEMMA ListosDesbloquear ==
  ASSUME TypeOK, TypeOK', FichasDeListos, NEW p \in Pids, Desbloquear(p), corto' = corto,
         EnVentana({"INT_avisar"})' = EnVentana({"INT_avisar"})
  PROVE  FichasDeListos'
  <1>1. CASE cola'["ready"] = cola["ready"] /\ semListo' = semListo
    BY <1>1, ListosIgual
  <1>2. CASE /\ cola'["ready"] = Append(cola["ready"], p)
             /\ semListo' = semListo + 1
    <2>1. Len(cola'["ready"]) = Len(cola["ready"]) + 1
      BY <1>2, AppendProperties DEF TypeOK, Colas
    <2> QED BY <1>2, <2>1, ListosMas
  <1> QED BY <1>1, <1>2, ColaDesbloquear

LEMMA ListosPaso ==
  ASSUME TypeOK, TypeOK', Punteros, SinOyente,
         FichasDeListos, Next
  PROVE  FichasDeListos'
  <1>1. ASSUME NEW c \in CPUs, ConectarDispatch(c)
        PROVE  FichasDeListos'
    <2>1. EnVentana({"INT_avisar"})' = EnVentana({"INT_avisar"})
      BY <1>1, VentanaIgual DEF ConectarDispatch, SinOyente
    <2> QED BY <1>1, <2>1, ListosIgual DEF ConectarDispatch, colaVars,
       semVars, planVars
  <1>2. ASSUME NEW c \in CPUs, ConectarInterrupt(c)
        PROVE  FichasDeListos'
    BY <1>2, ListosIgual DEF ConectarInterrupt, EnVentana, TypeOK, Colas,
       colaVars, semVars, planVars
  <1>3. ASSUME NEW c \in CPUs, CaeCpu(c)
        PROVE  FichasDeListos'
    BY <1>3, ListosIgual DEF CaeCpu, EnVentana, TypeOK, Colas, colaVars,
       semVars, planVars
  <1>4. CASE IniciarLargoPlazo
    BY <1>4, ListosIgual DEF IniciarLargoPlazo, EnVentana, TypeOK, Colas,
       colaVars, semVars
  <1>5. CASE EsperarNuevo
    BY <1>5, ListosIgual DEF EsperarNuevo, EnVentana, TypeOK, Colas, colaVars
  <1>6. CASE ElegirCandidato
    <2>1. cola' = cola \/ \E q \in {"new", "susp_ready"} : \E s : cola' = [cola EXCEPT ![q] = s]
      BY <1>6 DEF ElegirCandidato, ColaDeIngreso
    <2>2. cola'["ready"] = cola["ready"]
      BY <2>1 DEF TypeOK, Colas
    <2> QED BY <1>6, <2>2, ListosIgual DEF ElegirCandidato, EnVentana, semVars
  <1>7. CASE AdmitirEnMemoria
    BY <1>7, ListosIgual DEF AdmitirEnMemoria, EnVentana, TypeOK, Colas,
       colaVars, semVars
  <1>8. CASE RechazarAdmision
    BY <1>8, ListosIgual DEF RechazarAdmision, EnVentana, TypeOK, Colas,
       colaVars, semVars
  <1>9. CASE AplicarAdmision
    <2>1. cola'["ready"] = Append(cola["ready"], largo.cand) /\ largo.cand \in Pids
      BY <1>9 DEF AplicarAdmision, ColaDeIngreso, TypeOK, Colas, Punteros
    <2>2. Len(cola'["ready"]) = Len(cola["ready"]) + 1
      BY <2>1, AppendProperties DEF TypeOK, Colas
    <2>3. EnVentana({"INT_avisar"})' = EnVentana({"INT_avisar"})
      BY <1>9 DEF AplicarAdmision, EnVentana
    <2>4. semListo' = semListo + 1 /\ corto' = corto
      BY <1>9 DEF AplicarAdmision
    <2> QED BY <2>2, <2>3, <2>4, ListosMas
  <1>10. CASE EsperarListo
    <2>1. cola'["ready"] = cola["ready"] /\ EnVentana({"INT_avisar"})' = EnVentana({"INT_avisar"})
      BY <1>10 DEF EsperarListo, EnVentana, colaVars
    <2>2. semListo' = semListo - 1 /\ corto = "listo" /\ corto' = "cpu"
      BY <1>10 DEF EsperarListo
    <2> QED BY <2>1, <2>2, VentanaFinita DEF FichasDeListos, TypeOK
  <1>11. CASE EsperarCpu
    <2>1. cola'["ready"] = cola["ready"] /\ EnVentana({"INT_avisar"})' = EnVentana({"INT_avisar"})
      BY <1>11 DEF EsperarCpu, EnVentana, colaVars
    <2>2. semListo' = semListo /\ corto = "cpu" /\ corto' = "despacho"
      BY <1>11 DEF EsperarCpu
    <2> QED BY <2>1, <2>2, VentanaFinita DEF FichasDeListos, TypeOK
  <1>12. CASE Despachar
    <2>1. EnVentana({"INT_avisar"})' = EnVentana({"INT_avisar"})
      BY <1>12 DEF Despachar, EnVentana
    <2>2. corto = "despacho" /\ corto' = "listo"
      BY <1>12 DEF Despachar
    <2>3. cola["ready"] \in Seq(Pids) /\ "ready" \in Colas
      BY DEF TypeOK, Colas
    <2>4. CASE DespacharANadie
      BY <2>1, <2>2, <2>4, VentanaFinita DEF DespacharANadie, FichasDeListos,
         TypeOK
    <2>5. ASSUME NEW i \in Elegibles(cola["ready"]), DespacharSinCpu(i)
          PROVE  FichasDeListos'
      <3>1. i \in DOMAIN cola["ready"]
        BY DEF Elegibles
      <3>2. cola'["ready"] = AlFrente(cola["ready"], i) /\ semListo' = semListo + 1
        BY <2>3, <2>5 DEF DespacharSinCpu, TypeOK
      <3>3. Len(cola'["ready"]) = Len(cola["ready"])
        BY <2>3, <3>1, <3>2, TipoAlFrente
      <3> QED BY <2>1, <2>2, <3>2, <3>3, VentanaFinita DEF FichasDeListos,
         TypeOK
    <2>6. ASSUME NEW i \in Elegibles(cola["ready"]), NEW k, DespacharA(k, i)
          PROVE  FichasDeListos'
      <3>1. i \in DOMAIN cola["ready"]
        BY DEF Elegibles
      <3>2. cola'["ready"] = RemoveAt(cola["ready"], i) /\ semListo' = semListo
        BY <2>3, <2>6 DEF DespacharA, TypeOK
      <3>3. Len(cola'["ready"]) = Len(cola["ready"]) - 1
        BY <2>3, <3>1, <3>2, TipoQuitar
      <3> QED BY <2>1, <2>2, <3>2, <3>3, VentanaFinita DEF FichasDeListos,
         TypeOK
    <2> QED BY <1>12, <2>4, <2>5, <2>6 DEF Despachar
  <1>13. ASSUME NEW c \in CPUs, CrearProceso(c)
         PROVE  FichasDeListos'
    BY <1>13, ListosIgual DEF CrearProceso, Encolar, EnVentana, TypeOK, Colas,
       planVars
  <1>14. ASSUME NEW c \in CPUs, NEW m \in {"EXIT", "IO", "DUMP", "ERROR"},
                RecibirRespuesta(c, m)
         PROVE  FichasDeListos'
    BY <1>14, ListosIgual DEF RecibirRespuesta, Nueva, EnVentana, TypeOK,
       Colas, semVars, planVars
  <1>15. ASSUME NEW c \in CPUs, RecibirInterrupcion(c)
         PROVE  FichasDeListos'
    BY <1>15, ListosIgual DEF RecibirInterrupcion, Nueva, EnVentana, TypeOK,
       Colas, semVars, planVars
  <1>16. ASSUME NEW c \in CPUs, ExitEncolar(c)
         PROVE  FichasDeListos'
    BY <1>16, ListosIgual DEF ExitEncolar, Nueva, Encolar, EnVentana, TypeOK,
       Colas, semVars, planVars
  <1>17. ASSUME NEW c \in CPUs, ExitAvisar(c)
         PROVE  FichasDeListos'
    BY <1>17, ListosIgual DEF ExitAvisar, Nueva, EnVentana, TypeOK, Colas,
       colaVars, planVars
  <1>18. ASSUME NEW c \in CPUs, ErrorMarcar(c)
         PROVE  FichasDeListos'
    BY <1>18, ListosIgual DEF ErrorMarcar, MarcarExit, Nueva, Encolar,
       EnVentana, TypeOK, Colas, planVars, colaVars, semVars
  <1>19. ASSUME NEW c \in CPUs, BloquearPorIo(c)
         PROVE  FichasDeListos'
    BY <1>19, ListosIgual DEF BloquearPorIo, Nueva, EnVentana, TypeOK, Colas,
       semVars, planVars
  <1>20. ASSUME NEW c \in CPUs, PedirIo(c)
         PROVE  FichasDeListos'
    BY <1>20, ListosIgual DEF PedirIo, Nueva, EnVentana, TypeOK, Colas,
       colaVars, semVars, planVars
  <1>21. ASSUME NEW c \in CPUs, BloquearPorDump(c)
         PROVE  FichasDeListos'
    BY <1>21, ListosIgual DEF BloquearPorDump, Nueva, EnVentana, TypeOK,
       Colas, semVars, planVars
  <1>22. ASSUME NEW c \in CPUs, InterrupcionEncolar(c)
         PROVE  FichasDeListos'
    <2>1. cola'["ready"] = Append(cola["ready"], enCpu[c]) /\ enCpu[c] \in Pids
      BY <1>22 DEF InterrupcionEncolar, Encolar, TypeOK, Colas, Punteros,
         EnManos
    <2>2. Len(cola'["ready"]) = Len(cola["ready"]) + 1
      BY <2>1, AppendProperties DEF TypeOK, Colas
    <2>3. Cardinality(EnVentana({"INT_avisar"})') = Cardinality(EnVentana({"INT_avisar"})) + 1
      BY <1>22, VentanaEntra DEF InterrupcionEncolar, Nueva
    <2>4. semListo' = semListo /\ corto' = corto
      BY <1>22 DEF InterrupcionEncolar, semVars, planVars
    <2> QED BY <2>2, <2>3, <2>4, ListosMas
  <1>23. ASSUME NEW c \in CPUs, InterrupcionAvisar(c)
         PROVE  FichasDeListos'
    <2>1. Cardinality(EnVentana({"INT_avisar"})') = Cardinality(EnVentana({"INT_avisar"})) - 1
      <3>1. oyente[c] = "INT_avisar" /\ oyente' = [oyente EXCEPT ![c] = "INT_desalojar"]
        BY <1>23 DEF InterrupcionAvisar, Nueva
      <3>2. oyente[c] \in {"INT_avisar"} /\ "INT_desalojar" \notin {"INT_avisar"}
        BY <3>1
      <3> QED BY <3>1, <3>2, VentanaSale
    <2>2. cola'["ready"] = cola["ready"] /\ semListo' = semListo + 1 /\ corto' = corto
      BY <1>23 DEF InterrupcionAvisar, colaVars, planVars
    <2> QED BY <2>1, <2>2, ListosMas
  <1>24. ASSUME NEW c \in CPUs, InterrupcionDesalojar(c)
         PROVE  FichasDeListos'
    BY <1>24, ListosIgual DEF InterrupcionDesalojar, Nueva, EnVentana, TypeOK,
       Colas, colaVars, semVars, planVars
  <1>25. ASSUME NEW c \in CPUs, SoltarCpu(c)
         PROVE  FichasDeListos'
    BY <1>25, ListosIgual DEF SoltarCpu, Nueva, EnVentana, TypeOK, Colas,
       colaVars, semVars, planVars
  <1>26. ASSUME NEW c \in CPUs, AvisarCpu(c)
         PROVE  FichasDeListos'
    BY <1>26, ListosIgual DEF AvisarCpu, Nueva, EnVentana, TypeOK, Colas,
       colaVars, planVars
  <1>27. ASSUME NEW c \in CPUs, DetectarCaida(c)
         PROVE  FichasDeListos'
    BY <1>27, ListosIgual DEF DetectarCaida, Nueva, EnVentana, TypeOK, Colas,
       colaVars, planVars
  <1>28. ASSUME NEW c \in CPUs, QuitarCpu(c)
         PROVE  FichasDeListos'
    BY <1>28, ListosIgual DEF QuitarCpu, Nueva, EnVentana, TypeOK, Colas,
       colaVars, semVars, planVars
  <1>29. ASSUME NEW c \in CPUs, FinalizarPorCaida(c)
         PROVE  FichasDeListos'
    BY <1>29, ListosIgual DEF FinalizarPorCaida, Nueva, EnVentana, TypeOK,
       Colas, semVars, planVars
  <1>30. CASE TomarFinalizado
    BY <1>30, ListosIgual DEF TomarFinalizado, EnVentana, TypeOK, Colas
  <1>31. CASE LiberarFinalizado
    BY <1>31, ListosIgual DEF LiberarFinalizado, EnVentana, TypeOK, Colas,
       colaVars
  <1>32. ASSUME NEW p \in Pids, DispararVigilia(p)
         PROVE  FichasDeListos'
    BY <1>32, ListosIgual DEF DispararVigilia, EnVentana, TypeOK, Colas,
       semVars, planVars, colaVars
  <1>33. ASSUME NEW p \in Pids, SuspenderEnMemoria(p)
         PROVE  FichasDeListos'
    BY <1>33, ListosIgual DEF SuspenderEnMemoria, EnVentana, TypeOK, Colas,
       colaVars, planVars
  <1>34. ASSUME NEW p \in Pids, DumpOk(p)
         PROVE  FichasDeListos'
    BY <1>34, ListosDesbloquear DEF DumpOk, EnVentana, planVars
  <1>35. ASSUME NEW p \in Pids, DumpFallido(p)
         PROVE  FichasDeListos'
    BY <1>35, ListosIgual DEF DumpFallido, EnVentana, TypeOK, Colas, semVars,
       planVars
  <1>36. ASSUME NEW p \in Pids, DumpSinConexion(p)
         PROVE  FichasDeListos'
    BY <1>36, ListosIgual DEF DumpSinConexion, MarcarExit, EnVentana, TypeOK,
       Colas, planVars, colaVars, semVars
  <1>37. ASSUME NEW p \in Pids, FinIo(p)
         PROVE  FichasDeListos'
    BY <1>37, ListosDesbloquear DEF FinIo, EnVentana, planVars
  <1>38. ASSUME NEW p \in Pids, FinalizarCaido(p)
         PROVE  FichasDeListos'
    BY <1>38, ListosIgual DEF FinalizarCaido, MarcarExit, EnVentana, TypeOK,
       Colas, planVars, colaVars, semVars
  <1>39. CASE CaeDispositivo
    BY <1>39, ListosIgual DEF CaeDispositivo, EnVentana, TypeOK, Colas,
       semVars, planVars
  <1>40. ASSUME NEW c \in CPUs, ErrorEncolar(c)
         PROVE  FichasDeListos'
    BY <1>40, ListosIgual DEF ErrorEncolar, EncolarExit, Encolar, Nueva,
       EnVentana, TypeOK, Colas, colaVars, semVars, planVars
  <1>41. ASSUME NEW c \in CPUs, ErrorAvisar(c)
         PROVE  FichasDeListos'
    BY <1>41, ListosIgual DEF ErrorAvisar, Nueva, EnVentana, TypeOK, Colas,
       colaVars, semVars, planVars
  <1>42. ASSUME NEW p \in Pids, Suspender(p)
         PROVE  FichasDeListos'
    BY <1>42, ListosIgual DEF Suspender, EnVentana, TypeOK, Colas, colaVars,
       semVars, planVars
  <1>43. ASSUME NEW p \in Pids, DumpEncolar(p)
         PROVE  FichasDeListos'
    BY <1>43, ListosIgual DEF DumpEncolar, EncolarExit, Encolar, EnVentana,
       TypeOK, Colas, colaVars, semVars, planVars
  <1>44. CASE DumpAvisar
    BY <1>44, ListosIgual DEF DumpAvisar, EnVentana, TypeOK, Colas, colaVars,
       semVars, planVars
  <1>45. ASSUME NEW p \in Pids, CaidoEncolar(p)
         PROVE  FichasDeListos'
    BY <1>45, ListosIgual DEF CaidoEncolar, EncolarExit, Encolar, EnVentana,
       TypeOK, Colas, colaVars, semVars, planVars
  <1>46. CASE CaidoAvisar
    BY <1>46, ListosIgual DEF CaidoAvisar, EnVentana, TypeOK, Colas, colaVars,
       semVars, planVars
  <1> QED
    BY <1>1, <1>2, <1>3, <1>4, <1>5, <1>6, <1>7, <1>8, <1>9, <1>10, <1>11,
       <1>12, <1>13, <1>14, <1>15, <1>16, <1>17, <1>18, <1>19, <1>20, <1>21,
       <1>22, <1>23, <1>24, <1>25, <1>26, <1>27, <1>28, <1>29, <1>30, <1>31,
       <1>32, <1>33, <1>34, <1>35, <1>36, <1>37, <1>38, <1>39, <1>40, <1>41,
       <1>42, <1>43, <1>44, <1>45, <1>46 DEF Next, Conexiones, LargoPlazo,
       CortoPlazo, Oyente, Liberador, HilosDe, Vigilia, Dump, Avisos

----------------------------------------------------------------------------
\* The inductive invariant and the theorems.

Inductivo == /\ TypeOK /\ Punteros /\ CandidatoEnCabeza /\ SinOyente
             /\ CpuSincronizada /\ CpusOrdenadas
             /\ FichasDeSalida /\ FichasDeListos

LEMMA InductivoInit == Init => Inductivo
  <1> SUFFICES ASSUME Init PROVE Inductivo
    OBVIOUS
  <1>1. TypeOK /\ Punteros
    BY TipoInit DEF Tipado
  <1>2. CandidatoEnCabeza /\ SinOyente
    BY DEF Init, CandidatoEnCabeza, SinOyente
  <1>3. /\ Cardinality(EnVentana({"INT_avisar"})) = 0
        /\ Cardinality(EnVentana({"EXIT_avisar", "ERROR_avisar"})) = 0
    <2>1. /\ EnVentana({"INT_avisar"}) = {}
          /\ EnVentana({"EXIT_avisar", "ERROR_avisar"}) = {}
      BY DEF Init, EnVentana
    <2> QED BY <2>1, FS_EmptySet
  <1>4. Len(cola["exit"]) = 0 /\ Len(cola["ready"]) = 0
    BY DEF Init, Colas
  <1>5. FichasDeSalida
    BY <1>3, <1>4 DEF Init, FichasDeSalida, SinAnunciar
  <1>6. FichasDeListos
    BY <1>3, <1>4 DEF Init, FichasDeListos
  <1>7. CpuSincronizada /\ CpusOrdenadas
    BY DEF Init, CpuSincronizada, CpusOrdenadas
  <1> QED BY <1>1, <1>2, <1>5, <1>6, <1>7 DEF Inductivo

LEMMA InductivoPaso == Inductivo /\ [Next]_vars => Inductivo'
  <1> SUFFICES ASSUME Inductivo, [Next]_vars PROVE Inductivo'
    OBVIOUS
  <1> USE DEF Inductivo
  <1>1. CASE Next
    <2>1. TypeOK' /\ Punteros'
      BY <1>1, TipoPaso
    <2>2. CandidatoEnCabeza' /\ SinOyente'
      BY <1>1, CabezaPaso, SinOyentePaso
    <2>3. FichasDeSalida' /\ FichasDeListos'
      BY <1>1, <2>1, SalidaPaso, ListosPaso
    <2>4. CpuSincronizada' /\ CpusOrdenadas'
      BY <1>1, SincronizadaPaso
    <2> QED BY <2>1, <2>2, <2>3, <2>4
  <1>2. CASE UNCHANGED vars
    <2> USE <1>2 DEF vars, colaVars, bolsaVars, semVars, cpuVars, susVars, ioVars, finVars,
            planVars, procVars
    <2>1. TypeOK' /\ Punteros'
      BY TipoAMediasIgual DEF TypeOK, Punteros
    <2>2. CandidatoEnCabeza' /\ SinOyente'
      BY DEF CandidatoEnCabeza, ColaDeIngreso, SinOyente
    <2>3. FichasDeSalida' /\ FichasDeListos'
      BY SalidaIgual, ListosIgual DEF EnVentana, VentanaSalida
    <2>4. CpuSincronizada' /\ CpusOrdenadas'
      BY DEF CpuSincronizada, CpusOrdenadas
    <2> QED BY <2>1, <2>2, <2>3, <2>4
  <1> QED BY <1>1, <1>2

LEMMA Invariante == Spec => []Inductivo
BY InductivoInit, InductivoPaso, PTL DEF Spec

\* Every variable of the kernel keeps its shape in every run: queues hold pids,
\* semaphores never go below zero, and no thread uses a NULL pcb.
THEOREM TipoCorrecto == Spec => [](TypeOK /\ Punteros)
  <1>1. Inductivo => TypeOK /\ Punteros
    BY DEF Inductivo
  <1> QED BY Invariante, <1>1, PTL

\* planificador_largo_plazo releases mutex_colas while it talks to Memoria and
\* then removes position 0: for any number of other threads, what it removes is
\* the process it asked Memoria for.
THEOREM CabezaCorrecta == Spec => []CandidatoEnCabeza
  <1>1. Inductivo => CandidatoEnCabeza
    BY DEF Inductivo
  <1> QED BY Invariante, <1>1, PTL

\* sem_procesos_en_exit never promises the reaper a pcb that is not in
\* cola_exit, and every pcb in cola_exit has been announced or is one that a
\* listener, a dump thread or the thread of a device has queued, with the mutex
\* released, and is about to announce: for any number of them at once.
THEOREM SalidaCorrecta == Spec => []FichasDeSalida
  <1>1. Inductivo => FichasDeSalida
    BY DEF Inductivo
  <1> QED BY Invariante, <1>1, PTL

\* sem_procesos_ready counts cola_ready, with the unit the short-term planner
\* holds and the preempted processes still to be announced.
THEOREM ListosCorrecta == Spec => []FichasDeListos
  <1>1. Inductivo => FichasDeListos
    BY DEF Inductivo
  <1> QED BY Invariante, <1>1, PTL

\* While a CPU executes a process, the kernel has exactly that process in
\* cpu->pcb_en_ejecucion, never marks the CPU free and never dispatches to it:
\* the answer of a CPU is always about the pcb its listener takes it for.
THEOREM CpuCorrecta == Spec => []CpuSincronizada
  <1>1. Inductivo => CpuSincronizada
    BY DEF Inductivo
  <1> QED BY Invariante, <1>1, PTL

----------------------------------------------------------------------------
\* The units of sem_cpu_libre.

CpusLibres == {c \in CPUs : libre[c]}

\* While no CPU program dies: every listener's CPU is in lista_cpus, and there
\* is a unit for each free CPU, in the semaphore, taken by the planner, or
\* about to be posted by its listener.
CpusContadas ==
    /\ \A c \in CPUs : /\ conexion[c] # "caida"
                       /\ oyente[c] # "no" => c \in ToSet(listaCpus)
    /\ ultimoCpu <= Len(listaCpus)
    /\ Cardinality(CpusLibres) =
         semCpu + (IF corto = "despacho" THEN 1 ELSE 0)
                + Cardinality(EnVentana({"avisar"}))

LEMMA LibresFinitas ==
  /\ IsFiniteSet(CpusLibres) /\ Cardinality(CpusLibres) \in Nat
  /\ Cardinality(CpusLibres') \in Nat
  <1>1. CpusLibres \subseteq CPUs /\ CpusLibres' \subseteq CPUs
    BY DEF CpusLibres
  <1> QED BY <1>1, CpusAssumption, FS_Subset, FS_CardinalityType

LEMMA ContadasIguales ==
  ASSUME CpusContadas,
         UNCHANGED <<libre, conexion, listaCpus, ultimoCpu, oyente, semCpu>>,
         (corto' = "despacho") <=> (corto = "despacho")
  PROVE  CpusContadas'
BY DEF CpusContadas, CpusLibres, EnVentana

LEMMA ContadasOyente ==
  ASSUME TypeOK, CpusContadas, NEW c \in CPUs, NEW l, Nueva(c, l),
         oyente[c] \notin {"no", "avisar"}, l \notin {"no", "avisar"},
         UNCHANGED <<libre, conexion, listaCpus, ultimoCpu, semCpu, corto>>
  PROVE  CpusContadas'
  <1>1. EnVentana({"avisar"})' = EnVentana({"avisar"})
    BY VentanaIgual DEF Nueva
  <1>2. \A d \in CPUs : oyente'[d] # "no" => oyente[d] # "no"
    BY DEF Nueva, TypeOK
  <1> QED BY <1>1, <1>2 DEF CpusContadas, CpusLibres

LEMMA ContadasSuma ==
  ASSUME TypeOK, CpusContadas, corto' = corto,
         \A c \in CPUs : /\ conexion'[c] # "caida"
                         /\ oyente'[c] # "no" => c \in ToSet(listaCpus'),
         ultimoCpu' <= Len(listaCpus'),
         \/ /\ Cardinality(CpusLibres') = Cardinality(CpusLibres) + 1
            /\ semCpu' = semCpu
            /\ Cardinality(EnVentana({"avisar"})') =
                  Cardinality(EnVentana({"avisar"})) + 1
         \/ /\ Cardinality(CpusLibres') = Cardinality(CpusLibres)
            /\ semCpu' = semCpu + 1
            /\ Cardinality(EnVentana({"avisar"})') =
                  Cardinality(EnVentana({"avisar"})) - 1
  PROVE  CpusContadas'
  <1>1. PICK a \in Nat, s \in Nat, n \in Nat :
          /\ a = Cardinality(CpusLibres) /\ s = semCpu
          /\ n = Cardinality(EnVentana({"avisar"}))
    BY VentanaFinita, LibresFinitas DEF TypeOK
  <1>2. PICK t \in Nat : t = IF corto = "despacho" THEN 1 ELSE 0
    OBVIOUS
  <1>3. a = s + t + n
    BY <1>1, <1>2 DEF CpusContadas
  <1>4. PICK m : m = Cardinality(EnVentana({"avisar"})')
    OBVIOUS
  <1>5. \/ Cardinality(CpusLibres') = a + 1 /\ semCpu' = s /\ m = n + 1
        \/ Cardinality(CpusLibres') = a /\ semCpu' = s + 1 /\ m = n - 1
    BY <1>1, <1>4
  <1>6. Cardinality(CpusLibres') = semCpu' + t + m
    BY <1>3, <1>5
  <1> QED BY <1>2, <1>4, <1>6 DEF CpusContadas

LEMMA ContadasConectar ==
  ASSUME TypeOK, SinOyente, CpusOrdenadas, CpusContadas, NEW c \in CPUs,
         ConectarDispatch(c)
  PROVE  CpusContadas'
  <1>1. oyente[c] = "no" /\ ~libre[c] /\ c \notin CpusLibres
    BY DEF ConectarDispatch, SinOyente, CpusOrdenadas, CpusLibres
  <1>2. CpusLibres' = CpusLibres \cup {c}
    BY DEF ConectarDispatch, CpusLibres, TypeOK
  <1>3. Cardinality(CpusLibres') = Cardinality(CpusLibres) + 1
    BY <1>1, <1>2, LibresFinitas, FS_AddElement
  <1>4. Cardinality(EnVentana({"avisar"})') =
           Cardinality(EnVentana({"avisar"})) + 1
    BY <1>1, VentanaEntra DEF ConectarDispatch
  <1>5. /\ ToSet(listaCpus') = ToSet(listaCpus) \cup {c}
        /\ Len(listaCpus') = Len(listaCpus) + 1 /\ Len(listaCpus) \in Nat
    BY ConjuntoAgregar, AppendProperties, LenProperties
       DEF ConectarDispatch, TypeOK
  <1>6. /\ semCpu' = semCpu /\ corto' = corto /\ ultimoCpu' = ultimoCpu
        /\ \A d \in CPUs \ {c} : oyente'[d] = oyente[d]
              /\ conexion'[d] = conexion[d]
        /\ conexion'[c] = "dispatch"
    BY DEF ConectarDispatch, semVars, planVars, TypeOK
  <1>7. \A d \in CPUs : /\ conexion'[d] # "caida"
                        /\ oyente'[d] # "no" => d \in ToSet(listaCpus')
    BY <1>5, <1>6 DEF CpusContadas
  <1>8. ultimoCpu' <= Len(listaCpus')
    BY <1>5, <1>6 DEF CpusContadas, TypeOK
  <1> QED BY <1>3, <1>4, <1>6, <1>7, <1>8, ContadasSuma

LEMMA ContadasSoltar ==
  ASSUME TypeOK, CpusOrdenadas, CpusContadas, NEW c \in CPUs, SoltarCpu(c)
  PROVE  CpusContadas'
  <1>1. oyente[c] = "soltar" /\ c \notin CpusLibres
    BY DEF SoltarCpu, CpusOrdenadas, CpusLibres
  <1>2. CpusLibres' = CpusLibres \cup {c}
    BY DEF SoltarCpu, CpusLibres, TypeOK
  <1>3. Cardinality(CpusLibres') = Cardinality(CpusLibres) + 1
    BY <1>1, <1>2, LibresFinitas, FS_AddElement
  <1>4. Cardinality(EnVentana({"avisar"})') =
           Cardinality(EnVentana({"avisar"})) + 1
    BY <1>1, VentanaEntra DEF SoltarCpu, Nueva
  <1>5. /\ UNCHANGED <<semCpu, corto, ultimoCpu, listaCpus, conexion>>
        /\ \A d \in CPUs : oyente'[d] # "no" => oyente[d] # "no"
    BY <1>1 DEF SoltarCpu, Nueva, semVars, planVars, TypeOK
  <1>6. /\ \A d \in CPUs : /\ conexion'[d] # "caida"
                           /\ oyente'[d] # "no" => d \in ToSet(listaCpus')
        /\ ultimoCpu' <= Len(listaCpus')
    BY <1>5 DEF CpusContadas
  <1> QED BY <1>3, <1>4, <1>5, <1>6, ContadasSuma

LEMMA ContadasAvisar ==
  ASSUME TypeOK, CpusContadas, NEW c \in CPUs, AvisarCpu(c)
  PROVE  CpusContadas'
  <1>1. Cardinality(EnVentana({"avisar"})') =
           Cardinality(EnVentana({"avisar"})) - 1
    <2>1. oyente[c] = "avisar" /\ oyente' = [oyente EXCEPT ![c] = "espera"]
      BY DEF AvisarCpu, Nueva
    <2>2. oyente[c] \in {"avisar"} /\ "espera" \notin {"avisar"}
      BY <2>1
    <2> QED BY <2>1, <2>2, VentanaSale
  <1>2. /\ UNCHANGED <<libre, corto, ultimoCpu, listaCpus, conexion>>
        /\ semCpu' = semCpu + 1
        /\ \A d \in CPUs : oyente'[d] # "no" => oyente[d] # "no"
    BY DEF AvisarCpu, Nueva, cpuVars, planVars, TypeOK
  <1>3. CpusLibres' = CpusLibres
    BY <1>2 DEF CpusLibres
  <1>4. /\ \A d \in CPUs : /\ conexion'[d] # "caida"
                           /\ oyente'[d] # "no" => d \in ToSet(listaCpus')
        /\ ultimoCpu' <= Len(listaCpus')
    BY <1>2 DEF CpusContadas
  <1> QED BY <1>1, <1>2, <1>3, <1>4, ContadasSuma

\* The round robin over lista_cpus visits every position.
LEMMA RestoCorto ==
  ASSUME NEW n \in Nat \ {0}, NEW x \in 0 .. 2 * n - 1
  PROVE  x % n = IF x < n THEN x ELSE x - n
  <1>1. CASE x < n
    <2>1. x \in 0 .. n - 1
      BY <1>1
    <2> QED BY <1>1, <2>1
  <1>2. CASE ~(x < n)
    <2>1. x \in n .. 2 * n - 1
      BY <1>2
    <2>2. x % n = x - n
      BY <2>1
    <2> QED BY <1>2, <2>2
  <1> QED BY <1>1, <1>2

LEMMA TurnoCompleto ==
  ASSUME TypeOK, ultimoCpu <= Len(listaCpus), NEW k \in 1 .. Len(listaCpus)
  PROVE  \E i \in 0 .. Len(listaCpus) - 1 : Turno(i) = k
  <1> DEFINE n == Len(listaCpus)
             u == ultimoCpu
             i == IF k - 1 >= u THEN k - 1 - u ELSE
                  IF n + k - 1 - u < n THEN n + k - 1 - u ELSE k - 1
  <1>1. n \in Nat \ {0} /\ u \in 0 .. n /\ k \in 1 .. n
    BY LenProperties DEF TypeOK
  <1> HIDE DEF n, u
  <1>2. i \in 0 .. n - 1 /\ u + i \in 0 .. 2 * n - 1
    BY <1>1
  <1>3. (IF u + i < n THEN u + i ELSE u + i - n) = k - 1
    BY <1>1
  <1> HIDE DEF i
  <1>4. (u + i) % n = k - 1
    <2>1. (u + i) % n = IF u + i < n THEN u + i ELSE (u + i) - n
      BY <1>1, <1>2, RestoCorto
    <2> QED BY <1>1, <1>2, <1>3, <2>1
  <1>5. Turno(i) = k
    BY <1>1, <1>4 DEF Turno, n, u
  <1> QED BY <1>2, <1>5 DEF n

LEMMA ContadasDespachar ==
  ASSUME TypeOK, CpusOrdenadas, CpusContadas, Despachar
  PROVE  CpusContadas'
  <1>1. /\ corto = "despacho" /\ corto' = "listo"
        /\ UNCHANGED <<listaCpus, conexion, oyente>>
        /\ EnVentana({"avisar"})' = EnVentana({"avisar"})
    BY DEF Despachar, EnVentana
  <1>2. CASE DespacharANadie
    <2>1. semCpu' = semCpu + 1 /\ CpusLibres' = CpusLibres
             /\ ultimoCpu' = ultimoCpu
      BY <1>2 DEF DespacharANadie, CpusLibres
    <2> QED BY <1>1, <2>1, VentanaFinita DEF CpusContadas, TypeOK
  <1>3. ASSUME NEW i, DespacharSinCpu(i)
        PROVE  FALSE
    <2>1. PICK c \in CPUs : libre[c]
      <3>1. Cardinality(CpusLibres) > 0
        BY <1>1, VentanaFinita DEF CpusContadas, TypeOK
      <3>2. CpusLibres # {}
        BY <3>1, FS_EmptySet
      <3> QED BY <3>2 DEF CpusLibres
    <2>2. c \in ToSet(listaCpus)
      BY <2>1 DEF CpusOrdenadas, CpusContadas
    <2>3. PICK k \in 1 .. Len(listaCpus) : listaCpus[k] = c
      BY <2>2, LenProperties DEF ToSet, TypeOK
    <2>4. PICK t \in 0 .. Len(listaCpus) - 1 : Turno(t) = k
      BY TurnoCompleto DEF CpusContadas
    <2>5. t \in TurnosLibres
      BY <2>1, <2>3, <2>4 DEF TurnosLibres
    <2> QED BY <1>3, <2>5 DEF DespacharSinCpu
  <1>4. ASSUME NEW i, NEW t \in PrimerTurno, DespacharA(Turno(t), i)
        PROVE  CpusContadas'
    <2> DEFINE c == listaCpus[Turno(t)]
    <2>1. c \in CpusLibres
      BY CpuElegida DEF CpusLibres
    <2>2. CpusLibres' = CpusLibres \ {c}
      BY <1>4 DEF DespacharA, CpusLibres, TypeOK
    <2>3. Cardinality(CpusLibres') = Cardinality(CpusLibres) - 1
      BY <2>1, <2>2, LibresFinitas, FS_RemoveElement
    <2>4. Turno(t) <= Len(listaCpus)
      <3>1. t \in 0 .. Len(listaCpus) - 1 /\ Len(listaCpus) \in Nat
        BY LenProperties DEF PrimerTurno, TurnosLibres, TypeOK
      <3>2. Len(listaCpus) > 0 /\ ultimoCpu + t \in Nat
        BY <3>1 DEF TypeOK
      <3>3. (ultimoCpu + t) % Len(listaCpus) \in 0 .. Len(listaCpus) - 1
        BY <3>1, <3>2
      <3> QED BY <3>1, <3>3 DEF Turno
    <2>5. semCpu' = semCpu /\ ultimoCpu' = Turno(t)
      BY <1>4 DEF DespacharA
    <2> QED BY <1>1, <2>3, <2>4, <2>5, LibresFinitas, VentanaFinita
           DEF CpusContadas, TypeOK
  <1> QED BY <1>2, <1>3, <1>4 DEF Despachar

LEMMA ContadasPaso ==
  ASSUME Inductivo, CpusContadas, "cpu" \notin Fallas, Next
  PROVE  CpusContadas'
  <1> USE DEF Inductivo
  <1>1. CASE Conexiones
    <2>1. PICK c \in CPUs : ConectarDispatch(c) \/ ConectarInterrupt(c)
      BY <1>1 DEF Conexiones, CaeCpu
    <2>2. CASE ConectarInterrupt(c)
      BY <2>2 DEF ConectarInterrupt, CpusContadas, CpusLibres, EnVentana,
         TypeOK, semVars, planVars
    <2> QED BY <2>1, <2>2, ContadasConectar
  <1>2. CASE LargoPlazo
    BY <1>2, ContadasIguales DEF LargoPlazo, IniciarLargoPlazo, EsperarNuevo,
       ElegirCandidato, AdmitirEnMemoria, RechazarAdmision, AplicarAdmision,
       cpuVars, semVars
  <1>3. CASE CortoPlazo
    <2>1. CASE EsperarListo
      BY <2>1, ContadasIguales DEF EsperarListo, cpuVars
    <2>2. CASE EsperarCpu
      BY <2>2, VentanaFinita DEF EsperarCpu, CpusContadas, CpusLibres,
         EnVentana, TypeOK, cpuVars
    <2> QED BY <1>3, <2>1, <2>2, ContadasDespachar DEF CortoPlazo
  <1>4. ASSUME NEW c \in CPUs, Oyente(c)
        PROVE  CpusContadas'
    <2>1. oyente[c] \notin {"caida_lista", "caida_colas"}
             /\ conexion[c] # "caida"
      BY DEF CpusOrdenadas, CpusContadas
    <2>2. CASE CrearProceso(c)
      BY <2>2, ContadasIguales DEF CrearProceso, cpuVars, planVars
    <2>3. CASE /\ ~CrearProceso(c) /\ ~SoltarCpu(c) /\ ~AvisarCpu(c)
      <3>1. /\ oyente[c] \notin {"no", "avisar"}
            /\ UNCHANGED <<libre, conexion, listaCpus, ultimoCpu, semCpu,
                  corto>>
            /\ \E l \in LugaresOyente \ {"no", "avisar"} : Nueva(c, l)
        <4>1. CASE \/ \E m \in {"EXIT", "IO", "DUMP", "ERROR"} :
                         RecibirRespuesta(c, m)
                   \/ RecibirInterrupcion(c)
          BY <4>1 DEF RecibirRespuesta, RecibirInterrupcion, LugaresOyente,
             cpuVars, semVars, planVars
        <4>2. CASE \/ ExitEncolar(c) \/ ExitAvisar(c)
                   \/ ErrorMarcar(c) \/ ErrorEncolar(c) \/ ErrorAvisar(c)
          BY <4>2 DEF ExitEncolar, ExitAvisar, ErrorMarcar, ErrorEncolar,
             ErrorAvisar, LugaresOyente, cpuVars, semVars, planVars
        <4>3. CASE BloquearPorIo(c) \/ PedirIo(c) \/ BloquearPorDump(c)
          BY <4>3 DEF BloquearPorIo, PedirIo, BloquearPorDump, LugaresOyente,
             cpuVars, semVars, planVars
        <4>4. CASE \/ InterrupcionEncolar(c) \/ InterrupcionAvisar(c)
                   \/ InterrupcionDesalojar(c)
          BY <4>4 DEF InterrupcionEncolar, InterrupcionAvisar,
             InterrupcionDesalojar, LugaresOyente, cpuVars, semVars, planVars
        <4> QED BY <1>4, <2>1, <2>3, <4>1, <4>2, <4>3, <4>4
               DEF Oyente, DetectarCaida, QuitarCpu, FinalizarPorCaida
      <3> QED BY <3>1, ContadasOyente
    <2> QED BY <2>2, <2>3, ContadasSoltar, ContadasAvisar
  <1>5. CASE Liberador
    BY <1>5, ContadasIguales DEF Liberador, TomarFinalizado, LiberarFinalizado,
       cpuVars
  <1>6. ASSUME NEW p \in Pids, HilosDe(p)
        PROVE  CpusContadas'
    BY <1>6, ContadasIguales DEF HilosDe, Vigilia, DispararVigilia, Suspender,
       SuspenderEnMemoria, Dump, DumpOk, DumpFallido, DumpSinConexion,
       DumpEncolar, FinIo, FinalizarCaido, CaidoEncolar, cpuVars, semVars,
       planVars
  <1>7. CASE CaeDispositivo
    BY <1>7, ContadasIguales DEF CaeDispositivo, cpuVars, semVars, planVars
  <1>8. CASE Avisos
    BY <1>8, ContadasIguales DEF Avisos, DumpAvisar, CaidoAvisar, cpuVars,
       planVars
  <1> QED BY <1>1, <1>2, <1>3, <1>4, <1>5, <1>6, <1>7, <1>8 DEF Next

\* While no CPU program dies, sem_cpu_libre counts the free CPUs, so the
\* planner that took a unit always finds one, for any number of CPUs in any
\* order.
THEOREM FichasCpuCorrectas ==
  ASSUME "cpu" \notin Fallas
  PROVE  Spec => []FichasDeCpu
  <1>1. Init => CpusContadas
    <2> SUFFICES ASSUME Init PROVE CpusContadas
      OBVIOUS
    <2>1. CpusLibres = {} /\ EnVentana({"avisar"}) = {}
      BY DEF Init, CpusLibres, EnVentana
    <2>2. ultimoCpu <= Len(listaCpus)
      BY DEF Init
    <2>3. Cardinality(CpusLibres) = 0 /\ Cardinality(EnVentana({"avisar"})) = 0
      BY <2>1, FS_EmptySet
    <2> QED BY <2>2, <2>3 DEF Init, CpusContadas
  <1>2. ASSUME Inductivo, CpusContadas, [Next]_vars
        PROVE  CpusContadas'
    <2>1. CASE Next
      BY <1>2, <2>1, ContadasPaso
    <2>2. CASE UNCHANGED vars
      BY <1>2, <2>2, ContadasIguales DEF vars, cpuVars, semVars, planVars
    <2> QED BY <1>2, <2>1, <2>2
  <1>3. ASSUME Inductivo, CpusContadas
        PROVE  FichasDeCpu
    <2>1. {c \in ToSet(listaCpus) : libre[c]} = CpusLibres
      BY <1>3, ConjuntoElemento
         DEF Inductivo, CpusOrdenadas, CpusContadas, CpusLibres, TypeOK
    <2> QED BY <1>3, <2>1 DEF FichasDeCpu, CpusContadas
  <1> QED BY <1>1, <1>2, <1>3, Invariante, PTL DEF Spec

----------------------------------------------------------------------------
\* The units of sem_procesos_en_new_o_memoria_libre.

\* Nobody that fits is first in the queue the long-term planner would look at.
NadieCabe ==
    LET q == ColaDeIngreso(cola["susp_ready"] # <<>>)
    IN cola[q] # <<>> => ~Cabe(Head(cola[q]))

\* The planner does not start without a unit; while Memoria answers about a new
\* process, the suspended one that becomes ready leaves a unit; and with no
\* unit it sleeps only if nobody fits.
PlanificadorAvisado ==
    /\ largo.pc = "arranque" => semNuevo > 0
    /\ largo.pc = "memoria" /\ semNuevo = 0 /\ ~largo.susp =>
          cola["susp_ready"] = <<>>
    /\ largo.pc = "espera" /\ semNuevo = 0 => NadieCabe

LEMMA CabeIgual ==
  ASSUME UNCHANGED memoria
  PROVE  \A p : Cabe(p)' <=> Cabe(p)
BY DEF Cabe, MarcosLibres

LEMMA AvisadoIgual ==
  ASSUME PlanificadorAvisado, UNCHANGED <<largo, semNuevo, memoria>>,
         cola'["new"] = cola["new"], cola'["susp_ready"] = cola["susp_ready"]
  PROVE  PlanificadorAvisado'
  <1>1. \A p : Cabe(p)' <=> Cabe(p)
    BY CabeIgual
  <1>2. NadieCabe' <=> NadieCabe
    BY <1>1 DEF NadieCabe, ColaDeIngreso
  <1> QED BY <1>2 DEF PlanificadorAvisado

LEMMA AvisadoMas ==
  ASSUME TypeOK, semNuevo' = semNuevo + 1
  PROVE  PlanificadorAvisado'
  <1>1. semNuevo' > 0 /\ semNuevo' # 0
    BY DEF TypeOK
  <1> QED BY <1>1 DEF PlanificadorAvisado

LEMMA AvisadoDesbloquear ==
  ASSUME TypeOK, PlanificadorAvisado, NEW p \in Pids, Desbloquear(p),
         UNCHANGED <<largo, memoria>>
  PROVE  PlanificadorAvisado'
  <1>1. CASE semNuevo' = semNuevo + 1
    BY <1>1, AvisadoMas
  <1>2. CASE semNuevo' = semNuevo
                /\ (cola' = cola \/ cola' = Encolar("ready", p))
    <2>1. cola'["new"] = cola["new"]
             /\ cola'["susp_ready"] = cola["susp_ready"]
      BY <1>2 DEF Encolar, TypeOK, Colas
    <2> QED BY <1>2, <2>1, AvisadoIgual
  <1> QED BY <1>1, <1>2 DEF Desbloquear

LEMMA AvisadoLargoPlazo ==
  ASSUME TypeOK, CandidatoEnCabeza, PlanificadorAvisado,
         AlgLargo = "FIFO", "mem" \notin Fallas, LargoPlazo
  PROVE  PlanificadorAvisado'
  <1>1. CASE IniciarLargoPlazo
    <2>1. largo'.pc = "espera" /\ semNuevo' = semNuevo /\ semNuevo > 0
      BY <1>1 DEF IniciarLargoPlazo, PlanificadorAvisado, TypeOK, semVars
    <2> QED BY <2>1 DEF PlanificadorAvisado, TypeOK
  <1>2. CASE EsperarNuevo
    <2>1. largo'.pc = "elegir"
      BY <1>2 DEF EsperarNuevo, TypeOK
    <2> QED BY <2>1 DEF PlanificadorAvisado
  <1>3. CASE ElegirCandidato
    <2> DEFINE susp == cola["susp_ready"] # <<>>
               q    == ColaDeIngreso(susp)
    <2>1. \/ /\ cola[q] = <<>> /\ largo'.pc = "espera" /\ cola' = cola
          \/ /\ largo'.pc = "memoria" /\ largo'.susp = susp /\ cola' = cola
      <3>1. cola \in [Colas -> Seq(Pids)] /\ OrdenesDeIngreso(cola[q]) =
               {cola[q]}
        BY DEF TypeOK, OrdenesDeIngreso
      <3> QED BY <1>3, <3>1 DEF ElegirCandidato
    <2>2. CASE cola[q] = <<>> /\ largo'.pc = "espera" /\ cola' = cola
      BY <2>2 DEF PlanificadorAvisado, NadieCabe
    <2>3. CASE largo'.pc = "memoria" /\ largo'.susp = susp /\ cola' = cola
      BY <2>3 DEF PlanificadorAvisado
    <2> QED BY <2>1, <2>2, <2>3
  <1>4. CASE AdmitirEnMemoria
    <2>1. largo'.pc = "admitido"
      BY <1>4 DEF AdmitirEnMemoria, TypeOK
    <2> QED BY <2>1 DEF PlanificadorAvisado
  <1>5. CASE RechazarAdmision
    <2>1. /\ largo.pc = "memoria" /\ ~Cabe(largo.cand) /\ largo'.pc = "espera"
          /\ UNCHANGED <<cola, semNuevo, memoria>>
      BY <1>5 DEF RechazarAdmision, colaVars, semVars
    <2>2. cola[ColaDeIngreso(largo.susp)] # <<>>
          /\ Head(cola[ColaDeIngreso(largo.susp)]) = largo.cand
      BY <2>1 DEF CandidatoEnCabeza
    <2>3. semNuevo = 0 => ColaDeIngreso(cola["susp_ready"] # <<>>) =
                          ColaDeIngreso(largo.susp)
      BY <2>1, <2>2 DEF PlanificadorAvisado, ColaDeIngreso
    <2>4. semNuevo = 0 => NadieCabe
      BY <2>1, <2>2, <2>3 DEF NadieCabe
    <2>5. NadieCabe' <=> NadieCabe
      <3>1. \A p : Cabe(p)' <=> Cabe(p)
        BY <2>1, CabeIgual
      <3> QED BY <2>1, <3>1 DEF NadieCabe
    <2> QED BY <2>1, <2>4, <2>5 DEF PlanificadorAvisado
  <1>6. CASE AplicarAdmision
    <2>1. largo'.pc = "elegir"
      BY <1>6 DEF AplicarAdmision
    <2> QED BY <2>1 DEF PlanificadorAvisado
  <1> QED BY <1>1, <1>2, <1>3, <1>4, <1>5, <1>6 DEF LargoPlazo

LEMMA AvisadoPaso ==
  ASSUME Inductivo, PlanificadorAvisado, AlgLargo =
            "FIFO", "mem" \notin Fallas,
         Next
  PROVE  PlanificadorAvisado'
  <1> USE DEF Inductivo
  <1>1. CASE Conexiones
    BY <1>1, AvisadoIgual DEF Conexiones, ConectarDispatch, ConectarInterrupt,
       CaeCpu, colaVars, semVars, planVars
  <1>2. CASE LargoPlazo
    BY <1>2, AvisadoLargoPlazo
  <1>3. CASE CortoPlazo
    <2>1. UNCHANGED <<largo, semNuevo, memoria>>
      BY <1>3 DEF CortoPlazo, EsperarListo, EsperarCpu, Despachar
    <2>2. cola' = cola \/ \E s : cola' = [cola EXCEPT !["ready"] = s]
      BY <1>3 DEF CortoPlazo, EsperarListo, EsperarCpu, Despachar, colaVars,
         DespacharANadie, DespacharSinCpu, DespacharA
    <2>3. cola'["new"] = cola["new"]
             /\ cola'["susp_ready"] = cola["susp_ready"]
      BY <2>2 DEF TypeOK, Colas
    <2> QED BY <2>1, <2>3, AvisadoIgual
  <1>4. ASSUME NEW c \in CPUs, Oyente(c)
        PROVE  PlanificadorAvisado'
    <2>1. CASE CrearProceso(c)
      <3>1. /\ cola'["new"] = Append(cola["new"], ultimoPid)
            /\ cola'["susp_ready"] = cola["susp_ready"]
            /\ UNCHANGED <<largo, memoria>> /\ ultimoPid \in Pids
            /\ cola["new"] \in Seq(Pids)
        BY <2>1 DEF CrearProceso, Encolar, TypeOK, Colas, planVars
      <3>2. CASE cola["new"] = <<>>
        BY <2>1, <3>2, AvisadoMas DEF CrearProceso
      <3>3. CASE cola["new"] # <<>>
        <4>1. /\ cola'["new"] # <<>> /\ Head(cola'["new"]) = Head(cola["new"])
              /\ semNuevo' = semNuevo
          BY <2>1, <3>1, <3>3, HeadTailAppend, AppendProperties
             DEF CrearProceso
        <4>2. \A p : Cabe(p)' <=> Cabe(p)
          BY <3>1, CabeIgual
        <4>3. NadieCabe => NadieCabe'
          BY <3>1, <3>3, <4>1, <4>2 DEF NadieCabe, ColaDeIngreso
        <4> QED BY <3>1, <4>1, <4>3 DEF PlanificadorAvisado
      <3> QED BY <3>2, <3>3
    <2>2. CASE ~CrearProceso(c)
      <3>1. /\ UNCHANGED <<largo, semNuevo, memoria>>
            /\ cola' = cola \/ \E p : cola' = Encolar("ready", p)
                  \/ cola' = Encolar("exit", p)
        <4>1. CASE \/ \E m \in {"EXIT", "IO", "DUMP", "ERROR"} :
                         RecibirRespuesta(c, m)
                   \/ RecibirInterrupcion(c)
          BY <4>1 DEF RecibirRespuesta, RecibirInterrupcion, semVars, planVars
        <4>2. CASE \/ ExitEncolar(c) \/ ExitAvisar(c)
                   \/ ErrorMarcar(c) \/ ErrorEncolar(c) \/ ErrorAvisar(c)
          BY <4>2 DEF ExitEncolar, ExitAvisar, ErrorMarcar, ErrorEncolar,
             ErrorAvisar, EncolarExit, colaVars, semVars, planVars
        <4>3. CASE BloquearPorIo(c) \/ PedirIo(c) \/ BloquearPorDump(c)
          BY <4>3 DEF BloquearPorIo, PedirIo, BloquearPorDump, colaVars,
             semVars, planVars
        <4>4. CASE \/ InterrupcionEncolar(c) \/ InterrupcionAvisar(c)
                   \/ InterrupcionDesalojar(c)
          BY <4>4 DEF InterrupcionEncolar, InterrupcionAvisar,
             InterrupcionDesalojar, colaVars, semVars, planVars
        <4>5. CASE SoltarCpu(c) \/ AvisarCpu(c) \/ DetectarCaida(c)
                   \/ QuitarCpu(c) \/ FinalizarPorCaida(c)
          BY <4>5 DEF SoltarCpu, AvisarCpu, DetectarCaida, QuitarCpu,
             FinalizarPorCaida, colaVars, semVars, planVars
        <4> QED BY <1>4, <2>2, <4>1, <4>2, <4>3, <4>4, <4>5 DEF Oyente
      <3>2. cola'["new"] = cola["new"]
               /\ cola'["susp_ready"] = cola["susp_ready"]
        BY <3>1 DEF Encolar, TypeOK, Colas
      <3> QED BY <3>1, <3>2, AvisadoIgual
    <2> QED BY <2>1, <2>2
  <1>5. CASE Liberador
    <2>1. CASE TomarFinalizado
      <3>1. /\ UNCHANGED <<largo, semNuevo, memoria>>
            /\ cola' = cola \/ cola' = [cola EXCEPT !["exit"] = Tail(@)]
        BY <2>1 DEF TomarFinalizado
      <3>2. cola'["new"] = cola["new"]
               /\ cola'["susp_ready"] = cola["susp_ready"]
        BY <3>1 DEF TypeOK, Colas
      <3> QED BY <3>1, <3>2, AvisadoIgual
    <2>2. CASE LiberarFinalizado
      BY <2>2, AvisadoMas DEF LiberarFinalizado
    <2> QED BY <1>5, <2>1, <2>2 DEF Liberador
  <1>6. ASSUME NEW p \in Pids, HilosDe(p)
        PROVE  PlanificadorAvisado'
    <2>1. CASE \/ Vigilia(p) \/ DumpFallido(p) \/ DumpSinConexion(p)
               \/ FinalizarCaido(p)
      BY <2>1, AvisadoIgual DEF Vigilia, DispararVigilia, Suspender,
         DumpFallido, DumpSinConexion, FinalizarCaido, colaVars, semVars,
         planVars
    <2>2. CASE SuspenderEnMemoria(p)
      <3>1. CASE semNuevo' = semNuevo + 1
        BY <3>1, AvisadoMas
      <3>2. CASE UNCHANGED <<memoria, semNuevo>>
        BY <2>2, <3>2, AvisadoIgual DEF SuspenderEnMemoria, colaVars, planVars
      <3> QED BY <2>2, <3>1, <3>2 DEF SuspenderEnMemoria
    <2>3. CASE DumpOk(p) \/ FinIo(p)
      BY <2>3, AvisadoDesbloquear DEF DumpOk, FinIo, planVars
    <2>4. CASE DumpEncolar(p) \/ CaidoEncolar(p)
      <3>1. /\ UNCHANGED <<largo, semNuevo, memoria>>
            /\ cola' = Encolar("exit", p)
        BY <2>4 DEF DumpEncolar, CaidoEncolar, EncolarExit, semVars, planVars
      <3>2. cola'["new"] = cola["new"]
               /\ cola'["susp_ready"] = cola["susp_ready"]
        BY <3>1 DEF Encolar, TypeOK, Colas
      <3> QED BY <3>1, <3>2, AvisadoIgual
    <2> QED BY <1>6, <2>1, <2>2, <2>3, <2>4 DEF HilosDe, Dump
  <1>7. CASE CaeDispositivo
    BY <1>7, AvisadoIgual DEF CaeDispositivo, semVars, planVars
  <1>8. CASE Avisos
    BY <1>8, AvisadoIgual DEF Avisos, DumpAvisar, CaidoAvisar, colaVars,
       planVars
  <1> QED BY <1>1, <1>2, <1>3, <1>4, <1>5, <1>6, <1>7, <1>8 DEF Next

\* Under FIFO admission, and while Memoria answers, the long-term planner only
\* sleeps when the first process does not fit: no release of memory, no end of
\* a block and no arrival goes unnoticed, for any sizes of process and memory.
THEOREM SuenioCorrecto ==
  ASSUME AlgLargo = "FIFO", "mem" \notin Fallas
  PROVE  Spec => []DormidoSoloSinLugar
  <1>1. Init => PlanificadorAvisado
    BY DEF Init, PlanificadorAvisado
  <1>2. ASSUME Inductivo, PlanificadorAvisado, [Next]_vars
        PROVE  PlanificadorAvisado'
    <2>1. CASE Next
      BY <1>2, <2>1, AvisadoPaso
    <2>2. CASE UNCHANGED vars
      BY <1>2, <2>2, AvisadoIgual DEF vars, colaVars, semVars, planVars
    <2> QED BY <1>2, <2>1, <2>2
  <1>3. PlanificadorAvisado => DormidoSoloSinLugar
    BY
       DEF PlanificadorAvisado, DormidoSoloSinLugar, NadieCabe,
          OrdenesDeIngreso
  <1> QED BY <1>1, <1>2, <1>3, Invariante, PTL DEF Spec

==============================================================================
