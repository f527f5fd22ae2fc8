--------------------------- MODULE MemoriaAlmacen ---------------------------
(***************************************************************************)
(* That the contents of the pages survive: suspensions and returns move    *)
(* them between frames and slots, and only the process that owns a page    *)
(* changes it.  Proved for the requests the kernel should send (~Solapa)   *)
(* and a swap file that can be opened, for reading and for update          *)
(* (~LecturaFalla, ~SwapSeTrunca).                                         *)
(***************************************************************************)
EXTENDS MemoriaProofs, FunctionTheorems

\* What page h of p holds, wherever it is.
ValorDe(p, h) ==
    IF tabla[p][h].presente THEN contenido[tabla[p][h].marco]
    ELSE IF tabla[p][h].slot # NADA THEN swap[tabla[p][h].slot]
    ELSE swap[susp[p].slot]

----------------------------------------------------------------------------
\* Frames and slots that have an owner keep their contents.

LEMMA MarcoIntacto ==
  ASSUME Inductivo, TraduccionEnOrden, [Next]_vars, NEW p \in Pids,
         ~EscribirMemoria(p), NEW h \in Hojas, tabla[p][h].presente
  PROVE  contenido'[tabla[p][h].marco] = contenido[tabla[p][h].marco]
  <1> DEFINE m == tabla[p][h].marco
  <1>1. MarcosEnOrden /\ TipoMarcos /\ HojasEnOrden /\ TypeOK
    BY DEF Inductivo, TypeOK
  <1>2. m # NADA /\ m \in Marcos
    BY <1>1, HojaTipo DEF HojasEnOrden, HojaEnOrden, TypeOK
  <1>3. CASE TraerDeSwap
    <2>1. PICK d : contenido' = [contenido EXCEPT ![alta.marco] = d]
      BY <1>3 DEF TraerDeSwap
    <2>2. m # alta.marco
      BY <1>1, <1>3 DEF TraerDeSwap, MarcosEnOrden, EnVuelo
    <2> QED BY <1>1, <1>2, <2>1, <2>2 DEF TipoMarcos
  <1>4. ASSUME NEW q \in Pids, EscribirMemoria(q)
        PROVE  contenido'[m] = contenido[m]
    <2>1. PICK d : contenido' = [contenido EXCEPT ![cpu[q].marco] = d]
      BY <1>4 DEF EscribirMemoria
    <2>2. q # p /\ cpu[q] # Nil
      BY <1>4 DEF EscribirMemoria
    <2> DEFINE g == cpu[q].pag % Capacidad
    <2>3. g \in Hojas /\ tabla[q][g].marco = cpu[q].marco
      BY <2>2, AsignablesSonHojas DEF TraduccionEnOrden
    <2> HIDE DEF g
    <2>4. m # cpu[q].marco
      BY <1>1, <1>2, <2>2, <2>3 DEF MarcosEnOrden
    <2> QED BY <1>1, <1>2, <2>1, <2>4 DEF TipoMarcos
  <1> QED BY <1>3, <1>4, QuienContenido

LEMMA SlotIntacto ==
  ASSUME ~SwapSeTrunca, Inductivo, [Next]_vars, NEW s \in DOMAIN swap,
         s \in bitsSwap
  PROVE  swap'[s] = swap[s]
  <1>1. TypeOK /\ HojasEnOrden
    BY DEF Inductivo
  <1>2. ASSUME NEW p \in Pids, EscribirEnSwap(p) PROVE swap'[s] = swap[s]
    <2> DEFINE d == contenido[tabla[p][susp[p].pag].marco]
    <2>1. CASE GrabarEnSwap(d, SlotLibre)
      <3>1. swap' = [i \in DOMAIN swap \cup {SlotLibre} |->
                       IF i = SlotLibre THEN d ELSE swap[i]]
        BY <2>1 DEF GrabarEnSwap, Grabado
      <3>2. s # SlotLibre
        BY <1>1, SlotLibreEsLibre DEF TypeOK
      <3> HIDE DEF d
      <3> QED BY <3>1, <3>2
    <2> QED BY <1>1, <1>2, <2>1, TrasEscribirEnSwap DEF TypeOK
  <1>3. SoltarSlot \/ LiberarPagina => UNCHANGED swap
    BY DEF SoltarSlot, LiberarPagina
  <1> QED BY <1>2, <1>3, QuienSwap DEF swapVars

----------------------------------------------------------------------------
\* Only the handler of its process moves a leaf.

LEMMA HojaQuieta ==
  ASSUME Inductivo, [Next]_vars, NEW p \in Pids, NEW h \in Hojas,
         p \in dicc,
         ~QuitarPresente(p), ~AnotarSlot(p), ~SoltarMarco(p),
         UbicarPagina => alta.pid # p
  PROVE  tabla'[p][h] = tabla[p][h]
  <1>1. TypeOK /\ Fases /\ SuspEnOrden /\ AltaEnOrden
    BY DEF Inductivo
  <1>2. CASE AsignarPagina
    <2>1. alta.pid # p
      BY <1>1, <1>2 DEF AsignarPagina, Fases, Entrantes
    <2>2. CASE alta.pag \in Asignables(alta.pid) /\ Libres # {}
      BY <1>1, <1>2, <2>1, <2>2, TrasAsignarPagina DEF CambiaHoja
    <2>3. CASE ~(alta.pag \in Asignables(alta.pid) /\ Libres # {})
      BY <1>2, <2>3 DEF AsignarPagina
    <2> QED BY <2>2, <2>3
  <1>3. CASE UbicarPagina
    BY <1>1, <1>3, TrasUbicarPagina DEF CambiaHoja
  <1>4. CASE LiberarPagina
    <2>1. baja.pid # p
      BY <1>1, <1>4 DEF LiberarPagina, Fases
    <2> QED BY <1>1, <1>4, <2>1, TrasLiberarPagina DEF CambiaHoja
  <1>5. ASSUME NEW q \in Pids, q # p,
               QuitarPresente(q) \/ AnotarSlot(q) \/ SoltarMarco(q)
        PROVE  tabla'[p][h] = tabla[p][h]
    BY <1>1, <1>5, TrasQuitarPresente, TrasAnotarSlot, TrasSoltarMarco
    DEF CambiaHoja
  <1> QED BY <1>2, <1>3, <1>4, <1>5, QuienTabla

----------------------------------------------------------------------------
\* The copies of a page that moves.

\* While a page is in a frame and in a slot, both hold the same.
CopiasFieles ==
    /\ \A p \in Pids : susp[p].pc = "escrita" =>
         swap[susp[p].slot] = contenido[tabla[p][susp[p].pag].marco]
    /\ alta.pc = "ubica" =>
         swap[tabla[alta.pid][alta.pag].slot] = contenido[alta.marco]

LEMMA MarcoEnVueloIntacto ==
  ASSUME Inductivo, TraduccionEnOrden, [Next]_vars, alta.pc = "ubica"
  PROVE  contenido'[alta.marco] = contenido[alta.marco]
  <1>1. /\ MarcosEnOrden /\ TipoMarcos /\ AltaEnOrden
        /\ alta.marco \in Marcos
    BY DEF Inductivo, TypeOK, AltaEnOrden
  <1>2. ASSUME NEW q \in Pids, EscribirMemoria(q)
        PROVE  contenido'[alta.marco] = contenido[alta.marco]
    <2>1. PICK d : contenido' = [contenido EXCEPT ![cpu[q].marco] = d]
      BY <1>2 DEF EscribirMemoria
    <2> DEFINE g == cpu[q].pag % Capacidad
    <2>2. g \in Hojas /\ tabla[q][g].marco = cpu[q].marco
      BY <1>2, AsignablesSonHojas DEF TraduccionEnOrden, EscribirMemoria
    <2> HIDE DEF g
    <2>3. alta.marco # cpu[q].marco
      BY <1>1, <2>2 DEF MarcosEnOrden, EnVuelo
    <2> QED BY <1>1, <2>1, <2>3 DEF TipoMarcos
  <1> QED BY <1>2, QuienContenido DEF TraerDeSwap

LEMMA SuspQuieta ==
  ASSUME TypeOK, [Next]_vars, NEW p \in Pids
  PROVE  \/ susp'[p] = susp[p]
         \/ TomarSuspension(p) \/ EscribirEnSwap(p) \/ QuitarPresente(p)
         \/ AnotarSlot(p) \/ SoltarMarco(p) \/ ResponderSuspension(p)
         \/ Suspender(p)
  <1> DEFINE Otro(q) == susp'[p] = susp[p] \/ q = p
  <1>1. susp \in [Pids -> [pc : {"no", "pedido", "recorre", "escrita",
                                 "ausente", "anotada"},
                           pag : Nat, slot : Nat \cup {NADA}]]
    BY DEF TypeOK, TipoSusp
  <1>2. ASSUME NEW q \in Pids, q # p, TomarSuspension(q)
        PROVE  susp'[p] = susp[p]
    BY <1>1, <1>2 DEF TomarSuspension
  <1>3. ASSUME NEW q \in Pids, q # p, EscribirEnSwap(q)
        PROVE  susp'[p] = susp[p]
    BY <1>1, <1>3 DEF EscribirEnSwap
  <1>4. ASSUME NEW q \in Pids, q # p, QuitarPresente(q)
        PROVE  susp'[p] = susp[p]
    BY <1>1, <1>4 DEF QuitarPresente
  <1>5. ASSUME NEW q \in Pids, q # p, AnotarSlot(q)
        PROVE  susp'[p] = susp[p]
    BY <1>1, <1>5 DEF AnotarSlot
  <1>6. ASSUME NEW q \in Pids, q # p, SoltarMarco(q)
        PROVE  susp'[p] = susp[p]
    BY <1>1, <1>6 DEF SoltarMarco
  <1>7. ASSUME NEW q \in Pids, q # p, ResponderSuspension(q) \/ Suspender(q)
        PROVE  susp'[p] = susp[p]
    BY <1>1, <1>7 DEF ResponderSuspension, Suspender
  <1> QED BY <1>2, <1>3, <1>4, <1>5, <1>6, <1>7, QuienSusp

\* The slot that a suspension writes is new, and holds the page.

LEMMA TrasEscrita ==
  ASSUME Inductivo, NEW p \in Pids, EscribirEnSwap(p)
  PROVE  /\ susp[p].pc = "recorre" /\ susp[p].pag \in Hojas
         /\ UNCHANGED <<tabla, contenido, alta>>
         /\ \/ susp'[p].pc = "recorre"
            \/ /\ tabla[p][susp[p].pag].presente
               /\ susp'[p].pc = "escrita" /\ susp'[p].pag = susp[p].pag
               /\ swap'[susp'[p].slot] =
                    contenido[tabla[p][susp[p].pag].marco]
  <1>1. TypeOK
    BY DEF Inductivo
  <1>2. /\ susp[p].pc = "recorre" /\ susp[p].pag \in Hojas
        /\ UNCHANGED <<tabla, contenido, alta>>
    BY AsignablesSonHojas DEF EscribirEnSwap, procVars, marcoVars
  <1>3. CASE susp' = [susp EXCEPT ![p].pag = susp[p].pag + 1]
    BY <1>1, <1>2, <1>3 DEF TypeOK, TipoSusp
  <1> DEFINE d == contenido[tabla[p][susp[p].pag].marco]
  <1>4. CASE /\ tabla[p][susp[p].pag].presente
             /\ susp' = [susp EXCEPT ![p].pc = "escrita",
                                     ![p].slot = SlotLibre]
             /\ GrabarEnSwap(d, SlotLibre)
    <2>1. /\ susp'[p].pc = "escrita" /\ susp'[p].pag = susp[p].pag
          /\ susp'[p].slot = SlotLibre
      BY <1>1, <1>4 DEF TypeOK, TipoSusp
    <2>2. SlotLibre \in Nat
      BY <1>1, SlotLibreEsLibre DEF TypeOK, TipoSwap
    <2>4. swap'[SlotLibre] = d
      BY <1>4, <2>2 DEF GrabarEnSwap, Grabado
    <2> QED BY <1>2, <1>4, <2>1, <2>4
  <1> QED BY <1>1, <1>2, <1>3, <1>4, TrasEscribirEnSwap DEF TypeOK

LEMMA CopiasFielesPaso ==
  ASSUME ~SwapSeTrunca, ~LecturaFalla, Inductivo, TraduccionEnOrden,
         CopiasFieles, [Next]_vars
  PROVE  CopiasFieles'
  <1>1. /\ TypeOK /\ Fases /\ HojasEnOrden /\ SuspEnOrden /\ AltaEnOrden
        /\ SlotsGrabados /\ SlotsEnOrden
    BY DEF Inductivo
  <1>2. ASSUME NEW p \in Pids, susp'[p].pc = "escrita"
        PROVE  swap'[susp'[p].slot] =
                 contenido'[tabla'[p][susp'[p].pag].marco]
    <2>1. CASE EscribirEnSwap(p)
      BY <1>2, <2>1, TrasEscrita
    <2>2. CASE susp'[p] = susp[p]
      <3> DEFINE h == susp[p].pag
                 s == susp[p].slot
                 m == tabla[p][h].marco
      <3>1. /\ susp[p].pc = "escrita" /\ estado[p] = "SUSP_BLOCKED"
            /\ h \in Hojas /\ tabla[p][h].presente /\ s # NADA /\ p \in dicc
        BY <1>1, <1>2, <2>2, AsignablesSonHojas
        DEF Fases, Vivos, SuspEnOrden, SuspensionEnOrden
      <3>2. ~QuitarPresente(p) /\ ~AnotarSlot(p) /\ ~SoltarMarco(p)
        BY <1>1, <2>2, <3>1
        DEF QuitarPresente, AnotarSlot, SoltarMarco, TypeOK, TipoSusp
      <3>3. UbicarPagina => alta.pid # p
        BY <1>1, <3>1 DEF UbicarPagina, Fases, Regresos
      <3>4. ~EscribirMemoria(p)
        BY <3>1 DEF EscribirMemoria
      <3>5. tabla'[p][h] = tabla[p][h]
        BY <3>1, <3>2, <3>3, HojaQuieta
      <3>6. contenido'[m] = contenido[m]
        BY <3>1, <3>4, MarcoIntacto
      <3>7. swap'[s] = swap[s]
        BY <1>1, <3>1, SlotIntacto DEF SlotsGrabados, SlotsEnOrden
      <3>8. swap[s] = contenido[m]
        BY <3>1 DEF CopiasFieles
      <3> QED BY <2>2, <3>5, <3>6, <3>7, <3>8
    <2>3. CASE \/ TomarSuspension(p) \/ QuitarPresente(p) \/ AnotarSlot(p)
               \/ SoltarMarco(p) \/ ResponderSuspension(p) \/ Suspender(p)
      BY <1>1, <1>2, <2>3
      DEF TomarSuspension, QuitarPresente, AnotarSlot, SoltarMarco,
          ResponderSuspension, Suspender, SinSusp, TypeOK, TipoSusp
    <2> QED BY <1>1, <2>1, <2>2, <2>3, SuspQuieta
  <1>3. ASSUME alta'.pc = "ubica"
        PROVE  swap'[tabla'[alta'.pid][alta'.pag].slot] =
                 contenido'[alta'.marco]
    <2>1. CASE TraerDeSwap
      <3> DEFINE s == tabla[alta.pid][alta.pag].slot
      <3>1. PICK d \in LeidoDeSwap(s, contenido[alta.marco]) :
              contenido' = [contenido EXCEPT ![alta.marco] = d]
        BY <2>1 DEF TraerDeSwap
      <3>2. d = swap[s]
        <4>1. s \in DOMAIN swap
          BY <1>1, <2>1, AsignablesSonHojas
          DEF TraerDeSwap, AltaEnOrden, Fases, Regresos, SlotsGrabados
        <4> QED BY <3>1, <4>1 DEF LeidoDeSwap
      <3>3. /\ UNCHANGED <<tabla, swap>> /\ alta'.pid = alta.pid
            /\ alta'.pag = alta.pag /\ alta'.marco = alta.marco
            /\ alta.marco \in Marcos
        BY <1>1, <2>1
        DEF TraerDeSwap, TypeOK, TipoAlta, AltaEnOrden, swapVars, procVars
      <3>4. contenido'[alta.marco] = d
        BY <1>1, <3>1, <3>3 DEF TypeOK, TipoMarcos
      <3> QED BY <3>2, <3>3, <3>4
    <2>2. CASE alta' = alta
      <3> DEFINE p == alta.pid
                 h == alta.pag
                 s == tabla[p][h].slot
      <3>1. /\ alta.pc = "ubica" /\ estado[p] = "SUSP_READY" /\ p \in Pids
            /\ h \in Hojas /\ s # NADA /\ p \in dicc
        BY <1>1, <1>3, <2>2, AsignablesSonHojas
        DEF Fases, Vivos, Regresos, AltaEnOrden
      <3>2. susp[p].pc = "no"
        BY <1>1, <3>1 DEF Fases
      <3>3. ~QuitarPresente(p) /\ ~AnotarSlot(p) /\ ~SoltarMarco(p)
        BY <3>2 DEF QuitarPresente, AnotarSlot, SoltarMarco
      <3>4. ~UbicarPagina
        BY <1>1, <2>2, <3>1 DEF UbicarPagina, TypeOK, TipoAlta
      <3> HIDE DEF p, h
      <3>5. tabla'[p][h] = tabla[p][h]
        BY <3>1, <3>3, <3>4, HojaQuieta
      <3>6. contenido'[alta.marco] = contenido[alta.marco]
        BY <3>1, MarcoEnVueloIntacto
      <3>7. s \in bitsSwap /\ s \in DOMAIN swap
        BY <1>1, <3>1 DEF SlotsGrabados, SlotsEnOrden
      <3>8. swap'[s] = swap[s]
        BY <3>7, SlotIntacto
      <3>9. swap[s] = contenido[alta.marco]
        BY <3>1 DEF CopiasFieles, p, h
      <3> QED BY <2>2, <3>5, <3>6, <3>8, <3>9 DEF p, h
    <2>3. CASE \/ CrearProceso \/ RegistrarProceso
               \/ OcuparMarco \/ ResponderTraer
      BY <1>1, <1>3, <2>3
      DEF CrearProceso, RegistrarProceso, OcuparMarco, ResponderTraer, SinAlta,
          TypeOK, TipoAlta
    <2>7. CASE UbicarPagina
      <3> DEFINE s == tabla[alta.pid][alta.pag].slot
      <3>1. alta' = [alta EXCEPT !.pc = "suelta", !.slot = s]
        BY <2>7 DEF UbicarPagina
      <3> HIDE DEF s
      <3> QED BY <1>1, <1>3, <3>1 DEF TypeOK, TipoAlta
    <2>4. CASE AsignarPagina \/ BuscarMarco
      BY <1>1, <1>3, <2>4 DEF AsignarPagina, BuscarMarco, TypeOK, TipoAlta
    <2>5. CASE SoltarSlot
      BY <1>1, <1>3, <2>5, TrasSoltarSlot DEF TypeOK
    <2>6. ASSUME NEW p \in Pids, ContarParaAlta(p) \/ ContarParaTraer(p)
          PROVE  FALSE
      BY <1>3, <2>6, TrasContarParaAlta, TrasContarParaTraer
    <2> QED BY <2>1, <2>2, <2>3, <2>4, <2>5, <2>6, <2>7, QuienAlta
  <1> QED BY <1>2, <1>3 DEF CopiasFieles

LEMMA HojaMovida ==
  ASSUME Inductivo, [Next]_vars, NEW p \in Pids, NEW h \in Hojas, p \in dicc
  PROVE  \/ tabla'[p][h] = tabla[p][h]
         \/ /\ h = susp[p].pag
            /\ QuitarPresente(p) \/ AnotarSlot(p) \/ SoltarMarco(p)
         \/ UbicarPagina /\ alta.pid = p /\ alta.pag = h
  <1>1. TypeOK /\ Fases /\ SuspEnOrden /\ AltaEnOrden
    BY DEF Inductivo
  <1>2. CASE QuitarPresente(p) \/ AnotarSlot(p) \/ SoltarMarco(p)
    BY <1>1, <1>2, TrasQuitarPresente, TrasAnotarSlot, TrasSoltarMarco
    DEF CambiaHoja
  <1>3. CASE UbicarPagina /\ alta.pid = p
    BY <1>1, <1>3, TrasUbicarPagina DEF CambiaHoja
  <1> QED BY <1>2, <1>3, HojaQuieta

LEMMA ValorEnMarco ==
  ASSUME Inductivo, TraduccionEnOrden, CopiasFieles, [Next]_vars,
         NEW p \in Pids, p \in dicc, ~EscribirMemoria(p),
         NEW h \in Asignables(p), tabla[p][h].presente
  PROVE  ValorDe(p, h)' = ValorDe(p, h)
  <1> DEFINE m == tabla[p][h].marco
  <1>1. /\ TypeOK /\ SuspEnOrden /\ AltaEnOrden /\ HojasEnOrden /\ h \in Hojas
    BY AsignablesSonHojas DEF Inductivo
  <1>2. contenido'[m] = contenido[m] /\ ValorDe(p, h) = contenido[m]
    BY <1>1, MarcoIntacto DEF ValorDe
  <1>3. CASE tabla'[p][h] = tabla[p][h]
    BY <1>2, <1>3 DEF ValorDe
  <1>4. CASE QuitarPresente(p) /\ h = susp[p].pag
    <2>1. /\ susp[p].pc = "escrita" /\ UNCHANGED swap
          /\ susp'[p].slot = susp[p].slot
      BY <1>1, <1>4 DEF QuitarPresente, swapVars, TypeOK, TipoSusp
    <2>2. ~tabla'[p][h].presente /\ tabla'[p][h].slot = NADA
      BY <1>1, <1>4, TrasQuitarPresente
      DEF CambiaHoja, HojasEnOrden, HojaEnOrden
    <2>3. swap[susp[p].slot] = contenido[m]
      BY <1>4, <2>1 DEF CopiasFieles
    <2>4. ValorDe(p, h)' = swap[susp[p].slot]
      BY <2>1, <2>2 DEF ValorDe
    <2> QED BY <1>2, <2>3, <2>4
  <1>5. ~(h = susp[p].pag /\ (AnotarSlot(p) \/ SoltarMarco(p)))
    BY <1>1 DEF AnotarSlot, SoltarMarco, SuspEnOrden, SuspensionEnOrden
  <1>6. ~(UbicarPagina /\ alta.pid = p /\ alta.pag = h)
    BY <1>1 DEF UbicarPagina, AltaEnOrden
  <1> QED BY <1>1, <1>3, <1>4, <1>5, <1>6, HojaMovida

LEMMA ValorEnSlot ==
  ASSUME ~SwapSeTrunca, Inductivo, CopiasFieles, [Next]_vars, NEW p \in Pids,
         p \in dicc, NEW h \in Asignables(p), ~tabla[p][h].presente,
         tabla[p][h].slot # NADA
  PROVE  ValorDe(p, h)' = ValorDe(p, h)
  <1> DEFINE s == tabla[p][h].slot
  <1>1. /\ TypeOK /\ Fases /\ SuspEnOrden /\ AltaEnOrden /\ h \in Hojas
        /\ s \in bitsSwap /\ s \in DOMAIN swap
    BY AsignablesSonHojas DEF Inductivo, SlotsGrabados, SlotsEnOrden
  <1>2. swap'[s] = swap[s] /\ ValorDe(p, h) = swap[s]
    BY <1>1, SlotIntacto DEF ValorDe
  <1>3. CASE tabla'[p][h] = tabla[p][h]
    BY <1>2, <1>3 DEF ValorDe
  <1>4. CASE SoltarMarco(p) /\ h = susp[p].pag
    <2>1. ~tabla'[p][h].presente /\ tabla'[p][h].slot = s
      BY <1>1, <1>4, TrasSoltarMarco DEF CambiaHoja
    <2> QED BY <1>2, <2>1 DEF ValorDe
  <1>5. CASE UbicarPagina /\ alta.pid = p /\ alta.pag = h
    <2>1. tabla'[p][h].presente /\ tabla'[p][h].marco = alta.marco
      BY <1>1, <1>5, TrasUbicarPagina DEF CambiaHoja
    <2>2. alta.pc = "ubica" /\ UNCHANGED contenido
      BY <1>5 DEF UbicarPagina, marcoVars
    <2>3. swap[s] = contenido[alta.marco]
      BY <1>5, <2>2 DEF CopiasFieles
    <2> QED BY <1>2, <2>1, <2>2, <2>3 DEF ValorDe
  <1>6. ~(h = susp[p].pag /\ (QuitarPresente(p) \/ AnotarSlot(p)))
    BY <1>1 DEF QuitarPresente, AnotarSlot, SuspEnOrden, SuspensionEnOrden
  <1> QED BY <1>1, <1>3, <1>4, <1>5, <1>6, HojaMovida

LEMMA ValorEnHilo ==
  ASSUME ~SwapSeTrunca, Inductivo, [Next]_vars, NEW p \in Pids, p \in dicc,
         NEW h \in Asignables(p), ~tabla[p][h].presente,
         tabla[p][h].slot = NADA
  PROVE  ValorDe(p, h)' = ValorDe(p, h)
  <1> DEFINE s == susp[p].slot
  <1>1. /\ TypeOK /\ Fases /\ SuspEnOrden /\ AltaEnOrden /\ h \in Hojas
    BY AsignablesSonHojas DEF Inductivo
  <1>2. susp[p].pc = "ausente" /\ h = susp[p].pag
    BY <1>1 DEF Inductivo, HojasEnOrden, HojaEnOrden
  <1>3. s # NADA /\ s \in bitsSwap /\ s \in DOMAIN swap
    BY <1>1, <1>2
    DEF SuspEnOrden, SuspensionEnOrden, Inductivo, SlotsGrabados, SlotsEnOrden
  <1>4. swap'[s] = swap[s] /\ ValorDe(p, h) = swap[s]
    BY <1>3, SlotIntacto DEF ValorDe
  <1>5. CASE AnotarSlot(p)
    <2>1. ~tabla'[p][h].presente /\ tabla'[p][h].slot = s
      BY <1>1, <1>2, <1>5, TrasAnotarSlot DEF CambiaHoja
    <2> QED BY <1>3, <1>4, <2>1 DEF ValorDe
  <1>6. CASE ~AnotarSlot(p)
    <2>1. /\ ~QuitarPresente(p) /\ ~SoltarMarco(p) /\ ~TomarSuspension(p)
          /\ ~EscribirEnSwap(p) /\ ~ResponderSuspension(p) /\ ~Suspender(p)
      BY <1>2 DEF QuitarPresente, SoltarMarco, TomarSuspension,
                  EscribirEnSwap, ResponderSuspension, Suspender
    <2>2. susp'[p] = susp[p]
      BY <1>1, <1>6, <2>1, SuspQuieta
    <2>3. UbicarPagina => alta.pid # p
      BY <1>1, <1>2 DEF UbicarPagina, Fases, Regresos
    <2>4. tabla'[p][h] = tabla[p][h]
      BY <1>1, <1>6, <2>1, <2>3, HojaQuieta
    <2> QED BY <1>4, <2>2, <2>4 DEF ValorDe
  <1> QED BY <1>5, <1>6

\* No step but a write of its own process changes what a page holds.
LEMMA ValorQueda ==
  ASSUME ~SwapSeTrunca, Inductivo, TraduccionEnOrden, CopiasFieles,
         [Next]_vars, NEW p \in Pids, p \in dicc, ~EscribirMemoria(p),
         NEW h \in Asignables(p)
  PROVE  ValorDe(p, h)' = ValorDe(p, h)
  BY ValorEnMarco, ValorEnSlot, ValorEnHilo

----------------------------------------------------------------------------
\* The store that Memoria implements.

L == [p \in Pids |-> Lugar(p)]
V == [p \in Pids |-> IF p \in dicc THEN Valor(p) ELSE Nil]

LEMMA ValorPorHojas ==
  ASSUME NEW p \in Pids
  PROVE  Valor(p) = [h \in Asignables(p) |-> ValorDe(p, h)]
  BY DEF Valor, ValorDe

LEMMA NoEscribe ==
  ASSUME TypeOK, UNCHANGED escrituras, NEW p \in Pids
  PROVE  ~EscribirMemoria(p)
  BY CotasAssumption DEF TypeOK, TipoKernel, EscribirMemoria

LEMMA ValoresQuedan ==
  ASSUME ~SwapSeTrunca, Inductivo, TraduccionEnOrden, CopiasFieles,
         [Next]_vars, NEW p \in Pids, p \in dicc, ~EscribirMemoria(p)
  PROVE  Valor(p)' = Valor(p)
  <1>1. \A h \in Asignables(p) : ValorDe(p, h)' = ValorDe(p, h)
    BY ValorQueda
  <1>2. Valor(p)' = [h \in Asignables(p) |-> ValorDe(p, h)']
    BY DEF Valor, ValorDe
  <1> QED BY <1>1, <1>2, ValorPorHojas

LEMMA CabenPorMarcos ==
  ASSUME NEW R \in SUBSET Pids, NEW f,
         \A p \in R : \A h \in Asignables(p) : f[p][h].marco \in Marcos,
         \A p, q \in R : \A h \in Asignables(p) : \A g \in Asignables(q) :
            f[p][h].marco = f[q][g].marco => p = q /\ h = g
  PROVE  Cardinality(UNION {{p} \X Asignables(p) : p \in R})
            =< Cardinality(Marcos)
  <1> DEFINE D == UNION {{p} \X Asignables(p) : p \in R}
             F == [d \in D |-> f[d[1]][d[2]].marco]
  <1>1. \A d \in D : /\ d = <<d[1], d[2]>> /\ d[1] \in R
                     /\ d[2] \in Asignables(d[1])
    OBVIOUS
  <1>2. F \in [D -> Marcos]
    BY <1>1
  <1>3. ASSUME NEW d \in D, NEW e \in D, F[d] = F[e]
        PROVE  d = e
    <2>1. d[1] = e[1] /\ d[2] = e[2]
      BY <1>1, <1>3
    <2> QED BY <1>1, <2>1
  <1> HIDE DEF D, F
  <1>4. F \in Injection(D, Marcos)
    BY <1>2, <1>3, Fun_IsInj
  <1>5. Cardinality(D) <= Cardinality(Marcos)
    BY <1>4, LibresFinito, FS_Injection
  <1> QED BY <1>5 DEF D

LEMMA LugarQueda ==
  ASSUME Inductivo, [Next]_vars, NEW p \in Pids, p \in dicc' <=> p \in dicc,
         p \in dicc => \A h \in Asignables(p) :
                          tabla'[p][h].presente <=> tabla[p][h].presente
  PROVE  Lugar(p)' = Lugar(p)
  <1>1. TypeOK /\ Fases
    BY DEF Inductivo
  <1>2. CASE p \in dicc
    BY <1>2 DEF Lugar
  <1> DEFINE Fin == p = baja.pid \/ estado[p] = "LIBERADO"
  <1>3. CASE p \notin dicc
    <2>1. CASE ResponderBaja
      <3>1. /\ baja.pid \in Pids /\ estado[baja.pid] = "EXIT"
            /\ estado' = [estado EXCEPT ![baja.pid] = "LIBERADO"]
            /\ baja'.pid = Nil
        BY <1>1, <2>1 DEF ResponderBaja, Fases, SinBaja
      <3>2. Fin' <=> Fin
        BY <1>1, <3>1, PidsAssumption DEF TypeOK, TipoKernel
      <3> QED BY <1>3, <3>2 DEF Lugar
    <2>2. CASE RegistrarProceso
      <3>1. alta.pid \in Pids /\ UNCHANGED baja /\ alta.pid \in dicc'
            /\ estado' = [estado EXCEPT ![alta.pid] = "READY"]
        BY <1>1, <2>2 DEF RegistrarProceso, Fases, Entrantes
      <3>2. estado'[p] = estado[p]
        BY <1>1, <1>3, <3>1 DEF TypeOK, TipoKernel
      <3> QED BY <1>3, <3>1, <3>2 DEF Lugar
    <2>3. CASE ResponderTraer
      <3>1. /\ alta.pid \in Pids /\ UNCHANGED baja /\ alta.pid \in dicc
            /\ estado' = [estado EXCEPT ![alta.pid] = "READY"]
        BY <1>1, <2>3 DEF ResponderTraer, Fases, Regresos, Vivos
      <3>2. estado'[p] = estado[p]
        BY <1>1, <1>3, <3>1 DEF TypeOK, TipoKernel
      <3> QED BY <1>3, <3>1, <3>2 DEF Lugar
    <2>4. ASSUME NEW q \in Pids,
                 \/ Bloquear(q) \/ PedirDump(q) \/ Suspender(q)
                 \/ Desbloquear(q) \/ Finalizar(q)
          PROVE  Lugar(p)' = Lugar(p)
      <3>1. q \in dicc /\ UNCHANGED baja
        BY <1>1, <2>4
        DEF Bloquear, PedirDump, Suspender, Desbloquear, Finalizar, Fases,
            Vivos
      <3>2. \A r \in Pids : r # q => estado'[r] = estado[r]
        BY <1>1, <2>4
        DEF Bloquear, PedirDump, Suspender, Desbloquear, Finalizar, TypeOK,
            TipoKernel
      <3> QED BY <1>3, <3>1, <3>2 DEF Lugar
    <2>5. ASSUME NEW q \in Pids, QuitarProceso(q)
          PROVE  Lugar(p)' = Lugar(p)
      <3>1. /\ q \in dicc /\ UNCHANGED estado /\ baja = SinBaja
            /\ baja'.pid = q
        BY <2>5 DEF QuitarProceso, SinBaja, kernelVars
      <3> QED BY <1>3, <3>1, PidsAssumption DEF Lugar, SinBaja
    <2>6. CASE LiberarPagina
      <3>1. UNCHANGED estado /\ baja'.pid = baja.pid
        BY <1>1, <2>6 DEF LiberarPagina, kernelVars, TypeOK, TipoBaja
      <3> QED BY <1>3, <3>1 DEF Lugar
    <2>7. CASE UNCHANGED <<estado, baja>>
      BY <1>3, <2>7 DEF Lugar
    <2> QED
      BY <2>1, <2>2, <2>3, <2>4, <2>5, <2>6, <2>7, QuienEstado, QuienBaja
  <1> QED BY <1>2, <1>3

LEMMA PasosAbstractos ==
  ASSUME NEW p \in Pids
  PROVE  /\ L' = L /\ V' = V => UNCHANGED Almacen!vars
         /\ L[p] = "ram" /\ L' = [L EXCEPT ![p] = "swap"] /\ V' = V =>
               Almacen!Suspender(p)
         /\ /\ L[p] = "swap" /\ Almacen!Cabe(p)
            /\ L' = [L EXCEPT ![p] = "ram"] /\ V' = V
            => Almacen!Traer(p)
         /\ /\ L[p] \in {"ram", "swap"} /\ L' = [L EXCEPT ![p] = "fin"]
            /\ V' = [V EXCEPT ![p] = Nil]
            => Almacen!Destruir(p)
         /\ /\ L[p] = "no" /\ Almacen!Cabe(p)
            /\ L' = [L EXCEPT ![p] = "ram"]
            /\ \E v \in [Asignables(p) -> Datos] : V' = [V EXCEPT ![p] = v]
            => Almacen!Admitir(p)
         /\ /\ L[p] = "ram" /\ L' = L
            /\ \E h \in Asignables(p), d \in Datos :
                 V' = [V EXCEPT ![p][h] = d]
            => Almacen!Escribir(p)
  <1>1. L' = L /\ V' = V => UNCHANGED Almacen!vars
    BY DEF Almacen!vars, L, V
  <1>2. L[p] = "ram" /\ L' = [L EXCEPT ![p] = "swap"] /\ V' = V =>
           Almacen!Suspender(p)
    BY DEF Almacen!Suspender, L, V
  <1>3. /\ L[p] = "swap" /\ Almacen!Cabe(p)
        /\ L' = [L EXCEPT ![p] = "ram"] /\ V' = V
        => Almacen!Traer(p)
    BY DEF Almacen!Traer, L, V
  <1>4. /\ L[p] \in {"ram", "swap"} /\ L' = [L EXCEPT ![p] = "fin"]
        /\ V' = [V EXCEPT ![p] = Nil]
        => Almacen!Destruir(p)
    BY DEF Almacen!Destruir, L, V
  <1>5. /\ L[p] = "no" /\ Almacen!Cabe(p) /\ L' = [L EXCEPT ![p] = "ram"]
        /\ \E v \in [Asignables(p) -> Datos] : V' = [V EXCEPT ![p] = v]
        => Almacen!Admitir(p)
    BY DEF Almacen!Admitir, L, V
  <1>6. /\ L[p] = "ram" /\ L' = L
        /\ \E h \in Asignables(p), d \in Datos : V' = [V EXCEPT ![p][h] = d]
        => Almacen!Escribir(p)
    BY DEF Almacen!Escribir, L, V
  <1> QED BY <1>1, <1>2, <1>3, <1>4, <1>5, <1>6

\* The instance has its own copy of the operators of FiniteSets.
LEMMA MismaCardinalidad == \A S : Almacen!Cardinality(S) = Cardinality(S)
  BY Zenon DEF Almacen!Cardinality, Cardinality

LEMMA CabeLoQueHay ==
  ASSUME Inductivo', NEW p \in Pids, L' = [L EXCEPT ![p] = "ram"]
  PROVE  Almacen!Cabe(p)
  <1> DEFINE R == {q \in Pids : L[q] = "ram"} \cup {p}
  <1>1. ASSUME NEW q \in R, NEW h \in Asignables(q)
        PROVE  tabla'[q][h].presente /\ q \in Pids /\ h \in Hojas
    <2>1. q \in Pids /\ L'[q] = "ram"
      BY <1>1 DEF L
    <2>2. Lugar(q)' = "ram"
      BY <2>1 DEF L
    <2>3. tabla'[q][h].presente
      BY <1>1, <2>2 DEF Lugar
    <2> QED BY <1>1, <2>1, <2>3, AsignablesSonHojas
  <1>2. MarcosEnOrden' /\ HojasEnOrden' /\ TipoTablas'
    BY DEF Inductivo, TypeOK
  <1>3. \A q \in R : \A h \in Asignables(q) :
          tabla'[q][h].marco # NADA /\ tabla'[q][h].marco \in Marcos
    <2>1. SUFFICES ASSUME NEW q \in R, NEW h \in Asignables(q)
                   PROVE  /\ tabla'[q][h].marco # NADA
                          /\ tabla'[q][h].marco \in Marcos
      OBVIOUS
    <2>2. tabla'[q][h].presente /\ q \in Pids /\ h \in Hojas
      BY <1>1
    <2>3. tabla'[q][h] \in Entrada
      BY <1>2, <2>2 DEF TipoTablas
    <2> QED BY <1>2, <2>2, <2>3 DEF HojasEnOrden, HojaEnOrden, Entrada
  <1>4. \A q, r \in R : \A h \in Asignables(q) : \A g \in Asignables(r) :
          tabla'[q][h].marco = tabla'[r][g].marco => q = r /\ h = g
    BY <1>1, <1>2, <1>3 DEF MarcosEnOrden
  <1> DEFINE U == UNION {{q} \X Asignables(q) : q \in R}
  <1>5. R \in SUBSET Pids
    OBVIOUS
  <1> HIDE DEF R
  <1>6. Cardinality(U) =< Cardinality(Marcos)
    BY <1>3, <1>4, <1>5, CabenPorMarcos
  <1>7. U = UNION {{q} \X [r \in Pids |-> Asignables(r)][q] : q \in R}
    BY <1>5
  <1>8. Almacen!Cabe(p) <=>
          Cardinality(UNION {{q} \X [r \in Pids |-> Asignables(r)][q] :
                               q \in R})
             =< Cardinality(Marcos)
    BY MismaCardinalidad DEF Almacen!Cabe, L, R
  <1> QED BY <1>6, <1>7, <1>8

LEMMA PasoRegistrar ==
  ASSUME ~SwapSeTrunca, Inductivo, Inductivo', TraduccionEnOrden,
         CopiasFieles, [Next]_vars, RegistrarProceso
  PROVE  Almacen!Next
  <1>1. /\ TypeOK /\ Fases /\ TypeOK' /\ AltaEnOrden /\ alta.pid \in Pids
        /\ alta.pc = "registra"
    BY DEF Inductivo, RegistrarProceso, Fases, Entrantes
  <1>2. PICK p \in Pids : p = alta.pid
    BY <1>1
  <1>3. /\ estado[p] = "NEW" /\ p \notin dicc
        /\ dicc' = dicc \cup {p} /\ UNCHANGED <<tabla, escrituras, contenido>>
    BY <1>1, <1>2 DEF RegistrarProceso, Fases, Entrantes, marcoVars
  <1>4. \A h \in Asignables(p) : tabla[p][h].presente
    BY <1>1, <1>2 DEF AltaEnOrden
  <1>5. baja.pid # p
    BY <1>1, <1>3, PidsAssumption DEF Fases, SinBaja
  <1>6. Lugar(p) = "no"
    BY <1>1, <1>3, <1>5 DEF Lugar
  <1>7. Lugar(p)' = "ram"
    BY <1>3, <1>4 DEF Lugar
  <1>8. ASSUME NEW q \in Pids, q # p
        PROVE  Lugar(q)' = Lugar(q) /\ V'[q] = V[q]
    <2>1. q \in dicc' <=> q \in dicc
      BY <1>3, <1>8
    <2>2. Lugar(q)' = Lugar(q)
      BY <1>3, <2>1, LugarQueda
    <2>3. q \in dicc => Valor(q)' = Valor(q)
      BY <1>1, <1>3, NoEscribe, ValoresQuedan
    <2> QED BY <2>1, <2>2, <2>3 DEF V
  <1>9. L[p] = "no" /\ L' = [L EXCEPT ![p] = "ram"]
    BY <1>6, <1>7, <1>8 DEF L
  <1>10. Valor(p)' \in [Asignables(p) -> Datos]
    <2>1. ASSUME NEW h \in Asignables(p)
          PROVE  contenido[tabla[p][h].marco] \in Datos
      <3>1. h \in Hojas /\ tabla[p][h] \in Entrada /\ tabla[p][h].marco # NADA
        BY <1>1, <1>4, AsignablesSonHojas, HojaTipo
        DEF Inductivo, HojasEnOrden, HojaEnOrden, TypeOK
      <3> QED BY <1>1, <3>1 DEF Entrada, TypeOK, TipoMarcos
    <2>2. Valor(p)' = [h \in Asignables(p) |-> contenido[tabla[p][h].marco]]
      BY <1>3, <1>4 DEF Valor
    <2> QED BY <2>1, <2>2
  <1>11. V' = [V EXCEPT ![p] = Valor(p)']
    <2>1. V'[p] = Valor(p)'
      BY <1>3 DEF V
    <2> QED BY <1>8, <2>1 DEF V
  <1>12. Almacen!Cabe(p)
    BY <1>9, CabeLoQueHay
  <1> QED BY <1>9, <1>10, <1>11, <1>12, PasosAbstractos DEF Almacen!Next

\* A step that leaves every page where it is and every process where it was in
\* the dictionary shows only what it does to one process.
LEMMA UnoSolo ==
  ASSUME ~SwapSeTrunca, Inductivo, TraduccionEnOrden, CopiasFieles,
         [Next]_vars, UNCHANGED <<dicc, escrituras>>, NEW p \in Pids,
         \A q \in Pids : \A h \in Hojas : q # p => tabla'[q][h].presente = tabla[q][h].presente
  PROVE  V' = V /\ L' = [L EXCEPT ![p] = Lugar(p)']
  <1>1. TypeOK
    BY DEF Inductivo
  <1>2. ASSUME NEW q \in Pids, q # p PROVE Lugar(q)' = Lugar(q)
    BY <1>2, LugarQueda, AsignablesSonHojas
  <1>3. \A q \in Pids : q \in dicc => Valor(q)' = Valor(q)
    BY <1>1, NoEscribe, ValoresQuedan
  <1> QED BY <1>2, <1>3 DEF L, V

LEMMA PasoQuitarPresente ==
  ASSUME ~SwapSeTrunca, Inductivo, TraduccionEnOrden, CopiasFieles,
         [Next]_vars, NEW p \in Pids, QuitarPresente(p)
  PROVE  Almacen!Next \/ UNCHANGED Almacen!vars
  <1>1. /\ TypeOK /\ SuspEnOrden /\ UNCHANGED <<dicc, escrituras>>
        /\ susp[p].pc = "escrita" /\ p \in dicc
    BY DEF Inductivo, QuitarPresente, kernelVars, Fases, Vivos
  <1> DEFINE k == susp[p].pag
  <1>2. /\ k \in Asignables(p) /\ ~tabla'[p][k].presente
        /\ \A q \in Pids : \A h \in Hojas :
              q # p => tabla'[q][h].presente = tabla[q][h].presente
    BY <1>1, TrasQuitarPresente DEF CambiaHoja
  <1>3. V' = V /\ L' = [L EXCEPT ![p] = Lugar(p)']
    BY <1>1, <1>2, UnoSolo
  <1>4. Lugar(p)' = "swap"
    BY <1>1, <1>2 DEF Lugar
  <1>5. L[p] = Lugar(p) /\ Lugar(p) \in {"ram", "swap"}
    BY <1>1 DEF L, Lugar
  <1>6. CASE Lugar(p) = "swap"
    <2>1. L' = L
      BY <1>3, <1>4, <1>5, <1>6 DEF L
    <2> QED BY <1>3, <2>1, PasosAbstractos
  <1>7. CASE Lugar(p) = "ram"
    BY <1>3, <1>4, <1>5, <1>7, PasosAbstractos DEF Almacen!Next
  <1> QED BY <1>5, <1>6, <1>7

LEMMA PasoUbicarPagina ==
  ASSUME ~SwapSeTrunca, Inductivo, Inductivo', TraduccionEnOrden,
         CopiasFieles, [Next]_vars, UbicarPagina
  PROVE  Almacen!Next \/ UNCHANGED Almacen!vars
  <1>1. /\ TypeOK /\ Fases /\ AltaEnOrden /\ UNCHANGED <<dicc, escrituras>>
        /\ alta.pid \in Pids /\ alta.pc = "ubica" /\ alta.pid \in dicc
    BY DEF Inductivo, UbicarPagina, kernelVars, Fases, Regresos, Vivos
  <1>2. PICK p \in Pids : p = alta.pid
    BY <1>1
  <1>3. \A q \in Pids : \A h \in Hojas :
           q # p => tabla'[q][h].presente = tabla[q][h].presente
    BY <1>1, <1>2, TrasUbicarPagina DEF CambiaHoja
  <1>4. V' = V /\ L' = [L EXCEPT ![p] = Lugar(p)']
    BY <1>1, <1>3, UnoSolo
  <1>5. L[p] = "swap"
    BY <1>1, <1>2 DEF L, Lugar, AltaEnOrden
  <1>6. Lugar(p)' \in {"ram", "swap"}
    BY <1>1, <1>2 DEF Lugar
  <1>7. CASE Lugar(p)' = "swap"
    <2>1. L' = L
      BY <1>4, <1>5, <1>7 DEF L
    <2> QED BY <1>4, <2>1, PasosAbstractos
  <1>8. CASE Lugar(p)' = "ram"
    <2>1. L' = [L EXCEPT ![p] = "ram"]
      BY <1>4, <1>8
    <2>2. Almacen!Cabe(p)
      BY <2>1, CabeLoQueHay
    <2> QED BY <1>4, <1>5, <2>1, <2>2, PasosAbstractos DEF Almacen!Next
  <1> QED BY <1>6, <1>7, <1>8

LEMMA PasoQuitarProceso ==
  ASSUME ~SwapSeTrunca, Inductivo, TraduccionEnOrden, CopiasFieles,
         [Next]_vars, NEW p \in Pids, QuitarProceso(p)
  PROVE  Almacen!Next
  <1>1. /\ TypeOK /\ UNCHANGED <<tabla, escrituras>> /\ p \in dicc
        /\ dicc' = dicc \ {p} /\ baja'.pid = p
    BY DEF Inductivo, QuitarProceso, kernelVars, SinBaja
  <1>2. L[p] \in {"ram", "swap"}
    BY <1>1 DEF L, Lugar
  <1>3. Lugar(p)' = "fin"
    BY <1>1 DEF Lugar
  <1>4. ASSUME NEW q \in Pids, q # p PROVE Lugar(q)' = Lugar(q)
    BY <1>1, <1>4, LugarQueda
  <1>5. \A q \in Pids : q \in dicc' => Valor(q)' = Valor(q)
    BY <1>1, NoEscribe, ValoresQuedan
  <1>6. L' = [L EXCEPT ![p] = "fin"] /\ V' = [V EXCEPT ![p] = Nil]
    BY <1>1, <1>3, <1>4, <1>5 DEF L, V
  <1> QED BY <1>2, <1>6, PasosAbstractos DEF Almacen!Next

LEMMA PasoEscribirMemoria ==
  ASSUME Inductivo, TraduccionEnOrden, [Next]_vars,
         NEW p \in Pids, EscribirMemoria(p)
  PROVE  Almacen!Next
  <1>1. /\ TypeOK /\ MarcosEnOrden /\ HojasEnOrden /\ p \in dicc
        /\ estado[p] = "READY" /\ cpu[p] # Nil
        /\ UNCHANGED <<dicc, tabla, swap, susp, estado, baja>>
    BY DEF Inductivo, EscribirMemoria, procVars, swapVars, Fases, Vivos
  <1>2. PICK k \in Asignables(p) : k = cpu[p].pag % Capacidad
    BY <1>1 DEF TraduccionEnOrden
  <1>3. /\ k \in Hojas /\ tabla[p][k].presente
        /\ tabla[p][k].marco = cpu[p].marco /\ tabla[p][k].marco \in Marcos
    BY <1>1, <1>2, AsignablesSonHojas DEF TraduccionEnOrden, EscribirMemoria
  <1>4. PICK d \in Datos :
           contenido' = [contenido EXCEPT ![cpu[p].marco] = d]
    BY DEF EscribirMemoria
  <1> DEFINE m == tabla[p][k].marco
  <1>5. /\ contenido'[m] = d
        /\ \A n \in Marcos : n # m => contenido'[n] = contenido[n]
    BY <1>1, <1>3, <1>4 DEF TypeOK, TipoMarcos
  <1>6. ASSUME NEW q \in Pids, NEW g \in Hojas, q # p \/ g # k,
               tabla[q][g].presente
        PROVE  contenido'[tabla[q][g].marco] = contenido[tabla[q][g].marco]
    <2>1. tabla[q][g].marco \in Marcos /\ tabla[q][g].marco # NADA
      BY <1>1, <1>6, HojaTipo DEF HojasEnOrden, HojaEnOrden, TypeOK
    <2>2. tabla[q][g].marco # m
      BY <1>1, <1>3, <1>6, <2>1 DEF MarcosEnOrden
    <2> QED BY <1>5, <2>1, <2>2
  <1>7. ASSUME NEW q \in Pids, NEW g \in Hojas, q # p \/ g # k
        PROVE  ValorDe(q, g)' = ValorDe(q, g)
    BY <1>1, <1>6, <1>7 DEF ValorDe
  <1>8. ValorDe(p, k)' = d
    BY <1>1, <1>3, <1>5 DEF ValorDe
  <1>9. ASSUME NEW q \in Pids, q # p PROVE V'[q] = V[q]
    <2>1. \A g \in Asignables(q) : ValorDe(q, g)' = ValorDe(q, g)
      BY <1>7, <1>9, AsignablesSonHojas
    <2>2. Valor(q)' = [g \in Asignables(q) |-> ValorDe(q, g)']
      BY DEF Valor, ValorDe
    <2>3. Valor(q)' = Valor(q)
      BY <2>1, <2>2, ValorPorHojas
    <2> QED BY <1>1, <2>3 DEF V
  <1>10. V'[p] = [V[p] EXCEPT ![k] = d]
    <2>1. Valor(p)' = [g \in Asignables(p) |-> ValorDe(p, g)']
      BY DEF Valor, ValorDe
    <2>2. \A g \in Asignables(p) : g # k => ValorDe(p, g)' = ValorDe(p, g)
      BY <1>7, AsignablesSonHojas
    <2>3. Valor(p)' = [Valor(p) EXCEPT ![k] = d]
      BY <1>8, <2>1, <2>2, ValorPorHojas
    <2> QED BY <1>1, <2>3 DEF V
  <1>11. V' = [V EXCEPT ![p][k] = d]
    BY <1>9, <1>10 DEF V
  <1>12. L' = L
    <2>1. \A q \in Pids : Lugar(q)' = Lugar(q)
      BY <1>1 DEF Lugar
    <2> QED BY <2>1 DEF L
  <1>13. L[p] = "ram"
    <2>1. \A h \in Asignables(p) : tabla[p][h].presente
      BY <1>1 DEF Inductivo, BloqueadoCompleto
    <2> QED BY <1>1, <2>1 DEF L, Lugar
  <1> QED BY <1>11, <1>12, <1>13, PasosAbstractos DEF Almacen!Next

LEMMA PasoInterno ==
  ASSUME ~SwapSeTrunca, Inductivo, TraduccionEnOrden, CopiasFieles,
         [Next]_vars, ~RegistrarProceso, ~UbicarPagina,
         \A p \in Pids : ~QuitarPresente(p) /\ ~QuitarProceso(p) /\ ~EscribirMemoria(p)
  PROVE  UNCHANGED Almacen!vars
  <1>1. TypeOK /\ Fases /\ SuspEnOrden /\ AltaEnOrden /\ UNCHANGED dicc
    BY QuienDicc DEF Inductivo
  <1>2. ASSUME NEW p \in Pids, p \in dicc, NEW h \in Asignables(p)
        PROVE  tabla'[p][h].presente <=> tabla[p][h].presente
    <2>1. h \in Hojas
      BY AsignablesSonHojas
    <2>2. CASE /\ h = susp[p].pag
               /\ AnotarSlot(p) \/ SoltarMarco(p)
      BY <1>1, <2>2, TrasAnotarSlot, TrasSoltarMarco DEF CambiaHoja
    <2> QED BY <1>2, <2>1, <2>2, HojaMovida
  <1>3. \A p \in Pids : Lugar(p)' = Lugar(p)
    BY <1>1, <1>2, LugarQueda
  <1>4. \A p \in Pids : p \in dicc => Valor(p)' = Valor(p)
    BY <1>1, ValoresQuedan
  <1>5. L' = L /\ V' = V
    BY <1>1, <1>3, <1>4 DEF L, V
  <1> QED BY <1>5 DEF Almacen!vars, L, V

LEMMA PasoAlmacen ==
  ASSUME ~SwapSeTrunca, Inductivo, Inductivo', TraduccionEnOrden,
         CopiasFieles, [Next]_vars
  PROVE  [Almacen!Next]_(Almacen!vars)
  BY PasoRegistrar, PasoQuitarPresente, PasoUbicarPagina, PasoQuitarProceso,
     PasoEscribirMemoria, PasoInterno

LEMMA InicioAlmacen == Init => Almacen!Init
  <1> SUFFICES ASSUME Init PROVE Almacen!Init
    OBVIOUS
  <1>1. \A p \in Pids : Lugar(p) = "no"
    BY PidsAssumption DEF Init, Lugar, SinBaja
  <1>2. dicc = {}
    BY DEF Init
  <1> QED BY <1>1, <1>2 DEF Almacen!Init

LEMMA CopiasInvariante ==
  ASSUME ~Solapa, ~LecturaFalla, ~SwapSeTrunca
  PROVE  Spec => []CopiasFieles
  <1>1. Init => CopiasFieles
    BY DEF Init, CopiasFieles, SinSusp, SinAlta
  <1>2. Inductivo /\ TraduccionEnOrden /\ CopiasFieles /\ [Next]_vars
          => CopiasFieles'
    BY CopiasFielesPaso
  <1> QED BY Invariante, TraduccionInvariante, <1>1, <1>2, PTL DEF Spec

\* Memoria is the store that the kernel and the CPUs take it for: admissions,
\* suspensions, returns, dumps and ends of any number of processes, page by
\* page and in any order the locks allow, only change a page when its process
\* writes it, and what is whole in main memory always fits in it.
THEOREM AlmacenCumplido ==
  ASSUME ~Solapa, ~LecturaFalla, ~SwapSeTrunca
  PROVE  Spec => CumpleAlmacen
  <1>1. /\ Inductivo /\ Inductivo' /\ TraduccionEnOrden /\ CopiasFieles
        /\ [Next]_vars
        => [Almacen!Next]_(Almacen!vars)
    BY PasoAlmacen
  <1> QED
    BY Invariante, TraduccionInvariante, CopiasInvariante, InicioAlmacen,
       <1>1, PTL DEF Spec, CumpleAlmacen, Almacen!Spec

=============================================================================
