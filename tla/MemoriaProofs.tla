---------------------------- MODULE MemoriaProofs ----------------------------
(***************************************************************************)
(* That the order, the frames and the slots of Memoria are kept by every   *)
(* step, and the theorems about its runs, for any number of processes,     *)
(* frames, entries and levels.  Everything is proved for the requests the  *)
(* kernel should send (~Solapa): a process does not leave its block while  *)
(* it is being suspended, though its dump may be under way.                *)
(***************************************************************************)
EXTENDS MemoriaTipos

-----------------------------------------------------------------------------
\* The order between the requests: a process is in one of them at a time.

LEMMA FasesPaso ==
  ASSUME ~Solapa, TypeOK, Fases, [Next]_vars
  PROVE  Fases'
  <1> USE DEF Fases, Regresos, Entrantes, Vivos, TypeOK, TipoKernel,
            TipoTablas, TipoAlta, TipoSusp, TipoVolc, TipoBaja, SinAlta,
            SinSusp, SinVolc, SinBaja, Quieto, kernelVars, marcoVars,
            swapVars, procVars
  <1>1. CASE CrearProceso
    BY <1>1 DEF CrearProceso
  <1>2. CASE AsignarPagina
    <2>1. /\ alta'.pid = alta.pid /\ alta'.pc \in {"asigna", "registra"}
          /\ alta.pc = "asigna"
      BY <1>2 DEF AsignarPagina
    <2>2. UNCHANGED <<estado, dicc, susp, volc, baja, cpu>>
      BY <1>2 DEF AsignarPagina
    <2> QED BY <2>1, <2>2
  <1>3. CASE RegistrarProceso
    BY <1>3 DEF RegistrarProceso
  <1>4. CASE BuscarMarco
    BY <1>4 DEF BuscarMarco
  <1>5. CASE OcuparMarco
    BY <1>5 DEF OcuparMarco
  <1>6. CASE TraerDeSwap
    BY <1>6 DEF TraerDeSwap
  <1>7. CASE UbicarPagina
    BY <1>7 DEF UbicarPagina
  <1>8. CASE SoltarSlot
    BY <1>8 DEF SoltarSlot
  <1>9. CASE ResponderTraer
    BY <1>9 DEF ResponderTraer
  <1>10. CASE LiberarPagina
    BY <1>10 DEF LiberarPagina
  <1>11. CASE ResponderBaja
    BY <1>11 DEF ResponderBaja
  <1>12. ASSUME NEW p \in Pids, ContarParaAlta(p) PROVE Fases'
    BY <1>12 DEF ContarParaAlta
  <1>13. ASSUME NEW p \in Pids, ContarParaTraer(p) PROVE Fases'
    BY <1>13 DEF ContarParaTraer
  <1>14. ASSUME NEW p \in Pids, TomarSuspension(p) PROVE Fases'
    <2>1. \A q \in Pids : susp'[q].pc # "no" => susp[q].pc # "no"
      BY <1>14, TrasTomarSuspension
    <2>2. UNCHANGED <<estado, dicc, alta, volc, baja, cpu>>
      BY <1>14 DEF TomarSuspension
    <2> QED BY <2>1, <2>2
  <1>15. ASSUME NEW p \in Pids, EscribirEnSwap(p) PROVE Fases'
    <2>1. \A q \in Pids : susp'[q].pc # "no" => susp[q].pc # "no"
      BY <1>15, TrasEscribirEnSwap
    <2>2. UNCHANGED <<estado, dicc, alta, volc, baja, cpu>>
      BY <1>15 DEF EscribirEnSwap
    <2> QED BY <2>1, <2>2
  <1>16. ASSUME NEW p \in Pids, QuitarPresente(p) PROVE Fases'
    BY <1>16 DEF QuitarPresente
  <1>17. ASSUME NEW p \in Pids, AnotarSlot(p) PROVE Fases'
    BY <1>17 DEF AnotarSlot
  <1>18. ASSUME NEW p \in Pids, SoltarMarco(p) PROVE Fases'
    BY <1>18 DEF SoltarMarco
  <1>19. ASSUME NEW p \in Pids, ResponderSuspension(p) PROVE Fases'
    BY <1>19 DEF ResponderSuspension
  <1>20. ASSUME NEW p \in Pids, TomarDump(p) PROVE Fases'
    BY <1>20 DEF TomarDump
  <1>21. ASSUME NEW p \in Pids, MirarPagina(p) PROVE Fases'
    BY <1>21 DEF MirarPagina
  <1>22. ASSUME NEW p \in Pids, VolcarPagina(p) PROVE Fases'
    BY <1>22 DEF VolcarPagina
  <1>23. ASSUME NEW p \in Pids, CerrarDump(p) PROVE Fases'
    BY <1>23 DEF CerrarDump
  <1>24. ASSUME NEW p \in Pids, QuitarProceso(p) PROVE Fases'
    BY <1>24 DEF QuitarProceso
  <1>25. ASSUME NEW p \in Pids, Traducir(p) PROVE Fases'
    BY <1>25 DEF Traducir
  <1>26. ASSUME NEW p \in Pids, Bloquear(p) PROVE Fases'
    BY <1>26 DEF Bloquear
  <1>27. ASSUME NEW p \in Pids, PedirDump(p) PROVE Fases'
    BY <1>27 DEF PedirDump
  <1>28. ASSUME NEW p \in Pids, Suspender(p) PROVE Fases'
    BY <1>28 DEF Suspender
  <1>29. ASSUME NEW p \in Pids, Desbloquear(p) PROVE Fases'
    BY <1>29 DEF Desbloquear
  <1>30. ASSUME NEW p \in Pids, Finalizar(p) PROVE Fases'
    BY <1>30 DEF Finalizar
  <1> QED
    BY <1>1, <1>2, <1>3, <1>4, <1>5, <1>6, <1>7, <1>8, <1>9, <1>10, <1>11,
       <1>12, <1>13, <1>14, <1>15, <1>16, <1>17, <1>18, <1>19, <1>20, <1>21,
       <1>22, <1>23, <1>24, <1>25, <1>26, <1>27, <1>28, <1>29, <1>30,
       QuienEstado, QuienAlta, QuienBaja, QuienDicc, QuienSusp, QuienVolc,
       QuienCpu

-----------------------------------------------------------------------------
\* Leaves.  Only the handler of its process moves a leaf.

LEMMA HojasTrasCambio ==
  ASSUME HojasEnOrden, UNCHANGED <<dicc, susp>>, NEW p \in Pids,
         NEW h \in Hojas, NEW a \in BOOLEAN, NEW m, NEW s,
         CambiaHoja(p, h, a, m, s),
         a => m # NADA /\ s = NADA, ~a => m = NADA, p \in dicc => a
  PROVE  HojasEnOrden'
  <1> SUFFICES ASSUME NEW q \in Pids, NEW g \in Hojas
               PROVE  HojaEnOrden(q, g)'
    BY DEF HojasEnOrden
  <1>1. CASE q = p /\ g = h
    BY <1>1 DEF HojasEnOrden, HojaEnOrden, CambiaHoja
  <1>2. CASE q # p \/ g # h
    BY <1>2 DEF HojasEnOrden, HojaEnOrden, CambiaHoja
  <1> QED BY <1>1, <1>2

LEMMA HojasEnOrdenPaso ==
  ASSUME ~Solapa, TypeOK, Fases, SuspEnOrden, AltaEnOrden, HojasEnOrden,
         [Next]_vars
  PROVE  HojasEnOrden'
  <1> USE DEF HojasEnOrden, HojaEnOrden
  <1>1. CASE AsignarPagina
    <2>1. alta.pid \in Pids /\ alta.pid \notin dicc /\ UNCHANGED <<dicc, susp>>
      BY <1>1 DEF AsignarPagina, Fases, Entrantes
    <2>2. CASE alta.pag \in Asignables(alta.pid) /\ Libres # {}
      BY <1>1, <2>1, <2>2, TrasAsignarPagina, NadaAparte, HojasTrasCambio
    <2>3. CASE ~(alta.pag \in Asignables(alta.pid) /\ Libres # {})
      BY <1>1, <2>1, <2>3 DEF AsignarPagina
    <2> QED BY <2>2, <2>3
  <1>2. CASE RegistrarProceso
    BY <1>2, AsignablesSonHojas
    DEF RegistrarProceso, AltaEnOrden, Fases, TypeOK, TipoTablas
  <1>3. CASE UbicarPagina
    <2>1. UNCHANGED <<dicc, susp>>
      BY <1>3 DEF UbicarPagina
    <2>2. /\ alta.pid \in Pids /\ alta.pag \in Hojas /\ alta.marco # NADA
          /\ CambiaHoja(alta.pid, alta.pag, TRUE, alta.marco, NADA)
      BY <1>3, TrasUbicarPagina, NadaAparte
    <2> QED BY <2>1, <2>2, HojasTrasCambio
  <1>4. CASE LiberarPagina
    <2>1. UNCHANGED <<dicc, susp>> /\ baja.pid \notin dicc
      BY <1>4 DEF LiberarPagina, Fases
    <2> QED BY <1>4, <2>1, TrasLiberarPagina, HojasTrasCambio
  <1>5. ASSUME NEW p \in Pids, TomarSuspension(p) PROVE HojasEnOrden'
    BY <1>5, TrasTomarSuspension
    DEF TomarSuspension, TypeOK, TipoSusp, procVars, SinSusp
  <1>6. ASSUME NEW p \in Pids, EscribirEnSwap(p) PROVE HojasEnOrden'
    BY <1>6, TrasEscribirEnSwap
    DEF EscribirEnSwap, TypeOK, TipoSusp, procVars, SinSusp
  <1>7. ASSUME NEW p \in Pids, QuitarPresente(p) PROVE HojasEnOrden'
    <2> DEFINE h == susp[p].pag
    <2>1. /\ UNCHANGED dicc /\ susp[p].pc = "escrita"
          /\ susp' = [susp EXCEPT ![p].pc = "ausente"]
      BY <1>7 DEF QuitarPresente
    <2>2. /\ susp'[p].pc = "ausente" /\ susp'[p].pag = h
          /\ \A q \in Pids : q # p => susp'[q] = susp[q]
      BY <2>1 DEF TypeOK, TipoSusp
    <2>3. /\ h \in Hojas /\ ~tabla'[p][h].presente
          /\ tabla'[p][h].slot = tabla[p][h].slot
          /\ \A q \in Pids : \A g \in Hojas :
               q # p \/ g # h => tabla'[q][g] = tabla[q][g]
      BY <1>7, TrasQuitarPresente DEF CambiaHoja
    <2> HIDE DEF h
    <2> QED BY <2>1, <2>2, <2>3 DEF h
  <1>8. ASSUME NEW p \in Pids, AnotarSlot(p) PROVE HojasEnOrden'
    <2> DEFINE h == susp[p].pag
    <2>1. /\ UNCHANGED dicc /\ susp[p].pc = "ausente"
          /\ susp' = [susp EXCEPT ![p].pc = "anotada", ![p].slot = NADA]
      BY <1>8 DEF AnotarSlot
    <2>2. /\ susp'[p].pc = "anotada" /\ susp'[p].pag = h
          /\ \A q \in Pids : q # p => susp'[q] = susp[q]
      BY <2>1 DEF TypeOK, TipoSusp
    <2>3. /\ h \in Hojas /\ tabla'[p][h].presente = tabla[p][h].presente
          /\ tabla'[p][h].slot = susp[p].slot
          /\ \A q \in Pids : \A g \in Hojas :
               q # p \/ g # h => tabla'[q][g] = tabla[q][g]
      BY <1>8, TrasAnotarSlot DEF CambiaHoja
    <2>4. ~tabla[p][h].presente /\ susp[p].slot # NADA
      BY <2>1 DEF SuspEnOrden, SuspensionEnOrden
    <2> HIDE DEF h
    <2> SUFFICES ASSUME NEW q \in Pids, NEW g \in Hojas
                 PROVE  HojaEnOrden(q, g)'
      OBVIOUS
    <2>5. CASE q = p /\ g = h
      BY <2>2, <2>3, <2>4, <2>5
    <2>6. CASE q # p \/ g # h
      <3>1. tabla'[q][g] = tabla[q][g] /\ dicc' = dicc
        BY <2>1, <2>3, <2>6
      <3>2. q = p => susp[q].pc = "ausente" /\ susp[q].pag = h
        BY <2>1 DEF h
      <3> QED BY <2>2, <2>6, <3>1, <3>2
    <2> QED BY <2>5, <2>6
  <1>9. ASSUME NEW p \in Pids, SoltarMarco(p) PROVE HojasEnOrden'
    <2>1. /\ UNCHANGED dicc /\ susp[p].pc = "anotada"
          /\ susp' = [susp EXCEPT ![p].pc = "recorre",
                                  ![p].pag = susp[p].pag + 1]
      BY <1>9 DEF SoltarMarco
    <2> QED BY <1>9, <2>1, TrasSoltarMarco DEF CambiaHoja, TypeOK, TipoSusp,
            SuspEnOrden
  <1>10. ASSUME NEW p \in Pids, ResponderSuspension(p) PROVE HojasEnOrden'
    BY <1>10 DEF ResponderSuspension, TypeOK, TipoSusp, SinSusp, procVars
  <1>11. ASSUME NEW p \in Pids, QuitarProceso(p) PROVE HojasEnOrden'
    BY <1>11 DEF QuitarProceso
  <1>12. ASSUME NEW p \in Pids, Suspender(p) PROVE HojasEnOrden'
    BY <1>12 DEF Suspender, TypeOK, TipoSusp, SinSusp, procVars
  <1> QED
    BY <1>1, <1>2, <1>3, <1>4, <1>5, <1>6, <1>7, <1>8, <1>9, <1>10, <1>11,
       <1>12, QuienTabla, QuienSusp, QuienDicc

-----------------------------------------------------------------------------
\* The suspension of a process, leaf by leaf.

LEMMA SuspensionAjena ==
  ASSUME SuspEnOrden, NEW p \in Pids, susp'[p] = susp[p],
         NEW q \in Pids, NEW h \in Hojas, NEW a, NEW m, NEW s,
         CambiaHoja(q, h, a, m, s), p # q \/ susp[p].pc = "no"
  PROVE  SuspensionEnOrden(p)'
  <1>1. CASE susp[p].pc = "no"
    BY <1>1 DEF SuspEnOrden, SuspensionEnOrden
  <1>2. CASE p # q
    <2>1. susp[p].pc \in {"escrita", "ausente", "anotada"} =>
            susp[p].pag \in Hojas
      BY AsignablesSonHojas DEF SuspEnOrden, SuspensionEnOrden
    <2>2. \A g \in Hojas : tabla'[p][g] = tabla[p][g]
      BY <1>2 DEF CambiaHoja
    <2> QED BY <2>1, <2>2 DEF SuspEnOrden, SuspensionEnOrden
  <1> QED BY <1>1, <1>2

LEMMA SuspEnOrdenPaso ==
  ASSUME ~Solapa, TypeOK, Fases, HojasEnOrden, AltaEnOrden, SuspEnOrden,
         [Next]_vars
  PROVE  SuspEnOrden'
  <1>1. CASE AsignarPagina
    <2>1. susp[alta.pid].pc = "no" /\ UNCHANGED susp
      BY <1>1 DEF AsignarPagina, Fases, Entrantes
    <2>2. CASE alta.pag \in Asignables(alta.pid) /\ Libres # {}
      BY <1>1, <2>1, <2>2, TrasAsignarPagina, SuspensionAjena DEF SuspEnOrden
    <2>3. CASE ~(alta.pag \in Asignables(alta.pid) /\ Libres # {})
      BY <1>1, <2>1, <2>3 DEF AsignarPagina, SuspEnOrden, SuspensionEnOrden
    <2> QED BY <2>2, <2>3
  <1>2. CASE UbicarPagina
    <2>1. susp[alta.pid].pc = "no" /\ UNCHANGED susp
      BY <1>2 DEF UbicarPagina, Fases, Regresos
    <2>2. /\ alta.pid \in Pids /\ alta.pag \in Hojas
          /\ CambiaHoja(alta.pid, alta.pag, TRUE, alta.marco, NADA)
      BY <1>2, TrasUbicarPagina
    <2> QED BY <2>1, <2>2, SuspensionAjena DEF SuspEnOrden
  <1>3. CASE LiberarPagina
    <2>1. susp[baja.pid].pc = "no" /\ UNCHANGED susp
      BY <1>3 DEF LiberarPagina, Fases
    <2> QED BY <1>3, <2>1, TrasLiberarPagina, SuspensionAjena
            DEF SuspEnOrden
  <1>4. ASSUME NEW p \in Pids, TomarSuspension(p) PROVE SuspEnOrden'
    BY <1>4, TrasTomarSuspension
    DEF TomarSuspension, TypeOK, TipoSusp, procVars, SuspEnOrden,
        SuspensionEnOrden, SinSusp
  <1>5. ASSUME NEW p \in Pids, EscribirEnSwap(p) PROVE SuspEnOrden'
    <2>1. SlotLibre # NADA
      BY SlotLibreEsLibre, NadaAparte DEF TypeOK, TipoSwap
    <2>2. UNCHANGED tabla
      BY <1>5 DEF EscribirEnSwap, procVars
    <2>3. CASE susp' = [susp EXCEPT ![p].pag = susp[p].pag + 1]
      <3>1. susp[p].pc = "recorre"
        BY <1>5, TrasEscribirEnSwap DEF TypeOK
      <3>2. /\ susp'[p].pc = "recorre" /\ susp'[p].slot = susp[p].slot
            /\ \A q \in Pids : q # p => susp'[q] = susp[q]
        BY <2>3, <3>1 DEF TypeOK, TipoSusp
      <3> QED BY <2>2, <3>1, <3>2 DEF SuspEnOrden, SuspensionEnOrden
    <2>4. CASE /\ tabla[p][susp[p].pag].presente
               /\ susp' = [susp EXCEPT ![p].pc = "escrita",
                                       ![p].slot = SlotLibre]
      <3>1. /\ susp[p].pag \in Asignables(p)
            /\ susp'[p].pc = "escrita" /\ susp'[p].pag = susp[p].pag
            /\ susp'[p].slot = SlotLibre
            /\ \A q \in Pids : q # p => susp'[q] = susp[q]
        BY <2>4, <1>5 DEF TypeOK, TipoSusp, EscribirEnSwap
      <3> QED BY <2>1, <2>2, <2>4, <3>1 DEF SuspEnOrden, SuspensionEnOrden
    <2> QED BY <1>5, <2>3, <2>4, TrasEscribirEnSwap DEF TypeOK
  <1>6. ASSUME NEW p \in Pids, QuitarPresente(p) PROVE SuspEnOrden'
    <2> SUFFICES ASSUME NEW q \in Pids PROVE SuspensionEnOrden(q)'
      BY DEF SuspEnOrden
    <2>1. /\ susp[p].pc = "escrita" /\ susp'[p].pc = "ausente"
          /\ susp'[p].pag = susp[p].pag /\ susp'[p].slot = susp[p].slot
          /\ \A r \in Pids : r # p => susp'[r] = susp[r]
      BY <1>6 DEF QuitarPresente, TypeOK, TipoSusp
    <2>2. CASE q # p
      BY <1>6, <2>1, <2>2, TrasQuitarPresente, SuspensionAjena
    <2>3. /\ susp[p].pag \in Asignables(p) /\ susp[p].pag \in Hojas
          /\ tabla'[p][susp[p].pag].presente = FALSE
          /\ tabla'[p][susp[p].pag].marco = tabla[p][susp[p].pag].marco
          /\ tabla'[p][susp[p].pag].slot = tabla[p][susp[p].pag].slot
      BY <1>6, TrasQuitarPresente DEF CambiaHoja
    <2>4. CASE q = p
      BY <2>1, <2>3, <2>4
      DEF SuspEnOrden, SuspensionEnOrden, HojasEnOrden, HojaEnOrden
    <2> QED BY <2>2, <2>4
  <1>7. ASSUME NEW p \in Pids, AnotarSlot(p) PROVE SuspEnOrden'
    <2> SUFFICES ASSUME NEW q \in Pids PROVE SuspensionEnOrden(q)'
      BY DEF SuspEnOrden
    <2>1. /\ susp[p].pc = "ausente" /\ susp'[p].pc = "anotada"
          /\ susp'[p].pag = susp[p].pag /\ susp'[p].slot = NADA
          /\ \A r \in Pids : r # p => susp'[r] = susp[r]
      BY <1>7 DEF AnotarSlot, TypeOK, TipoSusp
    <2>2. CASE q # p
      BY <1>7, <2>1, <2>2, TrasAnotarSlot, SuspensionAjena
    <2>3. /\ susp[p].pag \in Asignables(p) /\ susp[p].pag \in Hojas
          /\ tabla'[p][susp[p].pag].presente = tabla[p][susp[p].pag].presente
          /\ tabla'[p][susp[p].pag].marco = tabla[p][susp[p].pag].marco
          /\ tabla'[p][susp[p].pag].slot = susp[p].slot
      BY <1>7, TrasAnotarSlot DEF CambiaHoja
    <2>4. CASE q = p
      BY <2>1, <2>3, <2>4
      DEF SuspEnOrden, SuspensionEnOrden, HojasEnOrden, HojaEnOrden
    <2> QED BY <2>2, <2>4
  <1>8. ASSUME NEW p \in Pids, SoltarMarco(p) PROVE SuspEnOrden'
    <2> SUFFICES ASSUME NEW q \in Pids PROVE SuspensionEnOrden(q)'
      BY DEF SuspEnOrden
    <2>1. /\ susp[p].pc = "anotada" /\ susp'[p].pc = "recorre"
          /\ susp'[p].slot = susp[p].slot
          /\ \A r \in Pids : r # p => susp'[r] = susp[r]
      BY <1>8 DEF SoltarMarco, TypeOK, TipoSusp
    <2>2. CASE q # p
      BY <1>8, <2>1, <2>2, TrasSoltarMarco, SuspensionAjena
    <2>3. /\ susp[p].pag \in Asignables(p) /\ susp[p].pag \in Hojas
          /\ tabla'[p][susp[p].pag].presente = tabla[p][susp[p].pag].presente
          /\ tabla'[p][susp[p].pag].marco = NADA
          /\ tabla'[p][susp[p].pag].slot = tabla[p][susp[p].pag].slot
      BY <1>8, TrasSoltarMarco DEF CambiaHoja
    <2>4. CASE q = p
      BY <2>1, <2>3, <2>4
      DEF SuspEnOrden, SuspensionEnOrden, HojasEnOrden, HojaEnOrden
    <2> QED BY <2>2, <2>4
  <1>9. ASSUME NEW p \in Pids, ResponderSuspension(p) PROVE SuspEnOrden'
    BY <1>9
    DEF ResponderSuspension, TypeOK, TipoSusp, SinSusp, procVars, SuspEnOrden,
        SuspensionEnOrden
  <1>10. ASSUME NEW p \in Pids, Suspender(p) PROVE SuspEnOrden'
    BY <1>10 DEF Suspender, TypeOK, TipoSusp, SinSusp, procVars, SuspEnOrden,
       SuspensionEnOrden
  <1>11. CASE UNCHANGED <<tabla, susp>>
    BY <1>11 DEF SuspEnOrden, SuspensionEnOrden
  <1> QED
    BY <1>1, <1>2, <1>3, <1>4, <1>5, <1>6, <1>7, <1>8, <1>9, <1>10, <1>11,
       QuienTabla, QuienSusp

-----------------------------------------------------------------------------
\* The dump of a process.

LEMMA VolcEnOrdenPaso ==
  ASSUME TypeOK, HojasEnOrden, VolcEnOrden, [Next]_vars
  PROVE  VolcEnOrden'
  <1> USE DEF VolcEnOrden
  <1>1. ASSUME NEW p \in Pids, TomarDump(p) PROVE VolcEnOrden'
    BY <1>1 DEF TomarDump, TypeOK, TipoVolc, SinVolc
  <1>2. ASSUME NEW p \in Pids, MirarPagina(p) PROVE VolcEnOrden'
    <2>1. volc[p].pc = "recorre" /\ volc[p].pag \in Asignables(p)
      BY <1>2 DEF MirarPagina
    <2> DEFINE m == tabla[p][volc[p].pag].marco
               s == tabla[p][volc[p].pag].slot
    <2>2. \/ /\ tabla[p][volc[p].pag].presente
             /\ volc' = [volc EXCEPT ![p].pc = "marco", ![p].lugar = m]
          \/ volc' = [volc EXCEPT ![p].pc = "slot", ![p].lugar = s]
          \/ volc' = [volc EXCEPT ![p].pag = @ + 1]
      BY <1>2, TrasMirarPagina
    <2>5. tabla[p][volc[p].pag].presente => m \in Marcos
      BY <2>1, AsignablesSonHojas, HojaTipo
      DEF HojasEnOrden, HojaEnOrden, TypeOK
    <2> HIDE DEF m, s
    <2>3. volc'[p].pc \in {"marco", "slot"} => volc'[p].pag = volc[p].pag
      BY <2>1, <2>2 DEF TypeOK, TipoVolc
    <2>4. \A q \in Pids : q # p => volc'[q] = volc[q]
      BY <2>2 DEF TypeOK, TipoVolc
    <2>6. volc'[p].pc = "marco" => volc'[p].lugar \in Marcos
      BY <2>1, <2>2, <2>5 DEF TypeOK, TipoVolc
    <2> QED BY <2>1, <2>3, <2>4, <2>6
  <1>3. ASSUME NEW p \in Pids, VolcarPagina(p) PROVE VolcEnOrden'
    BY <1>3 DEF VolcarPagina, TypeOK, TipoVolc, SinVolc
  <1>4. ASSUME NEW p \in Pids, CerrarDump(p) PROVE VolcEnOrden'
    BY <1>4 DEF CerrarDump, TypeOK, TipoVolc, SinVolc
  <1>5. ASSUME NEW p \in Pids, PedirDump(p) PROVE VolcEnOrden'
    BY <1>5 DEF PedirDump, TypeOK, TipoVolc, SinVolc
  <1> QED
    BY <1>1, <1>2, <1>3, <1>4, <1>5, QuienVolc

-----------------------------------------------------------------------------
\* The planner's request, leaf by leaf: it is never short of frames.

LEMMA EnSwapFinito ==
  ASSUME NEW t, NEW d
  PROVE  IsFiniteSet(EnSwap(t, d)) /\ Cardinality(EnSwap(t, d)) \in Nat
  <1>1. IsFiniteSet(Hojas)
    BY FS_Interval, PaginasAssumption, CapacidadTipo DEF Hojas
  <1> QED BY <1>1, FS_Subset, FS_CardinalityType DEF EnSwap

LEMMA HayLugar ==
  ASSUME TypeOK, Fases, Alcanza
  PROVE  /\ alta.pc = "asigna" /\ alta.pag \in Asignables(alta.pid) =>
               Libres # {}
         /\ alta.pc = "busca" /\ alta.pag \in EnSwap(tabla[alta.pid], 0) =>
               Libres # {}
  <1>1. Libres = {} => Cardinality(Libres) = 0
    BY FS_EmptySet
  <1>2. ASSUME alta.pc = "asigna", alta.pag \in Asignables(alta.pid)
        PROVE  Libres # {}
    <2>1. alta.pid \in Pids /\ alta.pag \in Nat
      BY <1>2 DEF Fases, TypeOK, TipoAlta
    <2>2. alta.pag < NumPaginas[alta.pid] /\ NumPaginas[alta.pid] \in Nat
      BY <1>2, <2>1, AsignablesSonHojas, PaginasAssumption, CapacidadTipo
    <2> QED BY <1>1, <1>2, <2>1, <2>2, LibresFinito DEF Alcanza
  <1>3. ASSUME alta.pc = "busca", alta.pag \in EnSwap(tabla[alta.pid], 0)
        PROVE  Libres # {}
    <2> DEFINE E == EnSwap(tabla[alta.pid], alta.pag)
    <2>1. alta.pag \in E
      BY <1>3, AsignablesSonHojas DEF EnSwap, TypeOK, TipoAlta
    <2>2. Cardinality(E) # 0 /\ Cardinality(E) \in Nat
      BY <2>1, EnSwapFinito, FS_EmptySet
    <2>3. Cardinality(E) =< Cardinality(Libres)
      BY <1>3 DEF Alcanza
    <2> HIDE DEF E
    <2> QED BY <1>1, <2>2, <2>3
  <1> QED BY <1>2, <1>3

LEMMA AltaAjena ==
  ASSUME TypeOK, Fases, AltaEnOrden, UNCHANGED alta, Libres \subseteq Libres',
         NEW q \in Pids, alta.pc # "no" => alta.pid # q,
         NEW h \in Hojas, NEW a, NEW m, NEW s, CambiaHoja(q, h, a, m, s)
  PROVE  AltaEnOrden'
  <1>1. CASE alta.pc = "no"
    BY <1>1 DEF AltaEnOrden, Entrantes, Regresos
  <1>2. CASE alta.pc # "no"
    <2>1. alta.pid \in Pids /\ alta.pid # q
      BY <1>2 DEF Fases
    <2>2. \A g \in Asignables(alta.pid) :
            g \in Hojas /\ tabla'[alta.pid][g] = tabla[alta.pid][g]
      BY <2>1, AsignablesSonHojas DEF CambiaHoja
    <2> QED BY <1>2, <2>2 DEF AltaEnOrden
  <1> QED BY <1>1, <1>2

LEMMA AltaEnOrdenPaso ==
  ASSUME TypeOK, Fases, HojasEnOrden, SuspEnOrden, Alcanza, AltaEnOrden,
         [Next]_vars
  PROVE  AltaEnOrden'
  <1>1. CASE CrearProceso
    <2>1. /\ UNCHANGED tabla /\ alta.pc = "espera" /\ alta'.pc = "asigna"
          /\ alta'.pid = alta.pid /\ alta'.pag = alta.pag
          /\ alta'.slot = alta.slot
      BY <1>1 DEF CrearProceso, TypeOK, TipoAlta, procVars
    <2> QED BY <2>1 DEF AltaEnOrden, Entrantes, Regresos
  <1>2. CASE AsignarPagina
    <2>1. /\ alta.pid \in Pids /\ alta.pc = "asigna" /\ alta'.pid = alta.pid
          /\ alta'.slot = alta.slot /\ alta.pag \in Nat
      BY <1>2, TrasAsignarPaginaAlta DEF Fases, Entrantes, TypeOK, TipoAlta
    <2>2. CASE alta.pag \in Asignables(alta.pid) /\ Libres # {}
      <3>1. /\ alta' = [alta EXCEPT !.pag = alta.pag + 1]
            /\ alta.pag \in Hojas
            /\ CambiaHoja(alta.pid, alta.pag, TRUE, Menor(Libres), NADA)
        BY <1>2, <2>2, TrasAsignarPagina
      <3>2. alta'.pag = alta.pag + 1 /\ alta'.pc = "asigna"
        BY <2>1, <3>1 DEF TypeOK, TipoAlta
      <3>3. ASSUME NEW h \in Asignables(alta.pid), h < alta.pag + 1
            PROVE  tabla'[alta.pid][h].presente
        <4>1. h \in Hojas /\ h \in Nat
          BY <2>1, AsignablesSonHojas
        <4>2. CASE h = alta.pag
          BY <3>1, <4>2 DEF CambiaHoja
        <4>3. CASE h < alta.pag
          BY <2>1, <3>1, <4>1, <4>3 DEF CambiaHoja, AltaEnOrden, Entrantes
        <4> QED BY <2>1, <3>3, <4>1, <4>2, <4>3
      <3> QED BY <2>1, <3>2, <3>3 DEF AltaEnOrden, Asignables
    <2>3. CASE ~(alta.pag \in Asignables(alta.pid) /\ Libres # {})
      <3>1. /\ UNCHANGED tabla /\ alta'.pc = "registra"
            /\ alta'.pag = alta.pag
        BY <1>2, <2>3 DEF AsignarPagina, TypeOK, TipoAlta
      <3>2. alta.pag \notin Asignables(alta.pid)
        BY <2>1, <2>3, HayLugar
      <3>3. \A h \in Asignables(alta.pid) : h < alta.pag
        BY <2>1, <3>2, AsignablesSonHojas, PaginasAssumption, CapacidadTipo
      <3> QED BY <2>1, <3>1, <3>3 DEF AltaEnOrden, Entrantes
    <2> QED BY <2>2, <2>3
  <1>3. CASE RegistrarProceso
    BY <1>3 DEF RegistrarProceso, SinAlta, AltaEnOrden, Entrantes, Regresos
  <1>4. CASE BuscarMarco
    <2>1. /\ alta.pid \in Pids /\ alta.pc = "busca" /\ alta.pag \in Nat
          /\ alta.pag \in Asignables(alta.pid) /\ alta.pag \in Hojas
          /\ UNCHANGED <<tabla, bitmap>>
      BY <1>4, AsignablesSonHojas
      DEF BuscarMarco, Fases, Regresos, TypeOK, TipoAlta, procVars, marcoVars
    <2>2. CASE alta.pag \notin EnSwap(tabla[alta.pid], 0)
      <3>1. alta' = [alta EXCEPT !.pag = @ + 1]
        BY <1>4, <2>2 DEF BuscarMarco
      <3>2. alta.pid \in dicc /\ susp[alta.pid].pc = "no"
        BY <2>1 DEF Fases, Regresos, Vivos
      <3>3. tabla[alta.pid][alta.pag].presente
        BY <2>1, <2>2, <3>2 DEF HojasEnOrden, HojaEnOrden, EnSwap
      <3>4. /\ alta'.pc = "busca" /\ alta'.pid = alta.pid
            /\ alta'.pag = alta.pag + 1 /\ alta'.slot = alta.slot
        BY <2>1, <3>1 DEF TypeOK, TipoAlta
      <3>5. \A h \in Asignables(alta.pid) :
              h < alta.pag + 1 => tabla[alta.pid][h].presente
        BY <2>1, <3>3, AsignablesSonHojas DEF AltaEnOrden, Regresos
      <3> QED BY <2>1, <3>4, <3>5 DEF AltaEnOrden
    <2>3. CASE alta.pag \in EnSwap(tabla[alta.pid], 0)
      <3>1. /\ Menor(Libres) \in Libres /\ Menor(Libres) \in Marcos
            /\ Libres # {}
        BY <2>1, <2>3, HayLugar, LibreElegido
      <3>2. alta' = [alta EXCEPT !.pc = "ocupa", !.marco = Menor(Libres)]
        BY <1>4, <2>3, <3>1 DEF BuscarMarco
      <3> DEFINE m == Menor(Libres)
      <3> HIDE DEF m
      <3>3. /\ alta'.pc = "ocupa" /\ alta'.pid = alta.pid
            /\ alta'.pag = alta.pag /\ alta'.slot = alta.slot
            /\ alta'.marco = m
        BY <3>2 DEF TypeOK, TipoAlta, m
      <3>4. m \in Libres' /\ m \in Marcos
        BY <2>1, <3>1 DEF Libres, m
      <3>5. /\ ~tabla[alta.pid][alta.pag].presente
            /\ tabla[alta.pid][alta.pag].slot # NADA
        BY <2>3 DEF EnSwap
      <3> QED BY <2>1, <3>3, <3>4, <3>5 DEF AltaEnOrden, Regresos
    <2> QED BY <2>2, <2>3
  <1>5. CASE OcuparMarco
    <2>1. /\ UNCHANGED tabla /\ alta.pc = "ocupa" /\ alta'.pc = "lee"
          /\ alta'.pid = alta.pid /\ alta'.pag = alta.pag
          /\ alta'.slot = alta.slot /\ alta'.marco = alta.marco
      BY <1>5 DEF OcuparMarco, TypeOK, TipoAlta, procVars
    <2> QED BY <2>1 DEF AltaEnOrden, Entrantes, Regresos
  <1>6. CASE TraerDeSwap
    <2>1. /\ UNCHANGED tabla /\ alta.pc = "lee" /\ alta'.pc = "ubica"
          /\ alta'.pid = alta.pid /\ alta'.pag = alta.pag
          /\ alta'.slot = alta.slot /\ alta'.marco = alta.marco
      BY <1>6 DEF TraerDeSwap, TypeOK, TipoAlta, procVars
    <2> QED BY <2>1 DEF AltaEnOrden, Entrantes, Regresos
  <1>7. CASE UbicarPagina
    <2>1. /\ alta.pid \in Pids /\ alta.pag \in Asignables(alta.pid)
          /\ alta.pag \in Hojas
          /\ CambiaHoja(alta.pid, alta.pag, TRUE, alta.marco, NADA)
      BY <1>7, TrasUbicarPagina
    <2> DEFINE s == tabla[alta.pid][alta.pag].slot
    <2>2. /\ alta.pc = "ubica"
          /\ alta' = [alta EXCEPT !.pc = "suelta", !.slot = s]
      BY <1>7 DEF UbicarPagina
    <2>3. s # NADA
      BY <2>2 DEF AltaEnOrden
    <2> HIDE DEF s
    <2>4. /\ alta'.pc = "suelta" /\ alta'.pid = alta.pid
          /\ alta'.pag = alta.pag /\ alta'.slot = s
      BY <2>2 DEF TypeOK, TipoAlta
    <2>5. tabla'[alta.pid][alta.pag].presente
      BY <2>1 DEF CambiaHoja
    <2>6. \A h \in Asignables(alta.pid) :
            h < alta.pag => tabla'[alta.pid][h].presente
      <3> TAKE h \in Asignables(alta.pid)
      <3>1. h \in Hojas
        BY <2>1, AsignablesSonHojas
      <3> QED BY <2>1, <2>2, <2>5, <3>1 DEF CambiaHoja, AltaEnOrden, Regresos
    <2> QED BY <2>1, <2>3, <2>4, <2>5, <2>6 DEF AltaEnOrden, Asignables
  <1>8. CASE SoltarSlot
    <2>1. /\ UNCHANGED tabla /\ alta.pc = "suelta" /\ alta.pid \in Pids
          /\ alta.pag \in Nat
          /\ alta' = [pc |-> "busca", pid |-> alta.pid, pag |-> alta.pag + 1,
                      marco |-> NADA, slot |-> NADA]
      BY <1>8, TrasSoltarSlot
      DEF SoltarSlot, TypeOK, TipoAlta, Fases, Regresos, procVars
    <2>2. /\ alta'.pc = "busca" /\ alta'.pid = alta.pid
          /\ alta'.pag = alta.pag + 1 /\ alta'.slot = NADA
      BY <2>1
    <2>3. \A h \in Asignables(alta.pid) :
            h < alta.pag + 1 => tabla[alta.pid][h].presente
      BY <2>1, AsignablesSonHojas DEF AltaEnOrden, Regresos
    <2> QED BY <2>1, <2>2, <2>3 DEF AltaEnOrden
  <1>9. CASE ResponderTraer
    BY <1>9 DEF ResponderTraer, SinAlta, AltaEnOrden, Entrantes, Regresos
  <1>10. CASE LiberarPagina
    <2>1. /\ UNCHANGED alta /\ estado[baja.pid] = "EXIT"
          /\ Libres \subseteq Libres'
      BY <1>10 DEF LiberarPagina, Fases, Libres
    <2>2. alta.pc # "no" => alta.pid # baja.pid
      BY <2>1 DEF Fases, Entrantes, Regresos, TypeOK, TipoAlta
    <2> QED BY <1>10, <2>1, <2>2, TrasLiberarPagina, AltaAjena
  <1>11. ASSUME NEW p \in Pids, ContarParaAlta(p) PROVE AltaEnOrden'
    <2>1. /\ alta'.pc = "espera" /\ alta'.pid = p /\ alta'.pag = 0
          /\ alta'.slot = NADA
      BY <1>11, TrasContarParaAlta
    <2>2. \A h \in Asignables(p) : ~(h < 0)
      BY AsignablesSonHojas
    <2> QED BY <2>1, <2>2 DEF AltaEnOrden
  <1>12. ASSUME NEW p \in Pids, ContarParaTraer(p) PROVE AltaEnOrden'
    <2>1. /\ alta'.pc = "busca" /\ alta'.pid = p /\ alta'.pag = 0
          /\ alta'.slot = NADA
      BY <1>12, TrasContarParaTraer
    <2>2. \A h \in Asignables(p) : ~(h < 0)
      BY AsignablesSonHojas
    <2> QED BY <2>1, <2>2 DEF AltaEnOrden
  <1>13. ASSUME NEW p \in Pids, QuitarPresente(p) PROVE AltaEnOrden'
    <2>1. /\ UNCHANGED alta /\ estado[p] = "SUSP_BLOCKED"
          /\ Libres \subseteq Libres'
      BY <1>13 DEF QuitarPresente, Fases, Libres, marcoVars
    <2>2. alta.pc # "no" => alta.pid # p
      BY <2>1 DEF Fases, Entrantes, Regresos, TypeOK, TipoAlta
    <2> QED BY <1>13, <2>1, <2>2, TrasQuitarPresente, AltaAjena
  <1>14. ASSUME NEW p \in Pids, AnotarSlot(p) PROVE AltaEnOrden'
    <2>1. /\ UNCHANGED alta /\ estado[p] = "SUSP_BLOCKED"
          /\ Libres \subseteq Libres'
      BY <1>14 DEF AnotarSlot, Fases, Libres, marcoVars
    <2>2. alta.pc # "no" => alta.pid # p
      BY <2>1 DEF Fases, Entrantes, Regresos, TypeOK, TipoAlta
    <2> QED BY <1>14, <2>1, <2>2, TrasAnotarSlot, AltaAjena
  <1>15. ASSUME NEW p \in Pids, SoltarMarco(p) PROVE AltaEnOrden'
    <2>1. /\ UNCHANGED alta /\ estado[p] = "SUSP_BLOCKED"
          /\ Libres \subseteq Libres'
      BY <1>15 DEF SoltarMarco, Fases, Libres, marcoVars
    <2>2. alta.pc # "no" => alta.pid # p
      BY <2>1 DEF Fases, Entrantes, Regresos, TypeOK, TipoAlta
    <2> QED BY <1>15, <2>1, <2>2, TrasSoltarMarco, AltaAjena
  <1> QED
    BY <1>1, <1>2, <1>3, <1>4, <1>5, <1>6, <1>7, <1>8, <1>9, <1>10, <1>11,
       <1>12, <1>13, <1>14, <1>15, QuienAlta, QuienTabla, QuienMarcos
    DEF AltaEnOrden, Libres

-----------------------------------------------------------------------------
\* The count of the free frames, made before the lock is taken, stays true:
\* only the planner takes frames.

LEMMA LibresCrece ==
  ASSUME Libres \subseteq Libres', UNCHANGED Marcos
  PROVE  Cardinality(Libres) =< Cardinality(Libres')
  <1>1. IsFiniteSet(Marcos)
    BY LibresFinito
  <1>2. IsFiniteSet(Libres')
    BY <1>1, FS_Subset DEF Libres
  <1> QED BY <1>2, FS_Subset

LEMMA LibresPierdeUno ==
  ASSUME NEW m \in Libres, bitmap' = bitmap \cup {m}
  PROVE  Cardinality(Libres') = Cardinality(Libres) - 1
  <1>1. Libres' = Libres \ {m}
    BY DEF Libres
  <1> QED BY <1>1, LibresFinito, FS_RemoveElement

LEMMA EnSwapIgual ==
  ASSUME NEW t, NEW u, NEW d,
         \A h \in Hojas : h >= d => t[h] = u[h]
  PROVE  EnSwap(t, d) = EnSwap(u, d)
  BY DEF EnSwap

LEMMA EnSwapSalta ==
  ASSUME NEW t, NEW d \in Nat, d \notin EnSwap(t, 0)
  PROVE  EnSwap(t, d + 1) = EnSwap(t, d)
  <1>1. \A h \in Hojas : h \in Nat
    BY DEF Hojas
  <1>2. \A h \in Hojas :
          ~t[h].presente /\ t[h].slot # NADA => (h >= d <=> h >= d + 1)
    BY <1>1 DEF EnSwap
  <1> QED BY <1>2 DEF EnSwap

LEMMA EnSwapPierdeUno ==
  ASSUME NEW t, NEW d \in Nat, d \in Hojas, ~t[d].presente, t[d].slot # NADA
  PROVE  Cardinality(EnSwap(t, d + 1)) = Cardinality(EnSwap(t, d)) - 1
  <1>1. \A h \in Hojas : h \in Nat
    BY DEF Hojas
  <1>2. d \in EnSwap(t, d)
    BY DEF EnSwap
  <1>3. EnSwap(t, d + 1) = EnSwap(t, d) \ {d}
    <2>1. \A h \in Hojas : h >= d + 1 <=> h >= d /\ h # d
      BY <1>1
    <2> QED BY <2>1 DEF EnSwap
  <1> QED BY <1>2, <1>3, EnSwapFinito, FS_RemoveElement

LEMMA AlcanzaAjena ==
  ASSUME TypeOK, Fases, Alcanza, UNCHANGED alta, Libres \subseteq Libres',
         NEW q \in Pids, alta.pc # "no" => alta.pid # q,
         NEW h \in Hojas, NEW a, NEW m, NEW s, CambiaHoja(q, h, a, m, s)
  PROVE  Alcanza'
  <1>1. CASE alta.pc = "no"
    BY <1>1 DEF Alcanza
  <1>2. CASE alta.pc # "no"
    <2>1. alta.pid \in Pids /\ alta.pid # q
      BY <1>2 DEF Fases
    <2>2. \A g \in Hojas : tabla'[alta.pid][g] = tabla[alta.pid][g]
      BY <2>1 DEF CambiaHoja
    <2>3. \A d : EnSwap(tabla'[alta.pid], d) = EnSwap(tabla[alta.pid], d)
      BY <2>2, EnSwapIgual
    <2>4. \A d : Cardinality(EnSwap(tabla[alta.pid], d)) \in Nat
      BY EnSwapFinito
    <2>5. /\ Cardinality(Libres) =< Cardinality(Libres')
          /\ Cardinality(Libres) \in Nat /\ Cardinality(Libres') \in Nat
      <3>1. IsFiniteSet(Libres')
        BY LibresFinito, FS_Subset DEF Libres
      <3> QED BY <3>1, LibresCrece, LibresFinito, FS_CardinalityType DEF Marcos
    <2>6. NumPaginas[alta.pid] \in Nat /\ alta.pag \in Nat
      BY <2>1, PaginasAssumption, CapacidadTipo DEF TypeOK, TipoAlta
    <2>7. alta' = alta
      OBVIOUS
    <2> HIDE DEF Libres, EnSwap
    <2>8. alta.pc \in {"espera", "asigna"} =>
            NumPaginas[alta.pid] - alta.pag =< Cardinality(Libres')
      BY <2>5, <2>6 DEF Alcanza
    <2>9. /\ alta.pc \in {"busca", "ocupa"} =>
               Cardinality(EnSwap(tabla'[alta.pid], alta.pag))
                 =< Cardinality(Libres')
          /\ alta.pc \in {"lee", "ubica", "suelta"} =>
               Cardinality(EnSwap(tabla'[alta.pid], alta.pag + 1))
                 =< Cardinality(Libres')
      BY <2>3, <2>4, <2>5 DEF Alcanza
    <2> QED BY <2>7, <2>8, <2>9 DEF Alcanza
  <1> QED BY <1>1, <1>2

LEMMA AlcanzaPaso ==
  ASSUME TypeOK, Fases, SuspEnOrden, AltaEnOrden, Alcanza, [Next]_vars
  PROVE  Alcanza'
  <1>1. CASE CrearProceso
    <2>1. /\ UNCHANGED <<tabla, bitmap>> /\ alta.pc = "espera"
          /\ alta'.pc = "asigna"
          /\ alta'.pid = alta.pid /\ alta'.pag = alta.pag
      BY <1>1 DEF CrearProceso, TypeOK, TipoAlta, procVars, marcoVars
    <2> QED BY <2>1 DEF Alcanza, Libres
  <1>2. CASE AsignarPagina
    <2>1. /\ alta.pid \in Pids /\ alta.pc = "asigna" /\ alta'.pid = alta.pid
          /\ alta.pag \in Nat /\ NumPaginas[alta.pid] \in Nat
      BY <1>2, TrasAsignarPaginaAlta, PaginasAssumption, CapacidadTipo
      DEF Fases, Entrantes, TypeOK, TipoAlta
    <2>2. CASE alta.pag \in Asignables(alta.pid) /\ Libres # {}
      <3>1. /\ alta' = [alta EXCEPT !.pag = alta.pag + 1]
            /\ Menor(Libres) \in Libres
            /\ bitmap' = bitmap \cup {Menor(Libres)}
        BY <1>2, <2>2, TrasAsignarPagina
      <3>2. alta'.pag = alta.pag + 1 /\ alta'.pc = "asigna"
        BY <2>1, <3>1 DEF TypeOK, TipoAlta
      <3>3. Cardinality(Libres') = Cardinality(Libres) - 1
        BY <3>1, LibresPierdeUno
      <3>4. NumPaginas[alta.pid] - alta.pag =< Cardinality(Libres)
        BY <2>1 DEF Alcanza
      <3>5. NumPaginas[alta.pid] - (alta.pag + 1) =< Cardinality(Libres')
        BY <2>1, <3>3, <3>4, LibresFinito
      <3> QED BY <2>1, <3>2, <3>5 DEF Alcanza
    <2>3. CASE ~(alta.pag \in Asignables(alta.pid) /\ Libres # {})
      <3>1. alta'.pc = "registra"
        BY <1>2, <2>3 DEF AsignarPagina, TypeOK, TipoAlta
      <3> QED BY <3>1 DEF Alcanza
    <2> QED BY <2>2, <2>3
  <1>3. CASE RegistrarProceso
    BY <1>3 DEF RegistrarProceso, SinAlta, Alcanza
  <1>4. CASE BuscarMarco
    <2>1. /\ alta.pid \in Pids /\ alta.pc = "busca" /\ alta.pag \in Nat
          /\ alta.pag \in Asignables(alta.pid)
          /\ UNCHANGED <<tabla, bitmap>>
      BY <1>4
      DEF BuscarMarco, Fases, Regresos, TypeOK, TipoAlta, procVars, marcoVars
    <2>2. CASE alta.pag \notin EnSwap(tabla[alta.pid], 0)
      <3>1. alta' = [alta EXCEPT !.pag = @ + 1]
        BY <1>4, <2>2 DEF BuscarMarco
      <3>2. /\ alta'.pc = "busca" /\ alta'.pid = alta.pid
            /\ alta'.pag = alta.pag + 1
        BY <2>1, <3>1 DEF TypeOK, TipoAlta
      <3>3. EnSwap(tabla[alta.pid], alta.pag + 1) =
              EnSwap(tabla[alta.pid], alta.pag)
        BY <2>1, <2>2, EnSwapSalta
      <3> QED BY <2>1, <3>2, <3>3 DEF Alcanza, Libres
    <2>3. CASE alta.pag \in EnSwap(tabla[alta.pid], 0)
      <3>1. Libres # {}
        BY <2>1, <2>3, HayLugar
      <3>2. alta' = [alta EXCEPT !.pc = "ocupa", !.marco = Menor(Libres)]
        BY <1>4, <2>3, <3>1 DEF BuscarMarco
      <3>3. /\ alta'.pc = "ocupa" /\ alta'.pid = alta.pid
            /\ alta'.pag = alta.pag
        BY <3>2 DEF TypeOK, TipoAlta
      <3> QED BY <2>1, <3>3 DEF Alcanza, Libres
    <2> QED BY <2>2, <2>3
  <1>5. CASE OcuparMarco
    <2>1. /\ UNCHANGED tabla /\ alta.pc = "ocupa" /\ alta'.pc = "lee"
          /\ alta'.pid = alta.pid /\ alta'.pag = alta.pag
          /\ alta.pid \in Pids /\ alta.pag \in Nat
          /\ bitmap' = bitmap \cup {alta.marco}
      BY <1>5 DEF OcuparMarco, Fases, Regresos, TypeOK, TipoAlta, procVars
    <2>2. /\ alta.marco \in Libres /\ alta.pag \in Hojas
          /\ ~tabla[alta.pid][alta.pag].presente
          /\ tabla[alta.pid][alta.pag].slot # NADA
      BY <2>1, AsignablesSonHojas DEF AltaEnOrden
    <2>3. Cardinality(Libres') = Cardinality(Libres) - 1
      BY <2>1, <2>2, LibresPierdeUno
    <2>4. Cardinality(EnSwap(tabla[alta.pid], alta.pag + 1)) =
            Cardinality(EnSwap(tabla[alta.pid], alta.pag)) - 1
      BY <2>1, <2>2, EnSwapPierdeUno
    <2>5. Cardinality(EnSwap(tabla[alta.pid], alta.pag)) =< Cardinality(Libres)
      BY <2>1 DEF Alcanza
    <2>6. Cardinality(EnSwap(tabla[alta.pid], alta.pag + 1)) =<
            Cardinality(Libres')
      BY <2>3, <2>4, <2>5, EnSwapFinito, LibresFinito
    <2> QED BY <2>1, <2>6 DEF Alcanza
  <1>6. CASE TraerDeSwap
    <2>1. /\ UNCHANGED <<tabla, bitmap>> /\ alta.pc = "lee"
          /\ alta'.pc = "ubica" /\ alta'.pid = alta.pid
          /\ alta'.pag = alta.pag
      BY <1>6 DEF TraerDeSwap, TypeOK, TipoAlta, procVars
    <2> QED BY <2>1 DEF Alcanza, Libres
  <1>7. CASE UbicarPagina
    <2>1. /\ alta.pid \in Pids /\ alta.pag \in Hojas
          /\ CambiaHoja(alta.pid, alta.pag, TRUE, alta.marco, NADA)
      BY <1>7, TrasUbicarPagina
    <2> DEFINE s == tabla[alta.pid][alta.pag].slot
    <2>2. /\ alta.pc = "ubica" /\ UNCHANGED bitmap
          /\ alta' = [alta EXCEPT !.pc = "suelta", !.slot = s]
      BY <1>7 DEF UbicarPagina, marcoVars
    <2> HIDE DEF s
    <2>3. /\ alta'.pc = "suelta" /\ alta'.pid = alta.pid
          /\ alta'.pag = alta.pag /\ alta.pag \in Nat
      BY <2>2 DEF TypeOK, TipoAlta
    <2>4. \A h \in Hojas : h >= alta.pag + 1 =>
            tabla'[alta.pid][h] = tabla[alta.pid][h]
      BY <2>1, <2>3 DEF CambiaHoja
    <2>5. EnSwap(tabla'[alta.pid], alta.pag + 1) =
            EnSwap(tabla[alta.pid], alta.pag + 1)
      BY <2>4, EnSwapIgual
    <2> QED BY <2>2, <2>3, <2>5 DEF Alcanza, Libres
  <1>8. CASE SoltarSlot
    <2>1. /\ UNCHANGED <<tabla, bitmap>> /\ alta.pc = "suelta"
          /\ alta'.pc = "busca" /\ alta'.pid = alta.pid
          /\ alta'.pag = alta.pag + 1
      BY <1>8, TrasSoltarSlot DEF SoltarSlot, TypeOK, procVars, marcoVars
    <2> QED BY <2>1 DEF Alcanza, Libres
  <1>9. CASE ResponderTraer
    BY <1>9 DEF ResponderTraer, SinAlta, Alcanza
  <1>10. CASE LiberarPagina
    <2>1. /\ UNCHANGED alta /\ estado[baja.pid] = "EXIT"
          /\ Libres \subseteq Libres'
      BY <1>10 DEF LiberarPagina, Fases, Libres
    <2>2. alta.pc # "no" => alta.pid # baja.pid
      BY <2>1 DEF Fases, Entrantes, Regresos, TypeOK, TipoAlta
    <2> QED BY <1>10, <2>1, <2>2, TrasLiberarPagina, AlcanzaAjena
  <1>11. ASSUME NEW p \in Pids, ContarParaAlta(p) PROVE Alcanza'
    <2>1. /\ alta'.pc = "espera" /\ alta'.pid = p /\ alta'.pag = 0
          /\ UNCHANGED bitmap
      BY <1>11, TrasContarParaAlta DEF ContarParaAlta, marcoVars
    <2>2. NumPaginas[p] - 0 =< Cardinality(Libres)
      BY <1>11, PaginasAssumption, CapacidadTipo DEF ContarParaAlta
    <2> QED BY <2>1, <2>2 DEF Alcanza, Libres
  <1>12. ASSUME NEW p \in Pids, ContarParaTraer(p) PROVE Alcanza'
    <2>1. /\ alta'.pc = "busca" /\ alta'.pid = p /\ alta'.pag = 0
          /\ UNCHANGED <<bitmap, tabla>>
      BY <1>12, TrasContarParaTraer DEF ContarParaTraer, marcoVars, procVars
    <2>2. Cardinality(EnSwap(tabla[p], 0)) =< Cardinality(Libres)
      BY <1>12 DEF ContarParaTraer
    <2> QED BY <2>1, <2>2 DEF Alcanza, Libres
  <1>13. ASSUME NEW p \in Pids, QuitarPresente(p) PROVE Alcanza'
    <2>1. /\ UNCHANGED alta /\ estado[p] = "SUSP_BLOCKED"
          /\ Libres \subseteq Libres'
      BY <1>13 DEF QuitarPresente, Fases, Libres, marcoVars
    <2>2. alta.pc # "no" => alta.pid # p
      BY <2>1 DEF Fases, Entrantes, Regresos, TypeOK, TipoAlta
    <2> QED BY <1>13, <2>1, <2>2, TrasQuitarPresente, AlcanzaAjena
  <1>14. ASSUME NEW p \in Pids, AnotarSlot(p) PROVE Alcanza'
    <2>1. /\ UNCHANGED alta /\ estado[p] = "SUSP_BLOCKED"
          /\ Libres \subseteq Libres'
      BY <1>14 DEF AnotarSlot, Fases, Libres, marcoVars
    <2>2. alta.pc # "no" => alta.pid # p
      BY <2>1 DEF Fases, Entrantes, Regresos, TypeOK, TipoAlta
    <2> QED BY <1>14, <2>1, <2>2, TrasAnotarSlot, AlcanzaAjena
  <1>15. ASSUME NEW p \in Pids, SoltarMarco(p) PROVE Alcanza'
    <2>1. /\ UNCHANGED alta /\ estado[p] = "SUSP_BLOCKED"
          /\ Libres \subseteq Libres'
      BY <1>15 DEF SoltarMarco, Fases, Libres, marcoVars
    <2>2. alta.pc # "no" => alta.pid # p
      BY <2>1 DEF Fases, Entrantes, Regresos, TypeOK, TipoAlta
    <2> QED BY <1>15, <2>1, <2>2, TrasSoltarMarco, AlcanzaAjena
  <1> QED
    BY <1>1, <1>2, <1>3, <1>4, <1>5, <1>6, <1>7, <1>8, <1>9, <1>10, <1>11,
       <1>12, <1>13, <1>14, <1>15, QuienAlta, QuienTabla, QuienMarcos
    DEF Alcanza, Libres

-----------------------------------------------------------------------------
\* The tables of a process that was not admitted.

LEMMA NuevosAjeno ==
  ASSUME NuevosVacios, UNCHANGED estado, NEW q \in Pids, estado[q] # "NEW",
         NEW h \in Hojas, NEW a, NEW m, NEW s, CambiaHoja(q, h, a, m, s),
         \/ UNCHANGED alta
         \/ /\ alta.pid = q /\ alta'.pid = q
  PROVE  NuevosVacios'
  <1> SUFFICES ASSUME NEW p \in Pids, NEW g \in Hojas, estado'[p] = "NEW",
                      alta'.pc # "no" /\ alta'.pid = p =>
                         alta'.pc # "registra" /\ g >= alta'.pag
               PROVE  Vacio(p, g)'
    BY DEF NuevosVacios
  <1>1. p # q /\ tabla'[p][g] = tabla[p][g] /\ Vacio(p, g)
    BY DEF NuevosVacios, CambiaHoja
  <1> QED BY <1>1 DEF Vacio

LEMMA NuevosMismos ==
  ASSUME NuevosVacios, UNCHANGED tabla, NEW q,
         \A p \in Pids : estado'[p] = "NEW" =>
            estado[p] = "NEW" /\ p # q,
         alta.pc # "no" => alta.pid = q, alta'.pc # "no" => alta'.pid = q
  PROVE  NuevosVacios'
  BY DEF NuevosVacios, Vacio

LEMMA NuevosVaciosPaso ==
  ASSUME TypeOK, Fases, SuspEnOrden, AltaEnOrden, NuevosVacios, [Next]_vars
  PROVE  NuevosVacios'
  <1>1. CASE CrearProceso
    BY <1>1
    DEF CrearProceso, NuevosVacios, Vacio, TypeOK, TipoAlta, procVars,
        kernelVars
  <1>2. CASE AsignarPagina
    <2>1. /\ UNCHANGED estado /\ alta.pid \in Pids /\ alta.pc = "asigna"
          /\ alta'.pid = alta.pid /\ alta.pag \in Nat
      BY <1>2, TrasAsignarPaginaAlta
      DEF AsignarPagina, Fases, Entrantes, kernelVars, TypeOK, TipoAlta
    <2>2. CASE alta.pag \in Asignables(alta.pid) /\ Libres # {}
      <3>1. /\ alta' = [alta EXCEPT !.pag = alta.pag + 1]
            /\ alta.pag \in Hojas
            /\ CambiaHoja(alta.pid, alta.pag, TRUE, Menor(Libres), NADA)
        BY <1>2, <2>2, TrasAsignarPagina
      <3>2. alta'.pag = alta.pag + 1 /\ alta'.pc = "asigna"
        BY <2>1, <3>1 DEF TypeOK, TipoAlta
      <3> SUFFICES ASSUME NEW p \in Pids, NEW g \in Hojas, estado[p] = "NEW",
                          alta'.pid = p => g >= alta'.pag
                   PROVE  Vacio(p, g)'
        BY <2>1, <3>2 DEF NuevosVacios
      <3>3. p # alta.pid \/ g # alta.pag
        BY <2>1, <3>2
      <3>4. alta.pid = p => g >= alta.pag
        BY <2>1, <3>2 DEF Hojas
      <3>5. Vacio(p, g) /\ tabla'[p][g] = tabla[p][g]
        BY <2>1, <3>1, <3>3, <3>4 DEF NuevosVacios, CambiaHoja
      <3> QED BY <3>5 DEF Vacio
    <2>3. CASE ~(alta.pag \in Asignables(alta.pid) /\ Libres # {})
      <3>1. UNCHANGED tabla /\ alta'.pc = "registra"
        BY <1>2, <2>3 DEF AsignarPagina, TypeOK, TipoAlta
      <3> QED BY <2>1, <3>1 DEF NuevosVacios, Vacio
    <2> QED BY <2>2, <2>3
  <1>3. CASE RegistrarProceso
    <2>1. /\ alta.pid \in Pids /\ UNCHANGED tabla
          /\ estado' = [estado EXCEPT ![alta.pid] = "READY"]
          /\ alta'.pc = "no"
      BY <1>3 DEF RegistrarProceso, Fases, SinAlta
    <2>2. \A p \in Pids : estado'[p] = "NEW" =>
            estado[p] = "NEW" /\ p # alta.pid
      BY <2>1 DEF TypeOK, TipoKernel
    <2> QED BY <2>1, <2>2, NuevosMismos
  <1>4. CASE BuscarMarco
    <2>1. /\ UNCHANGED <<estado, tabla>> /\ alta'.pid = alta.pid
          /\ estado[alta.pid] = "SUSP_READY"
      BY <1>4
      DEF BuscarMarco, Fases, Regresos, kernelVars, procVars, TypeOK, TipoAlta
    <2> QED BY <2>1, NuevosMismos
  <1>5. CASE OcuparMarco
    <2>1. /\ UNCHANGED <<estado, tabla>> /\ alta'.pid = alta.pid
          /\ estado[alta.pid] = "SUSP_READY"
      BY <1>5
      DEF OcuparMarco, Fases, Regresos, kernelVars, procVars, TypeOK, TipoAlta
    <2> QED BY <2>1, NuevosMismos
  <1>6. CASE TraerDeSwap
    <2>1. /\ UNCHANGED <<estado, tabla>> /\ alta'.pid = alta.pid
          /\ estado[alta.pid] = "SUSP_READY"
      BY <1>6
      DEF TraerDeSwap, Fases, Regresos, kernelVars, procVars, TypeOK, TipoAlta
    <2> QED BY <2>1, NuevosMismos
  <1>7. CASE UbicarPagina
    <2>1. /\ UNCHANGED estado /\ estado[alta.pid] = "SUSP_READY"
          /\ alta'.pid = alta.pid
      BY <1>7 DEF UbicarPagina, Fases, Regresos, kernelVars, TypeOK, TipoAlta
    <2> QED BY <1>7, <2>1, TrasUbicarPagina, NuevosAjeno
  <1>8. CASE SoltarSlot
    <2>1. /\ UNCHANGED <<estado, tabla>> /\ alta'.pid = alta.pid
          /\ estado[alta.pid] = "SUSP_READY"
      BY <1>8, TrasSoltarSlot
      DEF SoltarSlot, Fases, Regresos, kernelVars, procVars, TypeOK, TipoAlta
    <2> QED BY <2>1, NuevosMismos
  <1>9. CASE ResponderTraer
    <2>1. /\ alta.pid \in Pids /\ UNCHANGED tabla
          /\ estado' = [estado EXCEPT ![alta.pid] = "READY"]
          /\ alta'.pc = "no"
      BY <1>9 DEF ResponderTraer, procVars, Fases, SinAlta
    <2>2. \A p \in Pids : estado'[p] = "NEW" =>
            estado[p] = "NEW" /\ p # alta.pid
      BY <2>1 DEF TypeOK, TipoKernel
    <2> QED BY <2>1, <2>2, NuevosMismos
  <1>10. CASE LiberarPagina
    <2>1. UNCHANGED <<estado, alta>> /\ estado[baja.pid] = "EXIT"
      BY <1>10 DEF LiberarPagina, Fases, kernelVars
    <2> QED BY <1>10, <2>1, TrasLiberarPagina, NuevosAjeno
  <1>11. CASE ResponderBaja
    BY <1>11
    DEF ResponderBaja, NuevosVacios, Vacio, TypeOK, TipoKernel, Fases,
        procVars
  <1>12. ASSUME NEW p \in Pids, ContarParaAlta(p) PROVE NuevosVacios'
    <2>1. alta.pc = "no" /\ UNCHANGED <<estado, tabla>>
      BY <1>12 DEF ContarParaAlta, PlanificadorLibre, procVars, kernelVars
    <2> QED BY <2>1 DEF NuevosVacios, Vacio
  <1>13. ASSUME NEW p \in Pids, ContarParaTraer(p) PROVE NuevosVacios'
    <2>1. alta.pc = "no" /\ UNCHANGED <<estado, tabla>>
      BY <1>13 DEF ContarParaTraer, PlanificadorLibre, procVars, kernelVars
    <2> QED BY <2>1 DEF NuevosVacios, Vacio
  <1>14. ASSUME NEW p \in Pids, QuitarPresente(p) PROVE NuevosVacios'
    <2>1. UNCHANGED <<estado, alta>> /\ estado[p] = "SUSP_BLOCKED"
      BY <1>14 DEF QuitarPresente, Fases, kernelVars
    <2> QED BY <1>14, <2>1, TrasQuitarPresente, NuevosAjeno
  <1>15. ASSUME NEW p \in Pids, AnotarSlot(p) PROVE NuevosVacios'
    <2>1. UNCHANGED <<estado, alta>> /\ estado[p] = "SUSP_BLOCKED"
      BY <1>15 DEF AnotarSlot, Fases, kernelVars
    <2> QED BY <1>15, <2>1, TrasAnotarSlot, NuevosAjeno
  <1>16. ASSUME NEW p \in Pids, SoltarMarco(p) PROVE NuevosVacios'
    <2>1. UNCHANGED <<estado, alta>> /\ estado[p] = "SUSP_BLOCKED"
      BY <1>16 DEF SoltarMarco, Fases, kernelVars
    <2> QED BY <1>16, <2>1, TrasSoltarMarco, NuevosAjeno
  <1>17. ASSUME NEW p \in Pids, Bloquear(p) PROVE NuevosVacios'
    BY <1>17
    DEF Bloquear, NuevosVacios, Vacio, TypeOK, TipoKernel, Fases, procVars
  <1>18. ASSUME NEW p \in Pids, PedirDump(p) PROVE NuevosVacios'
    BY <1>18
    DEF PedirDump, NuevosVacios, Vacio, TypeOK, TipoKernel, Fases, procVars
  <1>19. ASSUME NEW p \in Pids, Suspender(p) PROVE NuevosVacios'
    BY <1>19
    DEF Suspender, NuevosVacios, Vacio, TypeOK, TipoKernel, Fases, procVars
  <1>20. ASSUME NEW p \in Pids, Desbloquear(p) PROVE NuevosVacios'
    BY <1>20
    DEF Desbloquear, NuevosVacios, Vacio, TypeOK, TipoKernel, Fases, procVars
  <1>21. ASSUME NEW p \in Pids, Finalizar(p) PROVE NuevosVacios'
    BY <1>21
    DEF Finalizar, NuevosVacios, Vacio, TypeOK, TipoKernel, Fases, procVars
  <1> QED
    BY <1>1, <1>2, <1>3, <1>4, <1>5, <1>6, <1>7, <1>8, <1>9, <1>10, <1>11,
       <1>12, <1>13, <1>14, <1>15, <1>16, <1>17, <1>18, <1>19, <1>20, <1>21,
       QuienEstado, QuienTabla, QuienAlta
    DEF NuevosVacios, Vacio

-----------------------------------------------------------------------------
\* A process that is not suspended is whole.

LEMMA BloqueadoAjeno ==
  ASSUME BloqueadoCompleto, UNCHANGED estado, NEW q \in Pids,
         estado[q] \notin {"READY", "BLOCKED"},
         NEW h \in Hojas, NEW a, NEW m, NEW s, CambiaHoja(q, h, a, m, s)
  PROVE  BloqueadoCompleto'
  <1> SUFFICES ASSUME NEW p \in Pids, estado[p] \in {"READY", "BLOCKED"},
                      NEW g \in Asignables(p)
               PROVE  tabla'[p][g].presente
    BY DEF BloqueadoCompleto, Asignables
  <1>1. p # q /\ g \in Hojas /\ tabla[p][g].presente
    BY AsignablesSonHojas DEF BloqueadoCompleto
  <1> QED BY <1>1 DEF CambiaHoja

LEMMA BloqueadoCompletoPaso ==
  ASSUME TypeOK, Fases, SuspEnOrden, AltaEnOrden, BloqueadoCompleto,
         [Next]_vars
  PROVE  BloqueadoCompleto'
  <1>1. CASE AsignarPagina
    <2>1. UNCHANGED estado /\ estado[alta.pid] = "NEW"
      BY <1>1 DEF AsignarPagina, Fases, Entrantes, kernelVars
    <2>2. CASE alta.pag \in Asignables(alta.pid) /\ Libres # {}
      BY <1>1, <2>1, <2>2, TrasAsignarPagina, BloqueadoAjeno
    <2>3. CASE ~(alta.pag \in Asignables(alta.pid) /\ Libres # {})
      BY <1>1, <2>1, <2>3 DEF AsignarPagina, BloqueadoCompleto
    <2> QED BY <2>2, <2>3
  <1>2. CASE RegistrarProceso
    <2>1. /\ alta.pid \in Pids /\ UNCHANGED tabla
          /\ estado' = [estado EXCEPT ![alta.pid] = "READY"]
          /\ \A h \in Asignables(alta.pid) : tabla[alta.pid][h].presente
      BY <1>2 DEF RegistrarProceso, Fases, AltaEnOrden
    <2> QED BY <2>1 DEF BloqueadoCompleto, TypeOK, TipoKernel
  <1>3. CASE UbicarPagina
    <2>1. UNCHANGED estado /\ estado[alta.pid] = "SUSP_READY"
      BY <1>3 DEF UbicarPagina, Fases, Regresos, kernelVars
    <2> QED BY <1>3, <2>1, TrasUbicarPagina, BloqueadoAjeno
  <1>4. CASE ResponderTraer
    <2>1. /\ alta.pid \in Pids /\ UNCHANGED tabla
          /\ estado' = [estado EXCEPT ![alta.pid] = "READY"]
          /\ alta.pag \in Nat /\ alta.pag \notin Asignables(alta.pid)
          /\ \A h \in Asignables(alta.pid) :
               h < alta.pag => tabla[alta.pid][h].presente
      BY <1>4
      DEF ResponderTraer, Fases, AltaEnOrden, Regresos, procVars, TypeOK,
          TipoAlta
    <2>2. \A h \in Asignables(alta.pid) : h < alta.pag
      BY <2>1, AsignablesSonHojas, PaginasAssumption, CapacidadTipo
    <2> QED BY <2>1, <2>2 DEF BloqueadoCompleto, TypeOK, TipoKernel
  <1>5. CASE LiberarPagina
    <2>1. UNCHANGED estado /\ estado[baja.pid] = "EXIT"
      BY <1>5 DEF LiberarPagina, Fases, kernelVars
    <2> QED BY <1>5, <2>1, TrasLiberarPagina, BloqueadoAjeno
  <1>6. CASE ResponderBaja
    BY <1>6
    DEF ResponderBaja, BloqueadoCompleto, TypeOK, TipoKernel, Fases, procVars
  <1>7. ASSUME NEW p \in Pids, QuitarPresente(p) PROVE BloqueadoCompleto'
    <2>1. UNCHANGED estado /\ estado[p] = "SUSP_BLOCKED"
      BY <1>7 DEF QuitarPresente, Fases, kernelVars
    <2> QED BY <1>7, <2>1, TrasQuitarPresente, BloqueadoAjeno
  <1>8. ASSUME NEW p \in Pids, AnotarSlot(p) PROVE BloqueadoCompleto'
    <2>1. UNCHANGED estado /\ estado[p] = "SUSP_BLOCKED"
      BY <1>8 DEF AnotarSlot, Fases, kernelVars
    <2> QED BY <1>8, <2>1, TrasAnotarSlot, BloqueadoAjeno
  <1>9. ASSUME NEW p \in Pids, SoltarMarco(p) PROVE BloqueadoCompleto'
    <2>1. UNCHANGED estado /\ estado[p] = "SUSP_BLOCKED"
      BY <1>9 DEF SoltarMarco, Fases, kernelVars
    <2> QED BY <1>9, <2>1, TrasSoltarMarco, BloqueadoAjeno
  <1>10. ASSUME NEW p \in Pids, Bloquear(p) PROVE BloqueadoCompleto'
    BY <1>10
    DEF Bloquear, BloqueadoCompleto, TypeOK, TipoKernel, Fases, procVars
  <1>11. ASSUME NEW p \in Pids, PedirDump(p) PROVE BloqueadoCompleto'
    BY <1>11
    DEF PedirDump, BloqueadoCompleto, TypeOK, TipoKernel, Fases, procVars
  <1>12. ASSUME NEW p \in Pids, Suspender(p) PROVE BloqueadoCompleto'
    BY <1>12
    DEF Suspender, BloqueadoCompleto, TypeOK, TipoKernel, Fases, procVars
  <1>13. ASSUME NEW p \in Pids, Desbloquear(p) PROVE BloqueadoCompleto'
    BY <1>13
    DEF Desbloquear, BloqueadoCompleto, TypeOK, TipoKernel, Fases, procVars
  <1>14. ASSUME NEW p \in Pids, Finalizar(p) PROVE BloqueadoCompleto'
    BY <1>14
    DEF Finalizar, BloqueadoCompleto, TypeOK, TipoKernel, Fases, procVars
  <1> QED
    BY <1>1, <1>2, <1>3, <1>4, <1>5, <1>6, <1>7, <1>8, <1>9, <1>10, <1>11,
       <1>12, <1>13, <1>14, QuienEstado, QuienTabla
    DEF BloqueadoCompleto

-----------------------------------------------------------------------------
\* The swap file has what the tables say.

LEMMA GrabadosCambio ==
  ASSUME SlotsGrabados, UNCHANGED swap, NEW q \in Pids,
         \A p \in Pids : susp'[p].slot # NADA => susp'[p].slot = susp[p].slot,
         NEW h \in Hojas, NEW a, NEW m, NEW s, CambiaHoja(q, h, a, m, s),
         s # NADA => s \in DOMAIN swap
  PROVE  SlotsGrabados'
  <1>1. ASSUME NEW p \in Pids, NEW g \in Hojas, tabla'[p][g].slot # NADA
        PROVE  tabla'[p][g].slot \in DOMAIN swap
    <2>1. CASE p = q /\ g = h
      BY <1>1, <2>1 DEF CambiaHoja
    <2>2. CASE p # q \/ g # h
      BY <1>1, <2>2 DEF CambiaHoja, SlotsGrabados
    <2> QED BY <2>1, <2>2
  <1> QED BY <1>1 DEF SlotsGrabados

LEMMA GrabadosSusp ==
  ASSUME SlotsGrabados, UNCHANGED <<tabla, swap>>,
         \A p \in Pids : susp'[p].slot # NADA => susp'[p].slot = susp[p].slot
  PROVE  SlotsGrabados'
  BY DEF SlotsGrabados

LEMMA SlotsGrabadosPaso ==
  ASSUME ~SwapSeTrunca, TypeOK, Fases, HojasEnOrden, SuspEnOrden, AltaEnOrden,
         SlotsGrabados, [Next]_vars
  PROVE  SlotsGrabados'
  <1>1. CASE AsignarPagina
    <2>1. UNCHANGED <<susp, swap>>
      BY <1>1 DEF AsignarPagina, swapVars
    <2>2. CASE alta.pag \in Asignables(alta.pid) /\ Libres # {}
      BY <1>1, <2>1, <2>2, TrasAsignarPagina, GrabadosCambio
    <2>3. CASE ~(alta.pag \in Asignables(alta.pid) /\ Libres # {})
      BY <1>1, <2>1, <2>3 DEF AsignarPagina, SlotsGrabados
    <2> QED BY <2>2, <2>3
  <1>2. CASE UbicarPagina
    <2>1. UNCHANGED <<susp, swap>>
      BY <1>2 DEF UbicarPagina, swapVars
    <2> QED BY <1>2, <2>1, TrasUbicarPagina, GrabadosCambio
  <1>3. CASE SoltarSlot
    BY <1>3 DEF SoltarSlot, SlotsGrabados, procVars
  <1>4. CASE LiberarPagina
    <2>1. UNCHANGED <<susp, swap>>
      BY <1>4 DEF LiberarPagina, swapVars
    <2> QED BY <1>4, <2>1, TrasLiberarPagina, GrabadosCambio
  <1>5. ASSUME NEW p \in Pids, TomarSuspension(p) PROVE SlotsGrabados'
    <2>1. /\ UNCHANGED <<tabla, swap>>
          /\ \A q \in Pids :
               susp'[q].slot # NADA => susp'[q].slot = susp[q].slot
      BY <1>5
      DEF TomarSuspension, swapVars, procVars, TypeOK, TipoSusp, SinSusp
    <2> QED BY <2>1, GrabadosSusp
  <1>6. ASSUME NEW p \in Pids, EscribirEnSwap(p) PROVE SlotsGrabados'
    <2>1. /\ UNCHANGED tabla /\ susp[p].pag \in Hojas
      BY <1>6, AsignablesSonHojas DEF EscribirEnSwap, procVars
    <2>2. CASE /\ susp' = [susp EXCEPT ![p].pag = susp[p].pag + 1]
               /\ UNCHANGED swap
      <3>1. \A q \in Pids : susp'[q].slot = susp[q].slot
        BY <2>2 DEF TypeOK, TipoSusp
      <3> QED BY <2>1, <2>2, <3>1, GrabadosSusp
    <2> DEFINE m == tabla[p][susp[p].pag].marco
    <2>3. CASE /\ tabla[p][susp[p].pag].presente
               /\ susp' = [susp EXCEPT ![p].pc = "escrita",
                                       ![p].slot = SlotLibre]
               /\ GrabarEnSwap(contenido[m], SlotLibre)
      <3>1. contenido[m] \in Datos
        BY <2>1, <2>3, HojaTipo
        DEF HojasEnOrden, HojaEnOrden, TypeOK, TipoMarcos
      <3>2. DOMAIN swap' = DOMAIN swap \cup {SlotLibre}
        BY <2>3, <3>1, GrabarTipo DEF TypeOK
      <3>3. /\ susp'[p].slot = SlotLibre
            /\ \A q \in Pids : q # p => susp'[q] = susp[q]
        BY <2>3 DEF TypeOK, TipoSusp
      <3> QED BY <2>1, <3>2, <3>3 DEF SlotsGrabados
    <2> QED BY <1>6, <2>2, <2>3, TrasEscribirEnSwap DEF TypeOK
  <1>7. ASSUME NEW p \in Pids, QuitarPresente(p) PROVE SlotsGrabados'
    <2>1. /\ UNCHANGED swap
          /\ \A q \in Pids :
               susp'[q].slot # NADA => susp'[q].slot = susp[q].slot
      BY <1>7 DEF QuitarPresente, swapVars, TypeOK, TipoSusp
    <2>2. /\ susp[p].pag \in Hojas
          /\ tabla[p][susp[p].pag].slot # NADA =>
                tabla[p][susp[p].pag].slot \in DOMAIN swap
      BY <1>7, TrasQuitarPresente DEF SlotsGrabados
    <2> QED BY <1>7, <2>1, <2>2, TrasQuitarPresente, GrabadosCambio
  <1>8. ASSUME NEW p \in Pids, AnotarSlot(p) PROVE SlotsGrabados'
    <2>1. /\ UNCHANGED swap
          /\ \A q \in Pids :
               susp'[q].slot # NADA => susp'[q].slot = susp[q].slot
      BY <1>8 DEF AnotarSlot, swapVars, TypeOK, TipoSusp
    <2>2. /\ susp[p].pag \in Hojas
          /\ susp[p].slot # NADA =>
                susp[p].slot \in DOMAIN swap
      BY <1>8, TrasAnotarSlot DEF SlotsGrabados
    <2> QED BY <1>8, <2>1, <2>2, TrasAnotarSlot, GrabadosCambio
  <1>9. ASSUME NEW p \in Pids, SoltarMarco(p) PROVE SlotsGrabados'
    <2>1. /\ UNCHANGED swap
          /\ \A q \in Pids :
               susp'[q].slot # NADA => susp'[q].slot = susp[q].slot
      BY <1>9 DEF SoltarMarco, swapVars, TypeOK, TipoSusp
    <2>2. /\ susp[p].pag \in Hojas
          /\ tabla[p][susp[p].pag].slot # NADA =>
                tabla[p][susp[p].pag].slot \in DOMAIN swap
      BY <1>9, TrasSoltarMarco DEF SlotsGrabados
    <2> QED BY <1>9, <2>1, <2>2, TrasSoltarMarco, GrabadosCambio
  <1>10. ASSUME NEW p \in Pids, ResponderSuspension(p) PROVE SlotsGrabados'
    <2>1. /\ UNCHANGED <<tabla, swap>>
          /\ \A q \in Pids :
               susp'[q].slot # NADA => susp'[q].slot = susp[q].slot
      BY <1>10
      DEF ResponderSuspension, swapVars, procVars, TypeOK, TipoSusp, SinSusp
    <2> QED BY <2>1, GrabadosSusp
  <1>11. ASSUME NEW p \in Pids, Suspender(p) PROVE SlotsGrabados'
    <2>1. /\ UNCHANGED <<tabla, swap>>
          /\ \A q \in Pids :
               susp'[q].slot # NADA => susp'[q].slot = susp[q].slot
      BY <1>11 DEF Suspender, swapVars, procVars, TypeOK, TipoSusp, SinSusp
    <2> QED BY <2>1, GrabadosSusp
  <1> QED
    BY <1>1, <1>2, <1>3, <1>4, <1>5, <1>6, <1>7, <1>8, <1>9, <1>10, <1>11,
       QuienTabla, QuienSusp, QuienSwap
    DEF SlotsGrabados, swapVars

-----------------------------------------------------------------------------
\* Frames have one owner, and the bitmap marks those that have one.

\* The planner holds a marked frame that no entry names yet.
EnVuelo == alta.pc \in {"lee", "ubica"}

\* MarcosPropios, frame by frame.
MarcosEnOrden ==
    /\ \A p \in Pids : \A h \in Hojas :
         tabla[p][h].marco # NADA => tabla[p][h].marco \in bitmap
    /\ EnVuelo =>
         /\ alta.marco \in bitmap
         /\ \A p \in Pids : \A h \in Hojas : tabla[p][h].marco # alta.marco
    /\ \A m \in bitmap :
         \/ \E p \in Pids : \E h \in Hojas : tabla[p][h].marco = m
         \/ EnVuelo /\ alta.marco = m
    /\ \A p, q \in Pids : \A h, g \in Hojas :
         tabla[p][h].marco = tabla[q][g].marco /\ tabla[p][h].marco # NADA =>
             p = q /\ h = g

LEMMA MarcoQueda ==
  ASSUME MarcosEnOrden, UNCHANGED <<bitmap, alta>>, NEW p \in Pids,
         NEW h \in Hojas, NEW a, NEW s,
         CambiaHoja(p, h, a, tabla[p][h].marco, s)
  PROVE  MarcosEnOrden'
  <1>1. \A q \in Pids : \A g \in Hojas : tabla'[q][g].marco = tabla[q][g].marco
    BY DEF CambiaHoja
  <1> QED BY <1>1 DEF MarcosEnOrden, EnVuelo

LEMMA MarcoSale ==
  ASSUME MarcosEnOrden, TipoMarcos, UNCHANGED alta, NEW p \in Pids,
         NEW h \in Hojas, NEW a, NEW s, CambiaHoja(p, h, a, NADA, s),
         bitmap' = bitmap \ {tabla[p][h].marco}
  PROVE  MarcosEnOrden'
  <1> DEFINE n == tabla[p][h].marco
  <1>1. /\ tabla'[p][h].marco = NADA
        /\ \A q \in Pids : \A g \in Hojas :
             p # q \/ h # g => tabla'[q][g].marco = tabla[q][g].marco
    BY DEF CambiaHoja
  <1>2. \A q \in Pids : \A g \in Hojas :
          tabla'[q][g].marco # NADA =>
             tabla'[q][g].marco = tabla[q][g].marco /\ (p # q \/ h # g)
    BY <1>1
  <1>3. NADA \notin bitmap
    BY NadaAparte DEF TipoMarcos
  <1>4. \A q \in Pids : \A g \in Hojas :
          tabla'[q][g].marco # NADA => tabla'[q][g].marco \in bitmap'
    BY <1>2 DEF MarcosEnOrden
  <1>5. EnVuelo' =>
          /\ alta'.marco \in bitmap'
          /\ \A q \in Pids : \A g \in Hojas : tabla'[q][g].marco # alta'.marco
    BY <1>1, <1>2, <1>3 DEF MarcosEnOrden, EnVuelo
  <1>6. ASSUME NEW m \in bitmap'
        PROVE  \/ \E q \in Pids : \E g \in Hojas : tabla'[q][g].marco = m
               \/ EnVuelo' /\ alta'.marco = m
    <2>1. m \in bitmap /\ m # n /\ m # NADA
      BY <1>3
    <2>2. CASE EnVuelo /\ alta.marco = m
      BY <2>2 DEF EnVuelo
    <2>3. CASE \E q \in Pids : \E g \in Hojas : tabla[q][g].marco = m
      BY <1>1, <2>1, <2>3
    <2> QED BY <2>1, <2>2, <2>3 DEF MarcosEnOrden
  <1>7. \A q, r \in Pids : \A f, g \in Hojas :
          tabla'[q][f].marco = tabla'[r][g].marco /\ tabla'[q][f].marco # NADA
             => q = r /\ f = g
    BY <1>2 DEF MarcosEnOrden
  <1> QED BY <1>4, <1>5, <1>6, <1>7 DEF MarcosEnOrden

LEMMA MarcoEntra ==
  ASSUME MarcosEnOrden, TipoMarcos, NEW p \in Pids, NEW h \in Hojas,
         NEW a, NEW m \in Marcos, NEW s, CambiaHoja(p, h, a, m, s),
         tabla[p][h].marco = NADA, bitmap' = bitmap \cup {m},
         \A q \in Pids : \A g \in Hojas : tabla[q][g].marco # m,
         EnVuelo => alta.marco = m, ~EnVuelo'
  PROVE  MarcosEnOrden'
  <1>1. /\ tabla'[p][h].marco = m
        /\ \A q \in Pids : \A g \in Hojas :
             p # q \/ h # g => tabla'[q][g].marco = tabla[q][g].marco
    BY DEF CambiaHoja
  <1>3. NADA \notin bitmap /\ m # NADA
    BY NadaAparte DEF TipoMarcos
  <1>4. \A q \in Pids : \A g \in Hojas :
          tabla'[q][g].marco # NADA => tabla'[q][g].marco \in bitmap'
    BY <1>1 DEF MarcosEnOrden
  <1>6. ASSUME NEW k \in bitmap'
        PROVE  \E q \in Pids : \E g \in Hojas : tabla'[q][g].marco = k
    <2>1. CASE k = m
      BY <1>1, <2>1
    <2>2. CASE k # m
      <3>1. k \in bitmap /\ k # NADA /\ ~(EnVuelo /\ alta.marco = k)
        BY <1>3, <2>2
      <3>2. PICK q \in Pids : \E g \in Hojas : tabla[q][g].marco = k
        BY <3>1 DEF MarcosEnOrden
      <3>3. PICK g \in Hojas : tabla[q][g].marco = k
        BY <3>2
      <3>4. p # q \/ h # g
        BY <3>1, <3>3
      <3> QED BY <1>1, <3>3, <3>4
    <2> QED BY <2>1, <2>2
  <1>7. ASSUME NEW q \in Pids, NEW r \in Pids, NEW f \in Hojas,
               NEW g \in Hojas, tabla'[q][f].marco = tabla'[r][g].marco,
               tabla'[q][f].marco # NADA
        PROVE  q = r /\ f = g
    <2>1. CASE q = p /\ f = h
      BY <1>1, <1>7, <2>1
    <2>2. CASE r = p /\ g = h
      BY <1>1, <1>7, <2>2
    <2>3. CASE (q # p \/ f # h) /\ (r # p \/ g # h)
      BY <1>1, <1>7, <2>3 DEF MarcosEnOrden
    <2> QED BY <2>1, <2>2, <2>3
  <1> QED BY <1>4, <1>6, <1>7 DEF MarcosEnOrden

LEMMA MarcosMismos ==
  ASSUME MarcosEnOrden, UNCHANGED <<tabla, bitmap>>, (EnVuelo' <=> EnVuelo),
         EnVuelo => alta'.marco = alta.marco
  PROVE  MarcosEnOrden'
  BY DEF MarcosEnOrden

LEMMA MarcosEnOrdenPaso ==
  ASSUME TypeOK, Fases, HojasEnOrden, SuspEnOrden, AltaEnOrden, NuevosVacios,
         MarcosEnOrden, [Next]_vars
  PROVE  MarcosEnOrden'
  <1>1. CASE CrearProceso
    <2>1. /\ UNCHANGED <<tabla, bitmap>> /\ (EnVuelo' <=> EnVuelo)
          /\ EnVuelo => alta'.marco = alta.marco
      BY <1>1 DEF CrearProceso, EnVuelo, TypeOK, TipoAlta, SinAlta, procVars,
         marcoVars, PlanificadorLibre
    <2> QED BY <2>1, MarcosMismos
  <1>2. CASE AsignarPagina
    <2>1. /\ alta.pid \in Pids /\ alta.pc = "asigna" /\ alta.pag \in Nat
          /\ estado[alta.pid] = "NEW" /\ ~EnVuelo /\ ~EnVuelo'
      BY <1>2, TrasAsignarPaginaAlta
      DEF Fases, Entrantes, TypeOK, TipoAlta, EnVuelo
    <2>2. CASE alta.pag \in Asignables(alta.pid) /\ Libres # {}
      <3> DEFINE m == Menor(Libres)
      <3>1. /\ alta.pag \in Hojas /\ m \in Libres /\ m \in Marcos
            /\ bitmap' = bitmap \cup {m}
            /\ CambiaHoja(alta.pid, alta.pag, TRUE, m, NADA)
        BY <1>2, <2>2, TrasAsignarPagina
      <3> HIDE DEF m
      <3>2. tabla[alta.pid][alta.pag].marco = NADA
        BY <2>1, <3>1 DEF NuevosVacios, Vacio
      <3>3. \A q \in Pids : \A g \in Hojas : tabla[q][g].marco # m
        BY <3>1, NadaAparte DEF MarcosEnOrden, Libres
      <3> QED BY <2>1, <3>1, <3>2, <3>3, MarcoEntra DEF TypeOK
    <2>3. CASE ~(alta.pag \in Asignables(alta.pid) /\ Libres # {})
      <3>1. UNCHANGED <<tabla, bitmap>>
        BY <1>2, <2>3 DEF AsignarPagina
      <3> QED BY <2>1, <3>1, MarcosMismos
    <2> QED BY <2>2, <2>3
  <1>3. CASE RegistrarProceso
    <2>1. /\ UNCHANGED <<tabla, bitmap>> /\ (EnVuelo' <=> EnVuelo)
          /\ EnVuelo => alta'.marco = alta.marco
      BY <1>3
      DEF RegistrarProceso, EnVuelo, TypeOK, TipoAlta, SinAlta, procVars,
          marcoVars, PlanificadorLibre
    <2> QED BY <2>1, MarcosMismos
  <1>4. CASE BuscarMarco
    <2>1. /\ UNCHANGED <<tabla, bitmap>> /\ (EnVuelo' <=> EnVuelo)
          /\ EnVuelo => alta'.marco = alta.marco
      BY <1>4 DEF BuscarMarco, EnVuelo, TypeOK, TipoAlta, SinAlta, procVars,
         marcoVars, PlanificadorLibre
    <2> QED BY <2>1, MarcosMismos
  <1>5. CASE OcuparMarco
    <2>1. /\ UNCHANGED tabla /\ bitmap' = bitmap \cup {alta.marco}
          /\ alta'.marco = alta.marco /\ ~EnVuelo /\ EnVuelo'
      BY <1>5 DEF OcuparMarco, EnVuelo, TypeOK, TipoAlta, procVars
    <2>2. alta.marco \notin bitmap /\ alta.marco # NADA
      BY <1>5, NadaAparte DEF OcuparMarco, AltaEnOrden, Libres
    <2>3. \A q \in Pids : \A g \in Hojas : tabla[q][g].marco # alta.marco
      BY <2>2 DEF MarcosEnOrden
    <2> QED BY <2>1, <2>3 DEF MarcosEnOrden
  <1>6. CASE TraerDeSwap
    <2>1. /\ UNCHANGED <<tabla, bitmap>> /\ (EnVuelo' <=> EnVuelo)
          /\ EnVuelo => alta'.marco = alta.marco
      BY <1>6 DEF TraerDeSwap, EnVuelo, TypeOK, TipoAlta, SinAlta, procVars,
         marcoVars, PlanificadorLibre
    <2> QED BY <2>1, MarcosMismos
  <1>7. CASE UbicarPagina
    <2>1. /\ alta.pid \in Pids /\ alta.pag \in Hojas /\ alta.marco \in Marcos
          /\ CambiaHoja(alta.pid, alta.pag, TRUE, alta.marco, NADA)
      BY <1>7, TrasUbicarPagina
    <2>2. /\ alta.pc = "ubica" /\ EnVuelo /\ UNCHANGED bitmap
          /\ susp[alta.pid].pc = "no"
      BY <1>7 DEF UbicarPagina, EnVuelo, Fases, Regresos, marcoVars
    <2>3. ~EnVuelo'
      BY <1>7 DEF UbicarPagina, EnVuelo, TypeOK, TipoAlta
    <2>4. tabla[alta.pid][alta.pag].marco = NADA
      BY <2>1, <2>2 DEF AltaEnOrden, HojasEnOrden, HojaEnOrden
    <2>5. /\ bitmap' = bitmap \cup {alta.marco}
          /\ \A q \in Pids : \A g \in Hojas : tabla[q][g].marco # alta.marco
      BY <2>2 DEF MarcosEnOrden
    <2> QED BY <2>1, <2>3, <2>4, <2>5, MarcoEntra DEF TypeOK
  <1>8. CASE SoltarSlot
    <2>1. /\ UNCHANGED <<tabla, bitmap>> /\ (EnVuelo' <=> EnVuelo)
          /\ EnVuelo => alta'.marco = alta.marco
      BY <1>8, TrasSoltarSlot
      DEF SoltarSlot, EnVuelo, TypeOK, TipoAlta, SinAlta, procVars, marcoVars,
          PlanificadorLibre
    <2> QED BY <2>1, MarcosMismos
  <1>9. CASE ResponderTraer
    <2>1. /\ UNCHANGED <<tabla, bitmap>> /\ (EnVuelo' <=> EnVuelo)
          /\ EnVuelo => alta'.marco = alta.marco
      BY <1>9 DEF ResponderTraer, EnVuelo, TypeOK, TipoAlta, SinAlta, procVars,
         marcoVars, PlanificadorLibre
    <2> QED BY <2>1, MarcosMismos
  <1>10. CASE LiberarPagina
    <2>1. /\ baja.pid \in Pids /\ baja.pag \in Hojas
          /\ CambiaHoja(baja.pid, baja.pag, FALSE, NADA, NADA)
      BY <1>10, TrasLiberarPagina
    <2>2. UNCHANGED alta /\ susp[baja.pid].pc = "no"
      BY <1>10 DEF LiberarPagina, Fases
    <2> DEFINE m == tabla[baja.pid][baja.pag].marco
    <2>3. CASE tabla[baja.pid][baja.pag].presente
      <3>1. bitmap' = bitmap \ {m}
        BY <1>10, <2>3 DEF LiberarPagina
      <3> QED BY <2>1, <2>2, <3>1, MarcoSale DEF TypeOK
    <2>4. CASE ~tabla[baja.pid][baja.pag].presente
      <3>1. bitmap' = bitmap /\ m = NADA
        BY <1>10, <2>1, <2>2, <2>4 DEF LiberarPagina, HojasEnOrden, HojaEnOrden
      <3>2. bitmap' = bitmap \ {m}
        BY <3>1, NadaAparte DEF TypeOK, TipoMarcos
      <3> QED BY <2>1, <2>2, <3>2, MarcoSale DEF TypeOK
    <2> QED BY <2>3, <2>4
  <1>11. ASSUME NEW p \in Pids, ContarParaAlta(p) PROVE MarcosEnOrden'
    <2>1. /\ UNCHANGED <<tabla, bitmap>> /\ (EnVuelo' <=> EnVuelo)
          /\ EnVuelo => alta'.marco = alta.marco
      BY <1>11, TrasContarParaAlta
      DEF ContarParaAlta, EnVuelo, TypeOK, TipoAlta, SinAlta, procVars,
          marcoVars, PlanificadorLibre
    <2> QED BY <2>1, MarcosMismos
  <1>12. ASSUME NEW p \in Pids, ContarParaTraer(p) PROVE MarcosEnOrden'
    <2>1. /\ UNCHANGED <<tabla, bitmap>> /\ (EnVuelo' <=> EnVuelo)
          /\ EnVuelo => alta'.marco = alta.marco
      BY <1>12, TrasContarParaTraer
      DEF ContarParaTraer, EnVuelo, TypeOK, TipoAlta, SinAlta, procVars,
          marcoVars, PlanificadorLibre
    <2> QED BY <2>1, MarcosMismos
  <1>13. ASSUME NEW p \in Pids, QuitarPresente(p) PROVE MarcosEnOrden'
    <2>1. UNCHANGED <<bitmap, alta>>
      BY <1>13 DEF QuitarPresente, marcoVars
    <2> QED BY <1>13, <2>1, TrasQuitarPresente, MarcoQueda
  <1>14. ASSUME NEW p \in Pids, AnotarSlot(p) PROVE MarcosEnOrden'
    <2>1. UNCHANGED <<bitmap, alta>>
      BY <1>14 DEF AnotarSlot, marcoVars
    <2> QED BY <1>14, <2>1, TrasAnotarSlot, MarcoQueda
  <1>15. ASSUME NEW p \in Pids, SoltarMarco(p) PROVE MarcosEnOrden'
    <2>1. /\ bitmap' = bitmap \ {tabla[p][susp[p].pag].marco}
          /\ UNCHANGED alta
      BY <1>15 DEF SoltarMarco
    <2> QED BY <1>15, <2>1, TrasSoltarMarco, MarcoSale DEF TypeOK
  <1> QED
    BY <1>1, <1>2, <1>3, <1>4, <1>5, <1>6, <1>7, <1>8, <1>9, <1>10, <1>11,
       <1>12, <1>13, <1>14, <1>15, QuienAlta, QuienTabla, QuienMarcos
    DEF MarcosEnOrden, EnVuelo

-----------------------------------------------------------------------------
\* Slots have one owner, and the bitmap marks those that have one.

\* SlotsPropios, slot by slot; the slot the planner is giving back is marked.
SlotsEnOrden ==
    /\ \A p \in Pids : \A h \in Hojas : tabla[p][h].slot # NADA =>
         /\ tabla[p][h].slot \in bitsSwap /\ tabla[p][h].slot # alta.slot
         /\ \A q \in Pids : tabla[p][h].slot # susp[q].slot
    /\ \A p \in Pids : susp[p].slot # NADA =>
         susp[p].slot \in bitsSwap /\ susp[p].slot # alta.slot
    /\ alta.slot # NADA => alta.slot \in bitsSwap
    /\ \A p, q \in Pids : \A h, g \in Hojas :
         tabla[p][h].slot = tabla[q][g].slot /\ tabla[p][h].slot # NADA =>
             p = q /\ h = g
    /\ \A p, q \in Pids :
         susp[p].slot = susp[q].slot /\ susp[p].slot # NADA => p = q

LEMMA SlotsQuedan ==
  ASSUME SlotsEnOrden,
         \A p \in Pids : \A h \in Hojas :
            tabla'[p][h].slot # NADA => tabla'[p][h].slot = tabla[p][h].slot,
         \A p \in Pids :
            susp'[p].slot # NADA => susp'[p].slot = susp[p].slot,
         alta'.slot # NADA => alta'.slot = alta.slot,
         NEW x, bitsSwap' = bitsSwap \ {x},
         \A p \in Pids : \A h \in Hojas :
            tabla'[p][h].slot # NADA => tabla'[p][h].slot # x,
         \A p \in Pids : susp'[p].slot # NADA => susp'[p].slot # x,
         alta'.slot # NADA => alta'.slot # x
  PROVE  SlotsEnOrden'
  <1>1. ASSUME NEW p \in Pids, NEW h \in Hojas, tabla'[p][h].slot # NADA
        PROVE  /\ tabla'[p][h].slot \in bitsSwap'
               /\ tabla'[p][h].slot # alta'.slot
               /\ \A q \in Pids : tabla'[p][h].slot # susp'[q].slot
    BY <1>1 DEF SlotsEnOrden
  <1>2. ASSUME NEW p \in Pids, susp'[p].slot # NADA
        PROVE  susp'[p].slot \in bitsSwap' /\ susp'[p].slot # alta'.slot
    BY <1>2 DEF SlotsEnOrden
  <1>3. alta'.slot # NADA => alta'.slot \in bitsSwap'
    BY DEF SlotsEnOrden
  <1>4. \A p, q \in Pids : \A h, g \in Hojas :
          tabla'[p][h].slot = tabla'[q][g].slot /\ tabla'[p][h].slot # NADA =>
             p = q /\ h = g
    BY DEF SlotsEnOrden
  <1>5. \A p, q \in Pids :
          susp'[p].slot = susp'[q].slot /\ susp'[p].slot # NADA => p = q
    BY DEF SlotsEnOrden
  <1> QED BY <1>1, <1>2, <1>3, <1>4, <1>5 DEF SlotsEnOrden

LEMMA SlotsMismos ==
  ASSUME SlotsEnOrden, TipoSwap, UNCHANGED bitsSwap,
         \A p \in Pids : \A h \in Hojas :
            tabla'[p][h].slot # NADA => tabla'[p][h].slot = tabla[p][h].slot,
         \A p \in Pids :
            susp'[p].slot # NADA => susp'[p].slot = susp[p].slot,
         alta'.slot # NADA => alta'.slot = alta.slot
  PROVE  SlotsEnOrden'
  <1>1. NADA \notin bitsSwap
    BY DEF TipoSwap, NADA
  <1>2. bitsSwap' = bitsSwap \ {NADA}
    BY <1>1
  <1> QED BY <1>2, SlotsQuedan

LEMMA SlotQuitado ==
  ASSUME NEW p \in Pids, NEW h \in Hojas, NEW a, NEW m, NEW s,
         CambiaHoja(p, h, a, m, s), s = NADA \/ s = tabla[p][h].slot
  PROVE  \A q \in Pids : \A g \in Hojas :
            tabla'[q][g].slot # NADA => tabla'[q][g].slot = tabla[q][g].slot
  BY DEF CambiaHoja

LEMMA SlotsEnOrdenPaso ==
  ASSUME TypeOK, Fases, HojasEnOrden, SuspEnOrden, AltaEnOrden, SlotsEnOrden,
         [Next]_vars
  PROVE  SlotsEnOrden'
  <1>1. CASE CrearProceso
    <2>1. /\ UNCHANGED <<tabla, susp, bitsSwap>>
          /\ alta'.slot # NADA => alta'.slot = alta.slot
      BY <1>1
      DEF CrearProceso, TypeOK, TipoAlta, SinAlta, procVars, swapVars
    <2> QED BY <2>1, SlotsMismos DEF TypeOK
  <1>2. CASE AsignarPagina
    <2>1. UNCHANGED <<susp, bitsSwap>> /\ alta'.slot = alta.slot
      BY <1>2, TrasAsignarPaginaAlta DEF AsignarPagina, TypeOK, swapVars
    <2>2. CASE alta.pag \in Asignables(alta.pid) /\ Libres # {}
      BY <1>2, <2>1, <2>2, TrasAsignarPagina, SlotQuitado, SlotsMismos
      DEF TypeOK
    <2>3. CASE ~(alta.pag \in Asignables(alta.pid) /\ Libres # {})
      <3>1. UNCHANGED tabla
        BY <1>2, <2>3 DEF AsignarPagina
      <3> QED BY <2>1, <3>1, SlotsMismos DEF TypeOK
    <2> QED BY <2>2, <2>3
  <1>3. CASE RegistrarProceso
    <2>1. /\ UNCHANGED <<tabla, susp, bitsSwap>>
          /\ alta'.slot # NADA => alta'.slot = alta.slot
      BY <1>3
      DEF RegistrarProceso, TypeOK, TipoAlta, SinAlta, procVars, swapVars
    <2> QED BY <2>1, SlotsMismos DEF TypeOK
  <1>4. CASE BuscarMarco
    <2>1. /\ UNCHANGED <<tabla, susp, bitsSwap>>
          /\ alta'.slot # NADA => alta'.slot = alta.slot
      BY <1>4
      DEF BuscarMarco, TypeOK, TipoAlta, SinAlta, procVars, swapVars
    <2> QED BY <2>1, SlotsMismos DEF TypeOK
  <1>5. CASE OcuparMarco
    <2>1. /\ UNCHANGED <<tabla, susp, bitsSwap>>
          /\ alta'.slot # NADA => alta'.slot = alta.slot
      BY <1>5
      DEF OcuparMarco, TypeOK, TipoAlta, SinAlta, procVars, swapVars
    <2> QED BY <2>1, SlotsMismos DEF TypeOK
  <1>6. CASE TraerDeSwap
    <2>1. /\ UNCHANGED <<tabla, susp, bitsSwap>>
          /\ alta'.slot # NADA => alta'.slot = alta.slot
      BY <1>6
      DEF TraerDeSwap, TypeOK, TipoAlta, SinAlta, procVars, swapVars
    <2> QED BY <2>1, SlotsMismos DEF TypeOK
  <1>7. CASE UbicarPagina
    <2> DEFINE s == tabla[alta.pid][alta.pag].slot
    <2>1. /\ alta.pid \in Pids /\ alta.pag \in Hojas
          /\ CambiaHoja(alta.pid, alta.pag, TRUE, alta.marco, NADA)
      BY <1>7, TrasUbicarPagina
    <2>2. /\ UNCHANGED <<susp, bitsSwap>>
          /\ alta' = [alta EXCEPT !.pc = "suelta", !.slot = s]
      BY <1>7 DEF UbicarPagina, swapVars
    <2>3. s \in bitsSwap
      BY <1>7, <2>1 DEF UbicarPagina, AltaEnOrden, SlotsEnOrden
    <2>4. \A p \in Pids : \A h \in Hojas : tabla'[p][h].slot # NADA =>
            tabla'[p][h].slot = tabla[p][h].slot /\ tabla'[p][h].slot # s
      BY <2>1 DEF CambiaHoja, SlotsEnOrden
    <2>5. \A p \in Pids : s # susp[p].slot
      BY <1>7, <2>1 DEF UbicarPagina, AltaEnOrden, SlotsEnOrden
    <2> HIDE DEF s
    <2>6. alta'.slot = s
      BY <2>2 DEF TypeOK, TipoAlta
    <2> QED BY <2>2, <2>3, <2>4, <2>5, <2>6 DEF SlotsEnOrden
  <1>8. CASE SoltarSlot
    <2>1. /\ UNCHANGED <<tabla, susp>> /\ alta'.slot = NADA
          /\ bitsSwap' = bitsSwap \ {alta.slot}
      BY <1>8, TrasSoltarSlot DEF SoltarSlot, TypeOK, procVars
    <2>2. /\ \A p \in Pids : \A h \in Hojas :
               tabla'[p][h].slot # NADA => tabla'[p][h].slot # alta.slot
          /\ \A p \in Pids :
               susp'[p].slot # NADA => susp'[p].slot # alta.slot
      BY <2>1 DEF SlotsEnOrden
    <2> QED BY <2>1, <2>2, SlotsQuedan
  <1>9. CASE ResponderTraer
    <2>1. /\ UNCHANGED <<tabla, susp, bitsSwap>>
          /\ alta'.slot # NADA => alta'.slot = alta.slot
      BY <1>9
      DEF ResponderTraer, TypeOK, TipoAlta, SinAlta, procVars, swapVars
    <2> QED BY <2>1, SlotsMismos DEF TypeOK
  <1>10. CASE LiberarPagina
    <2>1. /\ baja.pid \in Pids /\ baja.pag \in Hojas
          /\ CambiaHoja(baja.pid, baja.pag, FALSE, NADA, NADA)
      BY <1>10, TrasLiberarPagina
    <2> DEFINE s == tabla[baja.pid][baja.pag].slot
    <2>2. UNCHANGED <<alta, susp>>
      BY <1>10 DEF LiberarPagina
    <2>3. \A p \in Pids : \A h \in Hojas : tabla'[p][h].slot # NADA =>
            tabla'[p][h].slot = tabla[p][h].slot /\ tabla'[p][h].slot # s
      BY <2>1 DEF CambiaHoja, SlotsEnOrden
    <2>4. CASE bitsSwap' = bitsSwap
      BY <2>2, <2>3, <2>4, SlotsMismos DEF TypeOK
    <2>5. CASE bitsSwap' = bitsSwap \ {s}
      <3>1. /\ \A p \in Pids : susp[p].slot # NADA => susp[p].slot # s
            /\ alta.slot # NADA => alta.slot # s
        BY <2>1 DEF SlotsEnOrden
      <3> HIDE DEF s
      <3> QED BY <2>2, <2>3, <2>5, <3>1, SlotsQuedan
    <2> QED BY <1>10, <2>4, <2>5 DEF LiberarPagina
  <1>11. ASSUME NEW p \in Pids, ContarParaAlta(p) PROVE SlotsEnOrden'
    <2>1. /\ UNCHANGED <<tabla, susp, bitsSwap>>
          /\ alta'.slot # NADA => alta'.slot = alta.slot
      BY <1>11, TrasContarParaAlta
      DEF ContarParaAlta, TypeOK, TipoAlta, SinAlta, procVars, swapVars
    <2> QED BY <2>1, SlotsMismos DEF TypeOK
  <1>12. ASSUME NEW p \in Pids, ContarParaTraer(p) PROVE SlotsEnOrden'
    <2>1. /\ UNCHANGED <<tabla, susp, bitsSwap>>
          /\ alta'.slot # NADA => alta'.slot = alta.slot
      BY <1>12, TrasContarParaTraer
      DEF ContarParaTraer, TypeOK, TipoAlta, SinAlta, procVars, swapVars
    <2> QED BY <2>1, SlotsMismos DEF TypeOK
  <1>13. ASSUME NEW p \in Pids, TomarSuspension(p) PROVE SlotsEnOrden'
    <2>1. /\ UNCHANGED <<tabla, alta, bitsSwap>>
          /\ \A q \in Pids :
               susp'[q].slot # NADA => susp'[q].slot = susp[q].slot
      BY <1>13
      DEF TomarSuspension, swapVars, procVars, TypeOK, TipoSusp, SinSusp
    <2> QED BY <2>1, SlotsMismos DEF TypeOK
  <1>14. ASSUME NEW p \in Pids, EscribirEnSwap(p) PROVE SlotsEnOrden'
    <2>1. /\ UNCHANGED <<tabla, alta>> /\ susp[p].pag \in Hojas
      BY <1>14, AsignablesSonHojas DEF EscribirEnSwap, procVars
    <2>2. CASE /\ susp' = [susp EXCEPT ![p].pag = susp[p].pag + 1]
               /\ UNCHANGED bitsSwap
      <3>1. \A q \in Pids : susp'[q].slot = susp[q].slot
        BY <2>2 DEF TypeOK, TipoSusp
      <3> QED BY <2>1, <2>2, <3>1, SlotsMismos DEF TypeOK
    <2> DEFINE m == tabla[p][susp[p].pag].marco
    <2>3. CASE /\ tabla[p][susp[p].pag].presente
               /\ susp' = [susp EXCEPT ![p].pc = "escrita",
                                       ![p].slot = SlotLibre]
               /\ GrabarEnSwap(contenido[m], SlotLibre)
      <3> DEFINE s == SlotLibre
      <3>1. contenido[m] \in Datos
        BY <2>1, <2>3, HojaTipo
        DEF HojasEnOrden, HojaEnOrden, TypeOK, TipoMarcos
      <3>2. bitsSwap \subseteq bitsSwap' /\ s \in bitsSwap'
        BY <2>3, <3>1, GrabarTipo DEF TypeOK
      <3>3. s \notin bitsSwap /\ s # NADA
        BY SlotLibreEsLibre, NadaAparte DEF TypeOK, TipoSwap
      <3>4. /\ susp'[p].slot = s
            /\ \A q \in Pids : q # p => susp'[q] = susp[q]
        BY <2>3 DEF TypeOK, TipoSusp
      <3> HIDE DEF s, m
      <3>5. /\ \A q \in Pids : \A g \in Hojas : tabla[q][g].slot # s
            /\ \A q \in Pids : susp[q].slot # s
            /\ alta.slot # s
        BY <3>3 DEF SlotsEnOrden
      <3>6. ASSUME NEW q \in Pids, NEW g \in Hojas, tabla'[q][g].slot # NADA
            PROVE  /\ tabla'[q][g].slot \in bitsSwap'
                   /\ tabla'[q][g].slot # alta'.slot
                   /\ \A r \in Pids : tabla'[q][g].slot # susp'[r].slot
        BY <2>1, <3>2, <3>4, <3>5, <3>6 DEF SlotsEnOrden
      <3>7. /\ \A q \in Pids : susp'[q].slot # NADA =>
                  susp'[q].slot \in bitsSwap' /\ susp'[q].slot # alta'.slot
            /\ alta'.slot # NADA => alta'.slot \in bitsSwap'
        BY <2>1, <3>2, <3>4, <3>5 DEF SlotsEnOrden
      <3>8. /\ \A q, r \in Pids :
                  susp'[q].slot = susp'[r].slot /\ susp'[q].slot # NADA =>
                     q = r
        BY <3>4, <3>5 DEF SlotsEnOrden
      <3>9. \A q, r \in Pids : \A f, g \in Hojas :
              tabla'[q][f].slot = tabla'[r][g].slot
              /\ tabla'[q][f].slot # NADA => q = r /\ f = g
        BY <2>1 DEF SlotsEnOrden
      <3> QED BY <3>6, <3>7, <3>8, <3>9 DEF SlotsEnOrden
    <2> QED BY <1>14, <2>2, <2>3, TrasEscribirEnSwap DEF TypeOK
  <1>15. ASSUME NEW p \in Pids, QuitarPresente(p) PROVE SlotsEnOrden'
    <2>1. /\ UNCHANGED <<bitsSwap, alta>>
          /\ \A q \in Pids : susp'[q].slot = susp[q].slot
      BY <1>15 DEF QuitarPresente, swapVars, TypeOK, TipoSusp
    <2> QED BY <1>15, <2>1, TrasQuitarPresente, SlotQuitado, SlotsMismos
      DEF TypeOK
  <1>16. ASSUME NEW p \in Pids, AnotarSlot(p) PROVE SlotsEnOrden'
    <2> DEFINE h == susp[p].pag
    <2>1. UNCHANGED <<bitsSwap, alta>>
      BY <1>16 DEF AnotarSlot, swapVars
    <2>2. /\ susp'[p].slot = NADA
          /\ \A q \in Pids : q # p => susp'[q].slot = susp[q].slot
      <3>1. susp' = [susp EXCEPT ![p].pc = "anotada", ![p].slot = NADA]
        BY <1>16 DEF AnotarSlot
      <3> QED BY <3>1 DEF TypeOK, TipoSusp
    <2>3. /\ h \in Hojas /\ tabla'[p][h].slot = susp[p].slot
          /\ \A q \in Pids : \A g \in Hojas :
               q # p \/ g # h => tabla'[q][g].slot = tabla[q][g].slot
      BY <1>16, TrasAnotarSlot DEF CambiaHoja
    <2>4. susp[p].slot # NADA
      BY <1>16 DEF AnotarSlot, SuspEnOrden, SuspensionEnOrden
    <2> HIDE DEF h
    <2>5. ASSUME NEW q \in Pids, NEW g \in Hojas, tabla'[q][g].slot # NADA
          PROVE  /\ tabla'[q][g].slot \in bitsSwap'
                 /\ tabla'[q][g].slot # alta'.slot
                 /\ \A r \in Pids : tabla'[q][g].slot # susp'[r].slot
      <3>1. CASE q = p /\ g = h
        BY <2>1, <2>2, <2>3, <2>4, <3>1 DEF SlotsEnOrden
      <3>2. CASE q # p \/ g # h
        BY <2>1, <2>2, <2>3, <2>5, <3>2 DEF SlotsEnOrden
      <3> QED BY <3>1, <3>2
    <2>6. ASSUME NEW q \in Pids, NEW r \in Pids, NEW f \in Hojas,
                 NEW g \in Hojas, tabla'[q][f].slot = tabla'[r][g].slot,
                 tabla'[q][f].slot # NADA
          PROVE  q = r /\ f = g
      <3>1. CASE q = p /\ f = h
        BY <2>3, <2>6, <3>1 DEF SlotsEnOrden
      <3>2. CASE r = p /\ g = h
        BY <2>3, <2>6, <3>2 DEF SlotsEnOrden
      <3>3. CASE (q # p \/ f # h) /\ (r # p \/ g # h)
        BY <2>3, <2>6, <3>3 DEF SlotsEnOrden
      <3> QED BY <3>1, <3>2, <3>3
    <2>7. /\ \A q \in Pids : susp'[q].slot # NADA =>
                susp'[q].slot \in bitsSwap' /\ susp'[q].slot # alta'.slot
          /\ alta'.slot # NADA => alta'.slot \in bitsSwap'
          /\ \A q, r \in Pids :
                susp'[q].slot = susp'[r].slot /\ susp'[q].slot # NADA => q = r
      BY <2>1, <2>2 DEF SlotsEnOrden
    <2> QED BY <2>5, <2>6, <2>7 DEF SlotsEnOrden
  <1>17. ASSUME NEW p \in Pids, SoltarMarco(p) PROVE SlotsEnOrden'
    <2>1. /\ UNCHANGED <<bitsSwap, alta>>
          /\ \A q \in Pids : susp'[q].slot = susp[q].slot
      BY <1>17 DEF SoltarMarco, swapVars, TypeOK, TipoSusp
    <2> QED BY <1>17, <2>1, TrasSoltarMarco, SlotQuitado, SlotsMismos
      DEF TypeOK
  <1>18. ASSUME NEW p \in Pids, ResponderSuspension(p) PROVE SlotsEnOrden'
    <2>1. /\ UNCHANGED <<tabla, alta, bitsSwap>>
          /\ \A q \in Pids :
               susp'[q].slot # NADA => susp'[q].slot = susp[q].slot
      BY <1>18
      DEF ResponderSuspension, swapVars, procVars, TypeOK, TipoSusp, SinSusp
    <2> QED BY <2>1, SlotsMismos DEF TypeOK
  <1>19. ASSUME NEW p \in Pids, Suspender(p) PROVE SlotsEnOrden'
    <2>1. /\ UNCHANGED <<tabla, alta, bitsSwap>>
          /\ \A q \in Pids :
               susp'[q].slot # NADA => susp'[q].slot = susp[q].slot
      BY <1>19 DEF Suspender, swapVars, procVars, TypeOK, TipoSusp, SinSusp
    <2> QED BY <2>1, SlotsMismos DEF TypeOK
  <1> QED
    BY <1>1, <1>2, <1>3, <1>4, <1>5, <1>6, <1>7, <1>8, <1>9, <1>10, <1>11,
       <1>12, <1>13, <1>14, <1>15, <1>16, <1>17, <1>18, <1>19, QuienAlta,
       QuienTabla, QuienSusp, QuienSwap
    DEF SlotsEnOrden, swapVars

-----------------------------------------------------------------------------
\* The translations of the CPUs, for the writes they make.

\* The frame that a CPU writes in is that of the page it asked for: its process
\* is READY, and nothing moves the pages of one that is.
TraduccionEnOrden ==
    \A p \in Pids : cpu[p] # Nil =>
        /\ cpu[p].pag % Capacidad \in Asignables(p)
        /\ tabla[p][cpu[p].pag % Capacidad].presente
        /\ tabla[p][cpu[p].pag % Capacidad].marco = cpu[p].marco

LEMMA TraduccionAjena ==
  ASSUME TraduccionEnOrden, UNCHANGED cpu, NEW q \in Pids, cpu[q] = Nil,
         NEW h \in Hojas, NEW a, NEW m, NEW s, CambiaHoja(q, h, a, m, s)
  PROVE  TraduccionEnOrden'
  BY AsignablesSonHojas DEF TraduccionEnOrden, CambiaHoja

LEMMA RestoMenor ==
  ASSUME NEW k \in Nat, NEW c \in Nat, k % c \in Nat, k % c < c
  PROVE  k % c =< k
  <1> DEFINE q == k \div c
             r == k % c
  <1>1. c > 0 /\ q \in Nat /\ r \in Nat /\ k = c * q + r
    OBVIOUS
  <1> HIDE DEF q, r
  <1>2. c * q \in Nat
    BY <1>1
  <1>3. r =< k
    BY <1>1, <1>2
  <1> QED BY <1>3 DEF r

LEMMA TraduccionEnOrdenPaso ==
  ASSUME TypeOK, Fases, SuspEnOrden, AltaEnOrden,
         TraduccionEnOrden, [Next]_vars
  PROVE  TraduccionEnOrden'
  <1>1. CASE AsignarPagina
    <2>1. alta.pid \in Pids /\ cpu[alta.pid] = Nil /\ UNCHANGED cpu
      BY <1>1 DEF AsignarPagina, Fases, Entrantes, kernelVars
    <2>2. CASE alta.pag \in Asignables(alta.pid) /\ Libres # {}
      BY <1>1, <2>1, <2>2, TrasAsignarPagina, TraduccionAjena
    <2>3. CASE ~(alta.pag \in Asignables(alta.pid) /\ Libres # {})
      BY <1>1, <2>1, <2>3 DEF AsignarPagina, TraduccionEnOrden
    <2> QED BY <2>2, <2>3
  <1>2. CASE UbicarPagina
    <2>1. alta.pid \in Pids /\ cpu[alta.pid] = Nil /\ UNCHANGED cpu
      BY <1>2 DEF UbicarPagina, Fases, Regresos, kernelVars
    <2> QED BY <1>2, <2>1, TrasUbicarPagina, TraduccionAjena
  <1>3. CASE LiberarPagina
    <2>1. baja.pid \in Pids /\ cpu[baja.pid] = Nil /\ UNCHANGED cpu
      BY <1>3 DEF LiberarPagina, Fases, kernelVars
    <2> QED BY <1>3, <2>1, TrasLiberarPagina, TraduccionAjena
  <1>4. ASSUME NEW p \in Pids, QuitarPresente(p) PROVE TraduccionEnOrden'
    <2>1. cpu[p] = Nil /\ UNCHANGED cpu
      BY <1>4 DEF QuitarPresente, Fases, kernelVars
    <2> QED BY <1>4, <2>1, TrasQuitarPresente, TraduccionAjena
  <1>5. ASSUME NEW p \in Pids, AnotarSlot(p) PROVE TraduccionEnOrden'
    <2>1. cpu[p] = Nil /\ UNCHANGED cpu
      BY <1>5 DEF AnotarSlot, Fases, kernelVars
    <2> QED BY <1>5, <2>1, TrasAnotarSlot, TraduccionAjena
  <1>6. ASSUME NEW p \in Pids, SoltarMarco(p) PROVE TraduccionEnOrden'
    <2>1. cpu[p] = Nil /\ UNCHANGED cpu
      BY <1>6 DEF SoltarMarco, Fases, kernelVars
    <2> QED BY <1>6, <2>1, TrasSoltarMarco, TraduccionAjena
  <1>7. ASSUME NEW p \in Pids, Traducir(p) PROVE TraduccionEnOrden'
    <2>1. PICK k \in 0 .. NumPaginas[p] - 1 :
            /\ tabla[p][Hoja(k)].presente
            /\ cpu' = [cpu EXCEPT ![p] =
                         [pag |-> k, marco |-> tabla[p][Hoja(k)].marco]]
      BY <1>7 DEF Traducir
    <2> DEFINE m == tabla[p][Hoja(k)].marco
    <2>2. /\ Hoja(k) \in Hojas /\ Hoja(k) = k % Capacidad
          /\ UNCHANGED tabla
      BY <1>7, HojaCorrecta, PaginasAssumption DEF Traducir, procVars
    <2>3. cpu'[p] = [pag |-> k, marco |-> m]
      BY <2>1 DEF TypeOK, TipoKernel
    <2>4. cpu'[p].pag = k /\ cpu'[p].marco = m
      BY <2>3
    <2>5. \A q \in Pids : q # p => cpu'[q] = cpu[q]
      BY <2>1 DEF TypeOK, TipoKernel
    <2>6. /\ k % Capacidad \in Asignables(p)
          /\ tabla'[p][k % Capacidad].presente
          /\ tabla'[p][k % Capacidad].marco = m
      <3>1. NumPaginas[p] \in Nat /\ k \in Nat /\ k < NumPaginas[p]
        BY PaginasAssumption, CapacidadTipo
      <3>2. k % Capacidad \in Nat /\ k % Capacidad < Capacidad
        BY <2>2, PaginasAssumption, CapacidadTipo DEF Hojas
      <3>3. k % Capacidad =< k
        BY <3>1, <3>2, PaginasAssumption, CapacidadTipo, RestoMenor
      <3> QED BY <2>1, <2>2, <3>1, <3>2, <3>3, AsignablesSonHojas
    <2> HIDE DEF m
    <2>7. /\ cpu'[p].pag % Capacidad \in Asignables(p)
          /\ tabla'[p][cpu'[p].pag % Capacidad].presente
          /\ tabla'[p][cpu'[p].pag % Capacidad].marco = cpu'[p].marco
      BY <2>4, <2>6
    <2> QED BY <2>2, <2>5, <2>7 DEF TraduccionEnOrden
  <1>8. ASSUME NEW p \in Pids, Bloquear(p) PROVE TraduccionEnOrden'
    BY <1>8 DEF Bloquear, TraduccionEnOrden, TypeOK, TipoKernel, procVars
  <1>9. ASSUME NEW p \in Pids, PedirDump(p) PROVE TraduccionEnOrden'
    BY <1>9 DEF PedirDump, TraduccionEnOrden, TypeOK, TipoKernel, procVars
  <1>10. ASSUME NEW p \in Pids, Finalizar(p) PROVE TraduccionEnOrden'
    BY <1>10 DEF Finalizar, TraduccionEnOrden, TypeOK, TipoKernel, procVars
  <1> QED
    BY <1>1, <1>2, <1>3, <1>4, <1>5, <1>6, <1>7, <1>8, <1>9, <1>10, QuienCpu,
       QuienTabla
    DEF TraduccionEnOrden

-----------------------------------------------------------------------------
\* The inductive invariant.

Inductivo == /\ TypeOK /\ Fases /\ HojasEnOrden /\ SuspEnOrden /\ AltaEnOrden
             /\ VolcEnOrden /\ NuevosVacios /\ BloqueadoCompleto /\ Alcanza
             /\ MarcosEnOrden /\ SlotsEnOrden
             /\ ~SwapSeTrunca => SlotsGrabados

LEMMA OrdenInit ==
  ASSUME Init
  PROVE  /\ Fases /\ HojasEnOrden /\ SuspEnOrden /\ AltaEnOrden /\ VolcEnOrden
         /\ NuevosVacios /\ BloqueadoCompleto /\ Alcanza /\ SlotsGrabados
         /\ MarcosEnOrden /\ SlotsEnOrden
  <1>1. /\ alta.pc = "no" /\ alta.slot = NADA /\ baja = SinBaja /\ dicc = {}
        /\ bitmap = {}
        /\ \A p \in Pids :
             /\ estado[p] = "NEW" /\ susp[p].pc = "no" /\ susp[p].slot = NADA
             /\ volc[p].pc = "no" /\ cpu[p] = Nil
             /\ \A h \in Hojas :
                  /\ ~tabla[p][h].presente /\ tabla[p][h].marco = NADA
                  /\ tabla[p][h].slot = NADA
    BY DEF Init, SinAlta, SinSusp, SinVolc, Vacia
  <1>2. Fases
    BY <1>1 DEF Fases, Entrantes, Regresos, Vivos
  <1>3. HojasEnOrden /\ SuspEnOrden /\ VolcEnOrden /\ NuevosVacios
    BY <1>1 DEF HojasEnOrden, HojaEnOrden, SuspEnOrden, SuspensionEnOrden,
       VolcEnOrden, NuevosVacios, Vacio
  <1>4. AltaEnOrden /\ BloqueadoCompleto /\ Alcanza
    BY <1>1 DEF AltaEnOrden, BloqueadoCompleto, Alcanza, Entrantes, Regresos
  <1>5. SlotsGrabados /\ MarcosEnOrden /\ SlotsEnOrden
    BY <1>1 DEF SlotsGrabados, MarcosEnOrden, EnVuelo, SlotsEnOrden
  <1> QED BY <1>2, <1>3, <1>4, <1>5

LEMMA InductivoInit == Init => Inductivo
  BY TipoInit, OrdenInit DEF Inductivo

LEMMA InductivoPaso ==
  ASSUME ~Solapa
  PROVE  Inductivo /\ [Next]_vars => Inductivo'
  <1> SUFFICES ASSUME Inductivo, [Next]_vars PROVE Inductivo'
    OBVIOUS
  <1>1. /\ TypeOK /\ Fases /\ HojasEnOrden /\ SuspEnOrden /\ AltaEnOrden
        /\ VolcEnOrden /\ NuevosVacios /\ BloqueadoCompleto /\ Alcanza
        /\ MarcosEnOrden /\ SlotsEnOrden /\ (~SwapSeTrunca => SlotsGrabados)
    BY DEF Inductivo
  <1>2. TypeOK'
    BY <1>1, TipoPaso
  <1>3. Fases' /\ HojasEnOrden' /\ SuspEnOrden' /\ VolcEnOrden'
    BY <1>1, FasesPaso, HojasEnOrdenPaso, SuspEnOrdenPaso, VolcEnOrdenPaso
  <1>4. AltaEnOrden' /\ NuevosVacios' /\ BloqueadoCompleto' /\ Alcanza'
    BY <1>1, AltaEnOrdenPaso, NuevosVaciosPaso, BloqueadoCompletoPaso,
       AlcanzaPaso
  <1>5. MarcosEnOrden' /\ SlotsEnOrden'
    BY <1>1, MarcosEnOrdenPaso, SlotsEnOrdenPaso
  <1>6. ~SwapSeTrunca => SlotsGrabados'
    BY <1>1, SlotsGrabadosPaso
  <1> QED BY <1>2, <1>3, <1>4, <1>5, <1>6 DEF Inductivo

LEMMA Invariante ==
  ASSUME ~Solapa
  PROVE  Spec => []Inductivo
  <1>1. Inductivo /\ [Next]_vars => Inductivo'
    BY InductivoPaso
  <1> QED BY <1>1, InductivoInit, PTL DEF Spec

LEMMA MarcosDesdeOrden ==
  ASSUME Inductivo
  PROVE  MarcosPropios
  <1>1. MarcosEnOrden /\ AltaEnOrden /\ TypeOK
    BY DEF Inductivo
  <1>2. \A d : d \in Ubicadas <=>
          /\ d \in Pids \X Hojas /\ d[1] \in Pids /\ d[2] \in Hojas
          /\ tabla[d[1]][d[2]].marco # NADA
    BY DEF Ubicadas
  <1>3. \A p \in Pids : \A h \in Hojas :
          tabla[p][h].marco # NADA => <<p, h>> \in Ubicadas
    BY DEF Ubicadas
  <1> DEFINE Duenos == {MarcoDe(d) : d \in Ubicadas}
             Vuela  == IF alta.pc \in {"lee", "ubica"}
                       THEN {alta.marco} ELSE {}
  <1>4. NADA \notin bitmap
    BY <1>1, NadaAparte DEF TypeOK, TipoMarcos
  <1>5. ASSUME NEW m \in bitmap PROVE m \in Duenos \cup Vuela
    <2>1. CASE \E p \in Pids : \E h \in Hojas : tabla[p][h].marco = m
      <3>1. PICK p \in Pids : \E h \in Hojas : tabla[p][h].marco = m
        BY <2>1
      <3>2. PICK h \in Hojas : tabla[p][h].marco = m
        BY <3>1
      <3>3. <<p, h>> \in Ubicadas /\ MarcoDe(<<p, h>>) = m
        BY <1>3, <1>4, <3>2 DEF MarcoDe
      <3> QED BY <3>3
    <2>2. CASE EnVuelo /\ alta.marco = m
      BY <2>2 DEF EnVuelo
    <2> QED BY <1>1, <2>1, <2>2 DEF MarcosEnOrden
  <1>6. \A m \in Duenos \cup Vuela : m \in bitmap
    BY <1>1, <1>2 DEF MarcosEnOrden, EnVuelo, MarcoDe
  <1>7. bitmap = Duenos \cup Vuela
    BY <1>5, <1>6
  <1>8. ASSUME NEW d \in Ubicadas, NEW e \in Ubicadas, MarcoDe(d) = MarcoDe(e)
        PROVE  d = e
    <2>1. d[1] = e[1] /\ d[2] = e[2]
      BY <1>1, <1>2, <1>8 DEF MarcosEnOrden, MarcoDe
    <2> QED BY <1>2, <2>1
  <1>9. alta.pc \in {"ocupa", "lee", "ubica"} =>
          \A d \in Ubicadas : MarcoDe(d) # alta.marco
    BY <1>1, <1>2 DEF MarcosEnOrden, EnVuelo, MarcoDe, AltaEnOrden, Libres
  <1> QED BY <1>7, <1>8, <1>9 DEF MarcosPropios

LEMMA SlotsDesdeOrden ==
  ASSUME Inductivo
  PROVE  SlotsPropios
  <1>1. SlotsEnOrden
    BY DEF Inductivo
  <1>2. \A d \in SlotsDeTablas :
          /\ d \in Pids \X Hojas /\ d[1] \in Pids /\ d[2] \in Hojas
          /\ tabla[d[1]][d[2]].slot # NADA
    BY DEF SlotsDeTablas
  <1>3. \A p \in SlotsDeHilos : p \in Pids /\ susp[p].slot # NADA
    BY DEF SlotsDeHilos
  <1> DEFINE slot(d) == tabla[d[1]][d[2]].slot
  <1>4. \A d \in SlotsDeTablas : slot(d) \in bitsSwap /\ slot(d) # alta.slot
    BY <1>1, <1>2 DEF SlotsEnOrden
  <1>5. ASSUME NEW d \in SlotsDeTablas, NEW e \in SlotsDeTablas,
               slot(d) = slot(e)
        PROVE  d = e
    <2>1. d[1] = e[1] /\ d[2] = e[2]
      BY <1>1, <1>2, <1>5 DEF SlotsEnOrden
    <2> QED BY <1>2, <2>1
  <1>6. \A d \in SlotsDeTablas, p \in SlotsDeHilos : slot(d) # susp[p].slot
    BY <1>1, <1>2, <1>3 DEF SlotsEnOrden
  <1>7. /\ \A p \in SlotsDeHilos :
             susp[p].slot \in bitsSwap /\ susp[p].slot # alta.slot
        /\ \A p, q \in SlotsDeHilos : susp[p].slot = susp[q].slot => p = q
    BY <1>1, <1>3 DEF SlotsEnOrden
  <1> QED BY <1>4, <1>5, <1>6, <1>7 DEF SlotsPropios

-----------------------------------------------------------------------------
\* The theorems.

\* Every variable of Memoria keeps its shape in every run, with the slots that
\* its threads hold inside the bitmap of the swap file, which grows.
THEOREM TipoCorrecto == ASSUME ~Solapa PROVE Spec => []TypeOK
  <1>1. Inductivo => TypeOK
    BY DEF Inductivo
  <1> QED BY Invariante, <1>1, PTL

\* No frame has two owners and none is lost, although liberar_marco takes no
\* lock and the search for a frame of a returning process takes none either.
THEOREM MarcosCorrectos == ASSUME ~Solapa PROVE Spec => []MarcosPropios
  <1>1. Inductivo => MarcosPropios
    BY MarcosDesdeOrden
  <1> QED BY Invariante, <1>1, PTL

\* No slot of the swap file has two owners and none is given away while a page
\* or a thread holds it, whatever bits realloc leaves in the bitmap.
THEOREM SlotsCorrectos == ASSUME ~Solapa PROVE Spec => []SlotsPropios
  <1>1. Inductivo => SlotsPropios
    BY SlotsDesdeOrden
  <1> QED BY Invariante, <1>1, PTL

\* The answers Memoria gives the planner whatever its walks returned are true:
\* a process that may run has all its pages in main memory.
THEOREM ListoCorrecto == ASSUME ~Solapa PROVE Spec => []ListoCompleto
  <1>1. Inductivo => ListoCompleto
    BY DEF Inductivo, ListoCompleto, BloqueadoCompleto, Fases, Vivos
  <1> QED BY Invariante, <1>1, PTL

\* The free frames that are counted before the lock is taken are still there
\* for each page that is placed: the walks never run out of frames.
THEOREM AltaCorrecta == ASSUME ~Solapa PROVE Spec => []AltaConLugar
  <1>1. Inductivo => AltaConLugar
    BY HayLugar DEF Inductivo, AltaConLugar
  <1> QED BY Invariante, <1>1, PTL

LEMMA TraduccionInvariante ==
  ASSUME ~Solapa
  PROVE  Spec => []TraduccionEnOrden
  <1>1. Init => TraduccionEnOrden
    BY DEF Init, TraduccionEnOrden
  <1>2. Inductivo /\ TraduccionEnOrden /\ [Next]_vars => TraduccionEnOrden'
    BY TraduccionEnOrdenPaso DEF Inductivo
  <1> QED BY Invariante, <1>1, <1>2, PTL DEF Spec

=============================================================================
