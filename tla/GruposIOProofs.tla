---------------------------- MODULE GruposIOProofs ----------------------------
(***************************************************************************)
(* What is proved of GruposIO for any number of processes, of devices and  *)
(* of requests, and whichever devices die: no request is lost or served    *)
(* twice, none overtakes another, none waits for nothing, the kernel knows *)
(* what each device does, and the group implements DispositivoIO.          *)
(***************************************************************************)
EXTENDS GruposIO, Secuencias

Vivos == {"agregada", "respondida", "escucha"}

\* The instances of the group are those with a listener, each once; the group
\* exists while it has one, and its queue is empty when it does not.  A thread
\* that is about to dispatch, or a process about to ask, has a group.
GrupoExacto ==
    /\ IsInjective(instancias)
    /\ ToSet(instancias) = {i \in Instancias : hilo[i] \in Vivos}
    /\ grupo = 0 <=> instancias = <<>>
    /\ instancias = <<>> => espera = <<>>
    /\ \A i \in Instancias : hilo[i] \in Vivos => grupoDe[i] = grupo
    /\ \A i \in Instancias : ocupado[i] => hilo[i] \in Vivos
    /\ \A p \in Pids : situacion[p] = "pedir" => grupoDe[p] # 0
    /\ grupos <= Cardinality({i \in Instancias : hilo[i] # "no"})

\* The requests that wait in a queue or are served, with the flags ocu and the
\* pids pid: nobody has two.
Servidos(ocu, pid) == {pid[i] : i \in {j \in Instancias : ocu[j]}}
PedidosDe(cola, ocu, pid) == ToSet(cola) \cup Servidos(ocu, pid)
SinDoble(cola, ocu, pid) ==
    /\ IsInjective(cola)
    /\ Servidos(ocu, pid) \subseteq Pids
    /\ ToSet(cola) \cap Servidos(ocu, pid) = {}
    /\ \A i, j \in Instancias : ocu[i] /\ ocu[j] /\ pid[i] = pid[j] => i = j

PedidosExactos ==
    /\ SinDoble(espera, ocupado, pidEn)
    /\ \A p \in Pids : p \in PedidosDe(espera, ocupado, pidEn)
                          <=> situacion[p] = "bloqueado" /\ p \notin perdidos
    /\ \A p \in perdidos : situacion[p] = "bloqueado"

\* What is between the kernel and a device in state x while its threads are in
\* h, it is marked busy or not (o) with pid p, and d is on its way back.
Canal(x, h, o, p, hacia, d) ==
    LET ok     == Mensaje("OK", Nil)
        pedido == Mensaje("IO", p)
    IN /\ x = "no" => h = "no" /\ ~o /\ hacia = <<>> /\ d = <<>>
       /\ x = "saludo" =>
             /\ h \in Vivos /\ d = <<>>
             /\ h = "agregada" => hacia = IF o THEN <<pedido>> ELSE <<>>
             /\ h # "agregada" =>
                   IF o THEN hacia \in {<<ok, pedido>>, <<pedido, ok>>}
                   ELSE hacia = <<ok>>
       /\ x = "libre" =>
             /\ h \in {"respondida", "escucha"}
             /\ \/ ~o /\ hacia = <<>> /\ d = <<>>
                \/ o /\ hacia = <<pedido>> /\ d = <<>>
                \/ o /\ hacia = <<>> /\ d = <<p>>
       /\ x = "sirve" => /\ h \in {"respondida", "escucha"}
                         /\ o /\ hacia = <<pedido>> /\ d = <<>>
       /\ x = "caida" => /\ h # "no" /\ hacia = <<>>
                         /\ d = <<>> \/ (o /\ d = <<p>>)
Canales ==
    \A i \in Instancias :
        Canal(io[i], hilo[i], ocupado[i], pidEn[i], haciaIo[i], desdeIo[i])

Inductivo == /\ TypeOK /\ GrupoExacto /\ PedidosExactos /\ Canales
             /\ SinInstanciaOciosa

----------------------------------------------------------------------------
\* despachar_io_si_es_posible.

\* The first n requests go to the instances of T, one to each, and the loop
\* ended because no request or no free instance was left.
Reparto(cola, ins, ocu, n, T, turno) ==
    /\ T \subseteq ToSet(ins)
    /\ \A i \in T : ~ocu[i]
    /\ \A i, j \in T : turno[i] = turno[j] => i = j
    /\ \A k \in 1 .. n : \E i \in T : turno[i] = k
    /\ n = Len(cola) \/ \A i \in ToSet(ins) : ocu[i] \/ i \in T
    /\ instancias' = ins
    /\ espera' = SubSeq(cola, n + 1, Len(cola))
    /\ ultimo' = ultimo \/ ultimo' \in DOMAIN ins
    /\ ocupado' = [i \in Instancias |-> ocu[i] \/ i \in T]
    /\ pidEn' = [i \in Instancias |->
                    IF i \in T THEN cola[turno[i]] ELSE pidEn[i]]
    /\ haciaIo' = [i \in Instancias |->
                      IF i \in T /\ io[i] # "caida"
                      THEN Append(haciaIo[i], Mensaje("IO", cola[turno[i]]))
                      ELSE haciaIo[i]]

LEMMA VueltaEntera ==
  ASSUME NEW ins \in Seq(Instancias), NEW k \in DOMAIN ins, ultimo \in Int
  PROVE  Vuelta(ins, k) \in Int
  <1>1. Len(ins) \in Nat \ {0} /\ k \in Nat
    BY LenProperties
  <1> QED BY <1>1 DEF Vuelta

LEMMA DespacharReparte ==
  ASSUME NEW cola \in Seq(Pids), NEW ins \in Seq(Instancias), IsInjective(ins),
         NEW ocu \in [Instancias -> BOOLEAN], ultimo \in Int,
         Despachar(cola, ins, ocu)
  PROVE  \E n \in 0 .. Len(cola), T \in SUBSET Instancias :
            \E turno \in [T -> 1 .. n] : Reparto(cola, ins, ocu, n, T, turno)
  <1>0. PICK n \in 0 .. Len(cola) : \E t \in Turnos(ins, ocu, n, Len(cola)) :
          LET pedido == [i \in {ins[t[k]] : k \in 1 .. n} |->
                            cola[CHOOSE k \in 1 .. n : ins[t[k]] = i]]
          IN /\ instancias' = ins
             /\ espera' = SubSeq(cola, n + 1, Len(cola))
             /\ ultimo' = IF n = 0 THEN ultimo ELSE t[n]
             /\ ocupado' = [i \in Instancias |-> ocu[i] \/ i \in DOMAIN pedido]
             /\ pidEn' = [i \in Instancias |->
                  IF i \in DOMAIN pedido THEN pedido[i] ELSE pidEn[i]]
             /\ haciaIo' = [i \in Instancias |->
                  IF i \in DOMAIN pedido /\ io[i] # "caida"
                  THEN Append(haciaIo[i], Mensaje("IO", pedido[i]))
                  ELSE haciaIo[i]]
    BY Zenon DEF Despachar
  <1>1. PICK t \in Turnos(ins, ocu, n, Len(cola)) :
          LET pedido == [i \in {ins[t[k]] : k \in 1 .. n} |->
                            cola[CHOOSE k \in 1 .. n : ins[t[k]] = i]]
          IN /\ instancias' = ins
             /\ espera' = SubSeq(cola, n + 1, Len(cola))
             /\ ultimo' = IF n = 0 THEN ultimo ELSE t[n]
             /\ ocupado' = [i \in Instancias |-> ocu[i] \/ i \in DOMAIN pedido]
             /\ pidEn' = [i \in Instancias |->
                  IF i \in DOMAIN pedido THEN pedido[i] ELSE pidEn[i]]
             /\ haciaIo' = [i \in Instancias |->
                  IF i \in DOMAIN pedido /\ io[i] # "caida"
                  THEN Append(haciaIo[i], Mensaje("IO", pedido[i]))
                  ELSE haciaIo[i]]
    BY <1>0
  <1> DEFINE libres == {k \in DOMAIN ins : ~ocu[ins[k]]}
             T      == {ins[t[k]] : k \in 1 .. n}
             turno  == [i \in T |-> CHOOSE k \in 1 .. n : ins[t[k]] = i]
             pedido == [i \in T |-> cola[CHOOSE k \in 1 .. n : ins[t[k]] = i]]
  <1>2. /\ Len(cola) \in Nat /\ n \in Nat
        /\ DOMAIN ins = 1 .. Len(ins)
        /\ \A k \in DOMAIN ins : ins[k] \in Instancias
    BY LenProperties, ElementOfSeq
  <1>3. /\ t \in [1 .. n -> libres]
        /\ \A j, k \in 1 .. n : j < k => Vuelta(ins, t[j]) < Vuelta(ins, t[k])
        /\ n = Len(cola) \/ libres = {t[k] : k \in 1 .. n}
    BY <1>1 DEF Turnos
  <1>4. \A k \in 1 .. n : t[k] \in DOMAIN ins /\ ~ocu[ins[t[k]]]
    BY <1>3
  <1>5. ASSUME NEW j \in 1 .. n, NEW k \in 1 .. n, ins[t[j]] = ins[t[k]]
        PROVE  j = k
    <2>1. t[j] = t[k]
      BY <1>4, <1>5 DEF IsInjective
    <2>2. Vuelta(ins, t[j]) \in Int
      BY <1>4, VueltaEntera
    <2>3. ~(j < k) /\ ~(k < j)
      BY <1>3, <2>1, <2>2
    <2> QED BY <1>2, <2>3
  <1>6. T \in SUBSET Instancias /\ T \subseteq ToSet(ins)
    BY <1>2, <1>4 DEF ToSet
  <1>7. \A i \in T : turno[i] \in 1 .. n /\ ins[t[turno[i]]] = i
    OBVIOUS
  <1>8. turno \in [T -> 1 .. n]
    BY <1>7
  <1>9. \A k \in 1 .. n : ins[t[k]] \in T /\ turno[ins[t[k]]] = k
    BY <1>5, <1>7
  <1>10. \A i \in T : ~ocu[i]
    BY <1>4
  <1>11. n = Len(cola) \/ \A i \in ToSet(ins) : ocu[i] \/ i \in T
    <2> SUFFICES ASSUME libres = {t[k] : k \in 1 .. n},
                        NEW j \in DOMAIN ins, ~ocu[ins[j]]
                 PROVE  ins[j] \in T
      BY <1>3 DEF ToSet
    <2> QED OBVIOUS
  <1>12. ultimo' = ultimo \/ ultimo' \in DOMAIN ins
    <2>1. CASE n = 0
      BY <1>1, <2>1
    <2>2. CASE n # 0
      <3>1. n \in 1 .. n
        BY <1>2, <2>2
      <3> QED BY <1>1, <1>4, <2>2, <3>1
    <2> QED BY <2>1, <2>2
  <1>13. DOMAIN pedido = T /\ \A i \in T : pedido[i] = cola[turno[i]]
    OBVIOUS
  <1>14. /\ instancias' = ins
         /\ espera' = SubSeq(cola, n + 1, Len(cola))
         /\ ocupado' = [i \in Instancias |-> ocu[i] \/ i \in DOMAIN pedido]
         /\ pidEn' = [i \in Instancias |->
                         IF i \in DOMAIN pedido THEN pedido[i] ELSE pidEn[i]]
         /\ haciaIo' = [i \in Instancias |->
                           IF i \in DOMAIN pedido /\ io[i] # "caida"
                           THEN Append(haciaIo[i], Mensaje("IO", pedido[i]))
                           ELSE haciaIo[i]]
    BY <1>1, Zenon
  <1> HIDE DEF T, turno, libres, pedido
  <1>15. Reparto(cola, ins, ocu, n, T, turno)
    <2>1. ocupado' = [i \in Instancias |-> ocu[i] \/ i \in T]
      BY ONLY <1>13, <1>14
    <2>2. pidEn' = [i \in Instancias |->
                       IF i \in T THEN cola[turno[i]] ELSE pidEn[i]]
      BY ONLY <1>13, <1>14
    <2>3. haciaIo' = [i \in Instancias |->
                         IF i \in T /\ io[i] # "caida"
                         THEN Append(haciaIo[i], Mensaje("IO", cola[turno[i]]))
                         ELSE haciaIo[i]]
      BY ONLY <1>13, <1>14
    <2>4. /\ \A i, j \in T : turno[i] = turno[j] => i = j
          /\ \A k \in 1 .. n : \E i \in T : turno[i] = k
      BY <1>7, <1>9
    <2> QED BY <1>6, <1>10, <1>11, <1>12, <1>14, <2>1, <2>2, <2>3, <2>4
            DEF Reparto
  <1> QED BY <1>6, <1>8, <1>15

\* The arguments of a dispatch.
Datos(cola, ins, ocu) ==
    /\ cola \in Seq(Pids) /\ ins \in Seq(Instancias) /\ IsInjective(ins)
    /\ ocu \in [Instancias -> BOOLEAN]

LEMMA DespacharTipos ==
  ASSUME TypeOK, NEW cola, NEW ins, NEW ocu, Datos(cola, ins, ocu),
         Despachar(cola, ins, ocu)
  PROVE  /\ instancias' = ins /\ espera' \in Seq(Pids)
         /\ ultimo' \in 0 .. Cardinality(Instancias)
         /\ ocupado' \in [Instancias -> BOOLEAN]
         /\ pidEn' \in [Instancias -> Pids \cup {Nil}]
         /\ haciaIo' \in [Instancias ->
                             Seq([op : {"IO", "OK"}, pid : Pids \cup {Nil}])]
  <1> USE DEF Datos
  <1>1. PICK n \in 0 .. Len(cola), T \in SUBSET Instancias :
           \E turno \in [T -> 1 .. n] : Reparto(cola, ins, ocu, n, T, turno)
    <2>1. ultimo \in Int
      BY DEF TypeOK
    <2> QED BY <2>1, DespacharReparte
  <1>2. PICK turno \in [T -> 1 .. n] : Reparto(cola, ins, ocu, n, T, turno)
    BY <1>1
  <1>3. Len(cola) \in Nat /\ \A k \in 1 .. n : cola[k] \in Pids
    BY LenProperties, ElementOfSeq
  <1>4. \A i \in T : cola[turno[i]] \in Pids
    BY <1>3
  <1>5. ultimo' \in 0 .. Cardinality(Instancias)
    <2>1. Len(ins) <= Cardinality(Instancias) /\ DOMAIN ins = 1 .. Len(ins)
      BY LargoSinRepetir, LenProperties, GruposAssumption
    <2>2. Cardinality(Instancias) \in Nat
      BY FS_CardinalityType, GruposAssumption
    <2>3. ultimo' = ultimo \/ ultimo' \in DOMAIN ins
      BY <1>2 DEF Reparto
    <2>4. Len(ins) \in Nat
      BY LenProperties
    <2> QED BY <2>1, <2>2, <2>3, <2>4 DEF TypeOK
  <1>6. espera' \in Seq(Pids)
    BY <1>2, ConjuntoResto DEF Reparto
  <1>7. pidEn' \in [Instancias -> Pids \cup {Nil}]
    BY <1>2, <1>4 DEF Reparto, TypeOK
  <1>8. haciaIo' \in [Instancias ->
                        Seq([op : {"IO", "OK"}, pid : Pids \cup {Nil}])]
    <2>1. \A i \in T : Mensaje("IO", cola[turno[i]])
                          \in [op : {"IO", "OK"}, pid : Pids \cup {Nil}]
      BY <1>4 DEF Mensaje
    <2> QED BY <1>2, <2>1, AppendProperties DEF Reparto, TypeOK
  <1>9. instancias' = ins /\ ocupado' \in [Instancias -> BOOLEAN]
    BY <1>2 DEF Reparto
  <1> QED BY <1>5, <1>6, <1>7, <1>8, <1>9

LEMMA DespacharPedidos ==
  ASSUME TypeOK, NEW cola, NEW ins, NEW ocu, Datos(cola, ins, ocu),
         SinDoble(cola, ocu, pidEn), Despachar(cola, ins, ocu)
  PROVE  /\ SinDoble(espera, ocupado, pidEn)'
         /\ PedidosDe(espera, ocupado, pidEn)' = PedidosDe(cola, ocu, pidEn)
         /\ \A i \in Instancias : ocupado'[i] => ocu[i] \/ i \in ToSet(ins)
         /\ espera' # <<>> => \A i \in ToSet(ins) : ocupado'[i]
  <1> USE DEF Datos
  <1>1. PICK n \in 0 .. Len(cola), T \in SUBSET Instancias :
           \E turno \in [T -> 1 .. n] : Reparto(cola, ins, ocu, n, T, turno)
    <2>1. ultimo \in Int
      BY DEF TypeOK
    <2> QED BY <2>1, DespacharReparte
  <1>2. PICK turno \in [T -> 1 .. n] : Reparto(cola, ins, ocu, n, T, turno)
    BY <1>1
  <1>3. /\ Len(cola) \in Nat /\ n \in Nat /\ n <= Len(cola)
        /\ DOMAIN cola = 1 .. Len(cola)
        /\ \A k \in 1 .. Len(cola) : cola[k] \in Pids
    BY LenProperties, ElementOfSeq
  <1>4. /\ espera' \in Seq(Pids) /\ Len(espera') = Len(cola) - n
        /\ ToSet(espera)' = {cola[k] : k \in n + 1 .. Len(cola)}
        /\ IsInjective(espera)'
    BY <1>2, ConjuntoResto DEF Reparto, SinDoble
  <1>5. ToSet(cola) = {cola[k] : k \in 1 .. Len(cola)}
    BY ConjuntoElemento
  <1>6. /\ \A i \in T : /\ turno[i] \in 1 .. n /\ ~ocu[i] /\ ocupado'[i]
                        /\ pidEn'[i] = cola[turno[i]]
        /\ \A i \in Instancias \ T : /\ ocupado'[i] = ocu[i]
                                     /\ pidEn'[i] = pidEn[i]
        /\ \A k \in 1 .. n : \E i \in T : turno[i] = k
        /\ \A i, j \in T : turno[i] = turno[j] => i = j
    BY <1>2 DEF Reparto
  <1>7. \A j, k \in 1 .. Len(cola) : cola[j] = cola[k] => j = k
    BY <1>3 DEF SinDoble, IsInjective
  <1>8. Servidos(ocupado, pidEn)'
           = Servidos(ocu, pidEn) \cup {cola[k] : k \in 1 .. n}
    <2>1. \A i \in Instancias : ocupado'[i] =>
             pidEn'[i] \in Servidos(ocu, pidEn) \cup {cola[k] : k \in 1 .. n}
      BY <1>6 DEF Servidos
    <2>2. \A k \in 1 .. n : cola[k] \in Servidos(ocupado, pidEn)'
      BY <1>6 DEF Servidos
    <2>3. \A i \in Instancias : ocu[i] =>
             pidEn[i] \in Servidos(ocupado, pidEn)'
      BY <1>6 DEF Servidos
    <2> QED BY <2>1, <2>2, <2>3 DEF Servidos
  <1>9. ToSet(cola) = {cola[k] : k \in 1 .. n}
                         \cup {cola[k] : k \in n + 1 .. Len(cola)}
    BY <1>3, <1>5
  <1>10. PedidosDe(espera, ocupado, pidEn)' = PedidosDe(cola, ocu, pidEn)
    BY <1>4, <1>8, <1>9 DEF PedidosDe
  <1>11. SinDoble(espera, ocupado, pidEn)'
    <2>1. Servidos(ocupado, pidEn)' \subseteq Pids
      BY <1>3, <1>8 DEF SinDoble
    <2>2. ToSet(espera)' \cap Servidos(ocupado, pidEn)' = {}
      <3>1. \A j \in 1 .. n, k \in n + 1 .. Len(cola) : cola[j] # cola[k]
        BY <1>3, <1>7
      <3> QED BY <1>4, <1>8, <1>9, <3>1 DEF SinDoble
    <2>3. ASSUME NEW i \in Instancias, NEW j \in Instancias,
                 ocupado'[i], ocupado'[j], pidEn'[i] = pidEn'[j]
          PROVE  i = j
      <3>1. \A k \in 1 .. n : cola[k] \notin Servidos(ocu, pidEn)
        BY <1>9 DEF SinDoble
      <3>2. \A k \in Instancias : ocu[k] => pidEn[k] \in Servidos(ocu, pidEn)
        BY DEF Servidos
      <3>3. CASE i \in T /\ j \in T
        <4>1. turno[i] \in 1 .. Len(cola) /\ turno[j] \in 1 .. Len(cola)
          BY <1>3, <1>6, <3>3
        <4> QED BY <1>6, <1>7, <2>3, <3>3, <4>1
      <3>4. CASE i \in T /\ j \notin T
        BY <1>6, <2>3, <3>1, <3>2, <3>4
      <3>5. CASE i \notin T /\ j \in T
        <4>1. pidEn'[j] = cola[turno[j]] /\ turno[j] \in 1 .. n
          BY <1>6, <3>5
        <4>2. pidEn'[i] \in Servidos(ocu, pidEn)
          BY <1>6, <2>3, <3>2, <3>5
        <4> QED BY <2>3, <3>1, <4>1, <4>2
      <3>6. CASE i \notin T /\ j \notin T
        BY <1>6, <2>3, <3>6 DEF SinDoble
      <3> QED BY <3>3, <3>4, <3>5, <3>6
    <2> QED BY <1>4, <2>1, <2>2, <2>3 DEF SinDoble
  <1>12. \A i \in Instancias : ocupado'[i] => ocu[i] \/ i \in ToSet(ins)
    BY <1>2 DEF Reparto
  <1>13. ASSUME espera' # <<>>, NEW i \in ToSet(ins)
         PROVE  ocupado'[i]
    <2>1. n # Len(cola)
      <3>1. Len(espera') # 0
        BY <1>4, <1>13, EmptySeq
      <3>2. Len(espera') = Len(cola) - n /\ Len(cola) \in Nat /\ n \in Nat
        BY <1>3, <1>4
      <3> QED BY ONLY <3>1, <3>2
    <2>2. i \in Instancias
      BY ConjuntoElemento
    <2> QED BY <1>2, <2>1, <2>2 DEF Reparto
  <1> QED BY <1>10, <1>11, <1>12, <1>13

\* A device gets its request after what is already on its way, and is busy.
LEMMA DespacharCanal ==
  ASSUME TypeOK, NEW cola, NEW ins, NEW ocu, Datos(cola, ins, ocu),
         \A i \in ToSet(ins) : hilo'[i] \in Vivos,
         io' = io,
         \A i \in Instancias : Canal(io[i], hilo'[i], ocu[i], pidEn[i],
                                     haciaIo[i], desdeIo'[i]),
         Despachar(cola, ins, ocu)
  PROVE  Canales'
  <1> USE DEF Datos
  <1>1. PICK n \in 0 .. Len(cola), T \in SUBSET Instancias :
           \E turno \in [T -> 1 .. n] : Reparto(cola, ins, ocu, n, T, turno)
    <2>1. ultimo \in Int
      BY DEF TypeOK
    <2> QED BY <2>1, DespacharReparte
  <1>2. PICK turno \in [T -> 1 .. n] : Reparto(cola, ins, ocu, n, T, turno)
    BY <1>1
  <1> SUFFICES ASSUME NEW i \in Instancias
               PROVE  Canal(io[i], hilo'[i], ocupado'[i], pidEn'[i],
                            haciaIo'[i], desdeIo'[i])
    BY DEF Canales
  <1>3. CASE i \notin T
    <2>1. ocupado'[i] = ocu[i] /\ pidEn'[i] = pidEn[i] /\ haciaIo'[i] = haciaIo[i]
      BY <1>2, <1>3 DEF Reparto
    <2> QED BY <2>1
  <1>4. CASE i \in T
    <2> DEFINE p == cola[turno[i]]
               x == Mensaje("IO", p)
    <2>1. /\ ~ocu[i] /\ ocupado'[i] /\ pidEn'[i] = p /\ hilo'[i] \in Vivos
          /\ haciaIo'[i] = IF io[i] = "caida" THEN haciaIo[i]
                           ELSE Append(haciaIo[i], x)
      BY <1>2, <1>4 DEF Reparto
    <2>2. /\ Append(<<>>, x) = <<x>>
          /\ \A y : Append(<<y>>, x) = <<y, x>>
      BY AgregarAUno
    <2>3. /\ Canal(io[i], hilo'[i], FALSE, pidEn[i], haciaIo[i], desdeIo'[i])
          /\ ocu[i] = FALSE /\ ocupado'[i] = TRUE
      BY <2>1 DEF Reparto
    <2> HIDE DEF p, x
    <2>4. io[i] \in {"no", "saludo", "libre", "sirve", "caida"}
      BY DEF TypeOK
    <2>5. CASE io[i] = "no"
      BY <2>1, <2>3, <2>5 DEF Canal, Vivos
    <2>6. CASE io[i] = "saludo"
      BY <2>1, <2>2, <2>3, <2>6 DEF Canal, x
    <2>7. CASE io[i] = "libre"
      BY <2>1, <2>2, <2>3, <2>7 DEF Canal, x
    <2>8. CASE io[i] = "sirve"
      BY <2>3, <2>8 DEF Canal
    <2>9. CASE io[i] = "caida"
      BY <2>1, <2>3, <2>9 DEF Canal
    <2> QED BY <2>4, <2>5, <2>6, <2>7, <2>8, <2>9
  <1> QED BY <1>3, <1>4

\* p is served before q.
AntesDe(cola, ocu, pid, p, q) ==
    \E k \in DOMAIN cola :
        /\ cola[k] = q
        /\ p \in Servidos(ocu, pid) \/ \E j \in 1 .. k - 1 : cola[j] = p

\* The requests leave the queue from its head: the order stays.
LEMMA DespacharOrden ==
  ASSUME TypeOK, NEW cola, NEW ins, NEW ocu, Datos(cola, ins, ocu),
         Despachar(cola, ins, ocu), NEW p, NEW q,
         AntesDe(espera, ocupado, pidEn, p, q)'
  PROVE  AntesDe(cola, ocu, pidEn, p, q)
  <1> USE DEF Datos
  <1>1. PICK n \in 0 .. Len(cola), T \in SUBSET Instancias :
           \E turno \in [T -> 1 .. n] : Reparto(cola, ins, ocu, n, T, turno)
    <2>1. ultimo \in Int
      BY DEF TypeOK
    <2> QED BY <2>1, DespacharReparte
  <1>2. PICK turno \in [T -> 1 .. n] : Reparto(cola, ins, ocu, n, T, turno)
    BY <1>1
  <1>3. Len(cola) \in Nat /\ n \in Nat /\ n <= Len(cola)
    BY LenProperties
  <1>4. /\ DOMAIN cola = 1 .. Len(cola)
        /\ DOMAIN espera' = 1 .. Len(cola) - n
        /\ \A k \in 1 .. Len(cola) - n : espera'[k] = cola[n + k]
    <2>1. /\ espera' \in Seq(Pids) /\ Len(espera') = Len(cola) - n
          /\ \A k \in 1 .. Len(cola) - n : espera'[k] = cola[n + k]
      BY <1>2, ConjuntoResto DEF Reparto
    <2> QED BY <2>1, LenProperties
  <1>5. PICK k \in 1 .. Len(cola) - n :
           /\ espera'[k] = q
           /\ p \in Servidos(ocupado, pidEn)' \/ \E j \in 1 .. k - 1 : espera'[j] = p
    BY <1>4, Zenon DEF AntesDe
  <1>6. n + k \in DOMAIN cola /\ cola[n + k] = q
    BY <1>3, <1>4, <1>5
  <1>7. CASE \E j \in 1 .. k - 1 : espera'[j] = p
    <2>1. PICK j \in 1 .. k - 1 : espera'[j] = p
      BY <1>7
    <2>2. /\ j \in 1 .. Len(cola) - n /\ n + j \in 1 .. n + k - 1
          /\ cola[n + j] = p
      BY <1>3, <1>4, <2>1
    <2> QED BY <1>6, <2>2 DEF AntesDe
  <1>8. CASE p \in Servidos(ocupado, pidEn)'
    <2>1. PICK i \in Instancias : ocupado'[i] /\ p = pidEn'[i]
      BY <1>8 DEF Servidos
    <2>2. CASE i \in T
      <3>1. cola[turno[i]] = p /\ turno[i] \in 1 .. n
        BY <1>2, <2>1, <2>2 DEF Reparto
      <3>2. turno[i] \in 1 .. n + k - 1
        BY <1>3, <3>1
      <3> QED BY <1>6, <3>1, <3>2 DEF AntesDe
    <2>3. CASE i \notin T
      <3>1. p \in Servidos(ocu, pidEn)
        BY <1>2, <2>1, <2>3 DEF Reparto, Servidos
      <3> QED BY <1>6, <3>1 DEF AntesDe
    <2> QED BY <2>2, <2>3
  <1> QED BY <1>5, <1>7, <1>8

----------------------------------------------------------------------------
\* One lemma per step: the invariant is preserved.  First what only the devices
\* do, which leaves the group as it is.

LEMMA CanalCorto ==
  ASSUME NEW x \in {"no", "saludo", "libre", "sirve", "caida"},
         NEW h, NEW o, NEW p, NEW hacia, NEW d, Canal(x, h, o, p, hacia, d)
  PROVE  Len(hacia) <= 2 /\ Len(d) <= 1
  <1> DEFINE ok     == Mensaje("OK", Nil)
             pedido == Mensaje("IO", p)
  <1>1. /\ hacia \in {<<>>, <<ok>>, <<pedido>>, <<ok, pedido>>, <<pedido, ok>>}
        /\ d \in {<<>>, <<p>>}
    BY DEF Canal
  <1> HIDE DEF ok, pedido
  <1>2. Len(hacia) <= 2
    <2>1. /\ Len(<<>>) = 0 /\ Len(<<ok>>) = 1 /\ Len(<<pedido>>) = 1
          /\ Len(<<ok, pedido>>) = 2 /\ Len(<<pedido, ok>>) = 2
      OBVIOUS
    <2>2. Len(hacia) \in {0, 1, 2}
      BY <1>1, <2>1, Zenon
    <2>3. \A n \in {0, 1, 2} : n <= 2
      OBVIOUS
    <2> QED BY <2>2, <2>3, Zenon
  <1>3. Len(d) <= 1
    <2>1. Len(<<>>) = 0 /\ Len(<<p>>) = 1
      OBVIOUS
    <2>2. Len(d) \in {0, 1}
      BY <1>1, <2>1, Zenon
    <2>3. \A n \in {0, 1} : n <= 1
      OBVIOUS
    <2> QED BY <2>2, <2>3, Zenon
  <1> QED BY <1>2, <1>3

LEMMA CanalesCortos ==
  ASSUME Canales',
         io' \in [Instancias -> {"no", "saludo", "libre", "sirve", "caida"}]
  PROVE  \A i \in Instancias : Len(haciaIo'[i]) <= 2 /\ Len(desdeIo'[i]) <= 1
  BY CanalCorto DEF Canales

LEMMA GrupoQuieto ==
  ASSUME Inductivo, UNCHANGED <<grupoVars, hilo, grupoDe, procVars>>
  PROVE  GrupoExacto' /\ PedidosExactos' /\ SinInstanciaOciosa'
  BY DEF Inductivo, grupoVars, procVars, GrupoExacto, PedidosExactos, SinDoble,
     PedidosDe, Servidos, SinInstanciaOciosa

LEMMA PasoRecibirHandshake ==
  ASSUME Inductivo, NEW i \in Instancias, RecibirHandshake(i)
  PROVE  Inductivo'
  <1> USE DEF Inductivo
  <1>1. GrupoExacto' /\ PedidosExactos' /\ SinInstanciaOciosa'
    BY GrupoQuieto DEF RecibirHandshake
  <1>2. /\ io[i] = "saludo" /\ haciaIo[i] # <<>>
        /\ io' = [io EXCEPT ![i] = IF Head(haciaIo[i]).op = "OK"
                                   THEN "libre" ELSE "caida"]
        /\ haciaIo' = [haciaIo EXCEPT ![i] =
                          IF Head(@).op = "OK" THEN Tail(@) ELSE <<>>]
        /\ UNCHANGED <<grupo, grupos, instancias, espera, ultimo, ocupado, pidEn,
                       hilo, grupoDe, situacion, restantes, perdidos, desdeIo>>
    BY DEF RecibirHandshake, grupoVars, procVars
  <1>3. io' \in [Instancias -> {"no", "saludo", "libre", "sirve", "caida"}]
    BY <1>2 DEF TypeOK
  <1>4. Tail(haciaIo[i]) \in Seq([op : {"IO", "OK"}, pid : Pids \cup {Nil}])
    BY <1>2, HeadTailProperties DEF TypeOK
  <1>5. haciaIo' \in [Instancias ->
                        Seq([op : {"IO", "OK"}, pid : Pids \cup {Nil}])]
    <2> DEFINE M == Seq([op : {"IO", "OK"}, pid : Pids \cup {Nil}])
    <2>0. <<>> \in M
      OBVIOUS
    <2>1. Tail(haciaIo[i]) \in M /\ haciaIo \in [Instancias -> M]
      BY <1>4 DEF TypeOK
    <2> HIDE DEF M
    <2>2. haciaIo' \in [Instancias -> M]
      BY <1>2, <2>0, <2>1
    <2> QED BY <2>2 DEF M
  <1>6. Canal(io'[i], hilo[i], ocupado[i], pidEn[i], haciaIo'[i], desdeIo[i])
    <2> DEFINE ok     == Mensaje("OK", Nil)
               pedido == Mensaje("IO", pidEn[i])
    <2>1. /\ hilo[i] \in Vivos /\ desdeIo[i] = <<>>
          /\ \/ hilo[i] = "agregada" /\ ocupado[i] /\ haciaIo[i] = <<pedido>>
             \/ hilo[i] # "agregada" /\ ocupado[i]
                   /\ haciaIo[i] = <<ok, pedido>>
             \/ hilo[i] # "agregada" /\ ocupado[i]
                   /\ haciaIo[i] = <<pedido, ok>>
             \/ hilo[i] # "agregada" /\ ~ocupado[i] /\ haciaIo[i] = <<ok>>
      BY <1>2 DEF Canales, Canal
    <2>2. ok.op = "OK" /\ pedido.op = "IO"
      BY DEF Mensaje
    <2> HIDE DEF ok, pedido
    <2>3. /\ Head(<<pedido>>) = pedido /\ Head(<<ok, pedido>>) = ok
          /\ Head(<<pedido, ok>>) = pedido /\ Head(<<ok>>) = ok
          /\ Tail(<<ok, pedido>>) = <<pedido>> /\ Tail(<<ok>>) = <<>>
      OBVIOUS
    <2>4. /\ io'[i] = IF Head(haciaIo[i]).op = "OK" THEN "libre" ELSE "caida"
          /\ haciaIo'[i] = IF Head(haciaIo[i]).op = "OK"
                           THEN Tail(haciaIo[i]) ELSE <<>>
      BY <1>2 DEF TypeOK
    <2>5. CASE \/ hilo[i] = "agregada" /\ haciaIo[i] = <<pedido>>
               \/ haciaIo[i] = <<pedido, ok>>
      <3>1. io'[i] = "caida" /\ haciaIo'[i] = <<>>
        BY <2>2, <2>3, <2>4, <2>5
      <3> QED BY <2>1, <3>1 DEF Canal, Vivos
    <2>6. CASE hilo[i] # "agregada" /\ haciaIo[i] = <<ok, pedido>> /\ ocupado[i]
      <3>1. io'[i] = "libre" /\ haciaIo'[i] = <<pedido>>
        BY <2>2, <2>3, <2>4, <2>6
      <3> QED BY <2>1, <2>6, <3>1 DEF Canal, Vivos, pedido
    <2>7. CASE hilo[i] # "agregada" /\ haciaIo[i] = <<ok>> /\ ~ocupado[i]
      <3>1. io'[i] = "libre" /\ haciaIo'[i] = <<>>
        BY <2>2, <2>3, <2>4, <2>7
      <3> QED BY <2>1, <2>7, <3>1 DEF Canal, Vivos
    <2> QED BY <2>1, <2>5, <2>6, <2>7
  <1>7. Canales'
    BY <1>2, <1>6 DEF Canales, TypeOK
  <1>8. TypeOK'
    BY <1>2, <1>3, <1>5, <1>7, CanalesCortos DEF TypeOK
  <1> QED BY <1>1, <1>7, <1>8

LEMMA PasoEmpezarIo ==
  ASSUME Inductivo, NEW i \in Instancias, EmpezarIo(i)
  PROVE  Inductivo'
  <1> USE DEF Inductivo
  <1>1. GrupoExacto' /\ PedidosExactos' /\ SinInstanciaOciosa'
    BY GrupoQuieto DEF EmpezarIo
  <1>2. /\ io[i] = "libre" /\ haciaIo[i] # <<>>
        /\ io' = [io EXCEPT ![i] = "sirve"]
        /\ UNCHANGED <<grupo, grupos, instancias, espera, ultimo, ocupado, pidEn,
                       hilo, grupoDe, situacion, restantes, perdidos, haciaIo,
                       desdeIo>>
    BY DEF EmpezarIo, grupoVars, procVars
  <1>3. io' \in [Instancias -> {"no", "saludo", "libre", "sirve", "caida"}]
    BY <1>2 DEF TypeOK
  <1>4. Canales'
    <2>1. ASSUME NEW j \in Instancias
          PROVE  Canal(io'[j], hilo[j], ocupado[j], pidEn[j], haciaIo[j],
                       desdeIo[j])
      <3>1. CASE j = i
        <4>1. io[i] = "libre" /\ io'[i] = "sirve"
          BY <1>2 DEF TypeOK
        <4> QED BY <1>2, <3>1, <4>1 DEF Canales, Canal
      <3>2. CASE j # i
        BY <1>2, <3>2 DEF Canales, TypeOK
      <3> QED BY <3>1, <3>2
    <2> QED BY <1>2, <2>1 DEF Canales
  <1>5. TypeOK'
    BY <1>2, <1>3, <1>4, CanalesCortos DEF TypeOK
  <1> QED BY <1>1, <1>4, <1>5

LEMMA PasoTerminarIo ==
  ASSUME Inductivo, NEW i \in Instancias, TerminarIo(i)
  PROVE  Inductivo'
  <1> USE DEF Inductivo
  <1>1. GrupoExacto' /\ PedidosExactos' /\ SinInstanciaOciosa'
    BY GrupoQuieto DEF TerminarIo
  <1>2. /\ io[i] = "sirve"
        /\ io' = [io EXCEPT ![i] = "libre"]
        /\ desdeIo' = [desdeIo EXCEPT ![i] = Append(@, Head(haciaIo[i]).pid)]
        /\ haciaIo' = [haciaIo EXCEPT ![i] = Tail(@)]
        /\ UNCHANGED <<grupo, grupos, instancias, espera, ultimo, ocupado, pidEn,
                       hilo, grupoDe, situacion, restantes, perdidos>>
    BY DEF TerminarIo, grupoVars, procVars
  <1>3. /\ hilo[i] \in {"respondida", "escucha"} /\ ocupado[i]
        /\ haciaIo[i] = <<Mensaje("IO", pidEn[i])>> /\ desdeIo[i] = <<>>
    BY <1>2 DEF Canales, Canal
  <1>4. /\ Tail(haciaIo[i]) = <<>> /\ Head(haciaIo[i]).pid = pidEn[i]
        /\ Append(desdeIo[i], pidEn[i]) = <<pidEn[i]>>
    BY <1>3 DEF Mensaje
  <1>5. pidEn[i] \in Pids
    BY <1>3 DEF PedidosExactos, SinDoble, Servidos
  <1>6. /\ desdeIo' = [desdeIo EXCEPT ![i] = <<pidEn[i]>>]
        /\ haciaIo' = [haciaIo EXCEPT ![i] = <<>>]
    BY <1>2, <1>4
  <1>7. io' \in [Instancias -> {"no", "saludo", "libre", "sirve", "caida"}]
    BY <1>2 DEF TypeOK
  <1>8. haciaIo' \in [Instancias ->
                        Seq([op : {"IO", "OK"}, pid : Pids \cup {Nil}])]
    <2> DEFINE M == Seq([op : {"IO", "OK"}, pid : Pids \cup {Nil}])
    <2>1. <<>> \in M
      OBVIOUS
    <2>2. haciaIo \in [Instancias -> M]
      BY DEF TypeOK
    <2> HIDE DEF M
    <2>3. haciaIo' \in [Instancias -> M]
      BY <1>6, <2>1, <2>2
    <2> QED BY <2>3 DEF M
  <1>9. desdeIo' \in [Instancias -> Seq(Pids)]
    <2>1. <<pidEn[i]>> \in Seq(Pids)
      BY <1>5
    <2> QED BY <1>6, <2>1 DEF TypeOK
  <1>10. Canales'
    <2>1. ASSUME NEW j \in Instancias
          PROVE  Canal(io'[j], hilo[j], ocupado[j], pidEn[j], haciaIo'[j],
                       desdeIo'[j])
      <3>1. CASE j = i
        <4>1. io'[i] = "libre" /\ haciaIo'[i] = <<>> /\ desdeIo'[i] = <<pidEn[i]>>
          BY <1>2, <1>6 DEF TypeOK
        <4> QED BY <1>3, <3>1, <4>1 DEF Canal
      <3>2. CASE j # i
        BY <1>2, <1>6, <3>2 DEF Canales, TypeOK
      <3> QED BY <3>1, <3>2
    <2> QED BY <1>2, <2>1 DEF Canales
  <1>11. TypeOK'
    BY <1>2, <1>7, <1>8, <1>9, <1>10, CanalesCortos DEF TypeOK
  <1> QED BY <1>1, <1>10, <1>11

LEMMA PasoCaeInstancia ==
  ASSUME Inductivo, NEW i \in Instancias, CaeInstancia(i)
  PROVE  Inductivo'
  <1> USE DEF Inductivo
  <1>1. GrupoExacto' /\ PedidosExactos' /\ SinInstanciaOciosa'
    BY GrupoQuieto DEF CaeInstancia
  <1>2. /\ io[i] \in {"saludo", "libre", "sirve"}
        /\ io' = [io EXCEPT ![i] = "caida"]
        /\ haciaIo' = [haciaIo EXCEPT ![i] = <<>>]
        /\ UNCHANGED <<grupo, grupos, instancias, espera, ultimo, ocupado, pidEn,
                       hilo, grupoDe, situacion, restantes, perdidos, desdeIo>>
    BY DEF CaeInstancia, grupoVars, procVars
  <1>3. io' \in [Instancias -> {"no", "saludo", "libre", "sirve", "caida"}]
    BY <1>2 DEF TypeOK
  <1>4. haciaIo' \in [Instancias ->
                        Seq([op : {"IO", "OK"}, pid : Pids \cup {Nil}])]
    <2> DEFINE M == Seq([op : {"IO", "OK"}, pid : Pids \cup {Nil}])
    <2>1. <<>> \in M
      OBVIOUS
    <2>2. haciaIo \in [Instancias -> M]
      BY DEF TypeOK
    <2> HIDE DEF M
    <2>3. haciaIo' \in [Instancias -> M]
      BY <1>2, <2>1, <2>2
    <2> QED BY <2>3 DEF M
  <1>5. Canales'
    <2>1. ASSUME NEW j \in Instancias
          PROVE  Canal(io'[j], hilo[j], ocupado[j], pidEn[j], haciaIo'[j],
                       desdeIo[j])
      <3>1. CASE j = i
        <4>1. io'[i] = "caida" /\ haciaIo'[i] = <<>>
          BY <1>2 DEF TypeOK
        <4>2. /\ hilo[i] \in Vivos
              /\ desdeIo[i] = <<>> \/ (ocupado[i] /\ desdeIo[i] = <<pidEn[i]>>)
          BY <1>2 DEF Canales, Canal, Vivos
        <4> QED BY <3>1, <4>1, <4>2 DEF Canal, Vivos
      <3>2. CASE j # i
        BY <1>2, <3>2 DEF Canales, TypeOK
      <3> QED BY <3>1, <3>2
    <2> QED BY <1>2, <2>1 DEF Canales
  <1>6. TypeOK'
    BY <1>2, <1>3, <1>4, <1>5, CanalesCortos DEF TypeOK
  <1> QED BY <1>1, <1>5, <1>6

LEMMA PasoResponderHandshake ==
  ASSUME Inductivo, NEW i \in Instancias, ResponderHandshake(i)
  PROVE  Inductivo'
  <1> USE DEF Inductivo
  <1> DEFINE ok == Mensaje("OK", Nil)
  <1>1. /\ hilo[i] = "agregada"
        /\ hilo' = [hilo EXCEPT ![i] = "respondida"]
        /\ haciaIo' = [haciaIo EXCEPT ![i] =
                          IF io[i] = "caida" THEN @ ELSE Append(@, ok)]
        /\ UNCHANGED <<grupo, grupos, instancias, espera, ultimo, ocupado, pidEn,
                       grupoDe, situacion, restantes, perdidos, io, desdeIo>>
    BY DEF ResponderHandshake, grupoVars, procVars
  <1>2. /\ hilo' \in [Instancias ->
                        {"no", "agregada", "respondida", "escucha", "muerta"}]
        /\ \A j \in Instancias : (hilo'[j] \in Vivos <=> hilo[j] \in Vivos)
                                 /\ (hilo'[j] = "no" <=> hilo[j] = "no")
    BY <1>1 DEF TypeOK, Vivos
  <1>3. GrupoExacto'
    <2>1. {j \in Instancias : hilo[j] # "no"}' = {j \in Instancias : hilo[j] # "no"}
      BY <1>2
    <2> HIDE DEF Inductivo
    <2> QED BY <1>1, <1>2, <2>1 DEF GrupoExacto, Inductivo
  <1>4. PedidosExactos'
    BY <1>1 DEF PedidosExactos, SinDoble, PedidosDe, Servidos
  <1>5. SinInstanciaOciosa'
    BY <1>1 DEF SinInstanciaOciosa, TypeOK
  <1>6. haciaIo' \in [Instancias ->
                        Seq([op : {"IO", "OK"}, pid : Pids \cup {Nil}])]
    <2> DEFINE M == [op : {"IO", "OK"}, pid : Pids \cup {Nil}]
    <2>1. ok \in M
      BY DEF Mensaje
    <2>2. haciaIo \in [Instancias -> Seq(M)]
      BY DEF TypeOK
    <2> HIDE DEF M, ok
    <2>3. haciaIo' \in [Instancias -> Seq(M)]
      BY <1>1, <2>1, <2>2, AppendProperties
    <2> QED BY <2>3 DEF M
  <1>7. Canales'
    <2>1. ASSUME NEW j \in Instancias
          PROVE  Canal(io[j], hilo'[j], ocupado[j], pidEn[j], haciaIo'[j],
                       desdeIo[j])
      <3>1. CASE j = i
        <4> DEFINE pedido == Mensaje("IO", pidEn[i])
        <4>1. io[i] \in {"saludo", "caida"} /\ hilo'[i] = "respondida"
          BY <1>1 DEF Canales, Canal, TypeOK
        <4>2. CASE io[i] = "caida"
          <5>1. haciaIo'[i] = haciaIo[i]
            BY <1>1, <4>2 DEF TypeOK
          <5> QED BY <1>1, <3>1, <4>1, <4>2, <5>1 DEF Canales, Canal
        <4>3. CASE io[i] = "saludo"
          <5>1. haciaIo'[i] = Append(haciaIo[i], ok)
            BY <1>1, <4>3 DEF TypeOK
          <5>2. haciaIo[i] = IF ocupado[i] THEN <<pedido>> ELSE <<>>
            BY <1>1, <4>3 DEF Canales, Canal
          <5>3. Append(<<>>, ok) = <<ok>> /\ Append(<<pedido>>, ok) = <<pedido, ok>>
            BY AgregarAUno
          <5>4. haciaIo'[i] = IF ocupado[i] THEN <<pedido, ok>> ELSE <<ok>>
            BY <5>1, <5>2, <5>3
          <5>5. desdeIo[i] = <<>>
            BY <4>3 DEF Canales, Canal
          <5> QED BY <3>1, <4>1, <4>3, <5>4, <5>5 DEF Canal, Vivos
        <4> QED BY <4>1, <4>2, <4>3
      <3>2. CASE j # i
        BY <1>1, <3>2 DEF Canales, TypeOK
      <3> QED BY <3>1, <3>2
    <2> QED BY <1>1, <2>1 DEF Canales
  <1>8. TypeOK'
    BY <1>1, <1>2, <1>6, <1>7, CanalesCortos DEF TypeOK
  <1> QED BY <1>3, <1>4, <1>5, <1>7, <1>8

LEMMA HilosFinitos ==
  ASSUME NEW h
  PROVE  LET H == {i \in Instancias : h[i] # "no"}
         IN /\ IsFiniteSet(H) /\ Cardinality(H) \in Nat
            /\ Cardinality(H) <= Cardinality(Instancias)
            /\ \A i \in Instancias \ H :
                  Cardinality(H \cup {i}) = Cardinality(H) + 1
  <1> DEFINE H == {i \in Instancias : h[i] # "no"}
  <1>1. H \subseteq Instancias
    OBVIOUS
  <1> HIDE DEF H
  <1>2. IsFiniteSet(H) /\ Cardinality(H) <= Cardinality(Instancias)
    BY <1>1, FS_Subset, GruposAssumption
  <1>3. Cardinality(H) \in Nat
    BY <1>2, FS_CardinalityType
  <1>4. \A i \in Instancias \ H : Cardinality(H \cup {i}) = Cardinality(H) + 1
    BY <1>2, FS_AddElement
  <1> QED BY <1>2, <1>3, <1>4 DEF H

LEMMA PasoConectar ==
  ASSUME Inductivo, NEW i \in Instancias, Conectar(i)
  PROVE  Inductivo'
  <1> USE DEF Inductivo
  <1> DEFINE H == {j \in Instancias : hilo[j] # "no"}
  <1>1. /\ io[i] = "no"
        /\ io' = [io EXCEPT ![i] = "saludo"]
        /\ instancias' = Append(instancias, i)
        /\ grupoDe' = [grupoDe EXCEPT ![i] = grupo']
        /\ hilo' = [hilo EXCEPT ![i] = "agregada"]
        /\ UNCHANGED <<espera, ocupado, pidEn, situacion, restantes, perdidos,
                       haciaIo, desdeIo>>
    BY DEF Conectar, procVars
  <1>2. \/ /\ grupo = 0 /\ grupos' = grupos + 1 /\ grupo' = grupos + 1
           /\ ultimo' = 0
        \/ grupo # 0 /\ UNCHANGED <<grupos, grupo, ultimo>>
    BY DEF Conectar
  <1>3. hilo[i] = "no" /\ ~ocupado[i] /\ haciaIo[i] = <<>> /\ desdeIo[i] = <<>>
    BY <1>1 DEF Canales, Canal
  <1>4. i \notin ToSet(instancias)
    BY <1>3 DEF GrupoExacto, Vivos
  <1>5. /\ instancias' \in Seq(Instancias) /\ instancias' # <<>>
        /\ ToSet(instancias)' = ToSet(instancias) \cup {i}
        /\ IsInjective(instancias)'
    <2>1. instancias \in Seq(Instancias) /\ IsInjective(instancias)
      BY DEF TypeOK, GrupoExacto
    <2>2. instancias' \in Seq(Instancias) /\ instancias' # <<>>
      BY <1>1, <2>1, AppendProperties
    <2> QED BY <1>1, <1>4, <2>1, <2>2, ConjuntoAgregar
  <1>6. /\ hilo' \in [Instancias ->
                        {"no", "agregada", "respondida", "escucha", "muerta"}]
        /\ hilo'[i] = "agregada"
        /\ \A j \in Instancias \ {i} : hilo'[j] = hilo[j]
    BY <1>1 DEF TypeOK
  <1>7. /\ grupo \in Nat /\ grupos \in Nat /\ grupo <= grupos
        /\ Cardinality(Instancias) \in Nat
    <2>1. Cardinality(Instancias) \in Nat
      BY GruposAssumption, FS_CardinalityType
    <2> QED BY <2>1 DEF TypeOK
  <1>8. grupos' <= Cardinality({j \in Instancias : hilo[j] # "no"}')
        /\ Cardinality({j \in Instancias : hilo[j] # "no"}')
              <= Cardinality(Instancias)
    <2>1. {j \in Instancias : hilo[j] # "no"}' = H \cup {i}
      BY <1>6
    <2>2. Cardinality(H \cup {i}) = Cardinality(H) + 1 /\ Cardinality(H) \in Nat
      BY <1>3, HilosFinitos
    <2>3. Cardinality({j \in Instancias : hilo'[j] # "no"})
             <= Cardinality(Instancias)
      BY HilosFinitos
    <2>4. grupos <= Cardinality(H)
      BY DEF GrupoExacto
    <2> HIDE DEF H
    <2>5. grupos' <= Cardinality(H) + 1
      BY ONLY <1>2, <1>7, <2>2, <2>4
    <2> QED BY <2>1, <2>2, <2>3, <2>5
  <1>9. /\ grupos' \in 0 .. Cardinality(Instancias) /\ grupo' \in 0 .. grupos'
        /\ grupo' # 0 /\ grupos <= grupos'
        /\ ultimo' \in 0 .. Cardinality(Instancias)
    <2> DEFINE C == Cardinality({j \in Instancias : hilo[j] # "no"}')
    <2>1. C \in Nat /\ grupos' <= C /\ C <= Cardinality(Instancias)
      BY <1>8, HilosFinitos
    <2>2. ultimo \in 0 .. Cardinality(Instancias)
      BY DEF TypeOK
    <2> HIDE DEF C
    <2> QED BY ONLY <1>2, <1>7, <2>1, <2>2
  <1>10. grupoDe' \in [Pids \cup Instancias -> 0 .. grupos']
    <2>1. \A n \in 0 .. grupos : n \in 0 .. grupos'
      BY ONLY <1>7, <1>9
    <2>2. grupoDe \in [Pids \cup Instancias -> 0 .. grupos]
      BY DEF TypeOK
    <2> QED BY ONLY <1>1, <1>9, <2>1, <2>2
  <1>11. GrupoExacto'
    <2>1. ToSet(instancias)' = {j \in Instancias : hilo'[j] \in Vivos}
      BY <1>5, <1>6 DEF GrupoExacto, Vivos
    <2>2. \A j \in Instancias : hilo'[j] \in Vivos => grupoDe'[j] = grupo'
      <3>1. grupo = 0 => \A j \in Instancias : hilo[j] \notin Vivos
        <4>1. instancias = <<>> => ToSet(instancias) = {}
          BY DEF ToSet
        <4> QED BY <4>1 DEF GrupoExacto
      <3> QED BY <1>1, <1>2, <1>6, <3>1 DEF GrupoExacto, TypeOK
    <2>3. \A j \in Instancias : ocupado'[j] => hilo'[j] \in Vivos
      BY <1>1, <1>3, <1>6 DEF GrupoExacto
    <2>4. \A p \in Pids : situacion'[p] = "pedir" => grupoDe'[p] # 0
      BY <1>1, GruposAssumption DEF GrupoExacto, TypeOK
    <2> QED BY <1>5, <1>8, <1>9, <2>1, <2>2, <2>3, <2>4 DEF GrupoExacto
  <1>12. PedidosExactos'
    BY <1>1 DEF PedidosExactos, SinDoble, PedidosDe, Servidos
  <1>13. SinInstanciaOciosa'
    <2>1. \A j \in ToSet(instancias) : j \in Instancias
      BY DEF GrupoExacto
    <2> QED BY <1>1, <1>5, <1>6, <2>1 DEF SinInstanciaOciosa
  <1>14. io' \in [Instancias -> {"no", "saludo", "libre", "sirve", "caida"}]
    BY <1>1 DEF TypeOK
  <1>15. Canales'
    <2>1. ASSUME NEW j \in Instancias
          PROVE  Canal(io'[j], hilo'[j], ocupado[j], pidEn[j], haciaIo[j],
                       desdeIo[j])
      <3>1. CASE j = i
        <4>1. io'[i] = "saludo"
          BY <1>1 DEF TypeOK
        <4> QED BY <1>3, <1>6, <3>1, <4>1 DEF Canal, Vivos
      <3>2. CASE j # i
        BY <1>1, <3>2 DEF Canales, TypeOK
      <3> QED BY <3>1, <3>2
    <2> QED BY <1>1, <2>1 DEF Canales
  <1>16. TypeOK'
    BY <1>1, <1>5, <1>6, <1>9, <1>10, <1>14, <1>15, CanalesCortos DEF TypeOK
  <1> QED BY <1>11, <1>12, <1>13, <1>15, <1>16

LEMMA PasoBloquearPorIo ==
  ASSUME Inductivo, NEW p \in Pids, BloquearPorIo(p)
  PROVE  Inductivo'
  <1> USE DEF Inductivo
  <1>1. /\ situacion[p] = "activo" /\ restantes[p] > 0
        /\ restantes' = [restantes EXCEPT ![p] = @ - 1]
        /\ situacion' = [situacion EXCEPT
                            ![p] = IF grupo = 0 THEN "fin" ELSE "pedir"]
        /\ grupoDe' = [grupoDe EXCEPT ![p] = grupo]
        /\ UNCHANGED <<grupo, grupos, instancias, espera, ultimo, ocupado, pidEn,
                       hilo, perdidos, io, haciaIo, desdeIo>>
    BY DEF BloquearPorIo, grupoVars, redVars
  <1>2. /\ situacion' \in [Pids ->
                             {"activo", "pedir", "bloqueado", "caido", "fin"}]
        /\ grupoDe' \in [Pids \cup Instancias -> 0 .. grupos]
    BY <1>1 DEF TypeOK
  <1>3. restantes' \in [Pids -> 0 .. MaxPedidos]
    <2>1. restantes[p] - 1 \in 0 .. MaxPedidos
      BY <1>1, GruposAssumption DEF TypeOK
    <2> QED BY <1>1, <2>1 DEF TypeOK
  <1>4. Canales'
    BY <1>1 DEF Canales
  <1>5. TypeOK'
    BY <1>1, <1>2, <1>3 DEF TypeOK
  <1>6. SinInstanciaOciosa'
    BY <1>1 DEF SinInstanciaOciosa
  <1>7. PedidosExactos'
    <2>1. \A q \in Pids : (situacion'[q] = "bloqueado"
                              <=> situacion[q] = "bloqueado")
      BY <1>1 DEF TypeOK
    <2>2. \A q \in perdidos : q \in Pids
      BY DEF TypeOK
    <2> QED BY <1>1, <2>1, <2>2 DEF PedidosExactos, SinDoble, PedidosDe, Servidos
  <1>8. GrupoExacto'
    <2>1. \A j \in Instancias : grupoDe'[j] = grupoDe[j]
      BY <1>1, GruposAssumption DEF TypeOK
    <2>2. \A q \in Pids : situacion'[q] = "pedir" => grupoDe'[q] # 0
      BY <1>1 DEF TypeOK, GrupoExacto
    <2> QED BY <1>1, <2>1, <2>2 DEF GrupoExacto
  <1> QED BY <1>4, <1>5, <1>6, <1>7, <1>8

LEMMA PasoFinalizarCaido ==
  ASSUME Inductivo, NEW p \in Pids, FinalizarCaido(p)
  PROVE  Inductivo'
  <1> USE DEF Inductivo
  <1>1. /\ situacion[p] = "caido"
        /\ situacion' = [situacion EXCEPT ![p] = "fin"]
        /\ UNCHANGED <<grupo, grupos, instancias, espera, ultimo, ocupado, pidEn,
                       hilo, grupoDe, restantes, perdidos, io, haciaIo, desdeIo>>
    BY DEF FinalizarCaido, grupoVars, redVars
  <1>2. /\ situacion' \in [Pids ->
                             {"activo", "pedir", "bloqueado", "caido", "fin"}]
        /\ \A q \in Pids : /\ situacion'[q] = "bloqueado"
                                 <=> situacion[q] = "bloqueado"
                           /\ situacion'[q] = "pedir" => situacion[q] = "pedir"
        /\ \A q \in perdidos : q \in Pids
    BY <1>1 DEF TypeOK
  <1>3. TypeOK'
    BY <1>1, <1>2 DEF TypeOK
  <1>4. GrupoExacto' /\ SinInstanciaOciosa' /\ Canales'
    BY <1>1, <1>2 DEF GrupoExacto, SinInstanciaOciosa, Canales
  <1>5. PedidosExactos'
    BY <1>1, <1>2 DEF PedidosExactos, SinDoble, PedidosDe, Servidos
  <1> QED BY <1>3, <1>4, <1>5

\* What the four steps that dispatch have in common.
LEMMA DespachoComun ==
  ASSUME Inductivo, NEW cola, NEW ins, NEW ocu, Datos(cola, ins, ocu),
         SinDoble(cola, ocu, pidEn), Despachar(cola, ins, ocu),
         ins # <<>>, UNCHANGED <<grupo, grupos, grupoDe, io>>,
         hilo' \in [Instancias ->
                      {"no", "agregada", "respondida", "escucha", "muerta"}],
         \A j \in Instancias : hilo[j] = "no" <=> hilo'[j] = "no",
         \A j \in Instancias : hilo'[j] \in Vivos => hilo[j] \in Vivos,
         \A j \in Instancias : ocu[j] => hilo'[j] \in Vivos,
         ToSet(ins) = {j \in Instancias : hilo'[j] \in Vivos},
         situacion' \in [Pids ->
                           {"activo", "pedir", "bloqueado", "caido", "fin"}],
         \A p \in Pids : situacion'[p] = "pedir" => situacion[p] = "pedir",
         UNCHANGED restantes, perdidos' \subseteq Pids,
         desdeIo' \in [Instancias -> Seq(Pids)],
         \A j \in Instancias : Canal(io[j], hilo'[j], ocu[j], pidEn[j],
                                     haciaIo[j], desdeIo'[j])
  PROVE  /\ TypeOK' /\ GrupoExacto' /\ Canales' /\ SinInstanciaOciosa'
         /\ SinDoble(espera, ocupado, pidEn)'
         /\ PedidosDe(espera, ocupado, pidEn)' = PedidosDe(cola, ocu, pidEn)
  <1> USE DEF Inductivo
  <1>1. /\ instancias' = ins /\ espera' \in Seq(Pids)
        /\ ultimo' \in 0 .. Cardinality(Instancias)
        /\ ocupado' \in [Instancias -> BOOLEAN]
        /\ pidEn' \in [Instancias -> Pids \cup {Nil}]
        /\ haciaIo' \in [Instancias ->
                            Seq([op : {"IO", "OK"}, pid : Pids \cup {Nil}])]
    BY DespacharTipos
  <1>2. /\ SinDoble(espera, ocupado, pidEn)'
        /\ PedidosDe(espera, ocupado, pidEn)' = PedidosDe(cola, ocu, pidEn)
        /\ \A j \in Instancias : ocupado'[j] => ocu[j] \/ j \in ToSet(ins)
        /\ espera' # <<>> => \A j \in ToSet(ins) : ocupado'[j]
    BY DespacharPedidos
  <1>3. Canales'
    <2>1. \A j \in ToSet(ins) : hilo'[j] \in Vivos
      OBVIOUS
    <2> QED BY <2>1, DespacharCanal
  <1>4. TypeOK'
    <2>1. /\ TypeOK /\ UNCHANGED <<grupo, grupos, grupoDe, io, restantes>>
          /\ hilo' \in [Instancias ->
                          {"no", "agregada", "respondida", "escucha", "muerta"}]
          /\ situacion' \in [Pids ->
                               {"activo", "pedir", "bloqueado", "caido", "fin"}]
          /\ perdidos' \subseteq Pids /\ desdeIo' \in [Instancias -> Seq(Pids)]
      OBVIOUS
    <2>2. \A i \in Instancias : Len(haciaIo'[i]) <= 2 /\ Len(desdeIo'[i]) <= 1
      BY <1>3, CanalesCortos DEF TypeOK
    <2>3. ins \in Seq(Instancias)
      BY DEF Datos
    <2>4. /\ grupos' \in 0 .. Cardinality(Instancias) /\ grupo' \in 0 .. grupos'
          /\ grupoDe' \in [Pids \cup Instancias -> 0 .. grupos']
          /\ restantes' \in [Pids -> 0 .. MaxPedidos]
          /\ io' \in [Instancias -> {"no", "saludo", "libre", "sirve", "caida"}]
      BY ONLY <2>1 DEF TypeOK
    <2> QED BY ONLY <1>1, <2>1, <2>2, <2>3, <2>4 DEF TypeOK
  <1>5. GrupoExacto'
    <2>1. {j \in Instancias : hilo[j] # "no"}' = {j \in Instancias : hilo[j] # "no"}
      OBVIOUS
    <2>2. grupo # 0
      <3>1. instancias # <<>>
        <4>1. PICK j \in ToSet(ins) : TRUE
          <5>1. Len(ins) # 0 /\ Len(ins) \in Nat
            BY EmptySeq, LenProperties DEF Datos
          <5>2. 1 \in DOMAIN ins
            BY <5>1, LenProperties DEF Datos
          <5> QED BY <5>2 DEF ToSet
        <4>2. j \in ToSet(instancias)
          BY <4>1 DEF GrupoExacto
        <4> QED BY <4>2 DEF ToSet
      <3> QED BY <3>1 DEF GrupoExacto
    <2>3. \A j \in Instancias : ocupado'[j] => hilo'[j] \in Vivos
      BY <1>2
    <2> QED BY <1>1, <2>1, <2>2, <2>3 DEF GrupoExacto, Datos
  <1>6. SinInstanciaOciosa'
    BY <1>1, <1>2 DEF SinInstanciaOciosa
  <1> QED BY <1>2, <1>3, <1>4, <1>5, <1>6

LEMMA PasoDespacharAlConectar ==
  ASSUME Inductivo, NEW i \in Instancias, DespacharAlConectar(i)
  PROVE  /\ Inductivo'
         /\ PedidosDe(espera, ocupado, pidEn)'
               = PedidosDe(espera, ocupado, pidEn)
         /\ Datos(espera, instancias, ocupado)
         /\ Despachar(espera, instancias, ocupado)
  <1> USE DEF Inductivo
  <1>1. /\ hilo[i] = "respondida"
        /\ hilo' = [hilo EXCEPT ![i] = "escucha"]
        /\ UNCHANGED <<grupo, grupos, grupoDe, situacion, restantes, perdidos,
                       io, desdeIo>>
    BY DEF DespacharAlConectar, procVars
  <1>2. i \in ToSet(instancias) /\ grupoDe[i] = grupo
    BY <1>1 DEF GrupoExacto, Vivos
  <1>3. Despachar(espera, instancias, ocupado)
    BY <1>2 DEF DespacharAlConectar
  <1>4. Datos(espera, instancias, ocupado) /\ instancias # <<>>
    BY <1>2 DEF Datos, TypeOK, GrupoExacto, ToSet
  <1>5. /\ hilo' \in [Instancias ->
                        {"no", "agregada", "respondida", "escucha", "muerta"}]
        /\ \A j \in Instancias : /\ hilo[j] = "no" <=> hilo'[j] = "no"
                                 /\ hilo'[j] \in Vivos <=> hilo[j] \in Vivos
    BY <1>1 DEF TypeOK, Vivos
  <1>6. /\ ToSet(instancias) = {j \in Instancias : hilo'[j] \in Vivos}
        /\ \A j \in Instancias : ocupado[j] => hilo'[j] \in Vivos
    BY <1>5 DEF GrupoExacto
  <1>7. ASSUME NEW j \in Instancias
        PROVE  Canal(io[j], hilo'[j], ocupado[j], pidEn[j], haciaIo[j],
                     desdeIo'[j])
    <2>1. Canal(io[j], hilo[j], ocupado[j], pidEn[j], haciaIo[j], desdeIo[j])
      BY DEF Canales
    <2>2. CASE j = i
      <3>1. hilo[j] = "respondida" /\ hilo'[j] = "escucha" /\ desdeIo' = desdeIo
        BY <1>1, <2>2 DEF TypeOK
      <3> QED BY <2>1, <3>1 DEF Canal, Vivos
    <2>3. CASE j # i
      BY <1>1, <2>1, <2>3 DEF TypeOK
    <2> QED BY <2>2, <2>3
  <1>8. SinDoble(espera, ocupado, pidEn)
    BY DEF PedidosExactos
  <1>9. /\ TypeOK' /\ GrupoExacto' /\ Canales' /\ SinInstanciaOciosa'
        /\ SinDoble(espera, ocupado, pidEn)'
        /\ PedidosDe(espera, ocupado, pidEn)' = PedidosDe(espera, ocupado, pidEn)
    <2>1. /\ situacion' = situacion
          /\ situacion \in [Pids ->
                              {"activo", "pedir", "bloqueado", "caido", "fin"}]
          /\ perdidos' \subseteq Pids /\ desdeIo' \in [Instancias -> Seq(Pids)]
          /\ UNCHANGED restantes /\ UNCHANGED <<grupo, grupos, grupoDe, io>>
      BY <1>1 DEF TypeOK
    <2> QED BY <1>3, <1>4, <1>5, <1>6, <1>7, <1>8, <2>1, DespachoComun
  <1>10. PedidosExactos'
    BY <1>1, <1>9 DEF PedidosExactos
  <1> QED BY <1>3, <1>4, <1>9, <1>10

LEMMA PasoPedirIo ==
  ASSUME Inductivo, NEW p \in Pids, PedirIo(p)
  PROVE  /\ Inductivo'
         /\ grupoDe[p] = grupo =>
               /\ grupo # 0 /\ p \notin PedidosDe(espera, ocupado, pidEn)
               /\ PedidosDe(espera, ocupado, pidEn)'
                     = PedidosDe(espera, ocupado, pidEn) \cup {p}
               /\ Datos(Append(espera, p), instancias, ocupado)
               /\ Despachar(Append(espera, p), instancias, ocupado)
         /\ grupoDe[p] # grupo =>
               UNCHANGED <<grupo, instancias, espera, ocupado, pidEn>>
  <1> USE DEF Inductivo
  <1>1. /\ situacion[p] = "pedir"
        /\ situacion' = [situacion EXCEPT ![p] = "bloqueado"]
        /\ UNCHANGED <<grupo, grupos, hilo, grupoDe, restantes, io, desdeIo>>
    BY DEF PedirIo
  <1>2. /\ situacion' \in [Pids ->
                             {"activo", "pedir", "bloqueado", "caido", "fin"}]
        /\ situacion'[p] = "bloqueado"
        /\ \A q \in Pids \ {p} : situacion'[q] = situacion[q]
    BY <1>1 DEF TypeOK
  <1>3. p \notin perdidos /\ p \notin PedidosDe(espera, ocupado, pidEn)
    BY <1>1 DEF PedidosExactos
  <1>4. CASE grupoDe[p] = grupo
    <2> DEFINE cola == Append(espera, p)
    <2>1. Despachar(cola, instancias, ocupado) /\ perdidos' = perdidos
      BY <1>4 DEF PedirIo
    <2>2. grupo # 0 /\ instancias # <<>>
      BY <1>1, <1>4 DEF GrupoExacto
    <2>3. /\ espera \in Seq(Pids) /\ IsInjective(espera)
          /\ p \notin ToSet(espera) /\ p \notin Servidos(ocupado, pidEn)
      BY <1>3 DEF TypeOK, PedidosExactos, SinDoble, PedidosDe
    <2>4. /\ cola \in Seq(Pids) /\ ToSet(cola) = ToSet(espera) \cup {p}
          /\ IsInjective(cola)
      BY <2>3, ConjuntoAgregar, AppendProperties
    <2> HIDE DEF cola
    <2>5. Datos(cola, instancias, ocupado)
      BY <2>4 DEF Datos, TypeOK, GrupoExacto
    <2>6. SinDoble(cola, ocupado, pidEn)
      BY <2>3, <2>4 DEF PedidosExactos, SinDoble
    <2>7. /\ TypeOK' /\ GrupoExacto' /\ Canales' /\ SinInstanciaOciosa'
          /\ SinDoble(espera, ocupado, pidEn)'
          /\ PedidosDe(espera, ocupado, pidEn)' = PedidosDe(cola, ocupado, pidEn)
      <3>1. /\ hilo' = hilo
            /\ hilo \in [Instancias ->
                          {"no", "agregada", "respondida", "escucha", "muerta"}]
            /\ perdidos' \subseteq Pids /\ desdeIo' = desdeIo
            /\ desdeIo \in [Instancias -> Seq(Pids)]
            /\ UNCHANGED restantes /\ UNCHANGED <<grupo, grupos, grupoDe, io>>
            /\ \A q \in Pids : situacion'[q] = "pedir" => situacion[q] = "pedir"
        BY <1>1, <1>2, <2>1 DEF TypeOK
      <3>2. /\ ToSet(instancias) = {j \in Instancias : hilo[j] \in Vivos}
            /\ \A j \in Instancias : ocupado[j] => hilo[j] \in Vivos
        BY DEF GrupoExacto
      <3>3. \A j \in Instancias : Canal(io[j], hilo'[j], ocupado[j], pidEn[j],
                                        haciaIo[j], desdeIo'[j])
        BY <3>1 DEF Canales
      <3> QED BY <1>2, <2>1, <2>2, <2>5, <2>6, <3>1, <3>2, <3>3, DespachoComun
    <2>8. PedidosDe(cola, ocupado, pidEn)
             = PedidosDe(espera, ocupado, pidEn) \cup {p}
      BY <2>4 DEF PedidosDe
    <2>9. PedidosExactos'
      <3>1. \A q \in perdidos : q \in Pids /\ q # p
        BY <1>3 DEF TypeOK
      <3>2. \A q \in perdidos : situacion'[q] = "bloqueado"
        BY <1>2, <3>1 DEF PedidosExactos
      <3>3. \A q \in Pids : q \in PedidosDe(cola, ocupado, pidEn)
                             <=> situacion'[q] = "bloqueado" /\ q \notin perdidos
        BY <1>2, <1>3, <2>8 DEF PedidosExactos
      <3> QED BY <2>1, <2>7, <3>2, <3>3 DEF PedidosExactos
    <2> QED BY <1>3, <1>4, <2>1, <2>2, <2>5, <2>7, <2>8, <2>9 DEF cola
  <1>5. CASE grupoDe[p] # grupo
    <2>1. /\ perdidos' = perdidos \cup {p}
          /\ UNCHANGED <<instancias, espera, ultimo, ocupado, pidEn, haciaIo>>
      BY <1>5 DEF PedirIo
    <2>2. TypeOK'
      BY <1>1, <1>2, <2>1 DEF TypeOK
    <2>3. GrupoExacto' /\ SinInstanciaOciosa' /\ Canales'
      BY <1>1, <1>2, <2>1 DEF GrupoExacto, SinInstanciaOciosa, Canales
    <2>4. PedidosExactos'
      <3>1. \A q \in perdidos : q \in Pids
        BY DEF TypeOK
      <3> QED BY <1>2, <1>3, <2>1, <3>1
              DEF PedidosExactos, SinDoble, PedidosDe, Servidos
    <2> QED BY <1>1, <1>5, <2>1, <2>2, <2>3, <2>4
  <1> QED BY <1>4, <1>5

LEMMA PasoFinIo ==
  ASSUME Inductivo, NEW i \in Instancias, FinIo(i)
  PROVE  LET p   == pidEn[i]
             ocu == [ocupado EXCEPT ![i] = FALSE]
         IN /\ Inductivo'
            /\ p \in Pids /\ situacion' = [situacion EXCEPT ![p] = "activo"]
            /\ situacion[p] = "bloqueado"
            /\ p \in PedidosDe(espera, ocupado, pidEn)
            /\ PedidosDe(espera, ocupado, pidEn)'
                  = PedidosDe(espera, ocupado, pidEn) \ {p}
            /\ Datos(espera, instancias, ocu)
            /\ Despachar(espera, instancias, ocu)
  <1> USE DEF Inductivo
  <1> DEFINE p   == pidEn[i]
             ocu == [ocupado EXCEPT ![i] = FALSE]
  <1>1. /\ hilo[i] \in Vivos /\ desdeIo[i] # <<>>
        /\ desdeIo' = [desdeIo EXCEPT ![i] = Tail(@)]
        /\ situacion' = [situacion EXCEPT ![Head(desdeIo[i])] = "activo"]
        /\ Despachar(espera, instancias, ocu)
        /\ UNCHANGED <<grupo, grupos, hilo, grupoDe, restantes, perdidos, io>>
    BY DEF FinIo, Vivos
  <1>2. /\ io[i] \in {"libre", "caida"} /\ ocupado[i] /\ desdeIo[i] = <<p>>
        /\ haciaIo[i] = <<>>
    <2>1. io[i] \in {"no", "saludo", "libre", "sirve", "caida"}
      BY DEF TypeOK
    <2> QED BY <1>1, <2>1 DEF Canales, Canal
  <1>3. p \in Pids /\ p \in PedidosDe(espera, ocupado, pidEn)
        /\ situacion[p] = "bloqueado" /\ p \notin perdidos /\ p \notin ToSet(espera)
    BY <1>2 DEF PedidosExactos, SinDoble, Servidos, PedidosDe
  <1>4. /\ situacion' = [situacion EXCEPT ![p] = "activo"]
        /\ desdeIo' = [desdeIo EXCEPT ![i] = <<>>]
    <2>1. Head(<<p>>) = p /\ Tail(<<p>>) = <<>>
      OBVIOUS
    <2> QED BY <1>1, <1>2, <2>1
  <1>5. /\ ocu \in [Instancias -> BOOLEAN] /\ ocu[i] = FALSE
        /\ \A j \in Instancias \ {i} : ocu[j] = ocupado[j]
    BY DEF TypeOK
  <1> HIDE DEF ocu, p
  <1>6. Servidos(ocu, pidEn) = Servidos(ocupado, pidEn) \ {p}
    <2>1. \A j \in Instancias : ocupado[j] /\ j # i => pidEn[j] # p
      BY <1>2 DEF PedidosExactos, SinDoble, p
    <2> QED BY <1>5, <2>1 DEF Servidos, p
  <1>7. SinDoble(espera, ocu, pidEn)
    BY <1>5, <1>6 DEF PedidosExactos, SinDoble
  <1>8. PedidosDe(espera, ocu, pidEn) = PedidosDe(espera, ocupado, pidEn) \ {p}
    BY <1>3, <1>6 DEF PedidosDe
  <1>9. i \in ToSet(instancias) /\ instancias # <<>>
    BY <1>1 DEF GrupoExacto, ToSet
  <1>10. Datos(espera, instancias, ocu)
    BY <1>5 DEF Datos, TypeOK, GrupoExacto
  <1>11. /\ situacion' \in [Pids ->
                              {"activo", "pedir", "bloqueado", "caido", "fin"}]
         /\ situacion'[p] = "activo"
         /\ \A q \in Pids \ {p} : situacion'[q] = situacion[q]
         /\ desdeIo' \in [Instancias -> Seq(Pids)]
    <2>1. <<>> \in Seq(Pids)
      OBVIOUS
    <2> QED BY <1>3, <1>4, <2>1 DEF TypeOK
  <1>12. ASSUME NEW j \in Instancias
         PROVE  Canal(io[j], hilo'[j], ocu[j], pidEn[j], haciaIo[j], desdeIo'[j])
    <2>1. Canal(io[j], hilo[j], ocupado[j], pidEn[j], haciaIo[j], desdeIo[j])
      BY DEF Canales
    <2>2. hilo' = hilo
      BY <1>1
    <2>3. CASE j = i
      <3>1. desdeIo'[i] = <<>>
        BY <1>4 DEF TypeOK
      <3> QED BY <1>2, <1>5, <2>1, <2>2, <2>3, <3>1 DEF Canal
    <2>4. CASE j # i
      <3>1. desdeIo'[j] = desdeIo[j] /\ ocu[j] = ocupado[j]
        BY <1>4, <1>5, <2>4 DEF TypeOK
      <3> QED BY <2>1, <2>2, <3>1
    <2> QED BY <2>3, <2>4
  <1>13. /\ TypeOK' /\ GrupoExacto' /\ Canales' /\ SinInstanciaOciosa'
         /\ SinDoble(espera, ocupado, pidEn)'
         /\ PedidosDe(espera, ocupado, pidEn)' = PedidosDe(espera, ocu, pidEn)
    <2>1. /\ hilo' = hilo
          /\ hilo \in [Instancias ->
                         {"no", "agregada", "respondida", "escucha", "muerta"}]
          /\ perdidos' \subseteq Pids
          /\ UNCHANGED restantes /\ UNCHANGED <<grupo, grupos, grupoDe, io>>
      BY <1>1 DEF TypeOK
    <2>2. /\ ToSet(instancias) = {j \in Instancias : hilo[j] \in Vivos}
          /\ \A j \in Instancias : ocu[j] => hilo[j] \in Vivos
      BY <1>5 DEF GrupoExacto
    <2>3. \A q \in Pids : situacion'[q] = "pedir" => situacion[q] = "pedir"
      BY <1>3, <1>11
    <2>4. Despachar(espera, instancias, ocu)
      BY <1>1
    <2> QED BY <1>7, <1>9, <1>10, <1>11, <1>12, <2>1, <2>2, <2>3, <2>4,
               DespachoComun
  <1>14. PedidosExactos'
    <2>1. \A q \in perdidos : q \in Pids /\ q # p /\ situacion'[q] = "bloqueado"
      BY <1>3, <1>11 DEF TypeOK, PedidosExactos
    <2>2. \A q \in Pids : q \in PedidosDe(espera, ocu, pidEn)
                             <=> situacion'[q] = "bloqueado" /\ q \notin perdidos
      BY <1>3, <1>8, <1>11 DEF PedidosExactos
    <2> QED BY <1>1, <1>13, <2>1, <2>2 DEF PedidosExactos
  <1> QED BY <1>1, <1>3, <1>4, <1>8, <1>10, <1>13, <1>14 DEF ocu, p

LEMMA RecuperadaCorrecta ==
  ASSUME Inductivo, NEW i \in Instancias
  PROVE  LET cola == Recuperada(i)
             ocu  == [ocupado EXCEPT ![i] = FALSE]
         IN /\ cola \in Seq(Pids) /\ IsInjective(cola)
            /\ ocu \in [Instancias -> BOOLEAN]
            /\ SinDoble(cola, ocu, pidEn)
            /\ PedidosDe(cola, ocu, pidEn) = PedidosDe(espera, ocupado, pidEn)
  <1> USE DEF Inductivo
  <1> DEFINE cola == Recuperada(i)
             ocu  == [ocupado EXCEPT ![i] = FALSE]
             p    == pidEn[i]
  <1>1. /\ ocu \in [Instancias -> BOOLEAN] /\ ocu[i] = FALSE
        /\ \A j \in Instancias \ {i} : ocu[j] = ocupado[j]
    BY DEF TypeOK
  <1>2. espera \in Seq(Pids) /\ SinDoble(espera, ocupado, pidEn)
    BY DEF TypeOK, PedidosExactos
  <1>3. CASE ocupado[i]
    <2>1. p \in Pids /\ p \in Servidos(ocupado, pidEn) /\ p \notin ToSet(espera)
      BY <1>2, <1>3 DEF SinDoble, Servidos
    <2>2. cola = <<p>> \o espera
      BY <1>3 DEF Recuperada
    <2>3. /\ cola \in Seq(Pids) /\ IsInjective(cola)
          /\ ToSet(cola) = ToSet(espera) \cup {p}
      BY <1>2, <2>1, <2>2, ConjuntoAnteponer DEF SinDoble
    <2> HIDE DEF cola, ocu, p
    <2>4. Servidos(ocu, pidEn) = Servidos(ocupado, pidEn) \ {p}
      <3>1. \A j \in Instancias : ocupado[j] /\ j # i => pidEn[j] # p
        BY <1>2, <1>3 DEF SinDoble, p
      <3> QED BY <1>1, <3>1 DEF Servidos, p
    <2>5. SinDoble(cola, ocu, pidEn)
      BY <1>1, <1>2, <2>3, <2>4 DEF SinDoble
    <2>6. PedidosDe(cola, ocu, pidEn) = PedidosDe(espera, ocupado, pidEn)
      BY <2>1, <2>3, <2>4 DEF PedidosDe
    <2> QED BY <1>1, <2>3, <2>5, <2>6 DEF cola, ocu
  <1>4. CASE ~ocupado[i]
    <2>1. ocu = ocupado /\ cola = espera
      BY <1>4 DEF TypeOK, Recuperada
    <2> QED BY <1>1, <1>2, <2>1 DEF SinDoble
  <1> QED BY <1>3, <1>4

LEMMA PasoDetectarDesconexion ==
  ASSUME Inductivo, NEW i \in Instancias, DetectarDesconexion(i)
  PROVE  LET cola == Recuperada(i)
             ocu  == [ocupado EXCEPT ![i] = FALSE]
         IN /\ Inductivo' /\ grupo # 0
            /\ \/ /\ UNCHANGED <<grupo, situacion>>
                  /\ PedidosDe(espera, ocupado, pidEn)'
                        = PedidosDe(espera, ocupado, pidEn)
                  /\ \E ins : Datos(cola, ins, ocu) /\ Despachar(cola, ins, ocu)
               \/ /\ grupo' = 0 /\ espera' = <<>>
                  /\ PedidosDe(espera, ocupado, pidEn)' = {}
                  /\ \A p \in Pids :
                        situacion'[p] = IF p \in PedidosDe(espera, ocupado, pidEn)
                                        THEN "caido" ELSE situacion[p]
  <1> USE DEF Inductivo
  <1> DEFINE cola == Recuperada(i)
             ocu  == [ocupado EXCEPT ![i] = FALSE]
  <1>1. /\ hilo[i] \in Vivos /\ io[i] = "caida" /\ desdeIo[i] = <<>>
        /\ hilo' = [hilo EXCEPT ![i] = "muerta"]
        /\ UNCHANGED <<grupos, grupoDe, restantes, perdidos, io, desdeIo>>
    BY DEF DetectarDesconexion, Vivos
  <1>2. PICK k \in DOMAIN instancias :
          LET ins == RemoveAt(instancias, k)
          IN /\ instancias[k] = i
             /\ IF ins # <<>>
                THEN /\ Despachar(cola, ins, ocu)
                     /\ UNCHANGED <<grupo, situacion>>
                ELSE /\ grupo' = 0
                     /\ instancias' = <<>> /\ espera' = <<>>
                     /\ situacion' = [p \in Pids |-> IF p \in ToSet(cola)
                                                THEN "caido" ELSE situacion[p]]
                     /\ ocupado' = ocu
                     /\ UNCHANGED <<ultimo, pidEn, haciaIo>>
    BY DEF DetectarDesconexion
  <1> DEFINE ins == RemoveAt(instancias, k)
  <1>3. /\ cola \in Seq(Pids) /\ IsInjective(cola)
        /\ ocu \in [Instancias -> BOOLEAN]
        /\ SinDoble(cola, ocu, pidEn)
        /\ PedidosDe(cola, ocu, pidEn) = PedidosDe(espera, ocupado, pidEn)
    BY RecuperadaCorrecta
  <1>4. /\ ins \in Seq(Instancias) /\ IsInjective(ins)
        /\ ToSet(ins) = ToSet(instancias) \ {i}
    BY <1>2, TipoQuitar, ConjuntoSacar DEF TypeOK, GrupoExacto
  <1>5. /\ hilo' \in [Instancias ->
                        {"no", "agregada", "respondida", "escucha", "muerta"}]
        /\ hilo'[i] = "muerta"
        /\ \A j \in Instancias \ {i} : hilo'[j] = hilo[j]
    BY <1>1 DEF TypeOK
  <1>6. /\ \A j \in Instancias : /\ hilo[j] = "no" <=> hilo'[j] = "no"
                                 /\ hilo'[j] \in Vivos <=> hilo[j] \in Vivos /\ j # i
        /\ ToSet(ins) = {j \in Instancias : hilo'[j] \in Vivos}
    BY <1>1, <1>4, <1>5 DEF GrupoExacto, Vivos
  <1>7. grupo # 0
    <2>1. i \in ToSet(instancias)
      BY <1>1 DEF GrupoExacto
    <2> QED BY <2>1 DEF GrupoExacto, ToSet
  <1>8. ocu[i] = FALSE /\ \A j \in Instancias \ {i} : ocu[j] = ocupado[j]
    BY DEF TypeOK
  <1> HIDE DEF ins, ocu, cola
  <1>9. ASSUME NEW j \in Instancias
        PROVE  Canal(io[j], hilo'[j], ocu[j], pidEn[j], haciaIo[j], desdeIo'[j])
    <2>1. /\ Canal(io[j], hilo[j], ocupado[j], pidEn[j], haciaIo[j], desdeIo[j])
          /\ desdeIo' = desdeIo
      BY <1>1 DEF Canales
    <2>2. CASE j = i
      BY <1>1, <1>5, <1>8, <2>1, <2>2 DEF Canal
    <2>3. CASE j # i
      BY <1>5, <1>8, <2>1, <2>3
    <2> QED BY <2>2, <2>3
  <1>10. CASE ins # <<>>
    <2>1. Despachar(cola, ins, ocu) /\ UNCHANGED <<grupo, situacion>>
      BY <1>2, <1>10 DEF ins
    <2>2. Datos(cola, ins, ocu)
      BY <1>3, <1>4 DEF Datos
    <2>3. /\ TypeOK' /\ GrupoExacto' /\ Canales' /\ SinInstanciaOciosa'
          /\ SinDoble(espera, ocupado, pidEn)'
          /\ PedidosDe(espera, ocupado, pidEn)' = PedidosDe(cola, ocu, pidEn)
      <3>1. /\ situacion' = situacion
            /\ situacion \in [Pids ->
                                {"activo", "pedir", "bloqueado", "caido", "fin"}]
            /\ perdidos' \subseteq Pids /\ desdeIo' \in [Instancias -> Seq(Pids)]
            /\ UNCHANGED restantes /\ UNCHANGED <<grupo, grupos, grupoDe, io>>
        BY <1>1, <2>1 DEF TypeOK
      <3>2. \A j \in Instancias : ocu[j] => hilo'[j] \in Vivos
        BY <1>6, <1>8 DEF GrupoExacto
      <3> QED BY <1>3, <1>5, <1>6, <1>9, <1>10, <2>1, <2>2, <3>1, <3>2,
                 DespachoComun
    <2>4. PedidosExactos'
      BY <1>1, <1>3, <2>1, <2>3 DEF PedidosExactos
    <2> QED BY <1>3, <1>7, <2>1, <2>2, <2>3, <2>4 DEF ocu, cola
  <1>11. CASE ins = <<>>
    <2>1. /\ grupo' = 0 /\ instancias' = <<>> /\ espera' = <<>>
          /\ situacion' = [p \in Pids |-> IF p \in ToSet(cola)
                                          THEN "caido" ELSE situacion[p]]
          /\ ocupado' = ocu
          /\ UNCHANGED <<ultimo, pidEn, haciaIo>>
      BY <1>2, <1>11 DEF ins
    <2>2. ToSet(ins) = {} /\ ToSet(<<>>) = {}
      BY <1>11 DEF ToSet
    <2>3. \A j \in Instancias : hilo'[j] \notin Vivos /\ ~ocu[j]
      BY <1>6, <1>8, <2>2 DEF GrupoExacto
    <2>4. ToSet(cola) = PedidosDe(espera, ocupado, pidEn)
      BY <1>3, <2>3 DEF PedidosDe, Servidos
    <2>5. TypeOK'
      <3>1. /\ situacion' \in [Pids ->
                                 {"activo", "pedir", "bloqueado", "caido", "fin"}]
            /\ instancias' \in Seq(Instancias) /\ espera' \in Seq(Pids)
        BY <2>1 DEF TypeOK
      <3>2. grupo' \in 0 .. grupos'
        BY <1>1, <2>1 DEF TypeOK
      <3> QED BY <1>1, <1>3, <1>5, <2>1, <3>1, <3>2 DEF TypeOK
    <2>6. GrupoExacto'
      <3>1. {j \in Instancias : hilo[j] # "no"}' = {j \in Instancias : hilo[j] # "no"}
        BY <1>6
      <3>2. IsInjective(<<>>)
        BY DEF IsInjective
      <3>3. \A p \in Pids : situacion'[p] = "pedir" => situacion[p] = "pedir"
        BY <2>1
      <3> QED BY <1>1, <2>1, <2>2, <2>3, <3>1, <3>2, <3>3 DEF GrupoExacto
    <2>7. Canales'
      BY <1>1, <1>9, <2>1 DEF Canales
    <2>8. SinInstanciaOciosa'
      BY <2>1 DEF SinInstanciaOciosa
    <2>9. /\ SinDoble(espera, ocupado, pidEn)'
          /\ PedidosDe(espera, ocupado, pidEn)' = {}
      <3>1. IsInjective(<<>>)
        BY DEF IsInjective
      <3> QED BY <2>1, <2>2, <2>3, <3>1 DEF SinDoble, PedidosDe, Servidos
    <2>10. PedidosExactos'
      <3>1. \A p \in perdidos : p \in Pids /\ p \notin ToSet(cola)
        BY <2>4 DEF TypeOK, PedidosExactos
      <3>2. \A p \in perdidos : situacion'[p] = "bloqueado"
        BY <2>1, <3>1 DEF PedidosExactos
      <3>3. \A p \in Pids : ~(situacion'[p] = "bloqueado" /\ p \notin perdidos)
        BY <2>1, <2>4 DEF PedidosExactos
      <3> QED BY <1>1, <2>9, <3>2, <3>3 DEF PedidosExactos
    <2> QED BY <1>7, <2>1, <2>4, <2>5, <2>6, <2>7, <2>8, <2>9, <2>10
  <1> QED BY <1>10, <1>11

LEMMA InductivoInit ==
  ASSUME Init
  PROVE  Inductivo
  <1>1. /\ <<>> \in Seq(Instancias) /\ <<>> \in Seq(Pids)
        /\ <<>> \in Seq([op : {"IO", "OK"}, pid : Pids \cup {Nil}])
        /\ Len(<<>>) = 0 /\ ToSet(<<>>) = {} /\ IsInjective(<<>>)
    BY DEF ToSet, IsInjective
  <1>2. Cardinality(Instancias) \in Nat /\ MaxPedidos \in Nat
    BY GruposAssumption, FS_CardinalityType
  <1>3. TypeOK
    BY <1>1, <1>2 DEF Init, TypeOK
  <1>4. GrupoExacto
    <2>1. {i \in Instancias : hilo[i] # "no"} = {}
      BY DEF Init
    <2>2. grupos <= Cardinality({i \in Instancias : hilo[i] # "no"})
      <3>1. grupos = 0
        BY DEF Init
      <3>2. Cardinality({i \in Instancias : hilo[i] # "no"}) = 0
        BY ONLY <2>1, FS_EmptySet
      <3> QED BY ONLY <3>1, <3>2
    <2> QED BY <1>1, <2>2 DEF Init, GrupoExacto, Vivos
  <1>5. PedidosExactos
    BY <1>1 DEF Init, PedidosExactos, SinDoble, PedidosDe, Servidos
  <1>6. Canales
    BY DEF Init, Canales, Canal
  <1>7. SinInstanciaOciosa
    BY DEF Init, SinInstanciaOciosa
  <1> QED BY <1>3, <1>4, <1>5, <1>6, <1>7 DEF Inductivo

LEMMA InductivoPaso ==
  ASSUME Inductivo, [Next]_vars
  PROVE  Inductivo'
  <1>1. CASE UNCHANGED vars
    <2>1. UNCHANGED <<grupo, grupos, instancias, espera, ultimo, ocupado, pidEn,
                      hilo, grupoDe, situacion, restantes, perdidos, io, haciaIo,
                      desdeIo>>
      BY <1>1 DEF vars, grupoVars, procVars, redVars
    <2>2. GrupoExacto' /\ PedidosExactos' /\ SinInstanciaOciosa'
      BY <2>1, GrupoQuieto DEF grupoVars, procVars
    <2>3. TypeOK' /\ Canales'
      BY <2>1 DEF Inductivo, TypeOK, Canales
    <2> QED BY <2>2, <2>3 DEF Inductivo
  <1>2. ASSUME NEW i \in Instancias, Conectar(i)
        PROVE  Inductivo'
    BY <1>2, PasoConectar
  <1>3. ASSUME NEW i \in Instancias, Conexion(i)
        PROVE  Inductivo'
    BY <1>3, PasoResponderHandshake, PasoDespacharAlConectar DEF Conexion
  <1>4. ASSUME NEW i \in Instancias, Escucha(i)
        PROVE  Inductivo'
    BY <1>4, PasoFinIo, PasoDetectarDesconexion DEF Escucha
  <1>5. ASSUME NEW i \in Instancias, Dispositivo(i)
        PROVE  Inductivo'
    BY <1>5, PasoRecibirHandshake, PasoEmpezarIo, PasoTerminarIo DEF Dispositivo
  <1>6. ASSUME NEW i \in Instancias, CaeInstancia(i)
        PROVE  Inductivo'
    BY <1>6, PasoCaeInstancia
  <1>7. ASSUME NEW p \in Pids, BloquearPorIo(p)
        PROVE  Inductivo'
    BY <1>7, PasoBloquearPorIo
  <1>8. ASSUME NEW p \in Pids, Proceso(p)
        PROVE  Inductivo'
    BY <1>8, PasoPedirIo, PasoFinalizarCaido DEF Proceso
  <1> QED BY <1>1, <1>2, <1>3, <1>4, <1>5, <1>6, <1>7, <1>8 DEF Next

LEMMA SiempreInductivo == Spec => []Inductivo
  <1>1. Init => Inductivo
    BY InductivoInit
  <1>2. Inductivo /\ [Next]_vars => Inductivo'
    BY InductivoPaso
  <1> QED BY <1>1, <1>2, PTL DEF Spec

----------------------------------------------------------------------------
\* The properties.

\* Every variable of the group and of its devices keeps its shape; no channel
\* ever holds more than two messages to a device or one from it.
THEOREM TiposCorrectos == Spec => []TypeOK
  <1>1. Inductivo => TypeOK
    BY DEF Inductivo
  <1> QED BY <1>1, SiempreInductivo, PTL

\* A request waits only while every instance of the group is busy or its
\* connection thread is about to look at the queue (despachar_io_si_es_posible).
THEOREM NadieEsperaDeMas == Spec => []SinInstanciaOciosa
  <1>1. Inductivo => SinInstanciaOciosa
    BY DEF Inductivo
  <1> QED BY <1>1, SiempreInductivo, PTL

LEMMA OcupadasTodas ==
  ASSUME Inductivo
  PROVE  /\ Ocupadas = {i \in Instancias : ocupado[i]}
         /\ \A x \in Instancias : x \in Ocupadas <=> ocupado[x]
  BY DEF Inductivo, GrupoExacto, Ocupadas

\* A blocked process has exactly one request, in the queue or with one instance,
\* and there are no others, whatever devices die (bloquear_proceso,
\* manejar_fin_io, manejar_desconexion_io).
THEOREM UnSoloPedido == Spec => []UnPedidoPorBloqueado
  <1>1. ASSUME Inductivo PROVE UnPedidoPorBloqueado
    <2>1. /\ SinDoble(espera, ocupado, pidEn) /\ espera \in Seq(Pids)
          /\ \A p \in Pids : p \in PedidosDe(espera, ocupado, pidEn)
                                <=> situacion[p] = "bloqueado" /\ p \notin perdidos
      BY <1>1 DEF Inductivo, TypeOK, PedidosExactos
    <2>2. SUFFICES ASSUME NEW p \in Pids
                   PROVE  Cardinality({k \in DOMAIN espera : espera[k] = p})
                             + Cardinality({i \in Ocupadas : pidEn[i] = p})
                          = IF situacion[p] = "bloqueado" /\ p \notin perdidos
                            THEN 1 ELSE 0
      BY DEF UnPedidoPorBloqueado
    <2>3. Cardinality({k \in DOMAIN espera : espera[k] = p})
             = IF p \in ToSet(espera) THEN 1 ELSE 0
      BY <2>1, VecesDe DEF SinDoble
    <2>4. Cardinality({i \in Ocupadas : pidEn[i] = p})
             = IF p \in Servidos(ocupado, pidEn) THEN 1 ELSE 0
      <3> DEFINE O == {i \in Ocupadas : pidEn[i] = p}
      <3>1. CASE p \in Servidos(ocupado, pidEn)
        <4>1. PICK i \in Instancias : ocupado[i] /\ pidEn[i] = p
          BY <3>1 DEF Servidos
        <4>2. O = {i}
          BY <1>1, <2>1, <4>1, OcupadasTodas DEF SinDoble
        <4> HIDE DEF O
        <4>3. Cardinality(O) = 1
          BY <4>2, FS_Singleton
        <4> QED BY <3>1, <4>3 DEF O
      <3>2. CASE p \notin Servidos(ocupado, pidEn)
        <4>1. O = {}
          BY <1>1, <3>2, OcupadasTodas DEF Servidos
        <4> HIDE DEF O
        <4>2. Cardinality(O) = 0
          BY <4>1, FS_EmptySet
        <4> QED BY <3>2, <4>2 DEF O
      <3> QED BY <3>1, <3>2
    <2> QED BY <2>1, <2>3, <2>4 DEF SinDoble, PedidosDe
  <1> QED BY <1>1, SiempreInductivo, PTL

\* The kernel's flags of an instance say what the device does: the request of
\* pid_en_ejecucion is the only one on its way to it or back, and a busy
\* instance with none is a device that died.
THEOREM KernelYDispositivo == Spec => []InstanciaSincronizada
  <1>1. ASSUME Inductivo PROVE InstanciaSincronizada
    <2>1. SUFFICES ASSUME NEW i \in Instancias
                   PROVE  LET enCamino ==
                                {haciaIo[i][k].pid : k \in {j \in DOMAIN haciaIo[i] :
                                                     haciaIo[i][j].op = "IO"}}
                                \cup ToSet(desdeIo[i])
                          IN /\ Cardinality(enCamino) <= 1
                             /\ enCamino # {} => /\ i \in Ocupadas
                                                 /\ enCamino = {pidEn[i]}
                             /\ i \in Ocupadas /\ enCamino = {} => io[i] = "caida"
      BY DEF InstanciaSincronizada
    <2> DEFINE deIda    == {haciaIo[i][k].pid : k \in {j \in DOMAIN haciaIo[i] :
                                                     haciaIo[i][j].op = "IO"}}
               enCamino == deIda \cup ToSet(desdeIo[i])
               p        == pidEn[i]
               ok       == Mensaje("OK", Nil)
               pedido   == Mensaje("IO", p)
    <2>2. /\ Canal(io[i], hilo[i], ocupado[i], p, haciaIo[i], desdeIo[i])
          /\ io[i] \in {"no", "saludo", "libre", "sirve", "caida"}
          /\ i \in Ocupadas <=> ocupado[i]
      BY <1>1, OcupadasTodas DEF Inductivo, Canales, TypeOK
    <2>3. /\ ok.op = "OK" /\ pedido.op = "IO" /\ pedido.pid = p
      BY DEF Mensaje
    <2>4. /\ haciaIo[i] = <<>> => deIda = {}
          /\ haciaIo[i] = <<ok>> => deIda = {}
          /\ haciaIo[i] = <<pedido>> => deIda = {p}
          /\ haciaIo[i] = <<ok, pedido>> => deIda = {p}
          /\ haciaIo[i] = <<pedido, ok>> => deIda = {p}
      <3> HIDE DEF ok, pedido, p
      <3>1. CASE haciaIo[i] = <<>>
        BY <3>1
      <3>2. CASE haciaIo[i] = <<ok>>
        BY <2>3, <3>2
      <3>3. CASE haciaIo[i] = <<pedido>>
        BY <2>3, <3>3
      <3>4. CASE haciaIo[i] = <<ok, pedido>>
        BY <2>3, <3>4
      <3>5. CASE haciaIo[i] = <<pedido, ok>>
        BY <2>3, <3>5
      <3> QED BY <3>1, <3>2, <3>3, <3>4, <3>5
    <2>5. /\ desdeIo[i] = <<>> => ToSet(desdeIo[i]) = {}
          /\ desdeIo[i] = <<p>> => ToSet(desdeIo[i]) = {p}
      BY DEF ToSet
    <2> HIDE DEF deIda, ok, pedido, p
    <2>6. /\ enCamino = {} \/ (ocupado[i] /\ enCamino = {p})
          /\ ocupado[i] /\ enCamino = {} => io[i] = "caida"
      BY <2>2, <2>4, <2>5 DEF Canal, ok, pedido
    <2> HIDE DEF enCamino
    <2>7. Cardinality(enCamino) <= 1
      <3>1. Cardinality({}) = 0 /\ Cardinality({p}) = 1
        BY FS_EmptySet, FS_Singleton
      <3>2. Cardinality(enCamino) \in {0, 1}
        BY <2>6, <3>1
      <3> QED BY <3>2
    <2> QED BY <2>2, <2>6, <2>7 DEF enCamino, deIda, p
  <1> QED BY <1>1, SiempreInductivo, PTL

----------------------------------------------------------------------------
\* The order of arrival.

LEMMA AntesEsAntesDe ==
  ASSUME Inductivo, NEW p, NEW q
  PROVE  Antes(p, q) <=> AntesDe(espera, ocupado, pidEn, p, q)
  BY OcupadasTodas DEF Antes, AntesDe, Servidos

\* Of two requests that wait, one is before the other.
LEMMA AntesAsimetrico ==
  ASSUME NEW cola \in Seq(Pids), NEW ocu, NEW pid, SinDoble(cola, ocu, pid),
         NEW p, NEW q, AntesDe(cola, ocu, pid, p, q), AntesDe(cola, ocu, pid, q, p)
  PROVE  FALSE
  <1>1. Len(cola) \in Nat /\ DOMAIN cola = 1 .. Len(cola)
    BY LenProperties
  <1>2. PICK k \in DOMAIN cola :
          /\ cola[k] = q
          /\ p \in Servidos(ocu, pid) \/ \E j \in 1 .. k - 1 : cola[j] = p
    BY DEF AntesDe
  <1>3. PICK l \in DOMAIN cola :
          /\ cola[l] = p
          /\ q \in Servidos(ocu, pid) \/ \E j \in 1 .. l - 1 : cola[j] = q
    BY DEF AntesDe
  <1>4. p \notin Servidos(ocu, pid) /\ q \notin Servidos(ocu, pid)
    BY <1>2, <1>3 DEF SinDoble, ToSet
  <1>5. PICK j \in 1 .. k - 1 : cola[j] = p
    BY <1>2, <1>4
  <1>6. PICK m \in 1 .. l - 1 : cola[m] = q
    BY <1>3, <1>4
  <1>7. j \in DOMAIN cola /\ m \in DOMAIN cola
    BY <1>1
  <1>8. j = l /\ m = k
    BY <1>2, <1>3, <1>5, <1>6, <1>7 DEF SinDoble, IsInjective
  <1> QED BY <1>1, <1>8

\* Whoever is before another has a request, and the other waits.
LEMMA AntesEnPedidos ==
  ASSUME NEW cola \in Seq(Pids), NEW ocu, NEW pid, NEW p, NEW q,
         AntesDe(cola, ocu, pid, p, q)
  PROVE  p \in PedidosDe(cola, ocu, pid) /\ q \in ToSet(cola)
  <1>1. Len(cola) \in Nat /\ DOMAIN cola = 1 .. Len(cola)
    BY LenProperties
  <1>2. PICK k \in DOMAIN cola :
          /\ cola[k] = q
          /\ p \in Servidos(ocu, pid) \/ \E j \in 1 .. k - 1 : cola[j] = p
    BY DEF AntesDe
  <1>3. \A j \in 1 .. k - 1 : j \in DOMAIN cola
    BY <1>1
  <1> QED BY <1>2, <1>3 DEF PedidosDe, ToSet

LEMMA AntesDespues ==
  ASSUME Inductivo', NEW p, NEW q, Antes(p, q)'
  PROVE  AntesDe(espera, ocupado, pidEn, p, q)'
  <1>1. ToSet(instancias)' \subseteq Instancias
    BY DEF Inductivo, GrupoExacto
  <1> QED BY <1>1 DEF Antes, Ocupadas, AntesDe, Servidos

LEMMA OrdenPedir ==
  ASSUME Inductivo, NEW r, r \in Pids, r \notin PedidosDe(espera, ocupado, pidEn),
         NEW p, NEW q, AntesDe(espera, ocupado, pidEn, p, q),
         AntesDe(Append(espera, r), ocupado, pidEn, q, p)
  PROVE  AntesDe(espera, ocupado, pidEn, q, p)
  <1> DEFINE cola == Append(espera, r)
  <1>1. /\ espera \in Seq(Pids) /\ Len(espera) \in Nat
        /\ DOMAIN espera = 1 .. Len(espera)
        /\ cola \in Seq(Pids) /\ Len(cola) = Len(espera) + 1
        /\ \A k \in 1 .. Len(espera) : cola[k] = espera[k]
        /\ cola[Len(espera) + 1] = r
    BY AppendProperties, LenProperties DEF Inductivo, TypeOK
  <1>2. DOMAIN cola = 1 .. Len(espera) + 1
    BY <1>1, LenProperties
  <1>3. p # r /\ q # r
    <2>1. p \in PedidosDe(espera, ocupado, pidEn) /\ q \in ToSet(espera)
      BY <1>1, AntesEnPedidos
    <2> QED BY <2>1 DEF PedidosDe
  <1> HIDE DEF cola
  <1>4. PICK k \in DOMAIN cola :
          /\ cola[k] = p
          /\ q \in Servidos(ocupado, pidEn) \/ \E j \in 1 .. k - 1 : cola[j] = q
    BY DEF AntesDe, cola
  <1>5. k \in 1 .. Len(espera)
    BY <1>1, <1>2, <1>3, <1>4
  <1>6. espera[k] = p /\ \A j \in 1 .. k - 1 : cola[j] = espera[j]
    BY <1>1, <1>4, <1>5
  <1> QED BY <1>1, <1>4, <1>5, <1>6 DEF AntesDe

LEMMA OrdenRecuperar ==
  ASSUME Inductivo, NEW i \in Instancias, NEW p, NEW q,
         AntesDe(espera, ocupado, pidEn, p, q),
         AntesDe(Recuperada(i), [ocupado EXCEPT ![i] = FALSE], pidEn, q, p)
  PROVE  AntesDe(espera, ocupado, pidEn, q, p)
  <1> DEFINE cola == Recuperada(i)
             ocu  == [ocupado EXCEPT ![i] = FALSE]
  <1>1. /\ espera \in Seq(Pids) /\ Len(espera) \in Nat
        /\ DOMAIN espera = 1 .. Len(espera)
        /\ SinDoble(espera, ocupado, pidEn)
    BY LenProperties DEF Inductivo, TypeOK, PedidosExactos
  <1>2. Servidos(ocu, pidEn) \subseteq Servidos(ocupado, pidEn)
    <2>1. \A j \in Instancias : ocu[j] => ocupado[j]
      BY DEF Inductivo, TypeOK
    <2> HIDE DEF ocu
    <2> QED BY <2>1 DEF Servidos
  <1> HIDE DEF ocu
  <1>3. q \in ToSet(espera)
    BY <1>1, AntesEnPedidos
  <1>4. PICK k \in DOMAIN cola :
          /\ cola[k] = p
          /\ q \in Servidos(ocu, pidEn) \/ \E j \in 1 .. k - 1 : cola[j] = q
    BY DEF AntesDe, ocu
  <1>5. PICK j \in 1 .. k - 1 : cola[j] = q
    BY <1>1, <1>2, <1>3, <1>4 DEF SinDoble
  <1>6. CASE ocupado[i]
    <2> DEFINE r == pidEn[i]
    <2>1. r \in Servidos(ocupado, pidEn) /\ r \in Pids
      BY <1>1, <1>6 DEF Servidos, SinDoble
    <2>2. r # q
      BY <1>1, <1>3, <2>1 DEF SinDoble
    <2>3. cola = <<r>> \o espera
      BY <1>6 DEF Recuperada
    <2> HIDE DEF r
    <2>4. /\ cola \in Seq(Pids) /\ Len(cola) = Len(espera) + 1 /\ cola[1] = r
          /\ \A m \in 1 .. Len(espera) : cola[m + 1] = espera[m]
      BY <1>1, <2>1, <2>3, ConjuntoAnteponer
    <2>5. DOMAIN cola = 1 .. Len(espera) + 1
      BY <1>1, <2>4, LenProperties
    <2> HIDE DEF cola
    <2>6. k - 1 \in 1 .. Len(espera) /\ j - 1 \in 1 .. (k - 1) - 1
      BY <1>1, <1>4, <1>5, <2>2, <2>4, <2>5
    <2>7. espera[k - 1] = p /\ espera[j - 1] = q
      <3>1. cola[(k - 1) + 1] = espera[k - 1]
        BY ONLY <2>4, <2>6
      <3>2. j - 1 \in 1 .. Len(espera)
        BY ONLY <1>1, <2>6
      <3>3. cola[(j - 1) + 1] = espera[j - 1]
        BY ONLY <2>4, <3>2
      <3>4. (k - 1) + 1 = k /\ (j - 1) + 1 = j
        BY <1>1, <2>5
      <3> QED BY ONLY <1>4, <1>5, <3>1, <3>3, <3>4
    <2> QED BY <1>1, <2>6, <2>7 DEF AntesDe
  <1>7. CASE ~ocupado[i]
    BY <1>4, <1>5, <1>7 DEF AntesDe, Recuperada
  <1> QED BY <1>6, <1>7

LEMMA OrdenPaso ==
  ASSUME Inductivo, Inductivo', [Next]_vars, NEW p \in Pids, NEW q \in Pids,
         Antes(p, q)
  PROVE  ~Antes(q, p)'
  <1>1. /\ AntesDe(espera, ocupado, pidEn, p, q)
        /\ espera \in Seq(Pids) /\ SinDoble(espera, ocupado, pidEn)
    BY AntesEsAntesDe DEF Inductivo, TypeOK, PedidosExactos
  <1>2. SUFFICES ASSUME AntesDe(espera, ocupado, pidEn, q, p)'
                 PROVE  AntesDe(espera, ocupado, pidEn, q, p)
    BY <1>1, AntesAsimetrico, AntesDespues
  <1>3. CASE UNCHANGED <<espera, ocupado, pidEn>>
    BY <1>2, <1>3 DEF AntesDe, Servidos
  <1>4. ASSUME NEW i \in Instancias, Conectar(i)
        PROVE  UNCHANGED <<espera, ocupado, pidEn>>
    BY <1>4 DEF Conectar
  <1>5. ASSUME NEW i \in Instancias, ResponderHandshake(i)
        PROVE  UNCHANGED <<espera, ocupado, pidEn>>
    BY <1>5 DEF ResponderHandshake, grupoVars
  <1>6. ASSUME NEW i \in Instancias, DespacharAlConectar(i)
        PROVE  AntesDe(espera, ocupado, pidEn, q, p)
    <2>1. /\ Datos(espera, instancias, ocupado)
          /\ Despachar(espera, instancias, ocupado)
      BY <1>6, PasoDespacharAlConectar
    <2> QED BY <1>2, <2>1, DespacharOrden DEF Inductivo
  <1>7. ASSUME NEW i \in Instancias, FinIo(i)
        PROVE  AntesDe(espera, ocupado, pidEn, q, p)
    <2> DEFINE ocu == [ocupado EXCEPT ![i] = FALSE]
    <2>1. Datos(espera, instancias, ocu) /\ Despachar(espera, instancias, ocu)
      BY <1>7, PasoFinIo
    <2>2. \A j \in Instancias : ocu[j] => ocupado[j]
      BY DEF Inductivo, TypeOK
    <2> HIDE DEF ocu
    <2>3. AntesDe(espera, ocu, pidEn, q, p)
      BY <1>2, <2>1, DespacharOrden DEF Inductivo
    <2> QED BY <2>2, <2>3 DEF AntesDe, Servidos
  <1>8. ASSUME NEW i \in Instancias, DetectarDesconexion(i)
        PROVE  AntesDe(espera, ocupado, pidEn, q, p)
    <2> DEFINE cola == Recuperada(i)
               ocu  == [ocupado EXCEPT ![i] = FALSE]
    <2>1. CASE \E ins : Datos(cola, ins, ocu) /\ Despachar(cola, ins, ocu)
      <3> HIDE DEF cola, ocu
      <3>1. AntesDe(cola, ocu, pidEn, q, p)
        BY <1>2, <2>1, DespacharOrden DEF Inductivo
      <3> QED BY <1>1, <3>1, OrdenRecuperar DEF cola, ocu
    <2>2. CASE espera' = <<>>
      BY <1>2, <2>2 DEF AntesDe
    <2> QED BY <1>8, <2>1, <2>2, PasoDetectarDesconexion
  <1>9. ASSUME NEW i \in Instancias, Dispositivo(i) \/ CaeInstancia(i)
        PROVE  UNCHANGED <<espera, ocupado, pidEn>>
    BY <1>9 DEF Dispositivo, RecibirHandshake, EmpezarIo, TerminarIo, CaeInstancia,
                grupoVars
  <1>10. ASSUME NEW r \in Pids, BloquearPorIo(r) \/ FinalizarCaido(r)
         PROVE  UNCHANGED <<espera, ocupado, pidEn>>
    BY <1>10 DEF BloquearPorIo, FinalizarCaido, grupoVars
  <1>11. ASSUME NEW r \in Pids, PedirIo(r)
         PROVE  AntesDe(espera, ocupado, pidEn, q, p)
    <2>1. CASE grupoDe[r] = grupo
      <3>1. /\ r \notin PedidosDe(espera, ocupado, pidEn)
            /\ Datos(Append(espera, r), instancias, ocupado)
            /\ Despachar(Append(espera, r), instancias, ocupado)
        BY <1>11, <2>1, PasoPedirIo
      <3>2. AntesDe(Append(espera, r), ocupado, pidEn, q, p)
        BY <1>2, <3>1, DespacharOrden DEF Inductivo
      <3> QED BY <1>1, <3>1, <3>2, OrdenPedir
    <2>2. CASE grupoDe[r] # grupo
      BY <1>3, <1>11, <2>2, PasoPedirIo
    <2> QED BY <2>1, <2>2
  <1>12. CASE UNCHANGED vars
    BY <1>3, <1>12 DEF vars, grupoVars
  <1> QED BY <1>3, <1>4, <1>5, <1>6, <1>7, <1>8, <1>9, <1>10, <1>11, <1>12
          DEF Next, Conexion, Escucha, Proceso

\* No step puts a request before one that came first, also when the device that
\* served it dies and it returns to the queue (manejar_desconexion_io).
THEOREM SeSirveEnOrden == Spec => OrdenDeLlegada
  <1>1. Inductivo /\ Inductivo' /\ [Next]_vars
           => [\A p, q \in Pids : Antes(p, q) => ~Antes(q, p)']_vars
    BY OrdenPaso
  <1> QED BY <1>1, SiempreInductivo, PTL DEF Spec, OrdenDeLlegada

----------------------------------------------------------------------------
\* The group implements the device of Planificacion.

LEMMA PedidosAbstractos ==
  ASSUME Inductivo
  PROVE  ToSet(espera) \cup {pidEn[i] : i \in Ocupadas}
            = PedidosDe(espera, ocupado, pidEn)
  BY OcupadasTodas DEF PedidosDe, Servidos

\* The pids of the requests and of the processes to finish, as the device sees
\* them.
Caidos == {p \in Pids : situacion[p] = "caido"}

LEMMA AbstractoInit ==
  ASSUME Init
  PROVE  Abstracto!Init
  <1>1. Ocupadas = {} /\ ToSet(espera) = {}
    BY DEF Init, Ocupadas, ToSet
  <1> QED BY <1>1 DEF Init, Abstracto!Init

\* One step of the abstract device, over what PedidosAbstractos gives.
LEMMA AbstractoPor ==
  ASSUME Inductivo, Inductivo',
         LET P == PedidosDe(espera, ocupado, pidEn)
             D == grupo # 0
         IN \/ D' = D /\ P' = P /\ Caidos' = Caidos
            \/ ~D /\ D' /\ P' = P /\ Caidos' = Caidos
            \/ \E p \in Pids : /\ D /\ D' /\ p \notin P
                               /\ P' = P \cup {p} /\ Caidos' = Caidos
            \/ \E p \in P \cap Pids : /\ D' = D
                               /\ P' = P \ {p} /\ Caidos' = Caidos
            \/ D /\ ~D' /\ Caidos' = Caidos \cup P /\ P' = {}
            \/ \E p \in Caidos : /\ D' = D
                                 /\ P' = P /\ Caidos' = Caidos \ {p}
  PROVE  [Abstracto!Next]_Abstracto!vars
  <1> DEFINE P == PedidosDe(espera, ocupado, pidEn)
             D == grupo # 0
             A == ToSet(espera) \cup {pidEn[i] : i \in Ocupadas}
             C == {p \in Pids : situacion[p] = "caido"}
  <1>1. A = P /\ C = Caidos
    BY PedidosAbstractos DEF Caidos
  <1>2. A' = P' /\ C' = Caidos'
    <2>1. ToSet(instancias)' = {i \in Instancias : hilo[i] \in Vivos}'
          /\ \A i \in Instancias : ocupado'[i] => hilo'[i] \in Vivos
      BY DEF Inductivo, GrupoExacto
    <2>2. Ocupadas' = {i \in Instancias : ocupado'[i]}
      BY <2>1 DEF Ocupadas
    <2> QED BY <2>2 DEF PedidosDe, Servidos, Caidos
  <1>3. /\ D \in BOOLEAN /\ D' \in BOOLEAN /\ Caidos \subseteq Pids
    BY DEF Caidos
  <1>4. \/ D' = D /\ A' = A /\ C' = C
        \/ ~D /\ D' = TRUE /\ A' = A /\ C' = C
        \/ \E p \in Pids : D /\ D' = D /\ p \notin A /\ A' = A \cup {p} /\ C' = C
        \/ \E p \in Pids : D' = D /\ p \in A /\ A' = A \ {p} /\ C' = C
        \/ D /\ D' = FALSE /\ C' = C \cup A /\ A' = {}
        \/ \E p \in Pids : D' = D /\ p \in C /\ A' = A /\ C' = C \ {p}
    BY <1>1, <1>2, <1>3
  <1> QED BY <1>4 DEF Abstracto!Next, Abstracto!vars, Abstracto!Aparecer,
                 Abstracto!Pedir, Abstracto!Servir, Abstracto!Caer,
                 Abstracto!Finalizar

LEMMA AbstractoPaso ==
  ASSUME Inductivo, Inductivo', [Next]_vars
  PROVE  [Abstracto!Next]_Abstracto!vars
  <1> DEFINE P == PedidosDe(espera, ocupado, pidEn)
             D == grupo # 0
  <1>0. /\ situacion \in [Pids -> {"activo", "pedir", "bloqueado", "caido", "fin"}]
        /\ \A p \in Pids : p \in P => situacion[p] = "bloqueado"
        /\ P \subseteq Pids
    BY ConjuntoElemento
       DEF Inductivo, TypeOK, PedidosExactos, SinDoble, PedidosDe
  <1>1. CASE UNCHANGED <<grupo, espera, ocupado, pidEn, situacion>>
    <2>1. D' = D /\ P' = P /\ Caidos' = Caidos
      BY <1>1 DEF PedidosDe, Servidos, Caidos
    <2> QED BY <2>1, AbstractoPor
  <1>2. ASSUME NEW i \in Instancias, Conectar(i)
        PROVE  [Abstracto!Next]_Abstracto!vars
    <2>1. UNCHANGED <<espera, ocupado, pidEn, situacion>>
      BY <1>2 DEF Conectar, procVars
    <2>2. P' = P /\ Caidos' = Caidos
      BY <2>1 DEF PedidosDe, Servidos, Caidos
    <2>3. D' = D \/ (~D /\ D')
      <3>1. CASE grupo = 0
        <4>1. grupo' = grupos + 1 /\ grupos \in Nat
          BY <1>2, <3>1, GruposAssumption, FS_CardinalityType
             DEF Conectar, Inductivo, TypeOK
        <4> QED BY <3>1, <4>1
      <3>2. CASE grupo # 0
        BY <1>2, <3>2 DEF Conectar
      <3> QED BY <3>1, <3>2
    <2> QED BY <2>2, <2>3, AbstractoPor
  <1>3. ASSUME NEW i \in Instancias, ResponderHandshake(i)
        PROVE  UNCHANGED <<grupo, espera, ocupado, pidEn, situacion>>
    BY <1>3 DEF ResponderHandshake, grupoVars, procVars
  <1>4. ASSUME NEW i \in Instancias, DespacharAlConectar(i)
        PROVE  [Abstracto!Next]_Abstracto!vars
    <2>1. P' = P /\ UNCHANGED <<grupo, situacion>>
      BY <1>4, PasoDespacharAlConectar DEF DespacharAlConectar, procVars
    <2>2. D' = D /\ Caidos' = Caidos
      BY <2>1 DEF Caidos
    <2> QED BY <2>1, <2>2, AbstractoPor
  <1>5. ASSUME NEW i \in Instancias, FinIo(i)
        PROVE  [Abstracto!Next]_Abstracto!vars
    <2> DEFINE p == pidEn[i]
    <2>1. /\ p \in Pids /\ situacion' = [situacion EXCEPT ![p] = "activo"]
          /\ situacion[p] = "bloqueado" /\ p \in P /\ P' = P \ {p}
          /\ grupo' = grupo
      BY <1>5, PasoFinIo DEF FinIo
    <2>2. Caidos' = Caidos /\ D' = D
      BY <1>0, <2>1 DEF Caidos
    <2> QED BY <2>1, <2>2, AbstractoPor
  <1>6. ASSUME NEW i \in Instancias, DetectarDesconexion(i)
        PROVE  [Abstracto!Next]_Abstracto!vars
    <2>1. CASE UNCHANGED <<grupo, situacion>> /\ P' = P
      <3>1. D' = D /\ Caidos' = Caidos
        BY <2>1 DEF Caidos
      <3> QED BY <2>1, <3>1, AbstractoPor
    <2>2. CASE /\ grupo # 0 /\ grupo' = 0 /\ P' = {}
               /\ \A p \in Pids : situacion'[p] = IF p \in P THEN "caido"
                                                  ELSE situacion[p]
      <3>1. D /\ ~D' /\ Caidos' = Caidos \cup P
        BY <1>0, <2>2 DEF Caidos
      <3> QED BY <2>2, <3>1, AbstractoPor
    <2> QED BY <1>6, <2>1, <2>2, PasoDetectarDesconexion
  <1>7. ASSUME NEW i \in Instancias, Dispositivo(i) \/ CaeInstancia(i)
        PROVE  UNCHANGED <<grupo, espera, ocupado, pidEn, situacion>>
    BY <1>7 DEF Dispositivo, RecibirHandshake, EmpezarIo, TerminarIo, CaeInstancia,
                grupoVars, procVars
  <1>8. ASSUME NEW p \in Pids, BloquearPorIo(p)
        PROVE  [Abstracto!Next]_Abstracto!vars
    <2>1. /\ UNCHANGED <<grupo, espera, ocupado, pidEn>>
          /\ situacion[p] = "activo"
          /\ situacion' = [situacion EXCEPT
                              ![p] = IF grupo = 0 THEN "fin" ELSE "pedir"]
      BY <1>8 DEF BloquearPorIo, grupoVars
    <2>2. D' = D /\ P' = P /\ Caidos' = Caidos
      BY <1>0, <2>1 DEF PedidosDe, Servidos, Caidos
    <2> QED BY <2>2, AbstractoPor
  <1>9. ASSUME NEW p \in Pids, PedirIo(p)
        PROVE  [Abstracto!Next]_Abstracto!vars
    <2>1. /\ situacion[p] = "pedir"
          /\ situacion' = [situacion EXCEPT ![p] = "bloqueado"]
          /\ grupo' = grupo
      BY <1>9 DEF PedirIo
    <2>2. D' = D /\ Caidos' = Caidos
      BY <1>0, <2>1 DEF Caidos
    <2>3. CASE grupoDe[p] = grupo
      <3>1. D /\ p \notin P /\ P' = P \cup {p}
        BY <1>9, <2>3, PasoPedirIo
      <3> QED BY <2>2, <3>1, AbstractoPor
    <2>4. CASE grupoDe[p] # grupo
      <3>1. P' = P
        BY <1>9, <2>4, PasoPedirIo DEF PedidosDe, Servidos
      <3> QED BY <2>2, <3>1, AbstractoPor
    <2> QED BY <2>3, <2>4
  <1>10. ASSUME NEW p \in Pids, FinalizarCaido(p)
         PROVE  [Abstracto!Next]_Abstracto!vars
    <2>1. /\ UNCHANGED <<grupo, espera, ocupado, pidEn>>
          /\ situacion[p] = "caido" /\ situacion' = [situacion EXCEPT ![p] = "fin"]
      BY <1>10 DEF FinalizarCaido, grupoVars
    <2>2. D' = D /\ P' = P /\ p \in Caidos /\ Caidos' = Caidos \ {p}
      BY <1>0, <2>1 DEF PedidosDe, Servidos, Caidos
    <2> QED BY <2>2, AbstractoPor
  <1>11. CASE UNCHANGED vars
    BY <1>1, <1>11 DEF vars, grupoVars, procVars
  <1> QED BY <1>1, <1>2, <1>3, <1>4, <1>5, <1>6, <1>7, <1>8, <1>9, <1>10, <1>11
          DEF Next, Conexion, Escucha, Proceso

\* With any number of instances that come and die, the group behaves as the one
\* device with a set of requests that Planificacion relies on.
THEOREM ElGrupoEsUnDispositivo == Spec => CumpleDispositivo
  <1>1. Init => Abstracto!Init
    BY AbstractoInit
  <1>2. Inductivo /\ Inductivo' /\ [Next]_vars => [Abstracto!Next]_Abstracto!vars
    BY AbstractoPaso
  <1> QED BY <1>1, <1>2, SiempreInductivo, PTL
          DEF Spec, CumpleDispositivo, Abstracto!Spec
==============================================================================
