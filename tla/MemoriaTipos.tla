---------------------------- MODULE MemoriaTipos ----------------------------
(***************************************************************************)
(* What the descent through the page tables computes, and then the         *)
(* operators of Memoria, the order its handlers keep and its types, for    *)
(* any number of processes, frames, entries and levels.  The recursive     *)
(* functions of TablaPaginas are reasoned about with the least number that *)
(* breaks a claim.                                                         *)
(***************************************************************************)
EXTENDS Memoria, WellFoundedInduction, FiniteSetTheorems, TLAPS

\* Peso and the descent of Hoja, as equations.
EsPeso(f, n) ==
    f = [i \in 0 .. n |-> IF i = 0 THEN 1 ELSE Entradas * f[i - 1]]

EsDescenso(f, pagina) ==
    f = [i \in 0 .. Niveles |->
           IF i = 0 THEN 0 ELSE Entradas * f[i - 1] + Indice(pagina, i)]

LEMMA HayMinimo ==
  ASSUME NEW S \in SUBSET Nat, S # {}
  PROVE  \E m \in S : \A n \in S : m =< n
  <1>1. PICK m \in S : \A n \in S : ~(<<n, m>> \in OpToRel(<, Nat))
    BY NatLessThanWellFounded, WFMin
  <1>2. OpToRel(<, Nat) = {d \in Nat \X Nat : d[1] < d[2]}
    BY Zenon DEF OpToRel
  <1>3. \A n \in S : ~(n < m)
    BY <1>1, <1>2
  <1> QED BY <1>3

LEMMA Induccion ==
  ASSUME NEW S, 0 \in S, \A n \in Nat : n \in S => n + 1 \in S
  PROVE  \A n \in Nat : n \in S
  <1> SUFFICES ASSUME Nat \ S # {} PROVE FALSE
    OBVIOUS
  <1>1. PICK m \in Nat \ S : \A n \in Nat \ S : m =< n
    BY HayMinimo
  <1>2. m # 0 /\ m - 1 \in Nat /\ m - 1 \in S
    BY <1>1
  <1>3. (m - 1) + 1 \in S
    BY <1>2
  <1> QED BY <1>1, <1>3

----------------------------------------------------------------------------
\* Divisions.

LEMMA Multiplo ==
  ASSUME NEW b \in Nat, NEW i \in Nat, NEW j \in Nat, i < j
  PROVE  b * i + b =< b * j
  <1> DEFINE k == j - i - 1
  <1>1. k \in Nat /\ j = i + 1 + k
    OBVIOUS
  <1> HIDE DEF k
  <1>2. b * k \in Nat
    BY <1>1
  <1>3. b * j = b * i + b + b * k
    BY <1>1
  <1>4. b * i \in Nat
    OBVIOUS
  <1> QED BY <1>2, <1>3, <1>4

LEMMA CocienteUnico ==
  ASSUME NEW a \in Nat, NEW b \in Nat \ {0}, NEW q \in Nat, NEW r \in Nat,
         r < b, a = b * q + r
  PROVE  a \div b = q /\ a % b = r
  <1> DEFINE c == a \div b
             s == a % b
  <1>1. c \in Nat /\ s \in Nat /\ s < b /\ a = b * c + s
    OBVIOUS
  <1> HIDE DEF c, s
  <1>2. b * c \in Nat /\ b * q \in Nat
    BY <1>1
  <1>3. ~(c < q)
    BY <1>1, <1>2, Multiplo
  <1>4. ~(q < c)
    BY <1>1, <1>2, Multiplo
  <1>5. c = q
    BY <1>1, <1>3, <1>4
  <1>6. s = r
    BY <1>1, <1>2, <1>5
  <1> QED BY <1>5, <1>6 DEF c, s

LEMMA DivisionDoble ==
  ASSUME NEW a \in Nat, NEW m \in Nat \ {0}, NEW n \in Nat \ {0}
  PROVE  /\ m * n \in Nat \ {0}
         /\ a \div (m * n) = (a \div m) \div n
         /\ a % (m * n) = m * ((a \div m) % n) + (a % m)
  <1> DEFINE y == a \div m
             r == a % m
             z == y \div n
             s == y % n
  <1>1. y \in Nat /\ r \in Nat /\ r < m /\ a = m * y + r
    OBVIOUS
  <1>2. z \in Nat /\ s \in Nat /\ s < n /\ y = n * z + s
    BY <1>1
  <1> HIDE DEF y, r, z, s
  <1>3. m * s + m =< m * n
    BY <1>2, Multiplo
  <1>4. m * s \in Nat /\ m * n \in Nat /\ n * z \in Nat
    BY <1>2
  <1>5. m * n # 0 /\ m * s + r < m * n
    BY <1>1, <1>3, <1>4
  <1>6. m * y = m * (n * z) + m * s
    BY <1>2, <1>4
  <1>7. m * (n * z) = (m * n) * z
    BY <1>2
  <1>8. a = (m * n) * z + (m * s + r)
    BY <1>1, <1>4, <1>6, <1>7
  <1>9. a \div (m * n) = z /\ a % (m * n) = m * s + r
    BY <1>1, <1>2, <1>4, <1>5, <1>8, CocienteUnico
  <1>10. m * n \in Nat \ {0}
    BY <1>4, <1>5
  <1> QED BY <1>9, <1>10, Zenon DEF y, r, z, s

LEMMA CocienteDoble ==
  \A a \in Nat : \A m, n \in Nat \ {0} : a \div (m * n) = (a \div m) \div n
  <1> SUFFICES ASSUME NEW a \in Nat, NEW m \in Nat \ {0}, NEW n \in Nat \ {0}
               PROVE  a \div (m * n) = (a \div m) \div n
    OBVIOUS
  <1> QED BY DivisionDoble, ZenonT(60)

----------------------------------------------------------------------------
\* The sizes of the tables.

LEMMA PesoExiste == \A n \in Nat : \E f : EsPeso(f, n)
  <1> DEFINE S == {n \in Nat : \E f : EsPeso(f, n)}
  <1>1. 0 \in S
    <2> DEFINE f == [i \in 0 .. 0 |-> 1]
    <2>1. EsPeso(f, 0)
      BY DEF EsPeso
    <2> QED BY <2>1
  <1>2. ASSUME NEW n \in Nat, n \in S PROVE n + 1 \in S
    <2>1. PICK f : EsPeso(f, n)
      BY <1>2
    <2> DEFINE g == [i \in 0 .. n + 1 |->
                       IF i = n + 1 THEN Entradas * f[n] ELSE f[i]]
    <2>2. \A i \in 0 .. n : f[i] = IF i = 0 THEN 1 ELSE Entradas * f[i - 1]
      BY <2>1 DEF EsPeso
    <2>3. \A i \in 0 .. n + 1 :
            g[i] = IF i = 0 THEN 1 ELSE Entradas * g[i - 1]
      BY <2>2
    <2>4. g = [i \in 0 .. n + 1 |-> g[i]]
      OBVIOUS
    <2> HIDE DEF g
    <2>5. EsPeso(g, n + 1)
      BY <2>3, <2>4 DEF EsPeso
    <2> QED BY <2>5
  <1> HIDE DEF S
  <1>3. \A n \in Nat : n \in S
    BY <1>1, <1>2, Induccion
  <1> QED BY <1>3 DEF S

LEMMA PesoEcuacion ==
  /\ Peso[0] = 1
  /\ \A n \in 1 .. Niveles : Peso[n] = Entradas * Peso[n - 1]
  <1>1. PICK f : EsPeso(f, Niveles)
    BY PesoExiste, TablasAssumption
  <1>2. EsPeso(Peso, Niveles)
    BY <1>1 DEF EsPeso, Peso
  <1> HIDE DEF Peso
  <1>3. Peso = [i \in 0 .. Niveles |->
                  IF i = 0 THEN 1 ELSE Entradas * Peso[i - 1]]
    BY <1>2 DEF EsPeso
  <1>4. /\ 0 \in 0 .. Niveles
        /\ \A n \in 1 .. Niveles : n \in 0 .. Niveles /\ n # 0
    BY TablasAssumption
  <1>5. \A n \in 0 .. Niveles :
          Peso[n] = IF n = 0 THEN 1 ELSE Entradas * Peso[n - 1]
    BY <1>3, Zenon
  <1> QED BY <1>4, <1>5

LEMMA PesoTipo == \A n \in 0 .. Niveles : Peso[n] \in Nat \ {0}
  <1> DEFINE S == {n \in Nat : n =< Niveles => Peso[n] \in Nat \ {0}}
  <1>1. 0 \in S
    BY PesoEcuacion
  <1>2. ASSUME NEW n \in Nat, n \in S PROVE n + 1 \in S
    <2>1. CASE n + 1 =< Niveles
      <3>1. Peso[n] \in Nat \ {0} /\ Peso[n + 1] = Entradas * Peso[n]
        BY <1>2, <2>1, PesoEcuacion, TablasAssumption
      <3>2. Entradas * Peso[n] \in Nat \ {0}
        BY <3>1, DivisionDoble, TablasAssumption
      <3> QED BY <3>1, <3>2
    <2> QED BY <2>1, TablasAssumption
  <1> HIDE DEF S
  <1>3. \A n \in Nat : n \in S
    BY <1>1, <1>2, Induccion
  <1> QED BY <1>3, TablasAssumption DEF S

LEMMA CapacidadTipo == Capacidad \in Nat \ {0}
  BY PesoTipo, TablasAssumption DEF Capacidad

----------------------------------------------------------------------------
\* The descent.

\* After n levels: the remainder of the page among the leaves of a table that
\* many levels high.
Bajada(pagina, n) == (pagina \div Peso[Niveles - n]) % Peso[n]

LEMMA UnNivel ==
  ASSUME NEW x \in Nat, NEW n \in 1 .. Niveles
  PROVE  Bajada(x, n) = Entradas * Bajada(x, n - 1) + Indice(x, n)
  <1> DEFINE w == Peso[Niveles - n]
             P == Peso[n - 1]
             y == x \div w
  <1>1. /\ w \in Nat \ {0} /\ P \in Nat \ {0} /\ Entradas \in Nat \ {0}
        /\ Peso[n] = Entradas * P
        /\ Peso[Niveles - (n - 1)] = w * Entradas
    <2>1. Niveles - n \in 0 .. Niveles /\ n - 1 \in 0 .. Niveles
      BY TablasAssumption
    <2>2. w \in Nat \ {0} /\ P \in Nat \ {0}
      BY <2>1, PesoTipo
    <2>3. Peso[n] = Entradas * P
      BY PesoEcuacion
    <2>4. /\ Niveles - (n - 1) \in 1 .. Niveles
          /\ (Niveles - (n - 1)) - 1 = Niveles - n
      BY TablasAssumption
    <2>5. Peso[Niveles - (n - 1)] = Entradas * w
      BY <2>4, PesoEcuacion
    <2>6. Entradas * w = w * Entradas
      BY <2>2, TablasAssumption
    <2> QED BY <2>2, <2>3, <2>5, <2>6, TablasAssumption
  <1> HIDE DEF w, P
  <1>2. y \in Nat
    BY <1>1
  <1> HIDE DEF y
  <1>3. x \div (w * Entradas) = y \div Entradas
    <2>1. /\ x \in Nat /\ w \in Nat \ {0} /\ Entradas \in Nat \ {0}
      BY <1>1
    <2>2. x \div (w * Entradas) = (x \div w) \div Entradas
      BY <2>1, CocienteDoble
    <2> QED BY <2>2 DEF y
  <1>4. y % (Entradas * P) =
            Entradas * ((y \div Entradas) % P) + (y % Entradas)
    BY <1>1, <1>2, DivisionDoble
  <1>5. Bajada(x, n) = y % (Entradas * P)
    BY <1>1 DEF Bajada, y, w
  <1>6. Bajada(x, n - 1) = (y \div Entradas) % P
    BY <1>1, <1>3 DEF Bajada, P
  <1>7. Indice(x, n) = y % Entradas
    BY DEF Indice, y, w
  <1> QED BY <1>4, <1>5, <1>6, <1>7, Zenon

LEMMA DescensoExiste ==
  ASSUME NEW x \in Nat
  PROVE  EsDescenso([n \in 0 .. Niveles |-> Bajada(x, n)], x)
  <1> DEFINE b == [n \in 0 .. Niveles |-> Bajada(x, n)]
  <1>1. Bajada(x, 0) = 0
    <2>1. Peso[0] = 1 /\ x \div Peso[Niveles - 0] \in Nat
      BY PesoEcuacion, PesoTipo, TablasAssumption
    <2> QED BY <2>1 DEF Bajada
  <1>2. \A n \in 0 .. Niveles :
          b[n] = IF n = 0 THEN 0 ELSE Entradas * b[n - 1] + Indice(x, n)
    BY <1>1, UnNivel, TablasAssumption
  <1>3. b = [n \in 0 .. Niveles |-> b[n]]
    OBVIOUS
  <1> HIDE DEF b
  <1>4. EsDescenso(b, x)
    BY <1>2, <1>3 DEF EsDescenso
  <1> QED BY <1>4 DEF b

LEMMA DescensoUnico ==
  ASSUME NEW x \in Nat, NEW f, EsDescenso(f, x)
  PROVE  \A n \in 0 .. Niveles : f[n] = Bajada(x, n)
  <1> DEFINE b == [n \in 0 .. Niveles |-> Bajada(x, n)]
             S == {n \in Nat : n =< Niveles => f[n] = b[n]}
  <1>1. EsDescenso(b, x)
    BY DescensoExiste
  <1> HIDE DEF b
  <1>2. \A n \in 0 .. Niveles :
          /\ f[n] = IF n = 0 THEN 0 ELSE Entradas * f[n - 1] + Indice(x, n)
          /\ b[n] = IF n = 0 THEN 0 ELSE Entradas * b[n - 1] + Indice(x, n)
    BY <1>1 DEF EsDescenso
  <1>3. 0 \in S
    BY <1>2, TablasAssumption
  <1>4. ASSUME NEW n \in Nat, n \in S PROVE n + 1 \in S
    BY <1>2, <1>4, TablasAssumption
  <1> HIDE DEF S
  <1>5. \A n \in Nat : n \in S
    BY <1>3, <1>4, Induccion
  <1>6. \A n \in 0 .. Niveles : f[n] = b[n]
    BY <1>5, TablasAssumption DEF S
  <1> QED BY <1>6 DEF b

\* Following obtener_indice_de_pagina level by level ends in the leaf whose
\* number is that of the page: the mask of each level and the shifts of the
\* levels are consistent, and only a page past the last leaf meets another.
THEOREM HojaCorrecta ==
  \A k \in Nat : Hoja(k) = k % Capacidad /\ Hoja(k) \in Hojas
  <1> SUFFICES ASSUME NEW k \in Nat
               PROVE  Hoja(k) = k % Capacidad /\ Hoja(k) \in Hojas
    OBVIOUS
  <1>1. \E f : EsDescenso(f, k)
    BY DescensoExiste
  <1>2. PICK f : EsDescenso(f, k) /\ Hoja(k) = f[Niveles]
    BY <1>1 DEF Hoja, EsDescenso
  <1>3. Hoja(k) = Bajada(k, Niveles)
    BY <1>2, DescensoUnico, TablasAssumption
  <1>4. Bajada(k, Niveles) = k % Capacidad
    <2>1. Peso[Niveles - Niveles] = 1
      BY PesoEcuacion, TablasAssumption
    <2> QED BY <2>1 DEF Bajada, Capacidad
  <1>5. k % Capacidad \in 0 .. Capacidad - 1
    BY CapacidadTipo
  <1> QED BY <1>3, <1>4, <1>5 DEF Hojas

----------------------------------------------------------------------------
\* The order of the handlers.

Entrantes == {"espera", "asigna", "registra"}
Regresos  == {"busca", "ocupa", "lee", "ubica", "suelta"}
Vivos     == {"READY", "BLOCKED", "SUSP_BLOCKED", "SUSP_READY"}

\* What an answer in flight says of its process.
Fases ==
    /\ alta.pc # "no" => alta.pid \in Pids
    /\ alta.pc \in Entrantes => estado[alta.pid] = "NEW"
    /\ alta.pc \in Regresos  => estado[alta.pid] = "SUSP_READY"
    /\ baja # SinBaja =>
          /\ baja.pid \in Pids /\ baja.pid \notin dicc
          /\ estado[baja.pid] = "EXIT"
    /\ \A p \in Pids :
         /\ estado[p] \in {"NEW", "LIBERADO"} => p \notin dicc
         /\ estado[p] \in Vivos => p \in dicc
         /\ susp[p].pc # "no" => estado[p] = "SUSP_BLOCKED"
         /\ volc[p].pc # "no" => estado[p] \in {"BLOCKED", "SUSP_BLOCKED"}
         /\ cpu[p] # Nil => estado[p] = "READY"

\* A leaf is empty, in a frame or in a slot; only the leaf that a suspension is
\* moving may be in between.
HojaEnOrden(p, h) ==
    /\ tabla[p][h].presente =>
          tabla[p][h].marco # NADA /\ tabla[p][h].slot = NADA
    /\ ~tabla[p][h].presente /\ tabla[p][h].marco # NADA =>
          susp[p].pc \in {"ausente", "anotada"} /\ h = susp[p].pag
    /\ p \in dicc /\ h \in Asignables(p) =>
          \/ tabla[p][h].presente
          \/ tabla[p][h].slot # NADA
          \/ susp[p].pc = "ausente" /\ h = susp[p].pag

HojasEnOrden == \A p \in Pids : \A h \in Hojas : HojaEnOrden(p, h)

\* Where a suspension is with its leaf.
SuspensionEnOrden(p) ==
    /\ susp[p].pc \in {"escrita", "ausente", "anotada"} =>
          susp[p].pag \in Asignables(p)
    /\ susp[p].pc = "escrita" => tabla[p][susp[p].pag].presente
    /\ susp[p].pc = "ausente" =>
          /\ ~tabla[p][susp[p].pag].presente
          /\ tabla[p][susp[p].pag].marco # NADA
          /\ tabla[p][susp[p].pag].slot = NADA
    /\ susp[p].pc = "anotada" =>
          /\ ~tabla[p][susp[p].pag].presente
          /\ tabla[p][susp[p].pag].marco # NADA
          /\ tabla[p][susp[p].pag].slot # NADA
    /\ susp[p].slot # NADA <=> susp[p].pc \in {"escrita", "ausente"}

SuspEnOrden == \A p \in Pids : SuspensionEnOrden(p)

\* Where the planner's request is with its leaves.
AltaEnOrden ==
    /\ alta.pc \in Entrantes \cup Regresos =>
          \A h \in Asignables(alta.pid) :
             h < alta.pag => tabla[alta.pid][h].presente
    /\ alta.pc = "registra" =>
          \A h \in Asignables(alta.pid) : tabla[alta.pid][h].presente
    /\ alta.pc \in {"ocupa", "lee", "ubica"} =>
          /\ alta.pag \in Asignables(alta.pid) /\ alta.marco \in Marcos
          /\ ~tabla[alta.pid][alta.pag].presente
          /\ tabla[alta.pid][alta.pag].slot # NADA
    /\ alta.pc = "ocupa" => alta.marco \in Libres
    /\ alta.pc = "suelta" =>
          /\ alta.pag \in Asignables(alta.pid)
          /\ tabla[alta.pid][alta.pag].presente
    /\ alta.slot # NADA <=> alta.pc = "suelta"

\* The tables of a process that was not admitted are empty, but for the leaves
\* the planner has filled.
Vacio(p, h) ==
    /\ ~tabla[p][h].presente
    /\ tabla[p][h].marco = NADA /\ tabla[p][h].slot = NADA

NuevosVacios ==
    \A p \in Pids : \A h \in Hojas :
      /\ estado[p] = "NEW"
      /\ alta.pc # "no" /\ alta.pid = p =>
            alta.pc # "registra" /\ h >= alta.pag
      => Vacio(p, h)

\* A process that waits for a device, or for its dump, is whole too until a
\* timer suspends it.
BloqueadoCompleto ==
    \A p \in Pids : estado[p] \in {"READY", "BLOCKED"} =>
        \A h \in Asignables(p) : tabla[p][h].presente

\* There is a free frame for each page that the planner still has to place.
Alcanza ==
    /\ alta.pc \in {"espera", "asigna"} =>
          NumPaginas[alta.pid] - alta.pag =< Cardinality(Libres)
    /\ alta.pc \in {"busca", "ocupa"} =>
          Cardinality(EnSwap(tabla[alta.pid], alta.pag)) =< Cardinality(Libres)
    /\ alta.pc \in {"lee", "ubica", "suelta"} =>
          Cardinality(EnSwap(tabla[alta.pid], alta.pag + 1))
             =< Cardinality(Libres)

\* Where a dump is with its leaf.
VolcEnOrden ==
    \A p \in Pids :
      /\ volc[p].pc \in {"marco", "slot"} => volc[p].pag \in Asignables(p)
      /\ volc[p].pc = "marco" => volc[p].lugar \in Marcos

\* The file, if it is never made again, has every slot that a page or a thread
\* names.
SlotsGrabados ==
    /\ \A p \in Pids : \A h \in Hojas :
         tabla[p][h].slot # NADA => tabla[p][h].slot \in DOMAIN swap
    /\ \A p \in Pids : susp[p].slot # NADA => susp[p].slot \in DOMAIN swap

----------------------------------------------------------------------------
\* Operators of the model.

LEMMA MenorEsMinimo ==
  ASSUME NEW S \in SUBSET Nat, S # {}
  PROVE  Menor(S) \in S /\ \A n \in S : Menor(S) =< n
  BY HayMinimo DEF Menor

LEMMA AsignablesSonHojas ==
  ASSUME NEW p \in Pids
  PROVE  /\ Asignables(p) \subseteq Hojas
         /\ \A h \in Nat :
              h \in Asignables(p) <=> h < NumPaginas[p] /\ h < Capacidad
         /\ \A h \in Hojas : h \in Nat
  BY PaginasAssumption, CapacidadTipo DEF Asignables, Hojas

LEMMA LibresFinito ==
  IsFiniteSet(Marcos) /\ IsFiniteSet(Libres) /\ Cardinality(Libres) \in Nat
  <1>1. IsFiniteSet(Marcos)
    BY FS_Interval, MarcosAssumption DEF Marcos
  <1> QED BY <1>1, FS_Subset, FS_CardinalityType DEF Libres

LEMMA LibreElegido ==
  ASSUME Libres # {}
  PROVE  Menor(Libres) \in Libres /\ Menor(Libres) \in Marcos
  <1>1. Libres \in SUBSET Nat /\ Libres \subseteq Marcos
    BY MarcosAssumption DEF Libres, Marcos
  <1> QED BY <1>1, MenorEsMinimo

LEMMA SlotLibreEsLibre ==
  ASSUME TipoSwap
  PROVE  SlotLibre \in 0 .. maxBit /\ SlotLibre \notin bitsSwap
  <1> DEFINE S == {s \in 0 .. maxBit - 1 : s \notin bitsSwap} \cup {maxBit}
  <1>1. S \in SUBSET Nat /\ S # {}
    BY DEF TipoSwap
  <1>2. Menor(S) \in S
    BY <1>1, MenorEsMinimo
  <1> QED BY <1>2 DEF SlotLibre, TipoSwap

LEMMA SiguienteMultiplo ==
  ASSUME NEW s \in Nat, NEW k \in Nat \ {0}
  PROVE  /\ (s \div k) + 1 \in Nat
         /\ ((s \div k) + 1) * k \in Nat
         /\ k * ((s \div k) + 1) \in Nat
         /\ s < ((s \div k) + 1) * k
  <1> DEFINE q == s \div k
             r == s % k
  <1>1. q \in Nat /\ r \in Nat /\ r < k /\ s = k * q + r
    OBVIOUS
  <1> HIDE DEF q, r
  <1>2. (q + 1) * k = k * q + k /\ k * (q + 1) = k * q + k
    BY <1>1
  <1>3. k * q \in Nat
    BY <1>1
  <1> QED BY <1>1, <1>2, <1>3 DEF q

LEMMA Unir ==
  ASSUME NEW m \in Nat, NEW n \in Nat, NEW s \in Nat, m =< s, s < n,
         NEW A, NEW B, \A i \in A : i \in 0 .. m - 1,
         \A i \in B : i \in s + 1 .. n - 1
  PROVE  \A i \in A \cup {s} \cup B : i \in 0 .. n - 1
  <1> TAKE i \in A \cup {s} \cup B
  <1>1. CASE i \in A
    BY <1>1
  <1>2. CASE i \in B
    BY <1>2
  <1>3. CASE i = s
    BY <1>3
  <1> QED BY <1>1, <1>2, <1>3

LEMMA GrabarTipo ==
  ASSUME TipoSwap, NEW d \in Datos, GrabarEnSwap(d, SlotLibre)
  PROVE  /\ maxBit' \in Nat /\ bitsSwap' \in SUBSET (0 .. maxBit' - 1)
         /\ bitsSwap \subseteq bitsSwap' /\ SlotLibre \in bitsSwap'
         /\ ~SwapSeTrunca => DOMAIN swap' = DOMAIN swap \cup {SlotLibre}
         /\ \A s \in DOMAIN swap' : s \in Nat /\ swap'[s] \in Datos
         /\ fallos' = fallos
  <1> DEFINE s == SlotLibre
  <1>1. /\ s \in 0 .. maxBit /\ maxBit \in Nat
        /\ bitsSwap \in SUBSET (0 .. maxBit - 1)
    BY SlotLibreEsLibre DEF TipoSwap
  <1> HIDE DEF s
  <1>2. /\ \/ swap' = [i \in DOMAIN swap \cup {s} |->
                         IF i = s THEN d ELSE swap[i]]
           \/ SwapSeTrunca /\ swap' = [i \in 0 .. s |->
                                          IF i = s THEN d ELSE Cero]
        /\ fallos' = fallos
    BY DEF GrabarEnSwap, Grabado, s
  <1>3. /\ ~SwapSeTrunca => DOMAIN swap' = DOMAIN swap \cup {s}
        /\ \A i \in DOMAIN swap' : i \in Nat /\ swap'[i] \in Datos
    BY <1>1, <1>2, DatosAssumption DEF TipoSwap
  <1>4. CASE s < maxBit
    <2>1. bitsSwap' = bitsSwap \cup {s} /\ maxBit' = maxBit
      BY <1>4 DEF GrabarEnSwap, s
    <2> QED BY <1>1, <1>2, <1>3, <1>4, <2>1 DEF s
  <1>5. CASE ~(s < maxBit)
    <2>1. maxBit' = ((s \div BitsPorByte) + 1) * BitsPorByte
      BY <1>5 DEF GrabarEnSwap, s
    <2>2. \E basura \in SUBSET (s + 1 .. maxBit' - 1) :
            bitsSwap' = bitsSwap \cup {s} \cup basura
      BY <1>5 DEF GrabarEnSwap, s
    <2>3. maxBit' \in Nat /\ s < maxBit'
      BY <1>1, <2>1, SiguienteMultiplo, SwapAssumption
    <2>4. \E basura : /\ \A i \in basura : i \in s + 1 .. maxBit' - 1
                      /\ bitsSwap' = bitsSwap \cup {s} \cup basura
      BY <2>2
    <2>5. PICK basura : /\ \A i \in basura : i \in s + 1 .. maxBit' - 1
                        /\ bitsSwap' = bitsSwap \cup {s} \cup basura
      BY <2>4
    <2>6. \A i \in bitsSwap : i \in 0 .. maxBit - 1
      BY <1>1
    <2>7. s \in Nat /\ maxBit \in Nat /\ maxBit =< s
      BY <1>1, <1>5
    <2>8. \A i \in bitsSwap \cup {s} \cup basura : i \in 0 .. maxBit' - 1
      BY ONLY <2>3, <2>5, <2>6, <2>7, Unir
    <2>9. \A i \in bitsSwap' : i \in 0 .. maxBit' - 1
      BY <2>5, <2>8
    <2> QED BY <1>2, <1>3, <2>3, <2>5, <2>9 DEF s
  <1> QED BY <1>4, <1>5

LEMMA LeidoTipo ==
  ASSUME TipoSwap, NEW s, NEW b \in Datos
  PROVE  LeidoDeSwap(s, b) \subseteq Datos
  BY DEF LeidoDeSwap, TipoSwap

----------------------------------------------------------------------------
\* What each action that changes a leaf does to the tables.

LEMMA HojaTipo ==
  ASSUME TipoTablas, NEW p \in Pids, NEW h \in Hojas
  PROVE  /\ tabla[p][h] \in Entrada
         /\ tabla[p][h].presente \in BOOLEAN
         /\ tabla[p][h].marco \in Marcos \cup {NADA}
         /\ tabla[p][h].slot \in Nat \cup {NADA}
  BY DEF TipoTablas, Entrada

LEMMA NadaAparte ==
  NADA \notin Marcos /\ NADA \notin Nat /\ Marcos \subseteq Nat
  BY MarcosAssumption DEF NADA, Marcos

\* A field of an entry that changes.
LEMMA PresenteCambiado ==
  ASSUME NEW t \in Entrada, NEW f \in BOOLEAN
  PROVE  [t EXCEPT !.presente = f] =
           [presente |-> f, marco |-> t.marco, slot |-> t.slot]
  BY DEF Entrada

LEMMA MarcoQuitado ==
  ASSUME NEW t \in Entrada
  PROVE  [t EXCEPT !.marco = NADA] =
           [presente |-> t.presente, marco |-> NADA, slot |-> t.slot]
  BY DEF Entrada

LEMMA SlotCambiado ==
  ASSUME NEW t \in Entrada, NEW f \in Nat \cup {NADA}
  PROVE  [t EXCEPT !.slot = f] =
           [presente |-> t.presente, marco |-> t.marco, slot |-> f]
  BY DEF Entrada

\* Only the leaf h of p changes, and it becomes the entry of these fields.
CambiaHoja(p, h, presente, marco, slot) ==
    /\ tabla' \in [Pids -> [Hojas -> Entrada]]
    /\ tabla'[p][h].presente = presente
    /\ tabla'[p][h].marco = marco /\ tabla'[p][h].slot = slot
    /\ \A q \in Pids : \A g \in Hojas :
         q # p \/ g # h => tabla'[q][g] = tabla[q][g]

LEMMA UnaHoja ==
  ASSUME TipoTablas, NEW p \in Pids, NEW h \in Hojas,
         NEW a \in BOOLEAN, NEW m \in Marcos \cup {NADA},
         NEW s \in Nat \cup {NADA},
         tabla' = [tabla EXCEPT ![p][h] =
                     [presente |-> a, marco |-> m, slot |-> s]]
  PROVE  CambiaHoja(p, h, a, m, s)
  <1> DEFINE e == [presente |-> a, marco |-> m, slot |-> s]
  <1>1. e \in Entrada
    BY DEF Entrada
  <1>2. e.presente = a /\ e.marco = m /\ e.slot = s
    OBVIOUS
  <1>3. tabla' = [tabla EXCEPT ![p][h] = e]
    OBVIOUS
  <1> HIDE DEF e
  <1> QED BY <1>1, <1>2, <1>3 DEF TipoTablas, CambiaHoja

LEMMA TrasAsignarPagina ==
  ASSUME TypeOK, Fases, AsignarPagina,
         alta.pag \in Asignables(alta.pid), Libres # {}
  PROVE  /\ alta.pid \in Pids /\ alta.pag \in Hojas
         /\ Menor(Libres) \in Libres /\ Menor(Libres) \in Marcos
         /\ bitmap' = bitmap \cup {Menor(Libres)}
         /\ alta' = [alta EXCEPT !.pag = alta.pag + 1]
         /\ CambiaHoja(alta.pid, alta.pag, TRUE, Menor(Libres), NADA)
  <1>1. alta.pid \in Pids /\ alta.pag \in Hojas
    BY AsignablesSonHojas DEF Fases, AsignarPagina
  <1>2. Menor(Libres) \in Libres /\ Menor(Libres) \in Marcos
    BY LibreElegido
  <1>3. /\ bitmap' = bitmap \cup {Menor(Libres)}
        /\ alta' = [alta EXCEPT !.pag = alta.pag + 1]
        /\ tabla' = [tabla EXCEPT ![alta.pid][alta.pag] =
                       [presente |-> TRUE, marco |-> Menor(Libres),
                        slot |-> NADA]]
    BY DEF AsignarPagina
  <1> QED BY <1>1, <1>2, <1>3, UnaHoja DEF TypeOK

LEMMA TrasQuitarPresente ==
  ASSUME TypeOK, SuspEnOrden, NEW p \in Pids, QuitarPresente(p)
  PROVE  /\ susp[p].pag \in Asignables(p) /\ susp[p].pag \in Hojas
         /\ CambiaHoja(p, susp[p].pag, FALSE, tabla[p][susp[p].pag].marco,
                       tabla[p][susp[p].pag].slot)
  <1> DEFINE h == susp[p].pag
             m == tabla[p][h].marco
             s == tabla[p][h].slot
  <1>1. h \in Asignables(p) /\ h \in Hojas
    BY AsignablesSonHojas DEF SuspEnOrden, SuspensionEnOrden, QuitarPresente
  <1>2. /\ tabla[p][h] \in Entrada
        /\ m \in Marcos \cup {NADA} /\ s \in Nat \cup {NADA}
    BY <1>1, HojaTipo DEF TypeOK
  <1>3. tabla' = [tabla EXCEPT ![p][h] =
                    [tabla[p][h] EXCEPT !.presente = FALSE]]
    BY DEF QuitarPresente
  <1>4. [tabla[p][h] EXCEPT !.presente = FALSE] =
          [presente |-> FALSE, marco |-> m, slot |-> s]
    BY <1>2, PresenteCambiado
  <1> HIDE DEF h, m, s
  <1>5. CambiaHoja(p, h, FALSE, m, s)
    BY <1>1, <1>2, <1>3, <1>4, UnaHoja DEF TypeOK
  <1> QED BY <1>1, <1>5 DEF h, m, s

LEMMA TrasAnotarSlot ==
  ASSUME TypeOK, SuspEnOrden, NEW p \in Pids, AnotarSlot(p)
  PROVE  /\ susp[p].pag \in Asignables(p) /\ susp[p].pag \in Hojas
         /\ CambiaHoja(p, susp[p].pag, tabla[p][susp[p].pag].presente,
                       tabla[p][susp[p].pag].marco, susp[p].slot)
  <1> DEFINE h == susp[p].pag
             a == tabla[p][h].presente
             m == tabla[p][h].marco
             s == susp[p].slot
  <1>1. h \in Asignables(p) /\ h \in Hojas
    BY AsignablesSonHojas DEF SuspEnOrden, SuspensionEnOrden, AnotarSlot
  <1>2. /\ tabla[p][h] \in Entrada /\ s \in Nat \cup {NADA}
        /\ a \in BOOLEAN /\ m \in Marcos \cup {NADA}
    BY <1>1, HojaTipo DEF TypeOK, TipoSusp
  <1>3. tabla' = [tabla EXCEPT ![p][h] = [tabla[p][h] EXCEPT !.slot = s]]
    BY DEF AnotarSlot
  <1>4. [tabla[p][h] EXCEPT !.slot = s] =
          [presente |-> a, marco |-> m, slot |-> s]
    BY <1>2, SlotCambiado
  <1> HIDE DEF h, a, m, s
  <1>5. CambiaHoja(p, h, a, m, s)
    BY <1>1, <1>2, <1>3, <1>4, UnaHoja DEF TypeOK
  <1> QED BY <1>1, <1>5 DEF h, a, m, s

LEMMA TrasSoltarMarco ==
  ASSUME TypeOK, SuspEnOrden, NEW p \in Pids, SoltarMarco(p)
  PROVE  /\ susp[p].pag \in Asignables(p) /\ susp[p].pag \in Hojas
         /\ CambiaHoja(p, susp[p].pag, tabla[p][susp[p].pag].presente, NADA,
                       tabla[p][susp[p].pag].slot)
  <1> DEFINE h == susp[p].pag
             a == tabla[p][h].presente
             s == tabla[p][h].slot
  <1>1. h \in Asignables(p) /\ h \in Hojas
    BY AsignablesSonHojas DEF SuspEnOrden, SuspensionEnOrden, SoltarMarco
  <1>2. /\ tabla[p][h] \in Entrada
        /\ a \in BOOLEAN /\ s \in Nat \cup {NADA}
    BY <1>1, HojaTipo DEF TypeOK
  <1>3. tabla' = [tabla EXCEPT ![p][h] = [tabla[p][h] EXCEPT !.marco = NADA]]
    BY DEF SoltarMarco
  <1>4. [tabla[p][h] EXCEPT !.marco = NADA] =
          [presente |-> a, marco |-> NADA, slot |-> s]
    BY <1>2, MarcoQuitado
  <1> HIDE DEF h, a, s
  <1>5. CambiaHoja(p, h, a, NADA, s)
    BY <1>1, <1>2, <1>3, <1>4, UnaHoja DEF TypeOK
  <1> QED BY <1>1, <1>5 DEF h, a, s

LEMMA TrasUbicarPagina ==
  ASSUME TypeOK, Fases, AltaEnOrden, UbicarPagina
  PROVE  /\ alta.pid \in Pids /\ alta.pag \in Asignables(alta.pid)
         /\ alta.pag \in Hojas /\ alta.marco \in Marcos
         /\ CambiaHoja(alta.pid, alta.pag, TRUE, alta.marco, NADA)
  <1>1. /\ alta.pid \in Pids /\ alta.pag \in Asignables(alta.pid)
        /\ alta.marco \in Marcos
    BY DEF Fases, AltaEnOrden, UbicarPagina
  <1>2. alta.pag \in Hojas
    BY <1>1, AsignablesSonHojas
  <1>3. tabla' = [tabla EXCEPT ![alta.pid][alta.pag] =
                    [presente |-> TRUE, marco |-> alta.marco, slot |-> NADA]]
    BY DEF UbicarPagina
  <1> QED BY <1>1, <1>2, <1>3, UnaHoja DEF TypeOK

LEMMA TrasLiberarPagina ==
  ASSUME TypeOK, Fases, LiberarPagina
  PROVE  /\ baja.pid \in Pids /\ baja.pag \in Hojas
         /\ CambiaHoja(baja.pid, baja.pag, FALSE, NADA, NADA)
  <1>1. baja.pid \in Pids /\ baja.pag \in Hojas
    BY AsignablesSonHojas DEF Fases, LiberarPagina
  <1>2. tabla' = [tabla EXCEPT ![baja.pid][baja.pag] =
                    [presente |-> FALSE, marco |-> NADA, slot |-> NADA]]
    BY DEF LiberarPagina, Vacia
  <1> QED BY <1>1, <1>2, UnaHoja DEF TypeOK

LEMMA TrasTomarSuspension ==
  ASSUME TipoSusp, NEW p \in Pids, TomarSuspension(p)
  PROVE  /\ susp[p].pc = "pedido"
         /\ \/ susp' = [susp EXCEPT ![p].pc = "recorre"] /\ p \in dicc
            \/ susp' = [susp EXCEPT ![p] = SinSusp]
         /\ \A q \in Pids : susp'[q].pc # "no" => susp[q].pc # "no"
  <1>1. /\ susp[p].pc = "pedido"
        /\ \/ susp' = [susp EXCEPT ![p].pc = "recorre"] /\ p \in dicc
           \/ susp' = [susp EXCEPT ![p] = SinSusp]
    BY DEF TomarSuspension
  <1> QED BY <1>1 DEF TipoSusp, SinSusp

LEMMA TrasEscribirEnSwap ==
  ASSUME TipoSusp, NEW p \in Pids, EscribirEnSwap(p)
  PROVE  /\ susp[p].pc = "recorre" /\ susp[p].pag \in Asignables(p)
         /\ \/ /\ susp' = [susp EXCEPT ![p].pag = susp[p].pag + 1]
               /\ UNCHANGED <<bitsSwap, maxBit, swap>>
            \/ /\ tabla[p][susp[p].pag].presente
               /\ susp' = [susp EXCEPT ![p].pc = "escrita",
                                       ![p].slot = SlotLibre]
               /\ GrabarEnSwap(contenido[tabla[p][susp[p].pag].marco],
                               SlotLibre)
         /\ \A q \in Pids : susp'[q].pc # "no" => susp[q].pc # "no"
  <1>1. /\ susp[p].pc = "recorre" /\ susp[p].pag \in Asignables(p)
        /\ \/ /\ susp' = [susp EXCEPT ![p].pag = susp[p].pag + 1]
              /\ UNCHANGED <<bitsSwap, maxBit, swap>>
           \/ /\ tabla[p][susp[p].pag].presente
              /\ susp' = [susp EXCEPT ![p].pc = "escrita",
                                      ![p].slot = SlotLibre]
              /\ GrabarEnSwap(contenido[tabla[p][susp[p].pag].marco],
                              SlotLibre)
    BY DEF EscribirEnSwap, swapVars
  <1>2. \/ susp' = [susp EXCEPT ![p].pag = susp[p].pag + 1]
        \/ susp' = [susp EXCEPT ![p].pc = "escrita", ![p].slot = SlotLibre]
    BY <1>1
  <1>3. \A q \in Pids : susp'[q].pc # "no" => susp[q].pc # "no"
    BY <1>1, <1>2 DEF TipoSusp
  <1> QED BY <1>1, <1>3

LEMMA TrasAsignarPaginaAlta ==
  ASSUME TipoAlta, AsignarPagina
  PROVE  alta.pc = "asigna" /\ alta'.pid = alta.pid /\ alta'.slot = alta.slot
         /\ \/ alta'.pc = "asigna" /\ alta'.pag = alta.pag + 1
            \/ /\ alta'.pc = "registra" /\ alta'.pag = alta.pag
               /\ alta.pag \notin Asignables(alta.pid) \/ Libres = {}
               /\ UNCHANGED <<tabla, bitmap>>
  BY DEF TipoAlta, AsignarPagina

----------------------------------------------------------------------------
\* Who writes what: the frame conditions of the steps.

LEMMA QuienEstado ==
  ASSUME [Next]_vars
  PROVE  \/ UNCHANGED estado
         \/ RegistrarProceso \/ ResponderTraer \/ ResponderBaja
         \/ \E p \in Pids :
              \/ Bloquear(p) \/ PedirDump(p) \/ Suspender(p) \/ Desbloquear(p)
              \/ Finalizar(p)
  BY DEF Next, vars, kernelVars, CrearProceso, AsignarPagina, BuscarMarco,
         OcuparMarco, TraerDeSwap, UbicarPagina, SoltarSlot, LiberarPagina,
         ContarParaAlta, ContarParaTraer, TomarSuspension, EscribirEnSwap,
         QuitarPresente, AnotarSlot, SoltarMarco, ResponderSuspension,
         TomarDump, MirarPagina, VolcarPagina, CerrarDump, QuitarProceso,
         Traducir, EscribirMemoria, DejarVigilia

LEMMA QuienCpu ==
  ASSUME [Next]_vars
  PROVE  \/ UNCHANGED cpu
         \/ \E p \in Pids :
              \/ Traducir(p) \/ Bloquear(p) \/ PedirDump(p) \/ Finalizar(p)
  BY DEF Next, vars, kernelVars, CrearProceso, AsignarPagina,
         RegistrarProceso, BuscarMarco, OcuparMarco, TraerDeSwap,
         UbicarPagina, SoltarSlot, ResponderTraer, LiberarPagina,
         ResponderBaja, ContarParaAlta, ContarParaTraer, TomarSuspension,
         EscribirEnSwap, QuitarPresente, AnotarSlot, SoltarMarco,
         ResponderSuspension, TomarDump, MirarPagina, VolcarPagina,
         CerrarDump, QuitarProceso, EscribirMemoria, Suspender, Desbloquear,
         DejarVigilia

LEMMA QuienMarcos ==
  ASSUME [Next]_vars
  PROVE  \/ UNCHANGED bitmap
         \/ AsignarPagina \/ OcuparMarco \/ LiberarPagina
         \/ \E p \in Pids :
              \/ SoltarMarco(p)
  BY DEF Next, vars, marcoVars, CrearProceso, RegistrarProceso, BuscarMarco,
         TraerDeSwap, UbicarPagina, SoltarSlot, ResponderTraer, ResponderBaja,
         ContarParaAlta, ContarParaTraer, TomarSuspension, EscribirEnSwap,
         QuitarPresente, AnotarSlot, ResponderSuspension, TomarDump,
         MirarPagina, VolcarPagina, CerrarDump, QuitarProceso, Traducir,
         EscribirMemoria, Bloquear, PedirDump, Suspender, Desbloquear,
         Finalizar, DejarVigilia

LEMMA QuienContenido ==
  ASSUME [Next]_vars
  PROVE  \/ UNCHANGED contenido
         \/ TraerDeSwap
         \/ \E p \in Pids :
              \/ EscribirMemoria(p)
  BY DEF Next, vars, marcoVars, CrearProceso, AsignarPagina, RegistrarProceso,
         BuscarMarco, OcuparMarco, UbicarPagina, SoltarSlot, ResponderTraer,
         LiberarPagina, ResponderBaja, ContarParaAlta, ContarParaTraer,
         TomarSuspension, EscribirEnSwap, QuitarPresente, AnotarSlot,
         SoltarMarco, ResponderSuspension, TomarDump, MirarPagina,
         VolcarPagina, CerrarDump, QuitarProceso, Traducir, Bloquear,
         PedirDump, Suspender, Desbloquear, Finalizar, DejarVigilia

LEMMA QuienDicc ==
  ASSUME [Next]_vars
  PROVE  \/ UNCHANGED dicc
         \/ RegistrarProceso
         \/ \E p \in Pids :
              \/ QuitarProceso(p)
  BY DEF Next, vars, procVars, CrearProceso, AsignarPagina, BuscarMarco,
         OcuparMarco, TraerDeSwap, UbicarPagina, SoltarSlot, ResponderTraer,
         LiberarPagina, ResponderBaja, ContarParaAlta, ContarParaTraer,
         TomarSuspension, EscribirEnSwap, QuitarPresente, AnotarSlot,
         SoltarMarco, ResponderSuspension, TomarDump, MirarPagina,
         VolcarPagina, CerrarDump, Traducir, EscribirMemoria, Bloquear,
         PedirDump, Suspender, Desbloquear, Finalizar, DejarVigilia

LEMMA QuienAsignadas ==
  ASSUME [Next]_vars
  PROVE  \/ UNCHANGED asignadas
         \/ RegistrarProceso
  BY DEF Next, vars, procVars, CrearProceso, AsignarPagina, BuscarMarco,
         OcuparMarco, TraerDeSwap, UbicarPagina, SoltarSlot, ResponderTraer,
         LiberarPagina, ResponderBaja, ContarParaAlta, ContarParaTraer,
         TomarSuspension, EscribirEnSwap, QuitarPresente, AnotarSlot,
         SoltarMarco, ResponderSuspension, TomarDump, MirarPagina,
         VolcarPagina, CerrarDump, QuitarProceso, Traducir, EscribirMemoria,
         Bloquear, PedirDump, Suspender, Desbloquear, Finalizar, DejarVigilia

LEMMA QuienTabla ==
  ASSUME [Next]_vars
  PROVE  \/ UNCHANGED tabla
         \/ AsignarPagina \/ UbicarPagina \/ LiberarPagina
         \/ \E p \in Pids :
              \/ QuitarPresente(p) \/ AnotarSlot(p) \/ SoltarMarco(p)
  BY DEF Next, vars, procVars, CrearProceso, RegistrarProceso, BuscarMarco,
         OcuparMarco, TraerDeSwap, SoltarSlot, ResponderTraer, ResponderBaja,
         ContarParaAlta, ContarParaTraer, TomarSuspension, EscribirEnSwap,
         ResponderSuspension, TomarDump, MirarPagina, VolcarPagina,
         CerrarDump, QuitarProceso, Traducir, EscribirMemoria, Bloquear,
         PedirDump, Suspender, Desbloquear, Finalizar, DejarVigilia

LEMMA QuienAlta ==
  ASSUME [Next]_vars
  PROVE  \/ UNCHANGED alta
         \/ CrearProceso \/ AsignarPagina \/ RegistrarProceso \/ BuscarMarco
         \/ OcuparMarco \/ TraerDeSwap \/ UbicarPagina \/ SoltarSlot
         \/ ResponderTraer
         \/ \E p \in Pids :
              \/ ContarParaAlta(p) \/ ContarParaTraer(p)
  BY DEF Next, vars, LiberarPagina, ResponderBaja, TomarSuspension,
         EscribirEnSwap, QuitarPresente, AnotarSlot, SoltarMarco,
         ResponderSuspension, TomarDump, MirarPagina, VolcarPagina,
         CerrarDump, QuitarProceso, Traducir, EscribirMemoria, Bloquear,
         PedirDump, Suspender, Desbloquear, Finalizar, DejarVigilia

LEMMA QuienSusp ==
  ASSUME [Next]_vars
  PROVE  \/ UNCHANGED susp
         \/ \E p \in Pids :
              \/ TomarSuspension(p) \/ EscribirEnSwap(p) \/ QuitarPresente(p)
              \/ AnotarSlot(p) \/ SoltarMarco(p) \/ ResponderSuspension(p)
              \/ Suspender(p)
  BY DEF Next, vars, CrearProceso, AsignarPagina, RegistrarProceso,
         BuscarMarco, OcuparMarco, TraerDeSwap, UbicarPagina, SoltarSlot,
         ResponderTraer, LiberarPagina, ResponderBaja, ContarParaAlta,
         ContarParaTraer, TomarDump, MirarPagina, VolcarPagina, CerrarDump,
         QuitarProceso, Traducir, EscribirMemoria, Bloquear, PedirDump,
         Desbloquear, Finalizar, DejarVigilia

LEMMA QuienVolc ==
  ASSUME [Next]_vars
  PROVE  \/ UNCHANGED volc
         \/ \E p \in Pids :
              \/ TomarDump(p) \/ MirarPagina(p) \/ VolcarPagina(p)
              \/ CerrarDump(p) \/ PedirDump(p)
  BY DEF Next, vars, CrearProceso, AsignarPagina, RegistrarProceso,
         BuscarMarco, OcuparMarco, TraerDeSwap, UbicarPagina, SoltarSlot,
         ResponderTraer, LiberarPagina, ResponderBaja, ContarParaAlta,
         ContarParaTraer, TomarSuspension, EscribirEnSwap, QuitarPresente,
         AnotarSlot, SoltarMarco, ResponderSuspension, QuitarProceso,
         Traducir, EscribirMemoria, Bloquear, Suspender, Desbloquear,
         Finalizar, DejarVigilia

LEMMA QuienDump ==
  ASSUME [Next]_vars
  PROVE  \/ UNCHANGED dump
         \/ \E p \in Pids :
              \/ VolcarPagina(p) \/ CerrarDump(p)
  BY DEF Next, vars, CrearProceso, AsignarPagina, RegistrarProceso,
         BuscarMarco, OcuparMarco, TraerDeSwap, UbicarPagina, SoltarSlot,
         ResponderTraer, LiberarPagina, ResponderBaja, ContarParaAlta,
         ContarParaTraer, TomarSuspension, EscribirEnSwap, QuitarPresente,
         AnotarSlot, SoltarMarco, ResponderSuspension, TomarDump, MirarPagina,
         QuitarProceso, Traducir, EscribirMemoria, Bloquear, PedirDump,
         Suspender, Desbloquear, Finalizar, DejarVigilia

LEMMA QuienBaja ==
  ASSUME [Next]_vars
  PROVE  \/ UNCHANGED baja
         \/ LiberarPagina \/ ResponderBaja
         \/ \E p \in Pids :
              \/ QuitarProceso(p)
  BY DEF Next, vars, CrearProceso, AsignarPagina, RegistrarProceso,
         BuscarMarco, OcuparMarco, TraerDeSwap, UbicarPagina, SoltarSlot,
         ResponderTraer, ContarParaAlta, ContarParaTraer, TomarSuspension,
         EscribirEnSwap, QuitarPresente, AnotarSlot, SoltarMarco,
         ResponderSuspension, TomarDump, MirarPagina, VolcarPagina,
         CerrarDump, Traducir, EscribirMemoria, Bloquear, PedirDump,
         Suspender, Desbloquear, Finalizar, DejarVigilia

LEMMA QuienEscrituras ==
  ASSUME [Next]_vars
  PROVE  \/ UNCHANGED escrituras
         \/ \E p \in Pids :
              \/ EscribirMemoria(p)
  BY DEF Next, vars, kernelVars, CrearProceso, AsignarPagina,
         RegistrarProceso, BuscarMarco, OcuparMarco, TraerDeSwap,
         UbicarPagina, SoltarSlot, ResponderTraer, LiberarPagina,
         ResponderBaja, ContarParaAlta, ContarParaTraer, TomarSuspension,
         EscribirEnSwap, QuitarPresente, AnotarSlot, SoltarMarco,
         ResponderSuspension, TomarDump, MirarPagina, VolcarPagina,
         CerrarDump, QuitarProceso, Traducir, Bloquear, PedirDump, Suspender,
         Desbloquear, Finalizar, DejarVigilia

LEMMA QuienVigilias ==
  ASSUME [Next]_vars
  PROVE  \/ UNCHANGED vigilias
         \/ \E p \in Pids : Bloquear(p) \/ Suspender(p) \/ DejarVigilia(p)
  BY DEF Next, vars, kernelVars, CrearProceso, AsignarPagina,
         RegistrarProceso, BuscarMarco, OcuparMarco, TraerDeSwap, UbicarPagina,
         SoltarSlot, ResponderTraer, LiberarPagina, ResponderBaja,
         ContarParaAlta, ContarParaTraer, TomarSuspension, EscribirEnSwap,
         QuitarPresente, AnotarSlot, SoltarMarco, ResponderSuspension,
         TomarDump, MirarPagina, VolcarPagina, CerrarDump, QuitarProceso,
         Traducir, EscribirMemoria, PedirDump, Desbloquear, Finalizar

LEMMA QuienSwap ==
  ASSUME [Next]_vars
  PROVE  \/ UNCHANGED swapVars
         \/ SoltarSlot \/ LiberarPagina
         \/ \E p \in Pids : EscribirEnSwap(p)
  BY DEF Next, vars, CrearProceso, AsignarPagina, RegistrarProceso,
         BuscarMarco, OcuparMarco, TraerDeSwap, UbicarPagina, ResponderTraer,
         ResponderBaja, ContarParaAlta, ContarParaTraer, TomarSuspension,
         QuitarPresente, AnotarSlot, SoltarMarco, ResponderSuspension,
         TomarDump, MirarPagina, VolcarPagina, CerrarDump, QuitarProceso,
         Traducir, EscribirMemoria, Bloquear, PedirDump, Suspender,
         Desbloquear, Finalizar, DejarVigilia

----------------------------------------------------------------------------
\* Types: one lemma for each part of TypeOK.

LEMMA TipoKernelPaso ==
  ASSUME TypeOK, HojasEnOrden, Fases, [Next]_vars
  PROVE  TipoKernel'
  <1> DEFINE Estados == {"NEW", "READY", "BLOCKED", "SUSP_BLOCKED",
                         "SUSP_READY", "EXIT", "LIBERADO"}
             Usos == [pag : Nat, marco : Marcos]
  <1>1. /\ estado \in [Pids -> Estados]
        /\ cpu \in [Pids -> {Nil} \cup Usos]
        /\ escrituras \in 0 .. MaxEscrituras
        /\ vigilias \in [Pids -> 0 .. MaxVigilias]
    BY DEF TypeOK, TipoKernel
  <1>2. estado' \in [Pids -> Estados]
    BY <1>1, QuienEstado DEF RegistrarProceso, ResponderTraer, ResponderBaja,
       Bloquear, PedirDump, Suspender, Desbloquear, Finalizar
  <1>3. ASSUME NEW p \in Pids, Traducir(p)
        PROVE  cpu' \in [Pids -> {Nil} \cup Usos]
    <2>1. PICK k \in 0 .. NumPaginas[p] - 1 :
            /\ tabla[p][Hoja(k)].presente
            /\ cpu' = [cpu EXCEPT ![p] =
                         [pag |-> k, marco |-> tabla[p][Hoja(k)].marco]]
      BY <1>3 DEF Traducir
    <2>2. k \in Nat /\ Hoja(k) \in Hojas
      BY HojaCorrecta, PaginasAssumption
    <2>3. tabla[p][Hoja(k)].marco \in Marcos
      BY <2>1, <2>2, HojaTipo DEF HojasEnOrden, HojaEnOrden, TypeOK
    <2> QED BY <1>1, <2>1, <2>2, <2>3
  <1>4. cpu' \in [Pids -> {Nil} \cup Usos]
    BY <1>1, <1>3, QuienCpu DEF Bloquear, PedirDump, Finalizar
  <1>5. escrituras' \in 0 .. MaxEscrituras
    BY <1>1, QuienEscrituras, CotasAssumption DEF EscribirMemoria
  <1>6. vigilias' \in [Pids -> 0 .. MaxVigilias]
    BY <1>1, QuienVigilias, CotasAssumption
    DEF Bloquear, Suspender, DejarVigilia
  <1> QED BY <1>2, <1>4, <1>5, <1>6 DEF TipoKernel

LEMMA TipoMarcosPaso ==
  ASSUME TypeOK, Fases, AltaEnOrden, [Next]_vars
  PROVE  TipoMarcos'
  <1>1. TipoMarcos /\ TipoTablas /\ TipoSwap
    BY DEF TypeOK
  <1>2. bitmap' \in SUBSET Marcos
    <2>1. CASE AsignarPagina
      BY <1>1, <2>1, LibreElegido DEF TipoMarcos, AsignarPagina
    <2>2. CASE OcuparMarco
      BY <1>1, <2>2 DEF TipoMarcos, OcuparMarco, AltaEnOrden
    <2>3. CASE LiberarPagina
      BY <1>1, <2>3 DEF TipoMarcos, LiberarPagina
    <2>4. ASSUME NEW p \in Pids, SoltarMarco(p) PROVE bitmap' \in SUBSET Marcos
      BY <1>1, <2>4 DEF TipoMarcos, SoltarMarco
    <2> QED BY <1>1, <2>1, <2>2, <2>3, <2>4, QuienMarcos DEF TipoMarcos
  <1>3. CASE TraerDeSwap
    <2>1. PICK d \in LeidoDeSwap(tabla[alta.pid][alta.pag].slot,
                                 contenido[alta.marco]) :
            contenido' = [contenido EXCEPT ![alta.marco] = d]
      BY <1>3 DEF TraerDeSwap
    <2>2. /\ alta.pid \in Pids /\ alta.pag \in Hojas /\ alta.marco \in Marcos
          /\ tabla[alta.pid][alta.pag].slot # NADA
      BY <1>3, AsignablesSonHojas DEF TraerDeSwap, AltaEnOrden, Fases
    <2>3. contenido[alta.marco] \in Datos
      BY <1>1, <2>2 DEF TipoMarcos
    <2>4. d \in Datos
      BY <1>1, <2>1, <2>3, LeidoTipo
    <2> QED BY <1>1, <1>2, <2>1, <2>4 DEF TipoMarcos
  <1>4. ASSUME NEW p \in Pids, EscribirMemoria(p)
        PROVE  contenido' \in [Marcos -> Datos]
    BY <1>1, <1>4 DEF TipoMarcos, EscribirMemoria
  <1> QED BY <1>1, <1>2, <1>3, <1>4, QuienContenido DEF TipoMarcos

LEMMA TipoSwapPaso ==
  ASSUME TypeOK, Fases, SuspEnOrden, HojasEnOrden, [Next]_vars
  PROVE  TipoSwap'
  <1>1. TipoSwap /\ TipoMarcos /\ TipoTablas
    BY DEF TypeOK
  <1>2. CASE SoltarSlot
    BY <1>1, <1>2 DEF TipoSwap, SoltarSlot
  <1>3. CASE LiberarPagina
    BY <1>1, <1>3 DEF TipoSwap, LiberarPagina
  <1>4. ASSUME NEW p \in Pids, EscribirEnSwap(p) PROVE TipoSwap'
    <2>1. CASE UNCHANGED <<bitsSwap, maxBit, swap>> /\ fallos' = fallos + 1
               /\ fallos < MaxFallos
      BY <1>1, <2>1, CotasAssumption DEF TipoSwap
    <2> DEFINE d == contenido[tabla[p][susp[p].pag].marco]
    <2>2. CASE GrabarEnSwap(d, SlotLibre) /\ tabla[p][susp[p].pag].presente
      <3>1. d \in Datos
        <4>1. susp[p].pag \in Hojas
          BY <1>4, AsignablesSonHojas DEF EscribirEnSwap
        <4>2. tabla[p][susp[p].pag].marco \in Marcos
          BY <1>1, <2>2, <4>1, HojaTipo DEF HojasEnOrden, HojaEnOrden
        <4> QED BY <1>1, <4>2 DEF TipoMarcos
      <3> QED BY <1>1, <2>2, <3>1, GrabarTipo DEF TipoSwap
    <2> QED BY <1>1, <1>4, <2>1, <2>2 DEF EscribirEnSwap, TipoSwap, swapVars
  <1> QED BY <1>1, <1>2, <1>3, <1>4, QuienSwap DEF TipoSwap, swapVars

LEMMA TipoTablasPaso ==
  ASSUME TypeOK, Fases, SuspEnOrden, AltaEnOrden, [Next]_vars
  PROVE  TipoTablas'
  <1>1. TipoTablas
    BY DEF TypeOK
  <1>2. dicc' \in SUBSET Pids
    BY <1>1, QuienDicc DEF TipoTablas, RegistrarProceso, QuitarProceso, Fases
  <1>3. asignadas' \in [Pids -> Nat]
    BY <1>1, QuienAsignadas, PaginasAssumption, CapacidadTipo
    DEF TipoTablas, RegistrarProceso, Fases
  <1>4. tabla' \in [Pids -> [Hojas -> Entrada]]
    <2>1. CASE AsignarPagina
      <3>1. CASE alta.pag \in Asignables(alta.pid) /\ Libres # {}
        BY <2>1, <3>1, TrasAsignarPagina DEF CambiaHoja
      <3>2. CASE ~(alta.pag \in Asignables(alta.pid) /\ Libres # {})
        BY <1>1, <2>1, <3>2 DEF AsignarPagina, TipoTablas
      <3> QED BY <3>1, <3>2
    <2>2. CASE UbicarPagina
      BY <2>2, TrasUbicarPagina DEF CambiaHoja
    <2>3. CASE LiberarPagina
      BY <2>3, TrasLiberarPagina DEF CambiaHoja
    <2>4. ASSUME NEW p \in Pids,
                 QuitarPresente(p) \/ AnotarSlot(p) \/ SoltarMarco(p)
          PROVE  tabla' \in [Pids -> [Hojas -> Entrada]]
      BY <2>4, TrasQuitarPresente, TrasAnotarSlot, TrasSoltarMarco
      DEF CambiaHoja
    <2> QED BY <1>1, <2>1, <2>2, <2>3, <2>4, QuienTabla DEF TipoTablas
  <1> QED BY <1>2, <1>3, <1>4 DEF TipoTablas

LEMMA TrasSoltarSlot ==
  ASSUME TipoAlta, SoltarSlot
  PROVE  /\ bitsSwap' = bitsSwap \ {alta.slot}
         /\ alta' = [pc |-> "busca", pid |-> alta.pid, pag |-> alta.pag + 1,
                     marco |-> NADA, slot |-> NADA]
  BY DEF TipoAlta, SoltarSlot

LEMMA TrasContarParaAlta ==
  ASSUME NEW p \in Pids, ContarParaAlta(p)
  PROVE  alta' = [pc |-> "espera", pid |-> p, pag |-> 0, marco |-> NADA,
                  slot |-> NADA]
  BY DEF ContarParaAlta, SinAlta

LEMMA TrasContarParaTraer ==
  ASSUME NEW p \in Pids, ContarParaTraer(p)
  PROVE  alta' = [pc |-> "busca", pid |-> p, pag |-> 0, marco |-> NADA,
                  slot |-> NADA]
  BY DEF ContarParaTraer, SinAlta

LEMMA TipoAltaPaso ==
  ASSUME TypeOK, Fases, AltaEnOrden, [Next]_vars
  PROVE  TipoAlta'
  <1>1. TipoAlta
    BY DEF TypeOK
  <1>2. CASE BuscarMarco
    <2>1. alta.pag \in Nat /\ Entradas * ((alta.pag \div Entradas) + 1) \in Nat
      BY <1>1, SiguienteMultiplo, TablasAssumption DEF TipoAlta
    <2>2. Libres # {} => Menor(Libres) \in Marcos
      BY LibreElegido
    <2>3. CASE alta' = [alta EXCEPT !.pag = @ + 1]
      BY <1>1, <2>3 DEF TipoAlta
    <2>4. CASE alta' = [alta EXCEPT !.pag = Entradas * ((@ \div Entradas) + 1)]
      BY <1>1, <2>1, <2>4 DEF TipoAlta
    <2>5. CASE /\ Libres # {}
               /\ alta' = [alta EXCEPT !.pc = "ocupa", !.marco = Menor(Libres)]
      BY <1>1, <2>2, <2>5 DEF TipoAlta
    <2> QED BY <1>2, <2>3, <2>4, <2>5 DEF BuscarMarco
  <1>3. CASE UbicarPagina
    <2>1. alta.pid \in Pids /\ alta.pag \in Hojas
      BY <1>3, TrasUbicarPagina
    <2> DEFINE s == tabla[alta.pid][alta.pag].slot
    <2>2. s \in Nat \cup {NADA}
      BY <2>1, HojaTipo DEF TypeOK
    <2>3. alta' = [alta EXCEPT !.pc = "suelta", !.slot = s]
      BY <1>3 DEF UbicarPagina
    <2> HIDE DEF s
    <2> QED BY <1>1, <2>2, <2>3 DEF TipoAlta
  <1>4. CASE SoltarSlot
    <2>1. alta' = [pc |-> "busca", pid |-> alta.pid, pag |-> alta.pag + 1,
                   marco |-> NADA, slot |-> NADA]
      BY <1>1, <1>4, TrasSoltarSlot
    <2> QED BY <1>1, <2>1 DEF TipoAlta
  <1>5. CASE \/ CrearProceso \/ AsignarPagina \/ RegistrarProceso
             \/ OcuparMarco \/ TraerDeSwap \/ ResponderTraer
    BY <1>1, <1>5 DEF TipoAlta, CrearProceso, AsignarPagina, RegistrarProceso,
       OcuparMarco, TraerDeSwap, ResponderTraer, SinAlta
  <1>6. ASSUME NEW p \in Pids, ContarParaAlta(p) \/ ContarParaTraer(p)
        PROVE  TipoAlta'
    BY <1>6, TrasContarParaAlta, TrasContarParaTraer DEF TipoAlta
  <1> QED BY <1>1, <1>2, <1>3, <1>4, <1>5, <1>6, QuienAlta DEF TipoAlta

LEMMA TipoSuspPaso ==
  ASSUME TypeOK, [Next]_vars
  PROVE  TipoSusp'
  <1>1. TipoSusp /\ TipoSwap
    BY DEF TypeOK
  <1>2. ASSUME NEW p \in Pids, EscribirEnSwap(p) PROVE TipoSusp'
    <2>1. SlotLibre \in Nat
      BY <1>1, SlotLibreEsLibre DEF TipoSwap
    <2>2. \/ susp' = [susp EXCEPT ![p].pag = susp[p].pag + 1]
          \/ susp' = [susp EXCEPT ![p].pc = "escrita", ![p].slot = SlotLibre]
      BY <1>2 DEF EscribirEnSwap
    <2> QED BY <1>1, <2>1, <2>2 DEF TipoSusp
  <1>3. ASSUME NEW p \in Pids, SoltarMarco(p) PROVE TipoSusp'
    BY <1>1, <1>3 DEF TipoSusp, SoltarMarco
  <1>4. ASSUME NEW p \in Pids, AnotarSlot(p) PROVE TipoSusp'
    BY <1>1, <1>4 DEF TipoSusp, AnotarSlot
  <1>5. ASSUME NEW p \in Pids, \/ TomarSuspension(p) \/ QuitarPresente(p)
                               \/ ResponderSuspension(p) \/ Suspender(p)
        PROVE  TipoSusp'
    BY <1>1, <1>5 DEF TipoSusp, TomarSuspension, QuitarPresente,
       ResponderSuspension, Suspender, SinSusp
  <1> QED BY <1>1, <1>2, <1>3, <1>4, <1>5, QuienSusp DEF TipoSusp

LEMMA TipoBajaPaso ==
  ASSUME TypeOK, [Next]_vars
  PROVE  TipoBaja'
  BY QuienBaja DEF TypeOK, TipoBaja, LiberarPagina, ResponderBaja,
     QuitarProceso, SinBaja

LEMMA TrasMirarPagina ==
  ASSUME NEW p \in Pids, MirarPagina(p)
  PROVE  \/ /\ tabla[p][volc[p].pag].presente
            /\ volc' = [volc EXCEPT ![p].pc = "marco",
                          ![p].lugar = tabla[p][volc[p].pag].marco]
         \/ /\ tabla[p][volc[p].pag].slot # NADA
            /\ volc' = [volc EXCEPT ![p].pc = "slot",
                          ![p].lugar = tabla[p][volc[p].pag].slot]
         \/ volc' = [volc EXCEPT ![p].pag = @ + 1]
  <1> DEFINE e == tabla[p][volc[p].pag]
  <1>1. CASE e.presente
    BY <1>1 DEF MirarPagina
  <1>2. CASE ~e.presente /\ e.slot # NADA
    BY <1>2 DEF MirarPagina
  <1>3. CASE ~e.presente /\ e.slot = NADA
    BY <1>3 DEF MirarPagina
  <1> QED BY <1>1, <1>2, <1>3

LEMMA TipoVolcMirar ==
  ASSUME TypeOK, NEW p \in Pids, MirarPagina(p)
  PROVE  TipoVolc'
  <1>1. TipoVolc /\ TipoTablas
    BY DEF TypeOK
  <1> DEFINE m == tabla[p][volc[p].pag].marco
             s == tabla[p][volc[p].pag].slot
  <1>2. m \in Nat \cup {NADA} /\ s \in Nat \cup {NADA}
    BY <1>1, HojaTipo, NadaAparte, AsignablesSonHojas DEF MirarPagina
  <1>3. dump' = dump
    BY DEF MirarPagina
  <1>4. \/ volc' = [volc EXCEPT ![p].pc = "marco", ![p].lugar = m]
        \/ volc' = [volc EXCEPT ![p].pc = "slot", ![p].lugar = s]
        \/ volc' = [volc EXCEPT ![p].pag = @ + 1]
    BY TrasMirarPagina
  <1> HIDE DEF m, s
  <1>5. TipoVolc
    BY <1>1
  <1> QED BY <1>5, <1>2, <1>3, <1>4 DEF TipoVolc

LEMMA VolcadoTipo ==
  ASSUME TypeOK, VolcEnOrden, NEW p \in Pids, VolcarPagina(p)
  PROVE  /\ DOMAIN dump' = Pids
         /\ \A q \in Pids : \A h \in DOMAIN dump'[q] :
              h \in Hojas /\ dump'[q][h] \in Datos
  <1>1. TipoVolc /\ TipoMarcos /\ TipoSwap
    BY DEF TypeOK
  <1>4. PICK d \in IF volc[p].pc = "marco" THEN {contenido[volc[p].lugar]}
                   ELSE LeidoDeSwap(volc[p].lugar, Cero) :
          dump' = [dump EXCEPT ![p] =
                     [h \in DOMAIN @ \cup {volc[p].pag} |->
                        IF h = volc[p].pag THEN d ELSE @[h]]]
    BY DEF VolcarPagina
  <1>5. d \in Datos
    BY <1>1, <1>4, LeidoTipo, DatosAssumption
    DEF VolcarPagina, VolcEnOrden, TipoMarcos
  <1>6. volc[p].pag \in Hojas
    BY AsignablesSonHojas DEF VolcEnOrden, VolcarPagina
  <1>7. DOMAIN dump' = Pids
    BY <1>1, <1>4 DEF TipoVolc
  <1>8. ASSUME NEW q \in Pids, NEW h \in DOMAIN dump'[q]
        PROVE  h \in Hojas /\ dump'[q][h] \in Datos
    BY <1>1, <1>4, <1>5, <1>6 DEF TipoVolc
  <1> QED BY <1>7, <1>8

LEMMA TipoVolcPaso ==
  ASSUME TypeOK, VolcEnOrden, [Next]_vars
  PROVE  TipoVolc'
  <1> DEFINE V == [pc : {"no", "pedido", "recorre", "marco", "slot"},
                   pag : Nat, lugar : Nat \cup {NADA}]
             D == /\ DOMAIN dump = Pids
                  /\ \A p \in Pids : \A h \in DOMAIN dump[p] :
                       h \in Hojas /\ dump[p][h] \in Datos
  <1>1. volc \in [Pids -> V] /\ D
    BY DEF TypeOK, TipoVolc
  <1>2. ASSUME NEW p \in Pids, TomarDump(p) \/ PedirDump(p) \/ CerrarDump(p)
        PROVE  volc' \in [Pids -> V]
    BY <1>1, <1>2 DEF TomarDump, PedirDump, CerrarDump, SinVolc
  <1>3. ASSUME NEW p \in Pids, VolcarPagina(p)
        PROVE  volc' \in [Pids -> V]
    BY <1>1, <1>3 DEF VolcarPagina
  <1>4. volc' \in [Pids -> V]
    BY <1>1, <1>2, <1>3, TipoVolcMirar, QuienVolc DEF TipoVolc
  <1>5. ASSUME NEW p \in Pids, CerrarDump(p)
        PROVE  D'
    BY <1>1, <1>5 DEF CerrarDump
  <1>6. D'
    BY <1>1, <1>5, VolcadoTipo, QuienDump
  <1> QED BY <1>4, <1>6 DEF TipoVolc

LEMMA TipoInit ==
  ASSUME Init
  PROVE  TypeOK
  <1>1. TipoKernel /\ TipoMarcos /\ TipoSwap
    BY SwapAssumption, CotasAssumption, DatosAssumption
    DEF Init, TipoKernel, TipoMarcos, TipoSwap
  <1>2. TipoTablas
    BY DEF Init, TipoTablas, Vacia, Entrada
  <1>3. TipoAlta /\ TipoSusp /\ TipoVolc /\ TipoBaja
    BY DEF Init, TipoAlta, TipoSusp, TipoVolc, TipoBaja, SinAlta, SinSusp,
       SinVolc, SinBaja
  <1> QED BY <1>1, <1>2, <1>3 DEF TypeOK

LEMMA TipoPaso ==
  ASSUME TypeOK, Fases, HojasEnOrden, SuspEnOrden, AltaEnOrden, VolcEnOrden,
         [Next]_vars
  PROVE  TypeOK'
  BY TipoKernelPaso, TipoMarcosPaso, TipoSwapPaso, TipoTablasPaso,
     TipoAltaPaso, TipoSuspPaso, TipoVolcPaso, TipoBajaPaso DEF TypeOK

=============================================================================
