----------------------------- MODULE CpuProofs ------------------------------
(***************************************************************************)
(* Theorems of Cpu, for any number of CPU programs, processes, pages,      *)
(* frames and entries of each TLB and cache, and for any programs.         *)
(***************************************************************************)
EXTENDS Cpu, WellFoundedInduction, FiniteSetTheorems, TLAPS

\* A process is in one CPU at most, the one the kernel gave it to.
Duenio ==
    /\ \A c \in CPUs : ejec[c] # Nil => situacion[ejec[c]] = "en_cpu"
    /\ \A c, d \in CPUs : ejec[c] # Nil /\ ejec[c] = ejec[d] => c = d

\* Two processes share no frame, until one of them ends.
Repartidas ==
    \A p, q \in Pids : p # q /\ situacion[p] # "fin" /\ situacion[q] # "fin" =>
        Range(tabla[p]) \cap Range(tabla[q]) = {}

\* Where the program counter is when the burst may end.
Traza(c) ==
    /\ \/ etapa[c] = "revisar"
       \/ /\ etapa[c] = "fin"
          /\ motivo[c] \in {"PROCESO_INTERRUPCION", "IO", "DUMP_MEMORY"}
       => pc[c] = DondeQuedo(ejec[c])
    /\ etapa[c] \in {"revisar", "fin"} /\ motivo[c] \in {"IO", "DUMP_MEMORY"} =>
          EsUltima(ejec[c], {"IO", "DUMP_MEMORY"})

\* An entry of the TLB in use has the frame of a page of the process.
EntradaTlbFiel(c, e) ==
    e.pid # Nil => /\ e.pid = ejec[c]
                   /\ e.pagina \in DOMAIN tabla[ejec[c]]
                   /\ e.marco = tabla[ejec[c]][e.pagina]
TlbFiel(c) == \A i \in DOMAIN tlb[c] : EntradaTlbFiel(c, tlb[c][i])

\* An entry of the cache in use has what the process wrote in a page, and what
\* its frame has too unless it is marked as modified.
EntradaCacheFiel(c, e) ==
    e.pid # Nil =>
        /\ e.pid = ejec[c]
        /\ e.pagina \in DOMAIN tabla[ejec[c]]
        /\ e.marco = tabla[ejec[c]][e.pagina]
        /\ e.contenido = logico[ejec[c]][e.pagina]
        /\ e.modificado \/ memoria[e.marco] = e.contenido
CacheFiel(c) == \A i \in Posiciones(c) : EntradaCacheFiel(c, cache[c][i])

\* No page is twice in a cache.
CacheSinRepetir(c) ==
    \A i, j \in Posiciones(c) :
        cache[c][i].pid # Nil /\ cache[c][j].pid # Nil
        /\ cache[c][i].pagina = cache[c][j].pagina => i = j

\* Every page of a process is in the cache of the CPU that executes it, or its
\* frame has what the process wrote.
EnSuCache(p, g) == \E c \in CPUs : ejec[c] = p /\ EnCache(c, p, g) # {}
PaginasFieles ==
    \A p \in Pids : situacion[p] # "fin" =>
        \A g \in DOMAIN tabla[p] :
           EnSuCache(p, g) \/ memoria[tabla[p][g]] = logico[p][g]

Fiel(c) == TlbFiel(c) /\ CacheFiel(c) /\ CacheSinRepetir(c)

Inductivo ==
    /\ TypeOK /\ Duenio /\ Repartidas
    /\ \A c \in CPUs : Traza(c) /\ Fiel(c)
    /\ PaginasFieles
    /\ ReanudaDondeCorresponde

----------------------------------------------------------------------------
\* The first position of a search, and the turn of the clock.

LEMMA HayMinimo ==
  ASSUME NEW S \in SUBSET Nat, S # {}
  PROVE  Min(S) \in S
  <1>1. PICK m \in S : \A n \in S : ~(<<n, m>> \in OpToRel(<, Nat))
    BY NatLessThanWellFounded, WFMin
  <1>2. OpToRel(<, Nat) = {d \in Nat \X Nat : d[1] < d[2]}
    BY Zenon DEF OpToRel
  <1>3. \A n \in S : ~(n < m)
    BY <1>1, <1>2
  <1>4. \A n \in S : m =< n
    BY <1>3
  <1> QED BY <1>4 DEF Min

LEMMA RestoChico ==
  ASSUME NEW n \in Nat \ {0}, NEW a \in 0 .. n - 1
  PROVE  a % n = a
  OBVIOUS

LEMMA RestoPasado ==
  ASSUME NEW n \in Nat \ {0}, NEW a \in 0 .. n - 1
  PROVE  (a + n) % n = a
  OBVIOUS

LEMMA DesdeTodas ==
  ASSUME TypeOK, CpuAssumption, NEW c \in CPUs, NEW i \in Posiciones(c)
  PROVE  \E k \in Posiciones(c) : Desde(c, k) = i
  <1> DEFINE n == EntradasCache[c]
             m == punteroClock[c]
  <1>1. n \in Nat \ {0} /\ m \in 0 .. n - 1 /\ i \in 0 .. n - 1
    BY DEF TypeOK, CpuAssumption, Posiciones
  <1> HIDE DEF n, m
  <1>2. CASE m =< i
    <2>1. i - m \in 0 .. n - 1 /\ m + (i - m) = i
      BY <1>1, <1>2
    <2>2. i % n = i
      BY <1>1, RestoChico
    <2> QED BY <2>1, <2>2 DEF Posiciones, Desde, n, m
  <1>3. CASE i < m
    <2>1. i + n - m \in 0 .. n - 1 /\ m + (i + n - m) = i + n
      BY <1>1, <1>3
    <2>2. (i + n) % n = i
      BY <1>1, RestoPasado
    <2> QED BY <2>1, <2>2 DEF Posiciones, Desde, n, m
  <1> QED BY <1>1, <1>2, <1>3

LEMMA PrimeraVueltaEncuentra ==
  ASSUME TypeOK, CpuAssumption, NEW c \in CPUs,
         NEW S \in SUBSET Posiciones(c), S # {}
  PROVE  Desde(c, PrimeraVuelta(c, S)) \in S
  <1> DEFINE K == {k \in Posiciones(c) : Desde(c, k) \in S}
  <1>1. PICK i \in Posiciones(c) : i \in S
    OBVIOUS
  <1>2. PICK k \in Posiciones(c) : Desde(c, k) = i
    BY DesdeTodas
  <1>3. k \in K /\ K \in SUBSET Nat
    BY <1>1, <1>2 DEF Posiciones
  <1>4. Min(K) \in K
    BY <1>3, HayMinimo
  <1> QED BY <1>4 DEF PrimeraVuelta

LEMMA VictimaElegida ==
  ASSUME TypeOK, CpuAssumption, NEW c \in CPUs, EntradasCache[c] # 0
  PROVE  /\ VictimaClock(c).indice \in Posiciones(c)
         /\ VictimaClockM(c).indice \in Posiciones(c)
  <1>1. punteroClock[c] \in Posiciones(c)
    BY DEF TypeOK, CpuAssumption, Posiciones
  <1>2. \A campo : Sin(c, campo) \in SUBSET Posiciones(c)
    BY DEF Sin
  <1>3. \A S \in SUBSET Posiciones(c) :
           S # {} => Desde(c, PrimeraVuelta(c, S)) \in Posiciones(c)
    BY PrimeraVueltaEncuentra
  <1>4. VictimaClock(c).indice \in Posiciones(c)
    BY <1>1, <1>2, <1>3, Zenon DEF VictimaClock
  <1> QED BY <1>1, <1>2, <1>3, <1>4, Zenon DEF VictimaClockM

----------------------------------------------------------------------------
\* The TLB.

\* Two entries with the same page in the same frame.
MismaTraduccion(e, f) == e.pid = f.pid /\ e.pagina = f.pagina /\ e.marco = f.marco

LEMMA OrdenarTipo ==
  ASSUME NEW n \in Nat, NEW t, DOMAIN t = 0 .. n - 1,
         NEW v \in [0 .. n - 1 -> EntradasDeTlb],
         \A j \in 0 .. n - 1 : \E s : t[j] = [v[j] EXCEPT !.sello = s]
  PROVE  /\ Ordenar(t) \in [0 .. n - 1 -> EntradasDeTlb]
         /\ \A j \in 0 .. n - 1 : MismaTraduccion(Ordenar(t)[j], v[j])
  <1> DEFINE antes(i) == {j \in DOMAIN t : t[j].sello < t[i].sello}
  <1>1. \A i : Cardinality(antes(i)) \in Nat
    <2> TAKE i
    <2>1. IsFiniteSet(0 .. n - 1) /\ antes(i) \subseteq 0 .. n - 1
      BY FS_Interval
    <2> QED BY <2>1, FS_Subset, FS_CardinalityType
  <1>2. Ordenar(t) = [i \in 0 .. n - 1 |->
                        [t[i] EXCEPT !.sello = Cardinality(antes(i))]]
    BY DEF Ordenar
  <1> HIDE DEF antes
  <1>3. ASSUME NEW j \in 0 .. n - 1
        PROVE  /\ [t[j] EXCEPT !.sello = Cardinality(antes(j))] \in EntradasDeTlb
               /\ MismaTraduccion(
                     [t[j] EXCEPT !.sello = Cardinality(antes(j))], v[j])
    <2>1. PICK s : t[j] = [v[j] EXCEPT !.sello = s]
      OBVIOUS
    <2>2. v[j] \in EntradasDeTlb
      OBVIOUS
    <2>3. [t[j] EXCEPT !.sello = Cardinality(antes(j))] =
             [v[j] EXCEPT !.sello = Cardinality(antes(j))]
      BY <2>1, <2>2 DEF EntradasDeTlb
    <2> QED BY <1>1, <2>2, <2>3 DEF EntradasDeTlb, MismaTraduccion
  <1> QED BY <1>2, <1>3

LEMMA SellarTipo ==
  ASSUME NEW c, NEW n \in Nat, NEW t \in [0 .. n - 1 -> EntradasDeTlb],
         NEW i, NEW u \in Sellar(c, t, i)
  PROVE  /\ u \in [0 .. n - 1 -> EntradasDeTlb]
         /\ \A j \in 0 .. n - 1 : MismaTraduccion(u[j], t[j])
  <1>1. CASE AlgTlb[c] = "FIFO"
    BY <1>1 DEF Sellar, MismaTraduccion
  <1>2. CASE AlgTlb[c] # "FIFO"
    <2>1. PICK s : u = Ordenar([t EXCEPT ![i].sello = s])
      BY <1>2, Zenon DEF Sellar
    <2> DEFINE w == [t EXCEPT ![i].sello = s]
    <2>2. DOMAIN w = 0 .. n - 1
      OBVIOUS
    <2>3. ASSUME NEW j \in 0 .. n - 1
          PROVE  \E r : w[j] = [t[j] EXCEPT !.sello = r]
      <3>1. CASE j = i
        BY <3>1
      <3>2. CASE j # i
        <4>1. w[j] = t[j]
          BY <3>2
        <4>2. t[j] = [t[j] EXCEPT !.sello = t[j].sello]
          BY DEF EntradasDeTlb
        <4> QED BY <4>1, <4>2
      <3> QED BY <3>1, <3>2
    <2> HIDE DEF w
    <2> QED BY <2>1, <2>2, <2>3, OrdenarTipo DEF w
  <1> QED BY <1>1, <1>2

\* What a translation leaves in the TLB.
LEMMA TraducirForma ==
  ASSUME CpuAssumption, TypeOK, NEW c \in CPUs, NEW p \in Pids,
         NEW g \in 0 .. NumPaginas[p] - 1, NEW f,
         ejec[c] = p, TlbFiel(c), Traducir(c, p, g, f)
  PROVE  /\ f = tabla[p][g]
         /\ DOMAIN tlb' = CPUs /\ \A d \in CPUs \ {c} : tlb'[d] = tlb[d]
         /\ tlb'[c] \in [0 .. EntradasTlb[c] - 1 -> EntradasDeTlb]
         /\ \A i \in 0 .. EntradasTlb[c] - 1 : EntradaTlbFiel(c, tlb'[c][i])
         /\ punteroTlb' \in [CPUs -> Nat]
         /\ \A d \in CPUs : punteroTlb'[d] \in 0 .. EntradasTlb[d] - 1 \cup {0}
  <1> DEFINE n == EntradasTlb[c]
             nueva == [pid |-> p, pagina |-> g, marco |-> f, sello |-> 0]
  <1>1. /\ n \in Nat /\ tlb[c] \in [0 .. n - 1 -> EntradasDeTlb]
        /\ DOMAIN tlb = CPUs /\ p # Nil
        /\ tabla[p] \in [0 .. NumPaginas[p] - 1 -> Marcos]
        /\ \A i \in 0 .. n - 1 : EntradaTlbFiel(c, tlb[c][i])
    BY DEF TypeOK, CpuAssumption, Reparto, TlbFiel
  <1>2. /\ punteroTlb \in [CPUs -> Nat]
        /\ \A d \in CPUs : punteroTlb[d] \in 0 .. EntradasTlb[d] - 1 \cup {0}
    BY DEF TypeOK
  <1> HIDE DEF n
  <1>3. CASE EnTlb(c, p, g) # {}
    <2>1. PICK i \in EnTlb(c, p, g) :
             /\ f = tlb[c][i].marco
             /\ \E t \in Sellar(c, tlb[c], i) : tlb' = [tlb EXCEPT ![c] = t]
             /\ UNCHANGED punteroTlb
      BY <1>3 DEF Traducir
    <2>2. PICK t \in Sellar(c, tlb[c], i) : tlb' = [tlb EXCEPT ![c] = t]
      BY <2>1
    <2>3. /\ t \in [0 .. n - 1 -> EntradasDeTlb]
          /\ \A j \in 0 .. n - 1 : MismaTraduccion(t[j], tlb[c][j])
      BY <1>1, SellarTipo
    <2>4. f = tabla[p][g]
      BY <1>1, <2>1 DEF EnTlb, EntradaTlbFiel
    <2>5. tlb'[c] = t /\ DOMAIN tlb' = CPUs
          /\ \A d \in CPUs \ {c} : tlb'[d] = tlb[d]
      BY <1>1, <2>2
    <2>6. \A j \in 0 .. n - 1 : EntradaTlbFiel(c, t[j])
      BY <1>1, <2>3 DEF EntradaTlbFiel, MismaTraduccion
    <2> QED BY <1>2, <2>1, <2>3, <2>4, <2>5, <2>6 DEF n
  <1>4. CASE EnTlb(c, p, g) = {}
    <2>1. f = tabla[p][g] /\ AgregarATlb(c, p, g, f)
      BY <1>4 DEF Traducir
    <2>2. nueva \in EntradasDeTlb /\ EntradaTlbFiel(c, nueva)
      BY <1>1, <2>1 DEF EntradasDeTlb, EntradaTlbFiel, CpuAssumption
    <2>3. CASE n = 0
      BY <1>1, <1>2, <2>1, <2>3 DEF AgregarATlb, n
    <2>4. CASE n # 0
      <3>1. PICK i : \E t \in Sellar(c, [tlb[c] EXCEPT ![i] = nueva], i) :
                        tlb' = [tlb EXCEPT ![c] = t]
        BY <2>1, <2>4, Zenon DEF AgregarATlb, n
      <3> DEFINE v == [tlb[c] EXCEPT ![i] = nueva]
      <3>2. PICK t \in Sellar(c, v, i) : tlb' = [tlb EXCEPT ![c] = t]
        BY <3>1
      <3>3. v \in [0 .. n - 1 -> EntradasDeTlb]
            /\ \A j \in 0 .. n - 1 : EntradaTlbFiel(c, v[j])
        <4> HIDE DEF nueva
        <4> QED BY <1>1, <2>2
      <3> HIDE DEF v
      <3>4. /\ t \in [0 .. n - 1 -> EntradasDeTlb]
            /\ \A j \in 0 .. n - 1 : MismaTraduccion(t[j], v[j])
        BY <1>1, <3>3, SellarTipo
      <3>5. \A j \in 0 .. n - 1 : EntradaTlbFiel(c, t[j])
        BY <3>3, <3>4 DEF EntradaTlbFiel, MismaTraduccion
      <3>6. tlb'[c] = t /\ DOMAIN tlb' = CPUs
            /\ \A d \in CPUs \ {c} : tlb'[d] = tlb[d]
        BY <1>1, <3>2
      <3>7. \/ punteroTlb' = punteroTlb
            \/ punteroTlb' = [punteroTlb EXCEPT ![c] = (@ + 1) % n]
        BY <2>1, <2>4, Zenon DEF AgregarATlb, n
      <3>8. (punteroTlb[c] + 1) % n \in 0 .. n - 1
        BY <1>1, <1>2, <2>4
      <3>9. /\ punteroTlb' \in [CPUs -> Nat]
            /\ \A d \in CPUs : punteroTlb'[d] \in 0 .. EntradasTlb[d] - 1 \cup {0}
        <4>1. CASE punteroTlb' = punteroTlb
          BY <1>2, <4>1
        <4>2. CASE punteroTlb' = [punteroTlb EXCEPT ![c] = (@ + 1) % n]
          <5>1. /\ punteroTlb'[c] = (punteroTlb[c] + 1) % n
                /\ \A d \in CPUs \ {c} : punteroTlb'[d] = punteroTlb[d]
                /\ punteroTlb' \in [CPUs -> Nat]
            BY <1>2, <3>8, <4>2
          <5> QED BY <1>2, <3>8, <5>1 DEF n
        <4> QED BY <3>7, <4>1, <4>2
      <3> QED BY <2>1, <3>4, <3>5, <3>6, <3>9 DEF n
    <2> QED BY <2>3, <2>4
  <1> QED BY <1>3, <1>4

----------------------------------------------------------------------------
\* The page cache.

\* What the process of c wrote is in the cache or in the frame.
PaginasDe(c) ==
    \A h \in DOMAIN tabla[ejec[c]] :
        \/ EnCache(c, ejec[c], h) # {}
        \/ memoria[tabla[ejec[c]][h]] = logico[ejec[c]][h]

\* Two entries that differ in the use bit at most.
MismaEntrada(e, f) ==
    /\ e.pid = f.pid /\ e.pagina = f.pagina /\ e.marco = f.marco
    /\ e.contenido = f.contenido /\ e.modificado = f.modificado

LEMMA TablaTipo ==
  ASSUME TypeOK, NEW p \in Pids
  PROVE  /\ tabla[p] \in [0 .. NumPaginas[p] - 1 -> Marcos]
         /\ DOMAIN tabla[p] = 0 .. NumPaginas[p] - 1
         /\ \A g, h \in DOMAIN tabla[p] : tabla[p][g] = tabla[p][h] => g = h
         /\ logico[p] \in [0 .. NumPaginas[p] - 1 -> Pagina]
  <1>1. tabla[p] \in [0 .. NumPaginas[p] - 1 -> Marcos] /\ IsInjective(tabla[p])
    BY DEF TypeOK, Reparto
  <1>2. logico[p] \in [0 .. NumPaginas[p] - 1 -> Pagina]
    BY DEF TypeOK
  <1> QED BY <1>1, <1>2 DEF IsInjective

\* Writing entries back puts in the frame of a page what was written in it, and
\* leaves the other frames alone.
LEMMA ConVueltasDe ==
  ASSUME TypeOK, NEW c \in CPUs, ejec[c] # Nil, CacheFiel(c),
         NEW S \in SUBSET Posiciones(c), \A i \in S : cache[c][i].pid # Nil
  PROVE  /\ ConVueltas(c, S) \in [Marcos -> Pagina]
         /\ \A f \in Marcos \ Range(tabla[ejec[c]]) :
               ConVueltas(c, S)[f] = memoria[f]
         /\ \A g \in DOMAIN tabla[ejec[c]] :
               ConVueltas(c, S)[tabla[ejec[c]][g]] =
                  IF \E i \in S : cache[c][i].modificado /\ cache[c][i].pagina = g
                  THEN logico[ejec[c]][g] ELSE memoria[tabla[ejec[c]][g]]
  <1> DEFINE p == ejec[c]
             sucias == {i \in S : cache[c][i].modificado}
             valor(f) == IF \E i \in sucias : cache[c][i].marco = f
                         THEN cache[c][CHOOSE i \in sucias :
                                         cache[c][i].marco = f].contenido
                         ELSE memoria[f]
  <1>1. /\ p \in Pids /\ memoria \in [Marcos -> Pagina]
        /\ cache[c] \in [Posiciones(c) -> EntradasDeCache]
    BY DEF TypeOK
  <1>2. \A i \in S : /\ cache[c][i].pagina \in DOMAIN tabla[p]
                     /\ cache[c][i].marco = tabla[p][cache[c][i].pagina]
                     /\ cache[c][i].contenido = logico[p][cache[c][i].pagina]
                     /\ cache[c][i].contenido \in Pagina
    BY <1>1 DEF CacheFiel, EntradaCacheFiel, EntradasDeCache
  <1>3. /\ tabla[p] \in [0 .. NumPaginas[p] - 1 -> Marcos]
        /\ DOMAIN tabla[p] = 0 .. NumPaginas[p] - 1
        /\ \A g, h \in DOMAIN tabla[p] : tabla[p][g] = tabla[p][h] => g = h
        /\ logico[p] \in [0 .. NumPaginas[p] - 1 -> Pagina]
    BY <1>1, TablaTipo
  <1>4. ConVueltas(c, S) = [f \in Marcos |-> valor(f)]
    BY DEF ConVueltas
  <1>5. ASSUME NEW f
        PROVE  \/ /\ \E i \in sucias : cache[c][i].marco = f
                  /\ \E i \in sucias : /\ cache[c][i].marco = f
                                       /\ valor(f) = cache[c][i].contenido
               \/ /\ ~\E i \in sucias : cache[c][i].marco = f
                  /\ valor(f) = memoria[f]
    <2>1. CASE \E i \in sucias : cache[c][i].marco = f
      <3> DEFINE j == CHOOSE i \in sucias : cache[c][i].marco = f
      <3>1. j \in sucias /\ cache[c][j].marco = f
        BY <2>1, Zenon
      <3>2. valor(f) = cache[c][j].contenido
        BY <2>1
      <3> QED BY <3>1, <3>2, Zenon
    <2>2. CASE ~\E i \in sucias : cache[c][i].marco = f
      BY <2>2, Zenon
    <2> QED BY <2>1, <2>2
  <1> HIDE DEF valor, sucias, p
  <1>6. \A i \in sucias : i \in S /\ cache[c][i].modificado
    BY DEF sucias
  <1>7. ASSUME NEW f \in Marcos
        PROVE  valor(f) \in Pagina
    BY <1>1, <1>2, <1>5, <1>6, <1>7
  <1>8. ASSUME NEW f \in Marcos \ Range(tabla[p])
        PROVE  valor(f) = memoria[f]
    BY <1>2, <1>5, <1>6 DEF Range
  <1>9. ASSUME NEW g \in DOMAIN tabla[p]
        PROVE  valor(tabla[p][g]) =
                  IF \E i \in S : cache[c][i].modificado /\ cache[c][i].pagina = g
                  THEN logico[p][g] ELSE memoria[tabla[p][g]]
    <2>1. ASSUME NEW i \in S PROVE cache[c][i].marco = tabla[p][g]
                                       <=> cache[c][i].pagina = g
      BY <1>2, <1>3
    <2>2. CASE \E i \in S : cache[c][i].modificado /\ cache[c][i].pagina = g
      <3>1. PICK i \in sucias : /\ cache[c][i].marco = tabla[p][g]
                                /\ valor(tabla[p][g]) = cache[c][i].contenido
        BY <1>5, <2>1, <2>2 DEF sucias
      <3> QED BY <1>2, <1>6, <2>1, <2>2, <3>1
    <2>3. CASE ~\E i \in S : cache[c][i].modificado /\ cache[c][i].pagina = g
      BY <1>5, <1>6, <2>1, <2>3
    <2> QED BY <2>2, <2>3
  <1>10. \A g \in DOMAIN tabla[p] : tabla[p][g] \in Marcos
    BY <1>3
  <1> QED BY <1>4, <1>7, <1>8, <1>9, <1>10 DEF p

LEMMA SinVueltas ==
  ASSUME TypeOK, NEW c \in CPUs
  PROVE  ConVueltas(c, {}) = memoria
  <1>1. memoria = [f \in Marcos |-> memoria[f]]
    BY DEF TypeOK
  <1>2. ConVueltas(c, {}) = [f \in Marcos |-> memoria[f]]
    BY DEF ConVueltas
  <1> QED BY <1>1, <1>2

\* Writing back what a place of the cache has.
Devuelto(c, k) == ConVueltas(c, IF cache[c][k].pid = Nil THEN {} ELSE {k})

\* The new entry takes a place, and what was there is written back.
LEMMA InsertarForma ==
  ASSUME TypeOK, CpuAssumption, NEW c \in CPUs, EntradasCache[c] # 0,
         NEW p \in Pids, NEW g \in Nat, NEW f \in Marcos,
         NEW contenido \in Pagina, NEW modificado \in BOOLEAN,
         InsertarEnCache(c, p, g, f, contenido, modificado)
  PROVE  /\ DOMAIN cache' = CPUs /\ \A d \in CPUs \ {c} : cache'[d] = cache[d]
         /\ cache'[c] \in [Posiciones(c) -> EntradasDeCache]
         /\ punteroClock' \in [CPUs -> Nat]
         /\ \A d \in CPUs : punteroClock'[d] \in Posiciones(d) \cup {0}
         /\ \E k \in Posiciones(c) :
               /\ cache'[c][k] = [pid |-> p, pagina |-> g, marco |-> f,
                                  contenido |-> contenido, uso |-> TRUE,
                                  modificado |-> modificado]
               /\ \A i \in Posiciones(c) \ {k} :
                     MismaEntrada(cache'[c][i], cache[c][i])
               /\ memoria' = Devuelto(c, k)
  <1> DEFINE n      == EntradasCache[c]
             libres == {i \in Posiciones(c) : cache[c][i].pid = Nil}
             nueva  == [pid |-> p, pagina |-> g, marco |-> f,
                        contenido |-> contenido, uso |-> TRUE,
                        modificado |-> modificado]
             v == IF AlgCache[c] = "CLOCK" THEN VictimaClock(c)
                  ELSE VictimaClockM(c)
  <1>1. /\ n \in Nat \ {0} /\ Posiciones(c) = 0 .. n - 1 /\ DOMAIN cache = CPUs
        /\ cache[c] \in [Posiciones(c) -> EntradasDeCache]
        /\ punteroClock \in [CPUs -> Nat]
        /\ \A d \in CPUs : punteroClock[d] \in Posiciones(d) \cup {0}
    BY DEF TypeOK, CpuAssumption, Posiciones
  <1>2. nueva \in EntradasDeCache
    BY DEF EntradasDeCache
  <1>3. \A e \in EntradasDeCache :
           /\ [e EXCEPT !.uso = FALSE] \in EntradasDeCache
           /\ MismaEntrada([e EXCEPT !.uso = FALSE], e) /\ MismaEntrada(e, e)
    BY DEF EntradasDeCache, MismaEntrada
  <1>4. CASE libres # {}
    <2>1. /\ cache' = [cache EXCEPT ![c][Min(libres)] = nueva]
          /\ UNCHANGED <<punteroClock, memoria>>
      BY <1>1, <1>4, Zenon DEF InsertarEnCache
    <2>2. Min(libres) \in libres
      <3>1. libres \in SUBSET Nat
        BY <1>1
      <3> HIDE DEF libres
      <3> QED BY <1>4, <3>1, HayMinimo
    <2>3. PICK k \in libres : cache' = [cache EXCEPT ![c][k] = nueva]
      BY <2>1, <2>2
    <2>4. k \in Posiciones(c) /\ cache[c][k].pid = Nil
      OBVIOUS
    <2> HIDE DEF libres, nueva, n
    <2>5. /\ DOMAIN cache' = CPUs /\ \A d \in CPUs \ {c} : cache'[d] = cache[d]
          /\ cache'[c] = [cache[c] EXCEPT ![k] = nueva]
      BY <1>1, <2>3
    <2>6. /\ cache'[c] \in [Posiciones(c) -> EntradasDeCache]
          /\ cache'[c][k] = nueva
          /\ \A i \in Posiciones(c) \ {k} : cache'[c][i] = cache[c][i]
      BY <1>1, <1>2, <2>4, <2>5
    <2>7. \A i \in Posiciones(c) \ {k} : MismaEntrada(cache'[c][i], cache[c][i])
      BY <1>1, <1>3, <2>6
    <2>8. punteroClock' = punteroClock /\ memoria' = Devuelto(c, k)
      BY <2>1, <2>4, SinVueltas DEF Devuelto
    <2> QED BY <1>1, <2>4, <2>5, <2>6, <2>7, <2>8 DEF nueva
  <1>5. CASE libres = {}
    <2> DEFINE k == v.indice
               otra == [i \in Posiciones(c) |->
                          IF i = k THEN nueva
                          ELSE IF i \in v.bajados
                               THEN [cache[c][i] EXCEPT !.uso = FALSE]
                               ELSE cache[c][i]]
               puntero == IF AlgCache[c] = "CLOCK" THEN k ELSE (k + 1) % n
    <2>1. /\ cache' = [cache EXCEPT ![c] = otra]
          /\ memoria' = ConVueltas(c, {k})
          /\ punteroClock' = [punteroClock EXCEPT ![c] = puntero]
      BY <1>1, <1>5, Zenon DEF InsertarEnCache
    <2>2. k \in Posiciones(c)
      BY VictimaElegida
    <2>3. cache[c][k].pid # Nil
      BY <1>5, <2>2
    <2> HIDE DEF k, v, nueva, libres, n
    <2>4. puntero \in Posiciones(c) /\ puntero \in Nat
      BY <1>1, <2>2
    <2>5. ASSUME NEW i \in Posiciones(c)
          PROVE  /\ otra[i] \in EntradasDeCache
                 /\ i # k => MismaEntrada(otra[i], cache[c][i])
      BY <1>1, <1>2, <1>3
    <2>6. otra[k] = nueva /\ otra \in [Posiciones(c) -> EntradasDeCache]
      BY <2>2, <2>5
    <2> HIDE DEF otra, puntero
    <2>7. /\ DOMAIN cache' = CPUs /\ \A d \in CPUs \ {c} : cache'[d] = cache[d]
          /\ cache'[c] = otra
      BY <1>1, <2>1
    <2>8. /\ punteroClock' \in [CPUs -> Nat]
          /\ \A d \in CPUs : punteroClock'[d] \in Posiciones(d) \cup {0}
      BY <1>1, <2>1, <2>4
    <2>9. memoria' = Devuelto(c, k)
      BY <2>1, <2>3 DEF Devuelto
    <2> QED BY <2>2, <2>5, <2>6, <2>7, <2>8, <2>9 DEF nueva
  <1> QED BY <1>4, <1>5

\* A page that was not in the cache enters it, or passes it by when there is
\* none: the cache stays faithful and no page is lost.
LEMMA InsertarFiel ==
  ASSUME TypeOK, CpuAssumption, NEW c \in CPUs, ejec[c] # Nil,
         NEW g \in DOMAIN tabla[ejec[c]], EnCache(c, ejec[c], g) = {},
         NEW contenido \in Pagina, NEW modificado \in BOOLEAN,
         Fiel(c), PaginasDe(c),
         InsertarEnCache(c, ejec[c], g, tabla[ejec[c]][g], contenido, modificado),
         UNCHANGED <<ejec, tabla>>, contenido = logico'[ejec[c]][g],
         \A h \in DOMAIN tabla[ejec[c]] \ {g} :
            logico'[ejec[c]][h] = logico[ejec[c]][h],
         \/ modificado /\ EntradasCache[c] # 0
         \/ memoria[tabla[ejec[c]][g]] = contenido
  PROVE  /\ DOMAIN cache' = CPUs /\ \A d \in CPUs \ {c} : cache'[d] = cache[d]
         /\ cache'[c] \in [Posiciones(c) -> EntradasDeCache]
         /\ punteroClock' \in [CPUs -> Nat]
         /\ \A d \in CPUs : punteroClock'[d] \in Posiciones(d) \cup {0}
         /\ memoria' \in [Marcos -> Pagina]
         /\ \A f \in Marcos \ Range(tabla[ejec[c]]) : memoria'[f] = memoria[f]
         /\ CacheFiel(c)' /\ CacheSinRepetir(c)' /\ PaginasDe(c)'
  <1> DEFINE p == ejec[c]
             f == tabla[p][g]
             nueva == [pid |-> p, pagina |-> g, marco |-> f,
                       contenido |-> contenido, uso |-> TRUE,
                       modificado |-> modificado]
  <1>1. /\ p \in Pids /\ p # Nil /\ memoria \in [Marcos -> Pagina]
        /\ DOMAIN cache = CPUs
        /\ cache[c] \in [Posiciones(c) -> EntradasDeCache]
        /\ punteroClock \in [CPUs -> Nat]
        /\ \A d \in CPUs : punteroClock[d] \in Posiciones(d) \cup {0}
    BY DEF TypeOK
  <1>2. /\ tabla[p] \in [0 .. NumPaginas[p] - 1 -> Marcos]
        /\ DOMAIN tabla[p] = 0 .. NumPaginas[p] - 1
        /\ \A h, k \in DOMAIN tabla[p] : tabla[p][h] = tabla[p][k] => h = k
    BY <1>1, TablaTipo
  <1>3. g \in Nat /\ f \in Marcos
    BY <1>1, <1>2, CpuAssumption DEF CpuAssumption
  <1>4. /\ ejec'[c] = p /\ tabla' = tabla
        /\ \A d \in CPUs : Posiciones(d)' = Posiciones(d)
    BY DEF Posiciones
  <1>5. \A i \in Posiciones(c) :
           cache[c][i].pid # Nil =>
              /\ cache[c][i].pid = p /\ cache[c][i].pagina \in DOMAIN tabla[p]
              /\ cache[c][i].pagina # g
              /\ cache[c][i].marco = tabla[p][cache[c][i].pagina]
              /\ cache[c][i].contenido = logico[p][cache[c][i].pagina]
              /\ \/ cache[c][i].modificado
                 \/ memoria[cache[c][i].marco] = cache[c][i].contenido
    BY DEF Fiel, CacheFiel, EntradaCacheFiel, EnCache
  <1>6. \A i, j \in Posiciones(c) :
           cache[c][i].pid # Nil /\ cache[c][j].pid # Nil
           /\ cache[c][i].pagina = cache[c][j].pagina => i = j
    BY DEF Fiel, CacheSinRepetir
  <1>7. \A h \in DOMAIN tabla[p] :
           \/ \E i \in Posiciones(c) : /\ cache[c][i].pid = p
                                       /\ cache[c][i].pagina = h
           \/ memoria[tabla[p][h]] = logico[p][h]
    <2>1. \A h : EnCache(c, p, h) # {} =>
                   \E i \in Posiciones(c) : /\ cache[c][i].pid = p
                                            /\ cache[c][i].pagina = h
      BY DEF EnCache
    <2> QED BY <2>1 DEF PaginasDe
  <1>8. /\ \A h \in DOMAIN tabla[p] \ {g} : logico'[p][h] = logico[p][h]
        /\ contenido = logico'[p][g]
        /\ (modificado /\ EntradasCache[c] # 0) \/ memoria[f] = contenido
    OBVIOUS
  <1>9. CASE EntradasCache[c] = 0
    <2>1. Posiciones(c) = {}
      BY <1>9 DEF Posiciones
    <2>2. UNCHANGED <<cache, punteroClock, memoria>>
      BY <1>9 DEF InsertarEnCache
    <2>3. CacheFiel(c)' /\ CacheSinRepetir(c)'
      BY <1>4, <2>1 DEF CacheFiel, CacheSinRepetir
    <2>4. PaginasDe(c)'
      <3> SUFFICES ASSUME NEW h \in DOMAIN tabla[p]
                   PROVE  memoria[tabla[p][h]] = logico'[p][h]
        BY <1>4, <2>2 DEF PaginasDe
      <3> QED BY <1>7, <1>8, <1>9, <2>1
    <2> QED BY <1>1, <2>2, <2>3, <2>4
  <1>10. CASE EntradasCache[c] # 0
    <2>1. /\ DOMAIN cache' = CPUs
          /\ \A d \in CPUs \ {c} : cache'[d] = cache[d]
          /\ cache'[c] \in [Posiciones(c) -> EntradasDeCache]
          /\ punteroClock' \in [CPUs -> Nat]
          /\ \A d \in CPUs : punteroClock'[d] \in Posiciones(d) \cup {0}
          /\ \E k \in Posiciones(c) :
               /\ cache'[c][k] = nueva
               /\ \A i \in Posiciones(c) \ {k} :
                     MismaEntrada(cache'[c][i], cache[c][i])
               /\ memoria' = Devuelto(c, k)
      <3>1. InsertarEnCache(c, p, g, f, contenido, modificado)
        OBVIOUS
      <3> HIDE DEF p, f
      <3> QED BY <1>1, <1>3, <1>10, <3>1, InsertarForma
    <2>2. PICK k \in Posiciones(c) :
               /\ cache'[c][k] = nueva
               /\ \A i \in Posiciones(c) \ {k} :
                     MismaEntrada(cache'[c][i], cache[c][i])
               /\ memoria' = Devuelto(c, k)
      BY <2>1
    <2> DEFINE S == IF cache[c][k].pid = Nil THEN {} ELSE {k}
    <2>3. /\ S \in SUBSET Posiciones(c)
          /\ \A i \in S : cache[c][i].pid # Nil
          /\ \A i \in S : i = k
      OBVIOUS
    <2>4. k \in S <=> cache[c][k].pid # Nil
      OBVIOUS
    <2>5. memoria' = ConVueltas(c, S)
      BY <2>2 DEF Devuelto
    <2> HIDE DEF S
    <2>6. /\ memoria' \in [Marcos -> Pagina]
          /\ \A x \in Marcos \ Range(tabla[p]) : memoria'[x] = memoria[x]
          /\ \A h \in DOMAIN tabla[p] :
               memoria'[tabla[p][h]] =
                  IF \E i \in S : cache[c][i].modificado /\ cache[c][i].pagina = h
                  THEN logico[p][h] ELSE memoria[tabla[p][h]]
      <3>1. CacheFiel(c)
        BY DEF Fiel
      <3>2. /\ ConVueltas(c, S) \in [Marcos -> Pagina]
            /\ \A x \in Marcos \ Range(tabla[ejec[c]]) :
                  ConVueltas(c, S)[x] = memoria[x]
            /\ \A h \in DOMAIN tabla[ejec[c]] :
                  ConVueltas(c, S)[tabla[ejec[c]][h]] =
                     IF \E i \in S : /\ cache[c][i].modificado
                                    /\ cache[c][i].pagina = h
                     THEN logico[ejec[c]][h] ELSE memoria[tabla[ejec[c]][h]]
        BY ONLY TypeOK, c \in CPUs, ejec[c] # Nil, <2>3, <3>1, ConVueltasDe
      <3> QED BY <2>5, <3>2
    <2>7. \A i \in Posiciones(c) \ {k} :
             /\ cache'[c][i].pid = cache[c][i].pid
             /\ cache'[c][i].pagina = cache[c][i].pagina
             /\ cache'[c][i].marco = cache[c][i].marco
             /\ cache'[c][i].contenido = cache[c][i].contenido
             /\ cache'[c][i].modificado = cache[c][i].modificado
      BY <2>2 DEF MismaEntrada
    <2>8. /\ cache'[c][k].pid = p /\ cache'[c][k].pagina = g
          /\ cache'[c][k].marco = f /\ cache'[c][k].contenido = contenido
          /\ cache'[c][k].modificado = modificado
      BY <2>2
    <2> HIDE DEF p, f, nueva
    <2>9. ASSUME NEW i \in Posiciones(c), cache'[c][i].pid # Nil
          PROVE  /\ cache'[c][i].pid = p /\ cache'[c][i].pagina \in DOMAIN tabla[p]
                 /\ cache'[c][i].marco = tabla[p][cache'[c][i].pagina]
                 /\ cache'[c][i].contenido = logico'[p][cache'[c][i].pagina]
                 /\ \/ cache'[c][i].modificado
                    \/ memoria'[cache'[c][i].marco] = cache'[c][i].contenido
      <3>1. CASE i = k
        <4>1. ~\E j \in S : cache[c][j].pagina = g
          BY <1>5, <2>3
        <4>2. memoria'[tabla[p][g]] = memoria[tabla[p][g]]
          BY <2>6, <4>1 DEF p
        <4> QED BY <1>8, <2>8, <3>1, <4>2 DEF f, p
      <3>2. CASE i # k
        <4>1. cache[c][i].pid # Nil
          BY <2>7, <2>9, <3>2
        <4> DEFINE h == cache[c][i].pagina
        <4>2. /\ h \in DOMAIN tabla[p] /\ h # g
              /\ cache'[c][i].pid = p /\ cache'[c][i].pagina = h
              /\ cache'[c][i].marco = tabla[p][h]
              /\ cache'[c][i].contenido = logico'[p][h]
          BY <1>5, <1>8, <2>7, <3>2, <4>1 DEF p
        <4>3. ~\E j \in S : cache[c][j].pagina = h
          BY <1>6, <2>3, <3>2, <4>1
        <4>4. memoria'[tabla[p][h]] = memoria[tabla[p][h]]
          BY <2>6, <4>2, <4>3 DEF p
        <4>5. cache[c][i].modificado \/ memoria[tabla[p][h]] = logico[p][h]
          BY <1>5, <4>1
        <4>6. logico'[p][h] = logico[p][h]
          BY <1>8, <4>2 DEF p
        <4> HIDE DEF h
        <4> QED BY <2>7, <3>2, <4>2, <4>4, <4>5, <4>6
      <3> QED BY <3>1, <3>2
    <2>10. CacheFiel(c)'
      BY <1>4, <2>9 DEF CacheFiel, EntradaCacheFiel
    <2>11. ASSUME NEW i \in Posiciones(c), NEW j \in Posiciones(c),
                  cache'[c][i].pid # Nil, cache'[c][j].pid # Nil,
                  cache'[c][i].pagina = cache'[c][j].pagina
           PROVE  i = j
      <3>1. \A m \in Posiciones(c) \ {k} : cache'[c][m].pid # Nil =>
               /\ cache[c][m].pid # Nil /\ cache'[c][m].pagina # g
               /\ cache'[c][m].pagina = cache[c][m].pagina
        BY <1>5, <2>7
      <3>2. CASE i = k \/ j = k
        BY <2>8, <2>11, <3>1, <3>2
      <3>3. CASE i # k /\ j # k
        BY <1>6, <2>11, <3>1, <3>3
      <3> QED BY <3>2, <3>3
    <2>12. CacheSinRepetir(c)'
      BY <1>4, <2>11, Zenon DEF CacheSinRepetir
    <2>13. ASSUME NEW h \in DOMAIN tabla[p]
           PROVE  \/ \E i \in Posiciones(c) : /\ cache'[c][i].pid = p
                                              /\ cache'[c][i].pagina = h
                  \/ memoria'[tabla[p][h]] = logico'[p][h]
      <3>1. CASE h = g
        BY <2>8, <3>1
      <3>2. CASE h # g /\ \E i \in Posiciones(c) \ {k} :
                             cache[c][i].pid = p /\ cache[c][i].pagina = h
        BY <2>7, <3>2
      <3>3. CASE h # g /\ ~\E i \in Posiciones(c) \ {k} :
                             cache[c][i].pid = p /\ cache[c][i].pagina = h
        <4>1. logico'[p][h] = logico[p][h]
          BY <1>8, <3>3 DEF p
        <4>2. CASE cache[c][k].pid = p /\ cache[c][k].pagina = h
          <5>1. k \in S
            BY <1>1, <2>4, <4>2
          <5>2. cache[c][k].modificado \/ memoria[tabla[p][h]] = logico[p][h]
            BY <1>1, <1>5, <4>2
          <5> QED BY <2>6, <4>1, <4>2, <5>1, <5>2 DEF p
        <4>3. CASE ~(cache[c][k].pid = p /\ cache[c][k].pagina = h)
          <5>1. memoria[tabla[p][h]] = logico[p][h]
            BY <1>7, <3>3, <4>3
          <5> QED BY <2>6, <4>1, <5>1 DEF p
        <4> QED BY <4>2, <4>3
      <3> QED BY <3>1, <3>2, <3>3
    <2>14. PaginasDe(c)'
      BY <1>4, <2>13 DEF PaginasDe, EnCache
    <2> QED BY <2>1, <2>6, <2>10, <2>12, <2>14 DEF p
  <1> QED BY <1>9, <1>10

----------------------------------------------------------------------------
\* The clean-up.

LEMMA EntradasLibres ==
  ASSUME CpuAssumption
  PROVE  /\ EnBlanco \in Pagina /\ EntradaLibre \in EntradasDeCache
         /\ \A c \in CPUs : TlbVacia(c) \in [0 .. EntradasTlb[c] - 1 -> EntradasDeTlb]
  <1>1. EnBlanco \in Pagina
    BY DEF EnBlanco, Pagina, CpuAssumption
  <1>2. EntradaLibre \in EntradasDeCache
    BY <1>1 DEF EntradaLibre, EntradasDeCache
  <1>3. [pid |-> Nil, pagina |-> Nil, marco |-> Nil, sello |-> 0] \in EntradasDeTlb
    BY DEF EntradasDeTlb
  <1> QED BY <1>1, <1>2, <1>3 DEF TlbVacia

\* Nothing of a process is left in the CPU, and everything it wrote is in its
\* frames.
LEMMA LimpiarForma ==
  ASSUME TypeOK, CpuAssumption, NEW c \in CPUs, NEW p \in Pids,
         ejec[c] \in {p, Nil}, Fiel(c), Limpiar(c, p)
  PROVE  /\ DOMAIN tlb' = CPUs /\ \A d \in CPUs \ {c} : tlb'[d] = tlb[d]
         /\ tlb'[c] \in [0 .. EntradasTlb[c] - 1 -> EntradasDeTlb]
         /\ \A i \in 0 .. EntradasTlb[c] - 1 : tlb'[c][i].pid = Nil
         /\ punteroTlb' \in [CPUs -> Nat]
         /\ \A d \in CPUs : punteroTlb'[d] \in 0 .. EntradasTlb[d] - 1 \cup {0}
         /\ DOMAIN cache' = CPUs /\ \A d \in CPUs \ {c} : cache'[d] = cache[d]
         /\ cache'[c] \in [Posiciones(c) -> EntradasDeCache]
         /\ \A i \in Posiciones(c) : cache'[c][i].pid = Nil
         /\ punteroClock' = punteroClock
         /\ memoria' \in [Marcos -> Pagina]
         /\ ejec[c] = Nil => memoria' = memoria
         /\ ejec[c] = p =>
               /\ \A f \in Marcos \ Range(tabla[p]) : memoria'[f] = memoria[f]
               /\ PaginasDe(c) =>
                     \A h \in DOMAIN tabla[p] : memoria'[tabla[p][h]] = logico[p][h]
  <1> DEFINE suyas == {i \in Posiciones(c) : cache[c][i].pid = p}
             otra == [i \in Posiciones(c) |->
                        IF i \in suyas THEN EntradaLibre ELSE cache[c][i]]
  <1>1. /\ tlb' = [tlb EXCEPT ![c] = TlbVacia(c)]
        /\ punteroTlb' = [punteroTlb EXCEPT ![c] = 0]
        /\ cache' = [cache EXCEPT ![c] = otra]
        /\ memoria' = ConVueltas(c, suyas)
        /\ punteroClock' = punteroClock
    BY DEF Limpiar
  <1>2. /\ DOMAIN tlb = CPUs /\ DOMAIN cache = CPUs
        /\ cache[c] \in [Posiciones(c) -> EntradasDeCache]
        /\ punteroTlb \in [CPUs -> Nat]
        /\ \A d \in CPUs : punteroTlb[d] \in 0 .. EntradasTlb[d] - 1 \cup {0}
        /\ p # Nil /\ memoria \in [Marcos -> Pagina]
    BY DEF TypeOK, CpuAssumption
  <1>3. \A i \in Posiciones(c) : cache[c][i].pid # Nil =>
           /\ cache[c][i].pid = ejec[c]
           /\ cache[c][i].contenido = logico[ejec[c]][cache[c][i].pagina]
           /\ cache[c][i].marco = tabla[ejec[c]][cache[c][i].pagina]
           /\ \/ cache[c][i].modificado
              \/ memoria[cache[c][i].marco] = cache[c][i].contenido
    BY DEF Fiel, CacheFiel, EntradaCacheFiel
  <1>4. /\ DOMAIN tlb' = CPUs /\ \A d \in CPUs \ {c} : tlb'[d] = tlb[d]
        /\ tlb'[c] = TlbVacia(c)
    BY <1>1, <1>2
  <1>5. /\ punteroTlb' \in [CPUs -> Nat]
        /\ \A d \in CPUs : punteroTlb'[d] \in 0 .. EntradasTlb[d] - 1 \cup {0}
    BY <1>1, <1>2
  <1>6. /\ tlb'[c] \in [0 .. EntradasTlb[c] - 1 -> EntradasDeTlb]
        /\ \A i \in 0 .. EntradasTlb[c] - 1 : tlb'[c][i].pid = Nil
    <2>1. \A i \in 0 .. EntradasTlb[c] - 1 : TlbVacia(c)[i].pid = Nil
      BY DEF TlbVacia
    <2> QED BY <1>4, <2>1, EntradasLibres
  <1>7. \A i \in suyas : i \in Posiciones(c) /\ cache[c][i].pid = p
    OBVIOUS
  <1>8. \A i \in Posiciones(c) : i \in suyas <=> cache[c][i].pid = p
    OBVIOUS
  <1> HIDE DEF suyas
  <1>9. /\ otra \in [Posiciones(c) -> EntradasDeCache]
        /\ \A i \in Posiciones(c) : otra[i].pid = Nil
    <2>1. EntradaLibre.pid = Nil
      BY DEF EntradaLibre
    <2> QED BY <1>2, <1>3, <1>8, <2>1, EntradasLibres
  <1> HIDE DEF otra
  <1>10. /\ DOMAIN cache' = CPUs /\ \A d \in CPUs \ {c} : cache'[d] = cache[d]
         /\ cache'[c] = otra
    BY <1>1, <1>2
  <1>11. CASE ejec[c] = Nil
    <2>1. suyas = {}
      BY <1>2, <1>3, <1>7, <1>11
    <2>2. memoria' = memoria
      BY <1>1, <2>1, SinVueltas
    <2> QED BY <1>1, <1>2, <1>4, <1>5, <1>6, <1>9, <1>10, <1>11, <2>2
  <1>12. CASE ejec[c] = p
    <2>1. /\ suyas \in SUBSET Posiciones(c)
          /\ \A i \in suyas : cache[c][i].pid # Nil
      BY <1>2, <1>7
    <2>2. CacheFiel(c) /\ ejec[c] # Nil
      BY <1>2, <1>12 DEF Fiel
    <2>3. /\ ConVueltas(c, suyas) \in [Marcos -> Pagina]
          /\ \A f \in Marcos \ Range(tabla[ejec[c]]) :
                ConVueltas(c, suyas)[f] = memoria[f]
          /\ \A g \in DOMAIN tabla[ejec[c]] :
                ConVueltas(c, suyas)[tabla[ejec[c]][g]] =
                   IF \E i \in suyas : /\ cache[c][i].modificado
                                       /\ cache[c][i].pagina = g
                   THEN logico[ejec[c]][g] ELSE memoria[tabla[ejec[c]][g]]
      BY ONLY TypeOK, c \in CPUs, <2>1, <2>2, ConVueltasDe
    <2>4. ASSUME PaginasDe(c), NEW h \in DOMAIN tabla[p]
          PROVE  memoria'[tabla[p][h]] = logico[p][h]
      <3>1. CASE \E i \in suyas : /\ cache[c][i].modificado
                                  /\ cache[c][i].pagina = h
        BY <1>1, <1>12, <2>3, <3>1
      <3>2. CASE ~\E i \in suyas : /\ cache[c][i].modificado
                                   /\ cache[c][i].pagina = h
        <4>1. memoria'[tabla[p][h]] = memoria[tabla[p][h]]
          BY <1>1, <1>12, <2>3, <3>2
        <4>2. CASE \E i \in suyas : cache[c][i].pagina = h
          <5>1. PICK i \in suyas : cache[c][i].pagina = h
            BY <4>2
          <5>2. /\ i \in Posiciones(c) /\ cache[c][i].pid # Nil
                /\ ~cache[c][i].modificado
            BY <1>2, <1>7, <3>2, <5>1
          <5>3. /\ cache[c][i].contenido = logico[p][h]
                /\ memoria[tabla[p][h]] = cache[c][i].contenido
            BY <1>3, <1>12, <5>1, <5>2
          <5> QED BY <4>1, <5>3
        <4>3. CASE ~\E i \in suyas : cache[c][i].pagina = h
          <5>1. EnCache(c, p, h) = {}
            BY <1>8, <4>3 DEF EnCache
          <5> QED BY <1>12, <2>4, <4>1, <5>1 DEF PaginasDe
        <4> QED BY <4>2, <4>3
      <3> QED BY <3>1, <3>2
    <2> QED BY <1>1, <1>2, <1>4, <1>5, <1>6, <1>9, <1>10, <1>12, <2>3, <2>4
  <1> QED BY <1>11, <1>12

----------------------------------------------------------------------------
\* What the process of a CPU does to its own pages leaves the others alone.

LEMMA PaginasPropias ==
  ASSUME Duenio, PaginasFieles, TypeOK, CpuAssumption, NEW c \in CPUs,
         ejec[c] # Nil
  PROVE  PaginasDe(c)
  <1>1. ejec[c] \in Pids /\ situacion[ejec[c]] = "en_cpu"
    BY DEF TypeOK, Duenio
  <1>2. SUFFICES ASSUME NEW h \in DOMAIN tabla[ejec[c]]
                 PROVE  \/ EnCache(c, ejec[c], h) # {}
                        \/ memoria[tabla[ejec[c]][h]] = logico[ejec[c]][h]
    BY DEF PaginasDe
  <1>3. \/ EnSuCache(ejec[c], h)
        \/ memoria[tabla[ejec[c]][h]] = logico[ejec[c]][h]
    BY <1>1 DEF PaginasFieles
  <1>4. ASSUME NEW d \in CPUs, ejec[d] = ejec[c]
        PROVE  d = c
    BY <1>4 DEF Duenio
  <1> QED BY <1>3, <1>4, Zenon DEF EnSuCache

\* The step of c is on the pages of its process.
SoloLoSuyo(c) ==
    /\ UNCHANGED <<ejec, tabla, situacion>>
    /\ DOMAIN tlb' = CPUs /\ \A d \in CPUs \ {c} : tlb'[d] = tlb[d]
    /\ DOMAIN cache' = CPUs /\ \A d \in CPUs \ {c} : cache'[d] = cache[d]
    /\ DOMAIN logico' = Pids
    /\ \A q \in Pids \ {ejec[c]} : logico'[q] = logico[q]
    /\ \A f \in Marcos \ Range(tabla[ejec[c]]) : memoria'[f] = memoria[f]

LEMMA MarcosAjenos ==
  ASSUME TypeOK, Repartidas, NEW p \in Pids, NEW q \in Pids, p # q,
         situacion[p] # "fin", situacion[q] # "fin", NEW g \in DOMAIN tabla[q]
  PROVE  tabla[q][g] \in Marcos \ Range(tabla[p])
  <1>1. tabla[q][g] \in Marcos
    BY TablaTipo
  <1>2. tabla[q][g] \in Range(tabla[q])
    BY DEF Range
  <1>3. Range(tabla[p]) \cap Range(tabla[q]) = {}
    BY DEF Repartidas
  <1> QED BY <1>1, <1>2, <1>3

LEMMA FielAjeno ==
  ASSUME TypeOK, Duenio, Repartidas, NEW c \in CPUs, NEW d \in CPUs, Fiel(d),
         ejec'[d] = ejec[d], UNCHANGED tabla, tlb'[d] = tlb[d],
         cache'[d] = cache[d],
         ejec[d] # Nil => /\ logico'[ejec[d]] = logico[ejec[d]]
                          /\ \A g \in DOMAIN tabla[ejec[d]] :
                                memoria'[tabla[ejec[d]][g]]
                                   = memoria[tabla[ejec[d]][g]]
  PROVE  Fiel(d)'
  <1>1. Posiciones(d)' = Posiciones(d)
    BY DEF Posiciones
  <1>2. TlbFiel(d)'
    BY DEF Fiel, TlbFiel, EntradaTlbFiel
  <1>3. CacheSinRepetir(d)'
    BY <1>1 DEF Fiel, CacheSinRepetir
  <1>4. ASSUME NEW i \in Posiciones(d)
        PROVE  EntradaCacheFiel(d, cache[d][i])'
    <2>1. EntradaCacheFiel(d, cache[d][i])
      BY DEF Fiel, CacheFiel
    <2> QED BY <2>1 DEF EntradaCacheFiel
  <1>5. CacheFiel(d)'
    BY <1>1, <1>4 DEF CacheFiel
  <1> QED BY <1>2, <1>3, <1>5 DEF Fiel

LEMMA FielPorLoSuyo ==
  ASSUME TypeOK, CpuAssumption, Duenio, Repartidas, PaginasFieles,
         \A d \in CPUs : Fiel(d),
         NEW c \in CPUs, ejec[c] # Nil, SoloLoSuyo(c), Fiel(c)', PaginasDe(c)'
  PROVE  (\A d \in CPUs : Fiel(d)') /\ PaginasFieles'
  <1> DEFINE p == ejec[c]
  <1>1. p \in Pids /\ situacion[p] = "en_cpu"
    BY DEF TypeOK, Duenio
  <1>2. ASSUME NEW q \in Pids, q # p, situacion[q] # "fin",
               NEW g \in DOMAIN tabla[q]
        PROVE  memoria'[tabla[q][g]] = memoria[tabla[q][g]]
    BY <1>1, <1>2, MarcosAjenos DEF SoloLoSuyo
  <1>3. ASSUME NEW d \in CPUs \ {c}
        PROVE  Fiel(d)'
    <2>1. CASE ejec[d] = Nil
      BY <2>1, FielAjeno DEF SoloLoSuyo
    <2>2. CASE ejec[d] # Nil
      <3>1. ejec[d] \in Pids /\ situacion[ejec[d]] = "en_cpu" /\ ejec[d] # p
        BY <2>2 DEF TypeOK, Duenio
      <3>2. logico'[ejec[d]] = logico[ejec[d]]
        BY <3>1 DEF SoloLoSuyo
      <3>3. \A g \in DOMAIN tabla[ejec[d]] :
               memoria'[tabla[ejec[d]][g]] = memoria[tabla[ejec[d]][g]]
        BY <1>2, <3>1
      <3> QED BY <3>2, <3>3, FielAjeno DEF SoloLoSuyo
    <2> QED BY <2>1, <2>2
  <1>4. PaginasFieles'
    <2> SUFFICES ASSUME NEW q \in Pids, situacion[q] # "fin",
                        NEW g \in DOMAIN tabla[q]
                 PROVE  \/ EnSuCache(q, g)'
                        \/ memoria'[tabla[q][g]] = logico'[q][g]
      BY DEF PaginasFieles, SoloLoSuyo
    <2>1. CASE q = p
      <3>1. ejec'[c] = p /\ tabla' = tabla
        BY DEF SoloLoSuyo
      <3>2. \/ EnCache(c, p, g)' # {}
            \/ memoria'[tabla[p][g]] = logico'[p][g]
        BY <2>1, <3>1 DEF PaginasDe
      <3> QED BY <2>1, <3>1, <3>2, Zenon DEF EnSuCache
    <2>2. CASE q # p
      <3>1. EnSuCache(q, g) \/ memoria[tabla[q][g]] = logico[q][g]
        BY DEF PaginasFieles
      <3>2. CASE EnSuCache(q, g)
        <4>1. PICK d \in CPUs : ejec[d] = q /\ EnCache(d, q, g) # {}
          BY <3>2 DEF EnSuCache
        <4>2. d # c /\ ejec'[d] = q /\ cache'[d] = cache[d]
          BY <2>2, <4>1 DEF SoloLoSuyo
        <4>3. EnCache(d, q, g)' # {}
          BY <4>1, <4>2 DEF EnCache, Posiciones
        <4> QED BY <4>2, <4>3, Zenon DEF EnSuCache
      <3>3. CASE memoria[tabla[q][g]] = logico[q][g]
        BY <1>2, <2>2, <3>3 DEF SoloLoSuyo
      <3> QED BY <3>1, <3>2, <3>3
    <2> QED BY <2>1, <2>2
  <1> QED BY <1>3, <1>4

----------------------------------------------------------------------------
\* The instructions.

LEMMA EjecutaForma ==
  ASSUME TypeOK, NEW c \in CPUs, NEW op, NEW resultado, NEW nuevoPc,
         Ejecuta(c, op, resultado, nuevoPc)
  PROVE  /\ etapa[c] = "ejecutar" /\ ejec[c] \in Pids /\ ejec[c] # Nil
         /\ Instruccion(c) \in Instrucciones /\ Instruccion(c).op = op
         /\ etapa' = [etapa EXCEPT ![c] = "revisar"]
         /\ motivo' = [motivo EXCEPT ![c] = resultado]
         /\ pc' = [pc EXCEPT ![c] = nuevoPc]
         /\ ultima' = [ultima EXCEPT ![ejec[c]] = pc[c]]
         /\ siguiente' = [siguiente EXCEPT ![ejec[c]] =
                             IF op = "GOTO" THEN nuevoPc ELSE pc[c] + 1]
         /\ UNCHANGED <<programa, ejec, intVars, tabla, pcbVars>>
  <1>1. etapa[c] = "ejecutar" /\ ejec[c] \in Pids /\ ejec[c] # Nil
    BY DEF Ejecuta, TypeOK
  <1>2. /\ programa[ejec[c]] \in Seq(Instrucciones)
        /\ pc[c] \in 0 .. Len(programa[ejec[c]]) - 1
    BY <1>1 DEF Ejecuta, HayInstruccion, TypeOK
  <1>3. Instruccion(c) \in Instrucciones
    BY <1>2 DEF Instruccion
  <1> QED BY <1>1, <1>3 DEF Ejecuta

LEMMA InstruccionTipo ==
  ASSUME NEW i \in Instrucciones
  PROVE  /\ i.op \in {"READ", "WRITE"} => i.pagina \in Nat /\ i.desp \in Nat
         /\ i.op = "WRITE" => i.valor \in Valores
         /\ i.op = "GOTO" => i.destino \in Int
  BY DEF Instrucciones

\* An instruction that does not write leaves what the programs wrote.
SinEscribir(c) ==
    \/ AccesoInvalido(c) \/ LeerDeCache(c) \/ LeerDeMemoria(c)
    \/ OtraInstruccion(c)
ConEscribir(c) ==
    \/ EscribirEnCache(c) \/ EscribirConFalta(c) \/ EscribirDirecto(c)

\* Where an instruction may leave the program counter.
Instruye(c) ==
    /\ etapa[c] = "ejecutar" /\ ejec[c] \in Pids /\ ejec[c] # Nil
    /\ \E resultado \in Motivos, nuevoPc \in Int, sig \in Int :
          /\ etapa' = [etapa EXCEPT ![c] = "revisar"]
          /\ motivo' = [motivo EXCEPT ![c] = resultado]
          /\ pc' = [pc EXCEPT ![c] = nuevoPc]
          /\ ultima' = [ultima EXCEPT ![ejec[c]] = pc[c]]
          /\ siguiente' = [siguiente EXCEPT ![ejec[c]] = sig]
          /\ nuevoPc = IF Instruccion(c).op \in {"GOTO", "IO", "DUMP_MEMORY"}
                       THEN sig ELSE pc[c]
          /\ resultado \in {"IO", "DUMP_MEMORY"} =>
                Instruccion(c).op \in {"IO", "DUMP_MEMORY"}
    /\ pc[c] + 1 \in DOMAIN programa[ejec[c]]
    /\ UNCHANGED <<programa, ejec, intVars, tabla, pcbVars>>

LEMMA EjecutaInstruye ==
  ASSUME TypeOK, NEW c \in CPUs, NEW op, NEW resultado \in Motivos,
         NEW nuevoPc \in Int, Ejecuta(c, op, resultado, nuevoPc),
         op \in {"IO", "DUMP_MEMORY"} => nuevoPc = pc[c] + 1,
         op \notin {"GOTO", "IO", "DUMP_MEMORY"} => nuevoPc = pc[c],
         resultado \in {"IO", "DUMP_MEMORY"} => op \in {"IO", "DUMP_MEMORY"}
  PROVE  Instruye(c)
  <1> DEFINE sig == IF op = "GOTO" THEN nuevoPc ELSE pc[c] + 1
  <1>1. /\ sig \in Int
        /\ nuevoPc = IF op \in {"GOTO", "IO", "DUMP_MEMORY"} THEN sig ELSE pc[c]
    <2>1. pc[c] \in Int
      BY DEF TypeOK
    <2> QED BY <2>1
  <1>2. /\ etapa[c] = "ejecutar" /\ ejec[c] \in Pids /\ ejec[c] # Nil
        /\ etapa' = [etapa EXCEPT ![c] = "revisar"]
        /\ motivo' = [motivo EXCEPT ![c] = resultado]
        /\ pc' = [pc EXCEPT ![c] = nuevoPc]
        /\ ultima' = [ultima EXCEPT ![ejec[c]] = pc[c]]
        /\ siguiente' = [siguiente EXCEPT ![ejec[c]] = sig]
        /\ UNCHANGED <<programa, ejec, intVars, tabla, pcbVars>>
    BY DEF Ejecuta, TypeOK
  <1>3. Instruccion(c).op = op
    BY DEF Ejecuta
  <1>4. pc[c] + 1 \in DOMAIN programa[ejec[c]]
    <2>1. programa[ejec[c]] \in Seq(Instrucciones)
      BY <1>2 DEF TypeOK
    <2>2. pc[c] \in 0 .. Len(programa[ejec[c]]) - 1
      BY DEF Ejecuta, HayInstruccion
    <2> QED BY <2>1, <2>2
  <1> HIDE DEF sig
  <1> QED BY <1>1, <1>2, <1>3, <1>4 DEF Instruye

LEMMA InstruccionForma ==
  ASSUME TypeOK, NEW c \in CPUs, SinEscribir(c) \/ ConEscribir(c)
  PROVE  Instruye(c)
  <1>1. pc[c] \in Int /\ pc[c] + 1 \in Int
    BY DEF TypeOK
  <1>2. {"OK", "IO", "DUMP_MEMORY", "EXIT", "ERROR", "SEGMENTATION_FAULT"}
           \subseteq Motivos
    BY DEF Motivos
  <1>3. ASSUME NEW op, op \notin {"GOTO", "IO", "DUMP_MEMORY"},
               NEW resultado \in {"OK", "EXIT", "ERROR", "SEGMENTATION_FAULT"},
               Ejecuta(c, op, resultado, pc[c])
        PROVE  Instruye(c)
    BY <1>1, <1>2, <1>3, EjecutaInstruye
  <1>4. CASE AccesoInvalido(c)
    BY <1>3, <1>4 DEF AccesoInvalido
  <1>5. CASE OtraInstruccion(c)
    <2>1. CASE \E op \in {"NOOP", "INIT_PROC"} : Ejecuta(c, op, "OK", pc[c])
      BY <1>3, <2>1
    <2>2. CASE Ejecuta(c, "GOTO", "OK", Instruccion(c).destino)
      <3>1. Instruccion(c).destino \in Int
        BY <2>2, EjecutaForma, InstruccionTipo
      <3> QED BY <1>2, <2>2, <3>1, EjecutaInstruye
    <2>3. CASE \E op \in {"IO", "DUMP_MEMORY"} : Ejecuta(c, op, op, pc[c] + 1)
      BY <1>1, <1>2, <2>3, EjecutaInstruye
    <2>4. CASE Ejecuta(c, "EXIT", "EXIT", pc[c])
      BY <1>3, <2>4
    <2>5. CASE Ejecuta(c, "ERROR", "ERROR", pc[c])
      BY <1>3, <2>5
    <2> QED BY <1>5, <2>1, <2>2, <2>3, <2>4, <2>5 DEF OtraInstruccion
  <1>6. CASE LeerDeCache(c) \/ LeerDeMemoria(c)
    BY <1>3, <1>6 DEF LeerDeCache, LeerDeMemoria, Acceso
  <1>7. CASE ConEscribir(c)
    BY <1>3, <1>7 DEF ConEscribir, EscribirEnCache, EscribirConFalta,
                      EscribirDirecto, Acceso
  <1> QED BY <1>4, <1>5, <1>6, <1>7 DEF SinEscribir

\* What an instruction leaves of the pages of its process.
DatosEnOrden(c) ==
    /\ SoloLoSuyo(c)
    /\ tlb'[c] \in [0 .. EntradasTlb[c] - 1 -> EntradasDeTlb]
    /\ punteroTlb' \in [CPUs -> Nat]
    /\ \A d \in CPUs : punteroTlb'[d] \in 0 .. EntradasTlb[d] - 1 \cup {0}
    /\ cache'[c] \in [Posiciones(c) -> EntradasDeCache]
    /\ punteroClock' \in [CPUs -> Nat]
    /\ \A d \in CPUs : punteroClock'[d] \in Posiciones(d) \cup {0}
    /\ memoria' \in [Marcos -> Pagina]
    /\ logico'[ejec[c]] \in [0 .. NumPaginas[ejec[c]] - 1 -> Pagina]
    /\ Fiel(c)' /\ PaginasDe(c)'

LEMMA MmuTipo ==
  ASSUME TypeOK, NEW c \in CPUs
  PROVE  /\ DOMAIN tlb = CPUs /\ DOMAIN cache = CPUs /\ DOMAIN logico = Pids
         /\ tlb[c] \in [0 .. EntradasTlb[c] - 1 -> EntradasDeTlb]
         /\ punteroTlb \in [CPUs -> Nat]
         /\ \A d \in CPUs : punteroTlb[d] \in 0 .. EntradasTlb[d] - 1 \cup {0}
         /\ cache[c] \in [Posiciones(c) -> EntradasDeCache]
         /\ punteroClock \in [CPUs -> Nat]
         /\ \A d \in CPUs : punteroClock[d] \in Posiciones(d) \cup {0}
         /\ memoria \in [Marcos -> Pagina]
  BY DEF TypeOK

LEMMA EscritaTipo ==
  ASSUME NEW contenido \in Pagina, NEW i \in Instrucciones, i.op = "WRITE"
  PROVE  Escrita(contenido, i) \in Pagina
  <1>1. i.valor \in Valores
    BY InstruccionTipo
  <1> QED BY <1>1 DEF Escrita, Pagina

\* What a legal access knows.
LEMMA AccesoForma ==
  ASSUME TypeOK, NEW c \in CPUs, NEW op, Acceso(c, op)
  PROVE  /\ Instruccion(c) \in Instrucciones /\ Instruccion(c).op = op
         /\ Instruccion(c).pagina \in DOMAIN tabla[ejec[c]]
  BY EjecutaForma DEF Acceso, Accesible

LEMMA DatosQuietos ==
  ASSUME TypeOK, NEW c \in CPUs, Instruye(c), Fiel(c), PaginasDe(c),
         UNCHANGED <<mmuVars, memoria, logico>>
  PROVE  DatosEnOrden(c)
  <1>1. /\ UNCHANGED <<ejec, tabla, situacion>> /\ ejec[c] \in Pids
        /\ UNCHANGED <<tlb, punteroTlb, cache, punteroClock, memoria, logico>>
    BY DEF Instruye, pcbVars, mmuVars
  <1>2. Fiel(c)' /\ PaginasDe(c)'
    BY <1>1 DEF Fiel, TlbFiel, EntradaTlbFiel, CacheFiel, EntradaCacheFiel,
                CacheSinRepetir, PaginasDe, EnCache, Posiciones
  <1>3. SoloLoSuyo(c)
    BY <1>1, MmuTipo DEF SoloLoSuyo
  <1> QED BY <1>1, <1>2, <1>3, MmuTipo, TablaTipo DEF DatosEnOrden

LEMMA DatosLeerDeCache ==
  ASSUME TypeOK, NEW c \in CPUs, Instruye(c), Fiel(c), PaginasDe(c),
         LeerDeCache(c)
  PROVE  DatosEnOrden(c)
  <1>1. /\ UNCHANGED <<ejec, tabla, situacion>> /\ ejec[c] \in Pids
        /\ UNCHANGED <<tlb, punteroTlb, punteroClock, memoria, logico>>
    BY DEF Instruye, pcbVars, LeerDeCache
  <1>2. PICK i \in Posiciones(c) : cache' = [cache EXCEPT ![c][i].uso = TRUE]
    BY DEF LeerDeCache, EnCache
  <1>3. /\ DOMAIN cache' = CPUs /\ \A d \in CPUs \ {c} : cache'[d] = cache[d]
        /\ cache'[c] = [cache[c] EXCEPT ![i].uso = TRUE]
    BY <1>2, MmuTipo
  <1>4. /\ cache'[c] \in [Posiciones(c) -> EntradasDeCache]
        /\ \A j \in Posiciones(c) : MismaEntrada(cache'[c][j], cache[c][j])
    <2>1. cache[c] \in [Posiciones(c) -> EntradasDeCache]
      BY MmuTipo
    <2>2. /\ [cache[c][i] EXCEPT !.uso = TRUE] \in EntradasDeCache
          /\ MismaEntrada([cache[c][i] EXCEPT !.uso = TRUE], cache[c][i])
      BY <2>1 DEF EntradasDeCache, MismaEntrada
    <2>3. \A j \in Posiciones(c) : MismaEntrada(cache[c][j], cache[c][j])
      BY DEF MismaEntrada
    <2> QED BY <1>3, <2>1, <2>2, <2>3
  <1>5. Posiciones(c)' = Posiciones(c)
    BY DEF Posiciones
  <1>6. CacheFiel(c)'
    <2> SUFFICES ASSUME NEW j \in Posiciones(c)
                 PROVE  EntradaCacheFiel(c, cache[c][j])'
      BY <1>5 DEF CacheFiel
    <2>1. EntradaCacheFiel(c, cache[c][j])
      BY DEF Fiel, CacheFiel
    <2> QED BY <1>1, <1>4, <2>1 DEF EntradaCacheFiel, MismaEntrada
  <1>7. CacheSinRepetir(c)'
    BY <1>4, <1>5 DEF Fiel, CacheSinRepetir, MismaEntrada
  <1>8. \A h : EnCache(c, ejec[c], h)' = EnCache(c, ejec[c], h)
    BY <1>1, <1>4, <1>5 DEF EnCache, MismaEntrada
  <1>9. PaginasDe(c)'
    BY <1>1, <1>8 DEF PaginasDe
  <1>10. Fiel(c)'
    BY <1>1, <1>6, <1>7 DEF Fiel, TlbFiel, EntradaTlbFiel
  <1>11. SoloLoSuyo(c)
    BY <1>1, <1>3, MmuTipo DEF SoloLoSuyo
  <1> QED BY <1>1, <1>4, <1>9, <1>10, <1>11, MmuTipo, TablaTipo DEF DatosEnOrden

LEMMA DatosLeerDeMemoria ==
  ASSUME TypeOK, CpuAssumption, NEW c \in CPUs, Instruye(c), Fiel(c),
         PaginasDe(c), LeerDeMemoria(c)
  PROVE  DatosEnOrden(c)
  <1> DEFINE p == ejec[c]
             g == Instruccion(c).pagina
  <1>1. /\ UNCHANGED <<ejec, tabla, situacion, logico>>
        /\ p \in Pids /\ p # Nil
    BY DEF Instruye, pcbVars, LeerDeMemoria
  <1>2. g \in DOMAIN tabla[p]
    BY AccesoForma DEF LeerDeMemoria
  <1>3. EnCache(c, p, g) = {}
    BY DEF LeerDeMemoria
  <1>4. PICK f \in Marcos : /\ Traducir(c, p, g, f)
                            /\ InsertarEnCache(c, p, g, f, memoria[f], FALSE)
    BY DEF LeerDeMemoria
  <1> HIDE DEF g
  <1>5. /\ tabla[p] \in [0 .. NumPaginas[p] - 1 -> Marcos]
        /\ g \in 0 .. NumPaginas[p] - 1
    BY <1>1, <1>2, TablaTipo
  <1>6. /\ f = tabla[p][g]
        /\ DOMAIN tlb' = CPUs /\ \A d \in CPUs \ {c} : tlb'[d] = tlb[d]
        /\ tlb'[c] \in [0 .. EntradasTlb[c] - 1 -> EntradasDeTlb]
        /\ \A i \in 0 .. EntradasTlb[c] - 1 : EntradaTlbFiel(c, tlb'[c][i])
        /\ punteroTlb' \in [CPUs -> Nat]
        /\ \A d \in CPUs : punteroTlb'[d] \in 0 .. EntradasTlb[d] - 1 \cup {0}
    <2>1. TlbFiel(c)
      BY DEF Fiel
    <2> HIDE DEF p
    <2> QED BY <1>1, <1>4, <1>5, <2>1, TraducirForma DEF p
  <1>7. memoria[f] = logico[p][g] /\ memoria[f] \in Pagina
    BY <1>2, <1>3, <1>6, MmuTipo DEF PaginasDe
  <1>8. /\ DOMAIN cache' = CPUs /\ \A d \in CPUs \ {c} : cache'[d] = cache[d]
        /\ cache'[c] \in [Posiciones(c) -> EntradasDeCache]
        /\ punteroClock' \in [CPUs -> Nat]
        /\ \A d \in CPUs : punteroClock'[d] \in Posiciones(d) \cup {0}
        /\ memoria' \in [Marcos -> Pagina]
        /\ \A x \in Marcos \ Range(tabla[p]) : memoria'[x] = memoria[x]
        /\ CacheFiel(c)' /\ CacheSinRepetir(c)' /\ PaginasDe(c)'
    <2>1. InsertarEnCache(c, ejec[c], g, tabla[ejec[c]][g], memoria[f], FALSE)
      BY <1>4, <1>6
    <2> QED BY <1>1, <1>2, <1>3, <1>6, <1>7, <2>1, InsertarFiel
  <1>9. Fiel(c)'
    BY <1>1, <1>6, <1>8 DEF Fiel, TlbFiel, EntradaTlbFiel
  <1>10. SoloLoSuyo(c)
    BY <1>1, <1>6, <1>8, MmuTipo DEF SoloLoSuyo
  <1> QED BY <1>1, <1>6, <1>8, <1>9, <1>10, TablaTipo DEF DatosEnOrden

LEMMA AnotarForma ==
  ASSUME TypeOK, NEW c \in CPUs, Instruye(c), Acceso(c, "WRITE"), Anotar(c)
  PROVE  /\ DOMAIN logico' = Pids
         /\ \A q \in Pids \ {ejec[c]} : logico'[q] = logico[q]
         /\ logico'[ejec[c]] \in [0 .. NumPaginas[ejec[c]] - 1 -> Pagina]
         /\ logico'[ejec[c]][Instruccion(c).pagina] =
               Escrita(logico[ejec[c]][Instruccion(c).pagina], Instruccion(c))
         /\ \A h \in DOMAIN tabla[ejec[c]] \ {Instruccion(c).pagina} :
               logico'[ejec[c]][h] = logico[ejec[c]][h]
  <1> DEFINE p == ejec[c]
             g == Instruccion(c).pagina
             i == Instruccion(c)
             x == Escrita(logico[p][g], i)
  <1>1. p \in Pids /\ DOMAIN logico = Pids
    BY MmuTipo DEF Instruye
  <1>2. i \in Instrucciones /\ i.op = "WRITE" /\ g \in DOMAIN tabla[p]
    BY AccesoForma
  <1>3. /\ logico[p] \in [0 .. NumPaginas[p] - 1 -> Pagina]
        /\ DOMAIN tabla[p] = 0 .. NumPaginas[p] - 1
    BY <1>1, TablaTipo
  <1>4. x \in Pagina
    BY <1>2, <1>3, EscritaTipo
  <1>5. logico' = [logico EXCEPT ![p] = [logico[p] EXCEPT ![g] = x]]
    BY <1>1, <1>3 DEF Anotar
  <1> HIDE DEF x, g, p
  <1>6. /\ DOMAIN logico' = Pids
        /\ \A q \in Pids \ {p} : logico'[q] = logico[q]
        /\ logico'[p] = [logico[p] EXCEPT ![g] = x]
    BY <1>1, <1>5
  <1>7. /\ logico'[p] \in [0 .. NumPaginas[p] - 1 -> Pagina]
        /\ logico'[p][g] = x
        /\ \A h \in DOMAIN tabla[p] \ {g} : logico'[p][h] = logico[p][h]
    BY <1>2, <1>3, <1>4, <1>6
  <1> QED BY <1>6, <1>7 DEF x, g, p

LEMMA DatosEscribirEnCache ==
  ASSUME TypeOK, NEW c \in CPUs, Instruye(c), Fiel(c), PaginasDe(c),
         EscribirEnCache(c)
  PROVE  DatosEnOrden(c)
  <1> DEFINE p == ejec[c]
             g == Instruccion(c).pagina
  <1>1. /\ UNCHANGED <<ejec, tabla, situacion>> /\ p \in Pids /\ p # Nil
        /\ UNCHANGED <<tlb, punteroTlb, punteroClock, memoria>>
    BY DEF Instruye, pcbVars, EscribirEnCache
  <1>2. /\ Instruccion(c) \in Instrucciones /\ Instruccion(c).op = "WRITE"
        /\ g \in DOMAIN tabla[p]
    BY AccesoForma DEF EscribirEnCache
  <1>3. PICK i \in EnCache(c, p, g) :
           cache' = [cache EXCEPT ![c][i] = [cache[c][i] EXCEPT
                        !.contenido = Escrita(@, Instruccion(c)),
                        !.modificado = TRUE, !.uso = TRUE]]
    BY DEF EscribirEnCache
  <1>4. i \in Posiciones(c) /\ cache[c][i].pid = p /\ cache[c][i].pagina = g
    BY DEF EnCache
  <1>5. /\ DOMAIN logico' = Pids
        /\ \A q \in Pids \ {p} : logico'[q] = logico[q]
        /\ logico'[p] \in [0 .. NumPaginas[p] - 1 -> Pagina]
        /\ logico'[p][g] = Escrita(logico[p][g], Instruccion(c))
        /\ \A h \in DOMAIN tabla[p] \ {g} : logico'[p][h] = logico[p][h]
    BY AnotarForma DEF EscribirEnCache
  <1> DEFINE x == Escrita(cache[c][i].contenido, Instruccion(c))
             e == [cache[c][i] EXCEPT !.contenido = x, !.modificado = TRUE,
                                      !.uso = TRUE]
  <1>6. cache[c] \in [Posiciones(c) -> EntradasDeCache]
    BY MmuTipo
  <1>7. cache[c][i] \in EntradasDeCache /\ cache[c][i].contenido \in Pagina
    BY <1>4, <1>6 DEF EntradasDeCache
  <1>8. x \in Pagina
    BY <1>2, <1>7, EscritaTipo
  <1>9. /\ DOMAIN cache' = CPUs /\ \A d \in CPUs \ {c} : cache'[d] = cache[d]
        /\ cache'[c] = [cache[c] EXCEPT ![i] = e]
    <2>1. cache' = [cache EXCEPT ![c] = [cache[c] EXCEPT ![i] = e]]
      <3>1. c \in DOMAIN cache /\ i \in DOMAIN cache[c]
        BY <1>4, <1>6, MmuTipo
      <3>2. [cache[c][i] EXCEPT !.contenido = Escrita(@, Instruccion(c)),
                                !.modificado = TRUE, !.uso = TRUE] = e
        BY <1>7 DEF EntradasDeCache
      <3>3. cache' = [cache EXCEPT ![c] = [cache[c] EXCEPT ![i] =
               [cache[c][i] EXCEPT !.contenido = Escrita(@, Instruccion(c)),
                                   !.modificado = TRUE, !.uso = TRUE]]]
        BY ONLY <1>3, <3>1
      <3> HIDE DEF e
      <3> QED BY <3>2, <3>3
    <2> HIDE DEF e
    <2> QED BY <2>1, MmuTipo
  <1> HIDE DEF x
  <1>10. /\ e \in EntradasDeCache /\ e.pid = p /\ e.pagina = g
         /\ e.marco = cache[c][i].marco /\ e.contenido = x /\ e.modificado
    BY <1>4, <1>7, <1>8 DEF EntradasDeCache
  <1> HIDE DEF e
  <1>11. /\ cache'[c] \in [Posiciones(c) -> EntradasDeCache]
         /\ cache'[c][i] = e
         /\ \A j \in Posiciones(c) \ {i} : cache'[c][j] = cache[c][j]
    BY <1>4, <1>6, <1>9, <1>10
  <1>12. Posiciones(c)' = Posiciones(c)
    BY DEF Posiciones
  <1>13. \A j \in Posiciones(c) : /\ cache'[c][j].pid = cache[c][j].pid
                                  /\ cache'[c][j].pagina = cache[c][j].pagina
                                  /\ cache'[c][j].marco = cache[c][j].marco
    BY <1>4, <1>10, <1>11
  <1>14. CacheSinRepetir(c) /\ CacheSinRepetir(c)'
    BY <1>12, <1>13 DEF Fiel, CacheSinRepetir
  <1>15. CacheFiel(c)'
    <2> SUFFICES ASSUME NEW j \in Posiciones(c)
                 PROVE  EntradaCacheFiel(c, cache[c][j])'
      BY <1>12 DEF CacheFiel
    <2>1. EntradaCacheFiel(c, cache[c][j])
      BY DEF Fiel, CacheFiel
    <2>2. CASE j = i
      <3>1. /\ cache[c][i].marco = tabla[p][g]
            /\ cache[c][i].contenido = logico[p][g]
        BY <1>1, <1>4, <2>1, <2>2 DEF EntradaCacheFiel
      <3> QED BY <1>1, <1>2, <1>5, <1>10, <1>11, <2>2, <3>1
              DEF EntradaCacheFiel, x
    <2>3. CASE j # i
      <3>1. cache[c][j].pid # Nil => cache[c][j].pagina # g
        BY <1>1, <1>4, <1>14, <2>3 DEF CacheSinRepetir
      <3> QED BY <1>1, <1>5, <1>11, <2>1, <2>3, <3>1 DEF EntradaCacheFiel
    <2> QED BY <2>2, <2>3
  <1>16. \A h : EnCache(c, p, h)' = EnCache(c, p, h)
    BY <1>1, <1>12, <1>13 DEF EnCache
  <1>17. PaginasDe(c)'
    <2> SUFFICES ASSUME NEW h \in DOMAIN tabla[p], EnCache(c, p, h) = {}
                 PROVE  memoria[tabla[p][h]] = logico'[p][h]
      BY <1>1, <1>16 DEF PaginasDe
    <2>1. h # g
      BY <1>3
    <2> QED BY <1>5, <2>1 DEF PaginasDe
  <1>18. Fiel(c)'
    BY <1>1, <1>14, <1>15 DEF Fiel, TlbFiel, EntradaTlbFiel
  <1>19. SoloLoSuyo(c)
    BY <1>1, <1>5, <1>9, MmuTipo DEF SoloLoSuyo
  <1> QED BY <1>1, <1>5, <1>11, <1>17, <1>18, <1>19, MmuTipo DEF DatosEnOrden

LEMMA DatosEscribirConFalta ==
  ASSUME TypeOK, CpuAssumption, NEW c \in CPUs, Instruye(c), Fiel(c),
         PaginasDe(c), EscribirConFalta(c)
  PROVE  DatosEnOrden(c)
  <1> DEFINE p == ejec[c]
             g == Instruccion(c).pagina
             x == Escrita(memoria[tabla[p][g]], Instruccion(c))
  <1>1. /\ UNCHANGED <<ejec, tabla, situacion, tlb, punteroTlb>>
        /\ p \in Pids /\ p # Nil
    BY DEF Instruye, pcbVars, EscribirConFalta
  <1>2. /\ Instruccion(c) \in Instrucciones /\ Instruccion(c).op = "WRITE"
        /\ g \in DOMAIN tabla[p]
    BY AccesoForma DEF EscribirConFalta
  <1>3. /\ EnCache(c, p, g) = {} /\ EntradasCache[c] # 0
        /\ InsertarEnCache(c, p, g, tabla[p][g], x, TRUE)
    <2>1. EntradasCache[c] # 0
      BY CpuAssumption DEF EscribirConFalta, CpuAssumption
    <2>2. EnCache(c, p, g) = {}
      BY Zenon DEF EscribirConFalta
    <2>3. InsertarEnCache(c, p, g, tabla[p][g], x, TRUE)
      BY Zenon DEF EscribirConFalta
    <2> QED BY <2>1, <2>2, <2>3
  <1>4. /\ DOMAIN logico' = Pids
        /\ \A q \in Pids \ {p} : logico'[q] = logico[q]
        /\ logico'[p] \in [0 .. NumPaginas[p] - 1 -> Pagina]
        /\ logico'[p][g] = Escrita(logico[p][g], Instruccion(c))
        /\ \A h \in DOMAIN tabla[p] \ {g} : logico'[p][h] = logico[p][h]
    BY AnotarForma DEF EscribirConFalta
  <1>5. memoria[tabla[p][g]] = logico[p][g]
    BY <1>2, <1>3 DEF PaginasDe
  <1>6. x \in Pagina /\ x = logico'[p][g]
    <2>1. memoria[tabla[p][g]] \in Pagina
      BY <1>1, <1>2, TablaTipo, MmuTipo
    <2> QED BY <1>2, <1>4, <1>5, <2>1, EscritaTipo
  <1> HIDE DEF x, g
  <1>7. /\ DOMAIN cache' = CPUs /\ \A d \in CPUs \ {c} : cache'[d] = cache[d]
        /\ cache'[c] \in [Posiciones(c) -> EntradasDeCache]
        /\ punteroClock' \in [CPUs -> Nat]
        /\ \A d \in CPUs : punteroClock'[d] \in Posiciones(d) \cup {0}
        /\ memoria' \in [Marcos -> Pagina]
        /\ \A f \in Marcos \ Range(tabla[p]) : memoria'[f] = memoria[f]
        /\ CacheFiel(c)' /\ CacheSinRepetir(c)' /\ PaginasDe(c)'
    BY <1>1, <1>2, <1>3, <1>4, <1>6, InsertarFiel
  <1>8. Fiel(c)'
    BY <1>1, <1>7 DEF Fiel, TlbFiel, EntradaTlbFiel
  <1>9. SoloLoSuyo(c)
    BY <1>1, <1>4, <1>7, MmuTipo DEF SoloLoSuyo
  <1> QED BY <1>1, <1>4, <1>7, <1>8, <1>9, MmuTipo DEF DatosEnOrden

LEMMA DatosEscribirDirecto ==
  ASSUME TypeOK, CpuAssumption, NEW c \in CPUs, Instruye(c), Fiel(c),
         PaginasDe(c), EscribirDirecto(c)
  PROVE  DatosEnOrden(c)
  <1> DEFINE p == ejec[c]
             g == Instruccion(c).pagina
  <1>1. /\ UNCHANGED <<ejec, tabla, situacion, cache, punteroClock>>
        /\ p \in Pids /\ p # Nil
    BY DEF Instruye, pcbVars, EscribirDirecto
  <1>2. /\ Instruccion(c) \in Instrucciones /\ Instruccion(c).op = "WRITE"
        /\ g \in DOMAIN tabla[p]
    BY AccesoForma DEF EscribirDirecto
  <1>3. Posiciones(c) = {} /\ Posiciones(c)' = Posiciones(c)
    BY DEF EscribirDirecto, Posiciones
  <1>4. /\ DOMAIN logico' = Pids
        /\ \A q \in Pids \ {p} : logico'[q] = logico[q]
        /\ logico'[p] \in [0 .. NumPaginas[p] - 1 -> Pagina]
        /\ logico'[p][g] = Escrita(logico[p][g], Instruccion(c))
        /\ \A h \in DOMAIN tabla[p] \ {g} : logico'[p][h] = logico[p][h]
    BY AnotarForma DEF EscribirDirecto
  <1>5. PICK f \in Marcos :
           /\ Traducir(c, p, g, f)
           /\ memoria' = [memoria EXCEPT ![f] = Escrita(@, Instruccion(c))]
    BY DEF EscribirDirecto
  <1>6. /\ tabla[p] \in [0 .. NumPaginas[p] - 1 -> Marcos]
        /\ g \in 0 .. NumPaginas[p] - 1
        /\ \A h, k \in DOMAIN tabla[p] : tabla[p][h] = tabla[p][k] => h = k
    BY <1>1, <1>2, TablaTipo
  <1> HIDE DEF g
  <1>7. /\ f = tabla[p][g]
        /\ DOMAIN tlb' = CPUs /\ \A d \in CPUs \ {c} : tlb'[d] = tlb[d]
        /\ tlb'[c] \in [0 .. EntradasTlb[c] - 1 -> EntradasDeTlb]
        /\ \A i \in 0 .. EntradasTlb[c] - 1 : EntradaTlbFiel(c, tlb'[c][i])
        /\ punteroTlb' \in [CPUs -> Nat]
        /\ \A d \in CPUs : punteroTlb'[d] \in 0 .. EntradasTlb[d] - 1 \cup {0}
    <2>1. TlbFiel(c)
      BY DEF Fiel
    <2> HIDE DEF p
    <2> QED BY <1>1, <1>5, <1>6, <2>1, TraducirForma DEF p
  <1>8. /\ memoria \in [Marcos -> Pagina] /\ memoria[f] \in Pagina
        /\ Escrita(memoria[f], Instruccion(c)) \in Pagina
    BY <1>2, MmuTipo, EscritaTipo
  <1>9. /\ memoria' \in [Marcos -> Pagina]
        /\ \A x \in Marcos \ {f} : memoria'[x] = memoria[x]
        /\ memoria'[f] = Escrita(memoria[f], Instruccion(c))
    BY <1>5, <1>8
  <1>10. \A h \in DOMAIN tabla[p] : memoria[tabla[p][h]] = logico[p][h]
    BY <1>3 DEF PaginasDe, EnCache
  <1>11. PaginasDe(c)'
    <2> SUFFICES ASSUME NEW h \in DOMAIN tabla[p]
                 PROVE  memoria'[tabla[p][h]] = logico'[p][h]
      BY <1>1 DEF PaginasDe
    <2>1. CASE h = g
      BY <1>4, <1>7, <1>9, <1>10, <2>1 DEF g
    <2>2. CASE h # g
      BY <1>4, <1>6, <1>7, <1>9, <1>10, <2>2
    <2> QED BY <2>1, <2>2
  <1>12. Fiel(c)'
    BY <1>1, <1>3, <1>7 DEF Fiel, TlbFiel, EntradaTlbFiel, CacheFiel,
                            CacheSinRepetir
  <1>13. SoloLoSuyo(c)
    <2>1. f \in Range(tabla[p])
      BY <1>6, <1>7 DEF Range
    <2> QED BY <1>1, <1>4, <1>7, <1>9, <2>1, MmuTipo DEF SoloLoSuyo
  <1> QED BY <1>1, <1>4, <1>7, <1>9, <1>11, <1>12, <1>13, MmuTipo
          DEF DatosEnOrden

LEMMA DatosDeInstruccion ==
  ASSUME TypeOK, CpuAssumption, NEW c \in CPUs, Fiel(c), PaginasDe(c),
         SinEscribir(c) \/ ConEscribir(c)
  PROVE  Instruye(c) /\ DatosEnOrden(c)
  <1>1. Instruye(c)
    BY InstruccionForma
  <1>2. CASE AccesoInvalido(c) \/ OtraInstruccion(c)
    BY <1>1, <1>2, DatosQuietos DEF AccesoInvalido, OtraInstruccion
  <1>3. CASE LeerDeCache(c)
    BY <1>1, <1>3, DatosLeerDeCache
  <1>4. CASE LeerDeMemoria(c)
    BY <1>1, <1>4, DatosLeerDeMemoria
  <1>5. CASE EscribirEnCache(c)
    BY <1>1, <1>5, DatosEscribirEnCache
  <1>6. CASE EscribirConFalta(c)
    BY <1>1, <1>6, DatosEscribirConFalta
  <1>7. CASE EscribirDirecto(c)
    BY <1>1, <1>7, DatosEscribirDirecto
  <1> QED BY <1>1, <1>2, <1>3, <1>4, <1>5, <1>6, <1>7
          DEF SinEscribir, ConEscribir

----------------------------------------------------------------------------
\* The type invariant, by parts.
TipoCiclo ==
    /\ ejec \in [CPUs -> Pids \cup {Nil}]
    /\ etapa \in [CPUs -> {"libre", "ejecutar", "revisar", "fin"}]
    /\ pc \in [CPUs -> Int] /\ motivo \in [CPUs -> Motivos]
    /\ \A c \in CPUs : (ejec[c] = Nil) = (etapa[c] = "libre")
TipoMmu ==
    /\ DOMAIN tlb = CPUs /\ DOMAIN cache = CPUs
    /\ punteroTlb \in [CPUs -> Nat] /\ punteroClock \in [CPUs -> Nat]
    /\ \A c \in CPUs :
          /\ tlb[c] \in [0 .. EntradasTlb[c] - 1 -> EntradasDeTlb]
          /\ punteroTlb[c] \in 0 .. EntradasTlb[c] - 1 \cup {0}
          /\ cache[c] \in [Posiciones(c) -> EntradasDeCache]
          /\ punteroClock[c] \in Posiciones(c) \cup {0}
TipoInt ==
    /\ pendiente \in [CPUs -> BOOLEAN] /\ desalojos \in 0 .. MaxDesalojos
    /\ viaje \in [CPUs -> BOOLEAN]
TipoPaginas ==
    /\ DOMAIN programa = Pids /\ DOMAIN tabla = Pids /\ DOMAIN logico = Pids
    /\ \A p \in Pids :
          /\ programa[p] \in Seq(Instrucciones)
          /\ tabla[p] \in Reparto(p, Marcos)
          /\ logico[p] \in [0 .. NumPaginas[p] - 1 -> Pagina]
    /\ memoria \in [Marcos -> Pagina]
TipoPcb ==
    /\ situacion \in [Pids -> {"lista", "en_cpu", "bloqueada", "fin"}]
    /\ contexto \in [Pids -> Int]
    /\ ultima \in [Pids -> Int] /\ siguiente \in [Pids -> Int]

LEMMA TipoPartes ==
  TypeOK <=> TipoCiclo /\ TipoMmu /\ TipoInt /\ TipoPaginas /\ TipoPcb
  <1>1. ASSUME TypeOK
        PROVE  TipoCiclo /\ TipoMmu /\ TipoInt /\ TipoPaginas /\ TipoPcb
    BY <1>1 DEF TypeOK, TipoCiclo, TipoMmu, TipoInt, TipoPaginas, TipoPcb
  <1>2. ASSUME TipoCiclo, TipoMmu, TipoInt, TipoPaginas, TipoPcb
        PROVE  TypeOK
    BY <1>2 DEF TypeOK, TipoCiclo, TipoMmu, TipoInt, TipoPaginas, TipoPcb
  <1> QED BY <1>1, <1>2

LEMMA TipoPartesDespues ==
  TypeOK' <=> TipoCiclo' /\ TipoMmu' /\ TipoInt' /\ TipoPaginas' /\ TipoPcb'
  BY TipoPartes, PTL

\* What a step that moves no process and no page leaves true.
LEMMA DatosIguales ==
  ASSUME Inductivo, UNCHANGED <<ejec, situacion, tabla, mmuVars, memoria, logico>>
  PROVE  /\ Duenio' /\ Repartidas' /\ PaginasFieles' /\ \A c \in CPUs : Fiel(c)'
         /\ TipoMmu'
  <1>1. UNCHANGED <<tlb, punteroTlb, cache, punteroClock>>
    BY DEF mmuVars
  <1>2. /\ Duenio /\ Repartidas /\ PaginasFieles /\ TypeOK
        /\ \A c \in CPUs : Fiel(c)
    BY DEF Inductivo
  <1>3. Duenio' /\ Repartidas'
    BY <1>2 DEF Duenio, Repartidas
  <1>4. \A p, g : EnSuCache(p, g)' = EnSuCache(p, g)
    BY <1>1 DEF EnSuCache, EnCache, Posiciones
  <1>5. PaginasFieles'
    BY <1>1, <1>2, <1>4 DEF PaginasFieles
  <1>6. ASSUME NEW c \in CPUs PROVE Fiel(c)'
    BY <1>1, <1>2, FielAjeno
  <1>7. TipoMmu /\ TipoMmu'
    BY <1>1, <1>2, TipoPartes DEF TipoMmu, Posiciones
  <1> QED BY <1>3, <1>5, <1>6, <1>7

LEMMA RastroIgual ==
  ASSUME NEW q \in Pids, programa' = programa, ultima'[q] = ultima[q],
         siguiente'[q] = siguiente[q]
  PROVE  /\ EsUltima(q, {"IO", "DUMP_MEMORY"})'
               <=> EsUltima(q, {"IO", "DUMP_MEMORY"})
         /\ DondeQuedo(q)' = DondeQuedo(q)
  BY DEF EsUltima, DondeQuedo

LEMMA ReanudaIgual ==
  ASSUME ReanudaDondeCorresponde, programa' = programa, contexto' = contexto,
         \A q \in Pids : \/ situacion'[q] = "en_cpu"
                        \/ /\ \/ situacion'[q] = situacion[q]
                              \/ situacion[q] = "bloqueada" /\ situacion'[q] = "lista"
                           /\ ultima'[q] = ultima[q]
                           /\ siguiente'[q] = siguiente[q]
  PROVE  ReanudaDondeCorresponde'
  <1> SUFFICES ASSUME NEW q \in Pids
               PROVE  /\ situacion'[q] = "bloqueada" =>
                            EsUltima(q, {"IO", "DUMP_MEMORY"})'
                      /\ situacion'[q] \in {"bloqueada", "lista"} =>
                            contexto'[q] = DondeQuedo(q)'
    BY DEF ReanudaDondeCorresponde
  <1>1. CASE situacion'[q] = "en_cpu"
    BY <1>1
  <1>2. CASE /\ \/ situacion'[q] = situacion[q]
                \/ situacion[q] = "bloqueada" /\ situacion'[q] = "lista"
             /\ ultima'[q] = ultima[q] /\ siguiente'[q] = siguiente[q]
    <2>1. /\ EsUltima(q, {"IO", "DUMP_MEMORY"})'
                <=> EsUltima(q, {"IO", "DUMP_MEMORY"})
          /\ DondeQuedo(q)' = DondeQuedo(q)
      BY <1>2, RastroIgual
    <2>2. /\ situacion[q] = "bloqueada" => EsUltima(q, {"IO", "DUMP_MEMORY"})
          /\ situacion[q] \in {"bloqueada", "lista"} => contexto[q] = DondeQuedo(q)
      BY DEF ReanudaDondeCorresponde
    <2> QED BY <1>2, <2>1, <2>2
  <1> QED BY <1>1, <1>2

LEMMA TrazaAjena ==
  ASSUME TypeOK, NEW d \in CPUs, Traza(d), programa' = programa,
         ejec'[d] = ejec[d],
         etapa'[d] = etapa[d], motivo'[d] = motivo[d], pc'[d] = pc[d],
         ejec[d] # Nil => /\ ultima'[ejec[d]] = ultima[ejec[d]]
                          /\ siguiente'[ejec[d]] = siguiente[ejec[d]]
  PROVE  Traza(d)'
  <1>1. CASE ejec[d] = Nil
    <2>1. etapa[d] = "libre"
      BY <1>1 DEF TypeOK
    <2> QED BY <2>1 DEF Traza
  <1>2. CASE ejec[d] # Nil
    <2>1. ejec[d] \in Pids
      BY <1>2 DEF TypeOK
    <2>2. /\ EsUltima(ejec[d], {"IO", "DUMP_MEMORY"})'
                <=> EsUltima(ejec[d], {"IO", "DUMP_MEMORY"})
          /\ DondeQuedo(ejec[d])' = DondeQuedo(ejec[d])
      BY <1>2, <2>1 DEF EsUltima, DondeQuedo
    <2> QED BY <1>2, <2>2 DEF Traza
  <1> QED BY <1>1, <1>2

----------------------------------------------------------------------------
\* Every step keeps the invariant.

LEMMA PasoInstruccion ==
  ASSUME Inductivo, CpuAssumption, NEW c \in CPUs,
         SinEscribir(c) \/ ConEscribir(c)
  PROVE  Inductivo'
  <1>1. /\ TypeOK /\ Duenio /\ Repartidas /\ PaginasFieles
        /\ ReanudaDondeCorresponde
        /\ \A d \in CPUs : Traza(d) /\ Fiel(d)
    BY DEF Inductivo
  <1>2. TipoCiclo /\ TipoMmu /\ TipoInt /\ TipoPaginas /\ TipoPcb
    BY <1>1, TipoPartes
  <1>3. Instruye(c)
    BY <1>1, InstruccionForma
  <1>4. /\ etapa[c] = "ejecutar" /\ ejec[c] \in Pids /\ ejec[c] # Nil
        /\ UNCHANGED <<programa, ejec, intVars, tabla, pcbVars>>
    BY <1>3 DEF Instruye
  <1>5. PICK resultado \in Motivos, nuevoPc \in Int, sig \in Int :
          /\ etapa' = [etapa EXCEPT ![c] = "revisar"]
          /\ motivo' = [motivo EXCEPT ![c] = resultado]
          /\ pc' = [pc EXCEPT ![c] = nuevoPc]
          /\ ultima' = [ultima EXCEPT ![ejec[c]] = pc[c]]
          /\ siguiente' = [siguiente EXCEPT ![ejec[c]] = sig]
          /\ nuevoPc = IF Instruccion(c).op \in {"GOTO", "IO", "DUMP_MEMORY"}
                       THEN sig ELSE pc[c]
          /\ resultado \in {"IO", "DUMP_MEMORY"} =>
                Instruccion(c).op \in {"IO", "DUMP_MEMORY"}
    BY <1>3 DEF Instruye
  <1>6. PaginasDe(c)
    BY <1>1, <1>4, PaginasPropias
  <1>7. DatosEnOrden(c)
    BY <1>1, <1>6, DatosDeInstruccion
  <1>8. situacion' = situacion /\ contexto' = contexto
    BY <1>4 DEF pcbVars
  <1>9. (\A d \in CPUs : Fiel(d)') /\ PaginasFieles'
    BY <1>1, <1>4, <1>7, FielPorLoSuyo DEF DatosEnOrden
  <1>10. TipoCiclo'
    BY <1>2, <1>4, <1>5 DEF TipoCiclo
  <1>11. TipoMmu'
    BY <1>2, <1>7 DEF TipoMmu, DatosEnOrden, SoloLoSuyo, Posiciones
  <1>12. TipoInt'
    BY <1>2, <1>4 DEF TipoInt, intVars
  <1>13. TipoPaginas'
    BY <1>2, <1>4, <1>7 DEF TipoPaginas, DatosEnOrden, SoloLoSuyo, Reparto
  <1>14. TipoPcb'
    BY <1>2, <1>4, <1>5, <1>8 DEF TipoPcb, TipoCiclo
  <1>15. Duenio' /\ Repartidas'
    BY <1>1, <1>4, <1>8 DEF Duenio, Repartidas
  <1>16. ASSUME NEW d \in CPUs PROVE Traza(d)'
    <2>1. CASE d = c
      <3>1. /\ ultima'[ejec[c]] = pc[c] /\ siguiente'[ejec[c]] = sig
            /\ pc'[c] = nuevoPc /\ motivo'[c] = resultado
            /\ etapa'[c] = "revisar" /\ ejec'[c] = ejec[c]
        BY <1>2, <1>4, <1>5 DEF TipoCiclo, TipoPcb
      <3>2. pc[c] + 1 \in DOMAIN programa[ejec[c]]
        BY <1>3 DEF Instruye
      <3>3. DondeQuedo(ejec[c])' = nuevoPc
        BY <1>4, <1>5, <3>1, <3>2 DEF DondeQuedo, EsUltima, Instruccion
      <3>4. resultado \in {"IO", "DUMP_MEMORY"} =>
               EsUltima(ejec[c], {"IO", "DUMP_MEMORY"})'
        BY <1>4, <1>5, <3>1, <3>2 DEF EsUltima, Instruccion
      <3> QED BY <2>1, <3>1, <3>3, <3>4 DEF Traza
    <2>2. CASE d # c
      <3>1. ejec[d] # ejec[c]
        BY <1>1, <1>4, <2>2 DEF Duenio
      <3>2. /\ etapa'[d] = etapa[d] /\ motivo'[d] = motivo[d]
            /\ pc'[d] = pc[d] /\ ejec'[d] = ejec[d]
        BY <1>2, <1>4, <1>5, <2>2 DEF TipoCiclo
      <3>3. ejec[d] # Nil => /\ ultima'[ejec[d]] = ultima[ejec[d]]
                             /\ siguiente'[ejec[d]] = siguiente[ejec[d]]
        BY <1>2, <1>5, <3>1 DEF TipoCiclo, TipoPcb
      <3> QED BY <1>1, <1>4, <3>2, <3>3, TrazaAjena
    <2> QED BY <2>1, <2>2
  <1>17. ReanudaDondeCorresponde'
    <2>1. situacion[ejec[c]] = "en_cpu"
      BY <1>1, <1>4 DEF Duenio
    <2>2. \A q \in Pids : \/ situacion'[q] = "en_cpu"
                          \/ /\ situacion'[q] = situacion[q]
                             /\ ultima'[q] = ultima[q]
                             /\ siguiente'[q] = siguiente[q]
      BY <1>2, <1>5, <1>8, <2>1 DEF TipoPcb
    <2> QED BY <1>1, <1>4, <1>8, <2>2, ReanudaIgual
  <1>18. TypeOK'
    BY <1>10, <1>11, <1>12, <1>13, <1>14, TipoPartesDespues
  <1> QED BY <1>9, <1>15, <1>16, <1>17, <1>18 DEF Inductivo

LEMMA PasoRecibirPcb ==
  ASSUME Inductivo, CpuAssumption, NEW c \in CPUs, NEW p \in Pids,
         RecibirPcb(c, p)
  PROVE  Inductivo'
  <1>1. /\ TypeOK /\ Duenio /\ Repartidas /\ PaginasFieles
        /\ ReanudaDondeCorresponde
        /\ \A d \in CPUs : Traza(d) /\ Fiel(d)
    BY DEF Inductivo
  <1>2. TipoCiclo /\ TipoMmu /\ TipoInt /\ TipoPaginas /\ TipoPcb
    BY <1>1, TipoPartes
  <1>3. /\ etapa[c] = "libre" /\ situacion[p] = "lista"
        /\ situacion' = [situacion EXCEPT ![p] = "en_cpu"]
        /\ ejec' = [ejec EXCEPT ![c] = p]
        /\ pc' = [pc EXCEPT ![c] = contexto[p]]
        /\ motivo' = [motivo EXCEPT ![c] = "OK"]
        /\ etapa' = [etapa EXCEPT ![c] = "ejecutar"]
        /\ UNCHANGED <<programa, pendiente, desalojos, viaje, tabla,
                       contexto, logico, ultima, siguiente>>
    BY DEF RecibirPcb, intVars, trazaVars
  <1>4. ejec[c] = Nil /\ p # Nil
    BY <1>2, <1>3 DEF TipoCiclo, CpuAssumption
  <1>5. Limpiar(c, p)
    BY DEF RecibirPcb
  <1>6. /\ DOMAIN tlb' = CPUs /\ \A d \in CPUs \ {c} : tlb'[d] = tlb[d]
        /\ tlb'[c] \in [0 .. EntradasTlb[c] - 1 -> EntradasDeTlb]
        /\ \A i \in 0 .. EntradasTlb[c] - 1 : tlb'[c][i].pid = Nil
        /\ punteroTlb' \in [CPUs -> Nat]
        /\ \A d \in CPUs : punteroTlb'[d] \in 0 .. EntradasTlb[d] - 1 \cup {0}
        /\ DOMAIN cache' = CPUs /\ \A d \in CPUs \ {c} : cache'[d] = cache[d]
        /\ cache'[c] \in [Posiciones(c) -> EntradasDeCache]
        /\ \A i \in Posiciones(c) : cache'[c][i].pid = Nil
        /\ punteroClock' = punteroClock
        /\ memoria' = memoria
    BY <1>1, <1>4, <1>5, LimpiarForma
  <1>7. ASSUME NEW d \in CPUs, ejec[d] # Nil
        PROVE  d # c /\ ejec[d] # p /\ ejec'[d] = ejec[d]
    BY <1>1, <1>2, <1>3, <1>4, <1>7 DEF Duenio, TipoCiclo
  <1>8. ejec'[c] = p /\ \A d \in CPUs \ {c} : ejec'[d] = ejec[d]
    BY <1>2, <1>3 DEF TipoCiclo
  <1>9. \A q \in Pids : /\ situacion'[q] = "fin" <=> situacion[q] = "fin"
                        /\ q # p => situacion'[q] = situacion[q]
    BY <1>2, <1>3 DEF TipoPcb
  <1>10. TipoCiclo'
    BY <1>2, <1>3, <1>4 DEF TipoCiclo, TipoPcb, Motivos
  <1>11. TipoMmu'
    BY <1>2, <1>6 DEF TipoMmu, Posiciones
  <1>12. TipoInt' /\ TipoPaginas'
    BY <1>2, <1>3, <1>6 DEF TipoInt, TipoPaginas, Reparto
  <1>13. TipoPcb'
    BY <1>2, <1>3 DEF TipoPcb
  <1>14. Duenio'
    <2>1. situacion'[p] = "en_cpu"
      BY <1>2, <1>3 DEF TipoPcb
    <2>2. ASSUME NEW d \in CPUs, ejec'[d] # Nil
          PROVE  situacion'[ejec'[d]] = "en_cpu"
      <3>1. CASE d = c
        BY <1>8, <2>1, <3>1
      <3>2. CASE d # c
        BY <1>1, <1>2, <1>7, <1>8, <1>9, <2>2, <3>2 DEF Duenio, TipoCiclo
      <3> QED BY <3>1, <3>2
    <2>3. ASSUME NEW d \in CPUs, NEW e \in CPUs, ejec'[d] # Nil,
                 ejec'[d] = ejec'[e]
          PROVE  d = e
      <3>1. CASE d = c \/ e = c
        BY <1>4, <1>7, <1>8, <2>3, <3>1
      <3>2. CASE d # c /\ e # c
        <4>1. ejec[d] # Nil /\ ejec[d] = ejec[e]
          BY <1>8, <2>3, <3>2
        <4> QED BY <1>1, <4>1 DEF Duenio
      <3> QED BY <3>1, <3>2
    <2> QED BY <2>2, <2>3 DEF Duenio
  <1>15. Repartidas'
    BY <1>1, <1>3, <1>9 DEF Repartidas
  <1>16. ASSUME NEW d \in CPUs PROVE Traza(d)'
    <2>1. CASE d = c
      <3>1. etapa'[c] = "ejecutar"
        BY <1>2, <1>3 DEF TipoCiclo
      <3> QED BY <2>1, <3>1 DEF Traza
    <2>2. CASE d # c
      <3>1. /\ ejec'[d] = ejec[d] /\ etapa'[d] = etapa[d]
            /\ motivo'[d] = motivo[d] /\ pc'[d] = pc[d]
        BY <1>2, <1>3, <2>2 DEF TipoCiclo
      <3> QED BY <1>1, <1>3, <3>1, TrazaAjena
    <2> QED BY <2>1, <2>2
  <1>17. ASSUME NEW d \in CPUs PROVE Fiel(d)'
    <2>1. CASE d = c
      <3>1. Posiciones(c)' = Posiciones(c)
        BY DEF Posiciones
      <3>2. DOMAIN tlb'[c] = 0 .. EntradasTlb[c] - 1
        BY <1>6
      <3> QED BY <1>6, <2>1, <3>1, <3>2
              DEF Fiel, TlbFiel, EntradaTlbFiel, CacheFiel, EntradaCacheFiel,
                  CacheSinRepetir
    <2>2. CASE d # c
      BY <1>1, <1>3, <1>6, <1>8, <2>2, FielAjeno
    <2> QED BY <2>1, <2>2
  <1>18. PaginasFieles'
    <2> SUFFICES ASSUME NEW q \in Pids, situacion[q] # "fin",
                        NEW g \in DOMAIN tabla[q]
                 PROVE  \/ EnSuCache(q, g)'
                        \/ memoria[tabla[q][g]] = logico[q][g]
      BY <1>3, <1>6, <1>9 DEF PaginasFieles
    <2>1. CASE memoria[tabla[q][g]] = logico[q][g]
      BY <2>1
    <2>2. CASE EnSuCache(q, g)
      <3>1. PICK d \in CPUs : ejec[d] = q /\ EnCache(d, q, g) # {}
        BY <2>2 DEF EnSuCache
      <3>2. d # c /\ ejec'[d] = q /\ cache'[d] = cache[d]
        BY <1>4, <1>6, <1>7, <3>1, CpuAssumption DEF CpuAssumption
      <3>3. EnCache(d, q, g)' # {}
        BY <3>1, <3>2 DEF EnCache, Posiciones
      <3> QED BY <3>2, <3>3, Zenon DEF EnSuCache
    <2> QED BY <1>1, <2>1, <2>2 DEF PaginasFieles
  <1>19. ReanudaDondeCorresponde'
    <2>1. \A q \in Pids : situacion'[q] \in {"en_cpu", situacion[q]}
      BY <1>2, <1>3 DEF TipoPcb
    <2> QED BY <1>1, <1>3, <2>1, ReanudaIgual
  <1>20. TypeOK'
    BY <1>10, <1>11, <1>12, <1>13, TipoPartesDespues
  <1> QED BY <1>14, <1>15, <1>16, <1>17, <1>18, <1>19, <1>20 DEF Inductivo

LEMMA PasoTerminar ==
  ASSUME Inductivo, CpuAssumption, NEW c \in CPUs, Terminar(c)
  PROVE  Inductivo'
  <1> DEFINE p == ejec[c]
             final == CASE motivo[c] \in {"IO", "DUMP_MEMORY"} -> "bloqueada"
                        [] motivo[c] = "PROCESO_INTERRUPCION"  -> "lista"
                        [] OTHER                               -> "fin"
  <1>1. /\ TypeOK /\ Duenio /\ Repartidas /\ PaginasFieles
        /\ ReanudaDondeCorresponde
        /\ \A d \in CPUs : Traza(d) /\ Fiel(d)
    BY DEF Inductivo
  <1>2. TipoCiclo /\ TipoMmu /\ TipoInt /\ TipoPaginas /\ TipoPcb
    BY <1>1, TipoPartes
  <1>3. /\ etapa[c] = "fin"
        /\ contexto' = [contexto EXCEPT ![p] = pc[c]]
        /\ situacion' = [situacion EXCEPT ![p] = final]
        /\ ejec' = [ejec EXCEPT ![c] = Nil]
        /\ etapa' = [etapa EXCEPT ![c] = "libre"]
        /\ UNCHANGED <<programa, pc, motivo, pendiente, desalojos, viaje,
                       tabla, logico, ultima, siguiente>>
    BY DEF Terminar, intVars, trazaVars
  <1>4. p # Nil /\ p \in Pids /\ situacion[p] = "en_cpu"
    <2>1. p # Nil
      BY <1>2, <1>3 DEF TipoCiclo
    <2> QED BY <1>1, <1>2, <2>1 DEF TipoCiclo, Duenio
  <1>5. final \in {"lista", "bloqueada", "fin"}
    OBVIOUS
  <1>6. /\ final = "bloqueada" => motivo[c] \in {"IO", "DUMP_MEMORY"}
        /\ final = "lista" => motivo[c] = "PROCESO_INTERRUPCION"
    OBVIOUS
  <1> HIDE DEF final
  <1>7. Limpiar(c, p)
    BY DEF Terminar
  <1>8. PaginasDe(c)
    BY <1>1, <1>4, PaginasPropias
  <1>9. /\ DOMAIN tlb' = CPUs /\ \A d \in CPUs \ {c} : tlb'[d] = tlb[d]
        /\ tlb'[c] \in [0 .. EntradasTlb[c] - 1 -> EntradasDeTlb]
        /\ \A i \in 0 .. EntradasTlb[c] - 1 : tlb'[c][i].pid = Nil
        /\ punteroTlb' \in [CPUs -> Nat]
        /\ \A d \in CPUs : punteroTlb'[d] \in 0 .. EntradasTlb[d] - 1 \cup {0}
        /\ DOMAIN cache' = CPUs /\ \A d \in CPUs \ {c} : cache'[d] = cache[d]
        /\ cache'[c] \in [Posiciones(c) -> EntradasDeCache]
        /\ \A i \in Posiciones(c) : cache'[c][i].pid = Nil
        /\ punteroClock' = punteroClock
        /\ memoria' \in [Marcos -> Pagina]
        /\ \A f \in Marcos \ Range(tabla[p]) : memoria'[f] = memoria[f]
        /\ \A h \in DOMAIN tabla[p] : memoria'[tabla[p][h]] = logico[p][h]
    BY <1>1, <1>4, <1>7, <1>8, LimpiarForma
  <1>10. ejec'[c] = Nil /\ \A d \in CPUs \ {c} : ejec'[d] = ejec[d]
    BY <1>2, <1>3 DEF TipoCiclo
  <1>11. ASSUME NEW d \in CPUs \ {c}, ejec[d] # Nil
         PROVE  /\ ejec[d] # p /\ ejec[d] \in Pids
                /\ situacion[ejec[d]] = "en_cpu"
    BY <1>1, <1>2, <1>4, <1>11 DEF Duenio, TipoCiclo
  <1>12. situacion'[p] = final /\ \A q \in Pids \ {p} : situacion'[q] = situacion[q]
    BY <1>2, <1>3, <1>4 DEF TipoPcb
  <1>13. ASSUME NEW q \in Pids, q # p, situacion[q] # "fin",
                NEW g \in DOMAIN tabla[q]
         PROVE  memoria'[tabla[q][g]] = memoria[tabla[q][g]]
    BY <1>1, <1>4, <1>9, <1>13, MarcosAjenos
  <1> HIDE DEF p
  <1>14. TipoCiclo'
    BY <1>2, <1>3 DEF TipoCiclo
  <1>15. TipoMmu'
    BY <1>2, <1>9 DEF TipoMmu, Posiciones
  <1>16. TipoInt' /\ TipoPaginas'
    BY <1>2, <1>3, <1>9 DEF TipoInt, TipoPaginas, Reparto
  <1>17. TipoPcb'
    BY <1>2, <1>3, <1>5 DEF TipoPcb, TipoCiclo
  <1>18. Duenio'
    <2>1. ASSUME NEW d \in CPUs, ejec'[d] # Nil
          PROVE  situacion'[ejec'[d]] = "en_cpu"
      <3>1. d # c /\ ejec'[d] = ejec[d]
        BY <1>10, <2>1
      <3> QED BY <1>11, <1>12, <2>1, <3>1
    <2>2. ASSUME NEW d \in CPUs, NEW e \in CPUs, ejec'[d] # Nil,
                 ejec'[d] = ejec'[e]
          PROVE  d = e
      <3>1. d # c /\ e # c
        BY <1>10, <2>2
      <3>2. ejec[d] # Nil /\ ejec[d] = ejec[e]
        BY <1>10, <2>2, <3>1
      <3> QED BY <1>1, <3>2 DEF Duenio
    <2> QED BY <2>1, <2>2 DEF Duenio
  <1>19. \A q \in Pids : situacion'[q] # "fin" => situacion[q] # "fin"
    BY <1>4, <1>12
  <1>20. Repartidas'
    BY <1>1, <1>3, <1>19 DEF Repartidas
  <1>21. ASSUME NEW d \in CPUs PROVE Traza(d)'
    <2>1. CASE d = c
      <3>1. etapa'[c] = "libre"
        BY <1>2, <1>3 DEF TipoCiclo
      <3> QED BY <2>1, <3>1 DEF Traza
    <2>2. CASE d # c
      <3>1. ejec'[d] = ejec[d] /\ etapa'[d] = etapa[d]
        BY <1>2, <1>3, <2>2 DEF TipoCiclo
      <3> QED BY <1>1, <1>3, <3>1, TrazaAjena
    <2> QED BY <2>1, <2>2
  <1>22. ASSUME NEW d \in CPUs PROVE Fiel(d)'
    <2>1. CASE d = c
      <3>1. Posiciones(c)' = Posiciones(c)
        BY DEF Posiciones
      <3>2. DOMAIN tlb'[c] = 0 .. EntradasTlb[c] - 1
        BY <1>9
      <3> QED BY <1>9, <2>1, <3>1, <3>2
              DEF Fiel, TlbFiel, EntradaTlbFiel, CacheFiel, EntradaCacheFiel,
                  CacheSinRepetir
    <2>2. CASE d # c
      <3>1. ejec[d] # Nil => \A g \in DOMAIN tabla[ejec[d]] :
               memoria'[tabla[ejec[d]][g]] = memoria[tabla[ejec[d]][g]]
        BY <1>11, <1>13, <2>2
      <3> QED BY <1>1, <1>3, <1>9, <1>10, <2>2, <3>1, FielAjeno
    <2> QED BY <2>1, <2>2
  <1>23. PaginasFieles'
    <2> SUFFICES ASSUME NEW q \in Pids, situacion'[q] # "fin",
                        NEW g \in DOMAIN tabla[q]
                 PROVE  \/ EnSuCache(q, g)'
                        \/ memoria'[tabla[q][g]] = logico[q][g]
      BY <1>3 DEF PaginasFieles
    <2>1. CASE q = p
      BY <1>9, <2>1
    <2>2. CASE q # p
      <3>1. situacion[q] # "fin"
        BY <1>19
      <3>2. EnSuCache(q, g) \/ memoria[tabla[q][g]] = logico[q][g]
        BY <1>1, <3>1 DEF PaginasFieles
      <3>3. CASE EnSuCache(q, g)
        <4>1. PICK d \in CPUs : ejec[d] = q /\ EnCache(d, q, g) # {}
          BY <3>3 DEF EnSuCache
        <4>2. d # c /\ ejec'[d] = q /\ cache'[d] = cache[d]
          BY <1>9, <1>10, <2>2, <4>1 DEF p
        <4>3. EnCache(d, q, g)' # {}
          BY <4>1, <4>2 DEF EnCache, Posiciones
        <4> QED BY <4>2, <4>3, Zenon DEF EnSuCache
      <3>4. CASE memoria[tabla[q][g]] = logico[q][g]
        BY <1>13, <2>2, <3>1, <3>4
      <3> QED BY <3>2, <3>3, <3>4
    <2> QED BY <2>1, <2>2
  <1>24. ReanudaDondeCorresponde'
    <2> SUFFICES ASSUME NEW q \in Pids
                 PROVE  /\ situacion'[q] = "bloqueada" =>
                              EsUltima(q, {"IO", "DUMP_MEMORY"})
                        /\ situacion'[q] \in {"bloqueada", "lista"} =>
                              contexto'[q] = DondeQuedo(q)
      BY <1>3, RastroIgual DEF ReanudaDondeCorresponde
    <2>1. CASE q = p
      <3>1. contexto'[p] = pc[c]
        BY <1>2, <1>3, <1>4 DEF TipoPcb
      <3>2. /\ motivo[c] \in {"PROCESO_INTERRUPCION", "IO", "DUMP_MEMORY"} =>
                  pc[c] = DondeQuedo(p)
            /\ motivo[c] \in {"IO", "DUMP_MEMORY"} =>
                  EsUltima(p, {"IO", "DUMP_MEMORY"})
        BY <1>1, <1>3 DEF Traza, p
      <3> QED BY <1>6, <1>12, <2>1, <3>1, <3>2
    <2>2. CASE q # p
      <3>1. contexto'[q] = contexto[q] /\ situacion'[q] = situacion[q]
        BY <1>2, <1>3, <1>12, <2>2 DEF TipoPcb
      <3> QED BY <1>1, <3>1 DEF ReanudaDondeCorresponde
    <2> QED BY <2>1, <2>2
  <1>25. TypeOK'
    BY <1>14, <1>15, <1>16, <1>17, TipoPartesDespues
  <1> QED BY <1>18, <1>20, <1>21, <1>22, <1>23, <1>24, <1>25 DEF Inductivo

LEMMA PasoDeCiclo ==
  ASSUME Inductivo, CpuAssumption, NEW c \in CPUs,
         FetchFallido(c) \/ Revisar(c)
  PROVE  Inductivo'
  <1>1. /\ TypeOK /\ ReanudaDondeCorresponde
        /\ \A d \in CPUs : Traza(d)
    BY DEF Inductivo
  <1>2. TipoCiclo /\ TipoInt /\ TipoPaginas /\ TipoPcb
    BY <1>1, TipoPartes
  <1>3. UNCHANGED <<programa, ejec, mmuVars, desalojos, viaje, tabla, memoria,
                    situacion, contexto, logico, ultima, siguiente>>
    BY DEF FetchFallido, Revisar, intVars, pcbVars, trazaVars
  <1>4. /\ Duenio' /\ Repartidas' /\ PaginasFieles'
        /\ TipoMmu' /\ \A d \in CPUs : Fiel(d)'
    BY <1>3, DatosIguales
  <1>5. TipoPaginas' /\ TipoPcb'
    BY <1>2, <1>3 DEF TipoPaginas, TipoPcb, Reparto
  <1>6. ReanudaDondeCorresponde'
    BY <1>1, <1>3, ReanudaIgual
  <1>7. CASE FetchFallido(c)
    <2>1. /\ etapa[c] = "ejecutar"
          /\ motivo' = [motivo EXCEPT ![c] = "ERROR"]
          /\ etapa' = [etapa EXCEPT ![c] = "fin"]
          /\ UNCHANGED <<pc, pendiente>>
      BY <1>7 DEF FetchFallido, intVars
    <2>2. TipoCiclo' /\ TipoInt'
      BY <1>2, <1>3, <2>1 DEF TipoCiclo, TipoInt, Motivos
    <2>3. ASSUME NEW d \in CPUs PROVE Traza(d)'
      <3>1. CASE d = c
        <4>1. etapa'[c] = "fin" /\ motivo'[c] = "ERROR"
          BY <1>2, <2>1 DEF TipoCiclo
        <4> QED BY <3>1, <4>1 DEF Traza
      <3>2. CASE d # c
        <4>1. etapa'[d] = etapa[d] /\ motivo'[d] = motivo[d]
          BY <1>2, <2>1, <3>2 DEF TipoCiclo
        <4> QED BY <1>1, <1>3, <2>1, <4>1, TrazaAjena
      <3> QED BY <3>1, <3>2
    <2>4. TypeOK'
      BY <1>4, <1>5, <2>2, TipoPartesDespues
    <2> QED BY <1>4, <1>6, <2>3, <2>4 DEF Inductivo
  <1>8. CASE Revisar(c)
    <2> DEFINE sigue == motivo[c] = "OK" /\ ~pendiente[c]
               salta == programa[ejec[c]][ultima[ejec[c]] + 1].op # "GOTO"
    <2>1. /\ etapa[c] = "revisar"
          /\ etapa' = [etapa EXCEPT ![c] = IF sigue THEN "ejecutar" ELSE "fin"]
          /\ motivo' = [motivo EXCEPT ![c] =
                           IF pendiente[c] THEN "PROCESO_INTERRUPCION" ELSE @]
          /\ pc' = [pc EXCEPT ![c] = IF sigue /\ salta THEN @ + 1 ELSE @]
          /\ pendiente' = [pendiente EXCEPT ![c] = FALSE]
      BY <1>8 DEF Revisar
    <2> HIDE DEF salta
    <2>2. TipoCiclo' /\ TipoInt'
      BY <1>2, <1>3, <2>1 DEF TipoCiclo, TipoInt, Motivos
    <2>3. ASSUME NEW d \in CPUs PROVE Traza(d)'
      <3>1. CASE d = c
        <4>1. /\ etapa'[c] = IF sigue THEN "ejecutar" ELSE "fin"
              /\ motivo'[c] = IF pendiente[c] THEN "PROCESO_INTERRUPCION"
                              ELSE motivo[c]
              /\ ~sigue => pc'[c] = pc[c]
          BY <1>2, <2>1 DEF TipoCiclo
        <4>2. CASE sigue
          BY <3>1, <4>1, <4>2 DEF Traza
        <4>3. CASE ~sigue
          <5>1. /\ pc[c] = DondeQuedo(ejec[c])
                /\ motivo[c] \in {"IO", "DUMP_MEMORY"} =>
                      EsUltima(ejec[c], {"IO", "DUMP_MEMORY"})
            BY <1>1, <2>1 DEF Traza
          <5>4. /\ DondeQuedo(ejec[c])' = DondeQuedo(ejec[c])
                /\ EsUltima(ejec[c], {"IO", "DUMP_MEMORY"})'
                      <=> EsUltima(ejec[c], {"IO", "DUMP_MEMORY"})
            BY <1>3 DEF DondeQuedo, EsUltima
          <5>2. etapa'[c] = "fin" /\ pc'[c] = pc[c]
            BY <4>1, <4>3
          <5>3. motivo'[c] \in {"IO", "DUMP_MEMORY"} =>
                   motivo[c] \in {"IO", "DUMP_MEMORY"}
            BY <4>1
          <5> QED BY <1>3, <3>1, <5>1, <5>2, <5>3, <5>4 DEF Traza
        <4> QED BY <4>2, <4>3
      <3>2. CASE d # c
        <4>1. etapa'[d] = etapa[d] /\ motivo'[d] = motivo[d] /\ pc'[d] = pc[d]
          BY <1>2, <2>1, <3>2 DEF TipoCiclo
        <4> QED BY <1>1, <1>3, <4>1, TrazaAjena
      <3> QED BY <3>1, <3>2
    <2>4. TypeOK'
      BY <1>4, <1>5, <2>2, TipoPartesDespues
    <2> QED BY <1>4, <1>6, <2>3, <2>4 DEF Inductivo
  <1> QED BY <1>7, <1>8

LEMMA PasoInterrupcion ==
  ASSUME Inductivo, CpuAssumption, NEW c \in CPUs,
         EnviarInterrupcion(c) \/ RecibirInterrupcion(c)
  PROVE  Inductivo'
  <1>1. /\ TypeOK /\ ReanudaDondeCorresponde
        /\ \A d \in CPUs : Traza(d)
    BY DEF Inductivo
  <1>2. TipoCiclo /\ TipoInt /\ TipoPaginas /\ TipoPcb
    BY <1>1, TipoPartes
  <1>3. UNCHANGED <<programa, ejec, etapa, pc, motivo, mmuVars, tabla, memoria,
                    situacion, contexto, logico, ultima, siguiente>>
    BY DEF EnviarInterrupcion, RecibirInterrupcion, cicloVars, pcbVars, trazaVars
  <1>4. /\ Duenio' /\ Repartidas' /\ PaginasFieles'
        /\ TipoMmu' /\ \A d \in CPUs : Fiel(d)'
    BY <1>3, DatosIguales
  <1>5. TipoCiclo' /\ TipoPaginas' /\ TipoPcb'
    BY <1>2, <1>3 DEF TipoCiclo, TipoPaginas, TipoPcb, Reparto
  <1>6. TipoInt'
    <2>1. CASE EnviarInterrupcion(c)
      <3>1. /\ desalojos < MaxDesalojos /\ desalojos' = desalojos + 1
            /\ viaje' = [viaje EXCEPT ![c] = TRUE]
            /\ UNCHANGED pendiente
        BY <2>1 DEF EnviarInterrupcion
      <3>2. desalojos' \in 0 .. MaxDesalojos
        BY <1>2, <3>1, CpuAssumption DEF TipoInt, CpuAssumption
      <3> QED BY <1>2, <3>1, <3>2 DEF TipoInt, TipoCiclo
    <2>2. CASE RecibirInterrupcion(c)
      BY <1>2, <2>2 DEF TipoInt, RecibirInterrupcion
    <2> QED BY <2>1, <2>2
  <1>7. ReanudaDondeCorresponde'
    BY <1>1, <1>3, ReanudaIgual
  <1>8. ASSUME NEW d \in CPUs PROVE Traza(d)'
    BY <1>1, <1>3, TrazaAjena
  <1>9. TypeOK'
    BY <1>4, <1>5, <1>6, TipoPartesDespues
  <1> QED BY <1>4, <1>7, <1>8, <1>9 DEF Inductivo

LEMMA PasoDesbloquear ==
  ASSUME Inductivo, CpuAssumption, NEW p \in Pids, Desbloquear(p)
  PROVE  Inductivo'
  <1>1. /\ TypeOK /\ Duenio /\ Repartidas /\ PaginasFieles
        /\ ReanudaDondeCorresponde
        /\ \A d \in CPUs : Traza(d) /\ Fiel(d)
    BY DEF Inductivo
  <1>2. TipoCiclo /\ TipoMmu /\ TipoInt /\ TipoPaginas /\ TipoPcb
    BY <1>1, TipoPartes
  <1>3. /\ situacion[p] = "bloqueada"
        /\ situacion' = [situacion EXCEPT ![p] = "lista"]
        /\ UNCHANGED <<programa, ejec, etapa, pc, motivo, tlb, punteroTlb, cache,
                       punteroClock, pendiente, desalojos, viaje, contexto,
                       logico, ultima, siguiente>>
    BY DEF Desbloquear, cicloVars, mmuVars, intVars, trazaVars
  <1> DEFINE libres == Marcos \ (Asignadas \ Range(tabla[p]))
  <1>4. PICK t \in Reparto(p, libres) :
           /\ tabla' = [tabla EXCEPT ![p] = t]
           /\ memoria' = [f \in Marcos |->
                 IF f \in Range(t)
                 THEN memoria[tabla[p][CHOOSE g \in DOMAIN t : t[g] = f]]
                 ELSE memoria[f]]
    BY DEF Desbloquear
  <1>5. /\ t \in [0 .. NumPaginas[p] - 1 -> libres] /\ libres \subseteq Marcos
        /\ \A g, h \in DOMAIN t : t[g] = t[h] => g = h
        /\ t \in Reparto(p, Marcos)
    BY DEF Reparto, IsInjective
  <1>6. tabla'[p] = t /\ \A q \in Pids \ {p} : tabla'[q] = tabla[q]
    BY <1>2, <1>4 DEF TipoPaginas
  <1>7. ASSUME NEW q \in Pids \ {p}, situacion[q] # "fin"
        PROVE  Range(t) \cap Range(tabla[q]) = {}
    <2> SUFFICES ASSUME NEW f \in Range(t), f \in Range(tabla[q])
                 PROVE  FALSE
      OBVIOUS
    <2>0. PICK g \in DOMAIN t : f = t[g]
      BY DEF Range
    <2>1. f \in libres
      <3> HIDE DEF libres
      <3> QED BY <1>5, <2>0
    <2>2. f \in Asignadas
      BY <1>7 DEF Asignadas
    <2>3. f \notin Range(tabla[p])
      BY <1>1, <1>3, <1>7 DEF Repartidas
    <2> QED BY <2>1, <2>2, <2>3
  <1> HIDE DEF libres
  <1>8. tabla[p] \in [0 .. NumPaginas[p] - 1 -> Marcos]
        /\ logico[p] \in [0 .. NumPaginas[p] - 1 -> Pagina]
        /\ memoria \in [Marcos -> Pagina]
    BY <1>1, <1>2, TablaTipo DEF TipoPaginas
  <1>9. ASSUME NEW f \in Range(t)
        PROVE  \E g \in DOMAIN t : t[g] = f /\ memoria'[f] = memoria[tabla[p][g]]
    <2> DEFINE g == CHOOSE h \in DOMAIN t : t[h] = f
    <2>1. \E h \in DOMAIN t : t[h] = f
      BY DEF Range
    <2>2. g \in DOMAIN t /\ t[g] = f
      BY <2>1, Zenon
    <2>3. f \in Marcos
      BY <1>5, <2>2
    <2>4. memoria'[f] = memoria[tabla[p][g]]
      BY <1>4, <2>3
    <2> QED BY <2>2, <2>4, Zenon
  <1>10. \A f \in Marcos \ Range(t) : memoria'[f] = memoria[f]
    BY <1>4
  <1>11. \A g \in DOMAIN t : memoria'[t[g]] = memoria[tabla[p][g]]
    <2> TAKE g \in DOMAIN t
    <2>1. t[g] \in Range(t)
      BY DEF Range
    <2> QED BY <1>5, <1>9, <2>1
  <1>12. memoria' \in [Marcos -> Pagina]
    <2>1. DOMAIN t = 0 .. NumPaginas[p] - 1
      BY <1>5
    <2>2. ASSUME NEW f \in Marcos PROVE memoria'[f] \in Pagina
      <3>1. CASE f \in Range(t)
        <4>1. PICK g \in DOMAIN t : memoria'[f] = memoria[tabla[p][g]]
          BY <1>9, <3>1
        <4>2. tabla[p][g] \in Marcos
          BY <1>8, <2>1
        <4> QED BY <1>8, <4>1, <4>2
      <3>2. CASE f \notin Range(t)
        BY <1>8, <1>10, <3>2
      <3> QED BY <3>1, <3>2
    <2>3. memoria' = [f \in Marcos |-> memoria'[f]]
      BY <1>4
    <2> QED BY <2>2, <2>3
  <1>13. ASSUME NEW q \in Pids \ {p}, situacion[q] # "fin",
                NEW g \in DOMAIN tabla[q]
         PROVE  memoria'[tabla[q][g]] = memoria[tabla[q][g]]
    <2>1. tabla[q][g] \in Marcos
      BY <1>1, TablaTipo
    <2>2. tabla[q][g] \in Range(tabla[q])
      BY DEF Range
    <2> QED BY <1>7, <1>10, <1>13, <2>1, <2>2
  <1>14. \A q \in Pids : /\ situacion'[q] = "fin" <=> situacion[q] = "fin"
                         /\ q # p => situacion'[q] = situacion[q]
    BY <1>2, <1>3 DEF TipoPcb
  <1>15. ASSUME NEW d \in CPUs, ejec[d] # Nil
         PROVE  /\ ejec[d] # p /\ ejec[d] \in Pids
                /\ situacion[ejec[d]] = "en_cpu"
    BY <1>1, <1>2, <1>3, <1>15 DEF Duenio, TipoCiclo
  <1>16. TipoCiclo' /\ TipoMmu' /\ TipoInt' /\ TipoPcb'
    BY <1>2, <1>3 DEF TipoCiclo, TipoMmu, TipoInt, TipoPcb, Posiciones
  <1>17. TipoPaginas'
    BY <1>2, <1>3, <1>4, <1>5, <1>6, <1>12 DEF TipoPaginas, Reparto
  <1>18. Duenio'
    BY <1>1, <1>3, <1>14, <1>15 DEF Duenio
  <1>19. Repartidas'
    <2> SUFFICES ASSUME NEW q \in Pids, NEW r \in Pids, q # r,
                        situacion[q] # "fin", situacion[r] # "fin"
                 PROVE  Range(tabla'[q]) \cap Range(tabla'[r]) = {}
      BY <1>14 DEF Repartidas
    <2>1. CASE q = p \/ r = p
      BY <1>6, <1>7, <2>1
    <2>2. CASE q # p /\ r # p
      BY <1>1, <1>6, <2>2 DEF Repartidas
    <2> QED BY <2>1, <2>2
  <1>20. ASSUME NEW d \in CPUs PROVE Traza(d)'
    BY <1>1, <1>3, TrazaAjena
  <1>21. ASSUME NEW d \in CPUs PROVE Fiel(d)'
    <2>1. Posiciones(d)' = Posiciones(d)
      BY DEF Posiciones
    <2>2. ejec[d] # Nil => /\ tabla'[ejec[d]] = tabla[ejec[d]]
                           /\ \A g \in DOMAIN tabla[ejec[d]] :
                                 memoria'[tabla[ejec[d]][g]]
                                    = memoria[tabla[ejec[d]][g]]
      BY <1>6, <1>13, <1>15
    <2>4. ASSUME NEW i \in Posiciones(d)
          PROVE  EntradaCacheFiel(d, cache[d][i])'
      <3>1. EntradaCacheFiel(d, cache[d][i])
        BY <1>1 DEF Fiel, CacheFiel
      <3> QED BY <1>3, <2>2, <3>1 DEF EntradaCacheFiel
    <2>5. TlbFiel(d)'
      BY <1>1, <1>3, <2>2 DEF Fiel, TlbFiel, EntradaTlbFiel
    <2>6. CacheFiel(d)'
      BY <2>1, <2>4 DEF CacheFiel
    <2>7. CacheSinRepetir(d)'
      BY <1>1, <1>3, <2>1 DEF Fiel, CacheSinRepetir
    <2> QED BY <2>5, <2>6, <2>7 DEF Fiel
  <1>22. PaginasFieles'
    <2> SUFFICES ASSUME NEW q \in Pids, situacion[q] # "fin",
                        NEW g \in DOMAIN tabla'[q]
                 PROVE  \/ EnSuCache(q, g)'
                        \/ memoria'[tabla'[q][g]] = logico[q][g]
      BY <1>3, <1>14 DEF PaginasFieles
    <2>1. EnSuCache(q, g)' <=> EnSuCache(q, g)
      BY <1>3 DEF EnSuCache, EnCache, Posiciones
    <2>2. CASE q = p
      <3>1. g \in DOMAIN tabla[p] /\ g \in DOMAIN t
        BY <1>5, <1>6, <1>8, <2>2
      <3>2. ~EnSuCache(p, g)
        BY <1>1, <1>15, CpuAssumption DEF EnSuCache, CpuAssumption
      <3>3. memoria[tabla[p][g]] = logico[p][g]
        BY <1>1, <1>3, <3>1, <3>2 DEF PaginasFieles
      <3> QED BY <1>6, <1>11, <2>2, <3>1, <3>3
    <2>3. CASE q # p
      <3>1. EnSuCache(q, g) \/ memoria[tabla[q][g]] = logico[q][g]
        BY <1>1, <1>6, <2>3 DEF PaginasFieles
      <3> QED BY <1>6, <1>13, <2>1, <2>3, <3>1
    <2> QED BY <2>2, <2>3
  <1>23. ReanudaDondeCorresponde'
    <2>1. \A q \in Pids : \/ situacion'[q] = situacion[q]
                          \/ situacion[q] = "bloqueada" /\ situacion'[q] = "lista"
      BY <1>2, <1>3 DEF TipoPcb
    <2> QED BY <1>1, <1>3, <2>1, ReanudaIgual
  <1>24. TypeOK'
    BY <1>16, <1>17, TipoPartesDespues
  <1> QED BY <1>18, <1>19, <1>20, <1>21, <1>22, <1>23, <1>24 DEF Inductivo


----------------------------------------------------------------------------
\* The invariant of the specification.

LEMMA InductivoInit ==
  ASSUME Init, CpuAssumption
  PROVE  Inductivo
  <1>1. /\ ejec = [c \in CPUs |-> Nil] /\ etapa = [c \in CPUs |-> "libre"]
        /\ pc = [c \in CPUs |-> 0] /\ motivo = [c \in CPUs |-> "OK"]
        /\ pendiente = [c \in CPUs |-> FALSE] /\ desalojos = 0
        /\ viaje = [c \in CPUs |-> FALSE]
    BY DEF Init
  <1>2. /\ tlb = [c \in CPUs |-> TlbVacia(c)] /\ punteroTlb = [c \in CPUs |-> 0]
        /\ cache = [c \in CPUs |-> [i \in Posiciones(c) |-> EntradaLibre]]
        /\ punteroClock = [c \in CPUs |-> 0]
    BY DEF Init
  <1>3. /\ memoria = [f \in Marcos |-> EnBlanco]
        /\ situacion = [p \in Pids |-> "lista"] /\ contexto = [p \in Pids |-> 0]
        /\ logico = [p \in Pids |-> [g \in 0 .. NumPaginas[p] - 1 |-> EnBlanco]]
        /\ ultima = [p \in Pids |-> 0] /\ siguiente = [p \in Pids |-> 0]
    BY DEF Init
  <1>4. DOMAIN programa = Pids /\ \A p \in Pids : programa[p] \in Seq(Instrucciones)
    <2>1. /\ programa \in [Pids -> UNION {Programas[p] : p \in Pids}]
          /\ \A p \in Pids : programa[p] \in Programas[p]
      BY DEF Init
    <2>2. \A p \in Pids : Programas[p] \subseteq Seq(Instrucciones)
      BY DEF CpuAssumption
    <2> QED BY <2>1, <2>2
  <1>5. /\ tabla \in [Pids -> UNION {Reparto(p, Marcos) : p \in Pids}]
        /\ \A p \in Pids : DOMAIN tabla[p] = 0 .. NumPaginas[p] - 1
        /\ \A p, q \in Pids : p # q => Range(tabla[p]) \cap Range(tabla[q]) = {}
    BY DEF Init
  <1>6. ASSUME NEW p \in Pids PROVE tabla[p] \in Reparto(p, Marcos)
    <2>1. PICK q \in Pids : tabla[p] \in Reparto(q, Marcos)
      BY <1>5
    <2>2. /\ tabla[p] \in [0 .. NumPaginas[q] - 1 -> Marcos]
          /\ IsInjective(tabla[p])
      BY <2>1 DEF Reparto
    <2>3. tabla[p] \in [DOMAIN tabla[p] -> Marcos]
      BY <2>2
    <2>4. tabla[p] \in [0 .. NumPaginas[p] - 1 -> Marcos]
      BY <1>5, <2>3
    <2> QED BY <2>2, <2>4 DEF Reparto
  <1>7. TipoCiclo /\ TipoInt /\ TipoPcb
    BY <1>1, <1>3 DEF TipoCiclo, TipoInt, TipoPcb, Motivos, CpuAssumption
  <1>8. TipoMmu
    BY <1>2, EntradasLibres DEF TipoMmu
  <1>9. TipoPaginas
    BY <1>3, <1>4, <1>5, <1>6, EntradasLibres DEF TipoPaginas
  <1>10. Duenio /\ Repartidas /\ ReanudaDondeCorresponde
    BY <1>1, <1>3, <1>5
       DEF Duenio, Repartidas, ReanudaDondeCorresponde, DondeQuedo
  <1>11. ASSUME NEW c \in CPUs PROVE Traza(c) /\ Fiel(c)
    <2>1. Traza(c)
      BY <1>1 DEF Traza
    <2>2. \A i \in DOMAIN tlb[c] : tlb[c][i].pid = Nil
      BY <1>2 DEF TlbVacia
    <2>3. \A i \in Posiciones(c) : cache[c][i].pid = Nil
      BY <1>2 DEF EntradaLibre
    <2>4. TlbFiel(c) /\ CacheFiel(c) /\ CacheSinRepetir(c)
      BY <2>2, <2>3 DEF TlbFiel, EntradaTlbFiel, CacheFiel, EntradaCacheFiel,
                        CacheSinRepetir
    <2> QED BY <2>1, <2>4 DEF Fiel
  <1>12. PaginasFieles
    <2> SUFFICES ASSUME NEW p \in Pids, NEW g \in DOMAIN tabla[p]
                 PROVE  memoria[tabla[p][g]] = logico[p][g]
      BY DEF PaginasFieles
    <2>1. tabla[p][g] \in Marcos /\ g \in 0 .. NumPaginas[p] - 1
      BY <1>5, <1>6 DEF Reparto
    <2> QED BY <1>3, <2>1
  <1>13. TypeOK
    BY <1>7, <1>8, <1>9, TipoPartes
  <1> QED BY <1>10, <1>11, <1>12, <1>13 DEF Inductivo

LEMMA InductivoQuieto ==
  ASSUME Inductivo, UNCHANGED vars
  PROVE  Inductivo'
  <1>1. UNCHANGED <<programa, ejec, etapa, pc, motivo, mmuVars, pendiente,
                    desalojos, viaje, tabla, memoria, situacion,
                    contexto, logico, ultima, siguiente>>
    BY DEF vars, cicloVars, intVars, pcbVars, trazaVars
  <1>2. /\ TypeOK /\ ReanudaDondeCorresponde
        /\ \A d \in CPUs : Traza(d)
    BY DEF Inductivo
  <1>3. TipoCiclo /\ TipoInt /\ TipoPaginas /\ TipoPcb
    BY <1>2, TipoPartes
  <1>4. /\ Duenio' /\ Repartidas' /\ PaginasFieles'
        /\ TipoMmu' /\ \A d \in CPUs : Fiel(d)'
    BY <1>1, DatosIguales
  <1>5. TipoCiclo' /\ TipoInt' /\ TipoPaginas' /\ TipoPcb'
    BY <1>1, <1>3 DEF TipoCiclo, TipoInt, TipoPaginas, TipoPcb, Reparto
  <1>6. ReanudaDondeCorresponde'
    BY <1>1, <1>2, ReanudaIgual
  <1>7. ASSUME NEW d \in CPUs PROVE Traza(d)'
    BY <1>1, <1>2, TrazaAjena
  <1>8. TypeOK'
    BY <1>4, <1>5, TipoPartesDespues
  <1> QED BY <1>4, <1>6, <1>7, <1>8 DEF Inductivo

LEMMA InductivoPaso ==
  ASSUME Inductivo, CpuAssumption, [Next]_vars
  PROVE  Inductivo'
  <1>1. ASSUME NEW c \in CPUs, Ciclo(c)
        PROVE  Inductivo'
    <2>1. CASE \E p \in Pids : RecibirPcb(c, p)
      BY <2>1, PasoRecibirPcb
    <2>2. CASE FetchFallido(c) \/ Revisar(c)
      BY <2>2, PasoDeCiclo
    <2>3. CASE SinEscribir(c) \/ ConEscribir(c)
      BY <2>3, PasoInstruccion
    <2>4. CASE Terminar(c)
      BY <2>4, PasoTerminar
    <2> QED BY <1>1, <2>1, <2>2, <2>3, <2>4 DEF Ciclo, SinEscribir, ConEscribir
  <1>2. ASSUME NEW c \in CPUs, EnviarInterrupcion(c) \/ RecibirInterrupcion(c)
        PROVE  Inductivo'
    BY <1>2, PasoInterrupcion
  <1>3. ASSUME NEW p \in Pids, Desbloquear(p)
        PROVE  Inductivo'
    BY <1>3, PasoDesbloquear
  <1>4. CASE UNCHANGED vars
    BY <1>4, InductivoQuieto
  <1> QED BY <1>1, <1>2, <1>3, <1>4 DEF Next

LEMMA SiempreInductivo == Spec => []Inductivo
  <1>1. Init => Inductivo
    BY InductivoInit, CpuAssumption
  <1>2. Inductivo /\ [Next]_vars => Inductivo'
    BY InductivoPaso, CpuAssumption
  <1> QED BY <1>1, <1>2, PTL DEF Spec

\* Every variable keeps its shape; the pointers of TLB and cache stay inside
\* them (agregar_a_tlb, insertar_en_cache), and a CPU has a process in every
\* stage of the cycle but the wait for one (ciclo_instruccion).
THEOREM TiposCorrectos == Spec => []TypeOK
  <1>1. Inductivo => TypeOK
    BY DEF Inductivo
  <1> QED BY <1>1, SiempreInductivo, PTL

\* The program counter the kernel keeps is the one that follows the syscall that
\* blocked the process; after an interrupt it is that of the last instruction,
\* executed again, unless GOTO, IO or DUMP_MEMORY had moved it, and then the
\* request of the IO or the dump is lost, as SyscallBloquea shows
\* (ciclo_instruccion, which moves the program counter in three places).
THEOREM ReanudaBien == Spec => []ReanudaDondeCorresponde
  <1>1. Inductivo => ReanudaDondeCorresponde
    BY DEF Inductivo
  <1> QED BY <1>1, SiempreInductivo, PTL

\* Every page a process wrote is in its frame when the kernel has it back, with
\* any number of entries and either replacement (limpiar_cache_de_proceso, before
\* the answer to the kernel; insertar_en_cache, which writes back its victim).
THEOREM TodoVuelveAMemoria == Spec => []VueltaAMemoria
  <1>1. ASSUME Inductivo PROVE VueltaAMemoria
    <2> SUFFICES ASSUME NEW p \in Pids, situacion[p] \in {"lista", "bloqueada"},
                        NEW g \in DOMAIN tabla[p]
                 PROVE  memoria[tabla[p][g]] = logico[p][g]
      BY DEF VueltaAMemoria
    <2>1. TypeOK /\ Duenio /\ PaginasFieles
      BY <1>1 DEF Inductivo
    <2>2. \A c \in CPUs : ejec[c] # p
      BY <2>1, CpuAssumption DEF Duenio, CpuAssumption
    <2>3. ~EnSuCache(p, g)
      BY <2>2 DEF EnSuCache
    <2> QED BY <2>1, <2>3 DEF PaginasFieles
  <1> QED BY <1>1, SiempreInductivo, PTL

\* A program reads what it last wrote, through a cache, a TLB and a page table
\* of any size, whichever CPUs it goes through and wherever its pages come back
\* to (manejar_instruccion_read, manejar_instruccion_write).
THEOREM LoEscritoSeLee == Spec => []Coherencia
  <1>1. ASSUME Inductivo PROVE Coherencia
    <2> SUFFICES ASSUME NEW c \in CPUs, ejec[c] # Nil,
                        NEW g \in DOMAIN tabla[ejec[c]]
                 PROVE  Vista(c, ejec[c], g) = logico[ejec[c]][g]
      BY DEF Coherencia
    <2> DEFINE p == ejec[c]
    <2>1. TypeOK /\ Duenio /\ PaginasFieles /\ TlbFiel(c) /\ CacheFiel(c)
      BY <1>1 DEF Inductivo, Fiel
    <2>2. PaginasDe(c)
      BY <2>1, PaginasPropias, CpuAssumption
    <2>3. p \in Pids
      BY <2>1 DEF TypeOK
    <2>4. CASE EnCache(c, p, g) # {}
      <3> DEFINE i == CHOOSE j \in EnCache(c, p, g) : TRUE
      <3>1. i \in EnCache(c, p, g)
        BY <2>4, Zenon
      <3>2. i \in Posiciones(c) /\ cache[c][i].pid = p /\ cache[c][i].pagina = g
        BY <3>1 DEF EnCache
      <3>3. EntradaCacheFiel(c, cache[c][i])
        BY <2>1, <3>2 DEF CacheFiel
      <3>4. cache[c][i].contenido = logico[p][g]
        BY <3>2, <3>3 DEF EntradaCacheFiel
      <3> QED BY <2>4, <3>4 DEF Vista
    <2>5. CASE EnCache(c, p, g) = {}
      <3>1. memoria[tabla[p][g]] = logico[p][g]
        BY <2>2, <2>5 DEF PaginasDe
      <3>2. CASE EnTlb(c, p, g) # {}
        <4> DEFINE i == CHOOSE j \in EnTlb(c, p, g) : TRUE
        <4>1. i \in EnTlb(c, p, g)
          BY <3>2, Zenon
        <4>2. i \in DOMAIN tlb[c] /\ tlb[c][i].pid = p /\ tlb[c][i].pagina = g
          BY <4>1 DEF EnTlb
        <4>3. tlb[c][i].marco = tabla[p][g]
          BY <2>1, <4>2 DEF TlbFiel, EntradaTlbFiel
        <4> QED BY <2>5, <3>1, <3>2, <4>3 DEF Vista
      <3>3. CASE EnTlb(c, p, g) = {}
        BY <2>5, <3>1, <3>3 DEF Vista
      <3> QED BY <3>2, <3>3
    <2> QED BY <2>4, <2>5
  <1> QED BY <1>1, SiempreInductivo, PTL
=============================================================================
