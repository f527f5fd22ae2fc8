----------------------------- MODULE Secuencias -----------------------------
(***************************************************************************)
(* Lemmas about the queues of every component: the set of the elements of  *)
(* a sequence that is appended to, cut or put together, and that no        *)
(* element is in it twice.                                                 *)
(***************************************************************************)
EXTENDS Naturals, Sequences, SequencesExt, SequenceTheorems,
        FiniteSetTheorems, TLAPS

LEMMA TipoQuitar ==
  ASSUME NEW S, NEW s \in Seq(S), NEW i \in DOMAIN s
  PROVE  /\ RemoveAt(s, i) \in Seq(S)
         /\ Len(RemoveAt(s, i)) = Len(s) - 1
  <1> DEFINE a == SubSeq(s, 1, i-1)
             b == SubSeq(s, i+1, Len(s))
  <1>1. i \in 1 .. Len(s) /\ Len(s) \in Nat /\ \A j \in 1 .. Len(s) : s[j] \in S
    BY LenProperties, ElementOfSeq
  <1>2. a \in Seq(S) /\ Len(a) = i - 1
    <2>1. \A j \in 1 .. i-1 : s[j] \in S
      BY <1>1
    <2> QED BY <1>1, <2>1, SubSeqProperties
  <1>3. b \in Seq(S) /\ Len(b) = Len(s) - i
    <2>1. \A j \in i+1 .. Len(s) : s[j] \in S
      BY <1>1
    <2> QED BY <1>1, <2>1, SubSeqProperties
  <1>4. RemoveAt(s, i) = a \o b
    BY DEF RemoveAt
  <1> HIDE DEF a, b
  <1>5. a \o b \in Seq(S) /\ Len(a \o b) = Len(a) + Len(b)
    BY <1>2, <1>3, ConcatProperties
  <1> QED BY <1>1, <1>2, <1>3, <1>4, <1>5

LEMMA ConjuntoElemento ==
  ASSUME NEW S, NEW s \in Seq(S)
  PROVE  /\ ToSet(s) = {s[i] : i \in 1 .. Len(s)}
         /\ ToSet(s) \subseteq S
  <1>1. DOMAIN s = 1 .. Len(s) /\ \A i \in 1 .. Len(s) : s[i] \in S
    BY LenProperties, ElementOfSeq
  <1> QED BY <1>1 DEF ToSet

LEMMA ConjuntoAgregar ==
  ASSUME NEW S, NEW s \in Seq(S), NEW x \in S
  PROVE  /\ ToSet(Append(s, x)) = ToSet(s) \cup {x}
         /\ IsInjective(s) /\ x \notin ToSet(s) => IsInjective(Append(s, x))
  <1> DEFINE t == Append(s, x)
  <1>1. Len(s) \in Nat /\ DOMAIN s = 1 .. Len(s)
    BY LenProperties
  <1>2. /\ t \in Seq(S) /\ Len(t) = Len(s) + 1
        /\ \A i \in 1 .. Len(s) : t[i] = s[i]
        /\ t[Len(s) + 1] = x
    BY AppendProperties
  <1>3. DOMAIN t = 1 .. Len(s) + 1
    BY <1>2, LenProperties
  <1> HIDE DEF t
  <1>4. ToSet(t) = ToSet(s) \cup {x}
    BY <1>1, <1>2, <1>3 DEF ToSet
  <1>5. IsInjective(s) /\ x \notin ToSet(s) => IsInjective(t)
    BY <1>1, <1>2, <1>3 DEF IsInjective, ToSet
  <1> QED BY <1>4, <1>5 DEF t

LEMMA ConjuntoSacar ==
  ASSUME NEW S, NEW s \in Seq(S), NEW i \in DOMAIN s, IsInjective(s)
  PROVE  /\ ToSet(RemoveAt(s, i)) = ToSet(s) \ {s[i]}
         /\ IsInjective(RemoveAt(s, i))
  <1> DEFINE a == SubSeq(s, 1, i-1)
             b == SubSeq(s, i+1, Len(s))
             t == RemoveAt(s, i)
  <1>1. /\ i \in 1 .. Len(s) /\ Len(s) \in Nat /\ DOMAIN s = 1 .. Len(s)
        /\ \A j \in 1 .. Len(s) : s[j] \in S
    BY LenProperties, ElementOfSeq
  <1>2. /\ a \in Seq(S) /\ Len(a) = i - 1
        /\ \A j \in 1 .. i - 1 : a[j] = s[j]
    <2>1. \A j \in 1 .. i-1 : s[j] \in S
      BY <1>1
    <2> QED BY <1>1, <2>1, SubSeqProperties
  <1>3. /\ b \in Seq(S) /\ Len(b) = Len(s) - i
        /\ \A j \in 1 .. Len(s) - i : b[j] = s[i + j]
    <2>1. \A j \in i+1 .. Len(s) : s[j] \in S
      BY <1>1
    <2> QED BY <1>1, <2>1, SubSeqProperties
  <1>4. t = a \o b
    BY DEF RemoveAt
  <1> HIDE DEF a, b, t
  <1>5. /\ t \in Seq(S) /\ Len(t) = Len(s) - 1
        /\ \A j \in 1 .. Len(s) - 1 : t[j] = IF j < i THEN s[j] ELSE s[j + 1]
    <2>1. /\ a \o b \in Seq(S) /\ Len(a \o b) = Len(a) + Len(b)
          /\ \A j \in 1 .. Len(a) + Len(b) :
                (a \o b)[j] = IF j <= Len(a) THEN a[j] ELSE b[j - Len(a)]
      BY <1>2, <1>3, ConcatProperties
    <2>2. Len(t) = Len(s) - 1 /\ t \in Seq(S)
      BY <1>1, <1>2, <1>3, <1>4, <2>1
    <2>3. ASSUME NEW j \in 1 .. Len(s) - 1
          PROVE  t[j] = IF j < i THEN s[j] ELSE s[j + 1]
      <3>1. CASE j < i
        BY <1>1, <1>2, <1>3, <1>4, <2>1, <3>1
      <3>2. CASE ~(j < i)
        <4>1. j - Len(a) \in 1 .. Len(s) - i /\ i + (j - Len(a)) = j + 1
          BY <1>1, <1>2, <3>2
        <4>2. t[j] = b[j - Len(a)]
          BY <1>1, <1>2, <1>3, <1>4, <2>1, <3>2
        <4> QED BY <1>3, <3>2, <4>1, <4>2
      <3> QED BY <3>1, <3>2
    <2> QED BY <2>2, <2>3
  <1>6. DOMAIN t = 1 .. Len(s) - 1
    BY <1>5, LenProperties
  <1>7. ToSet(t) \subseteq ToSet(s) \ {s[i]}
    BY <1>1, <1>5, <1>6 DEF ToSet, IsInjective
  <1>8. ASSUME NEW x \in ToSet(s) \ {s[i]}
        PROVE  x \in ToSet(t)
    <2>1. PICK j \in 1 .. Len(s) : x = s[j] /\ j # i
      BY <1>1 DEF ToSet
    <2>2. CASE j < i
      <3>1. j \in 1 .. Len(s) - 1 /\ t[j] = x
        BY <1>1, <1>5, <2>1, <2>2
      <3> QED BY <1>6, <3>1 DEF ToSet
    <2>3. CASE j > i
      <3>1. j - 1 \in 1 .. Len(s) - 1 /\ t[j - 1] = x
        BY <1>1, <1>5, <2>1, <2>3
      <3> QED BY <1>6, <3>1 DEF ToSet
    <2> QED BY <1>1, <2>1, <2>2, <2>3
  <1>9. IsInjective(t)
    <2> SUFFICES ASSUME NEW j \in 1 .. Len(s) - 1, NEW k \in 1 .. Len(s) - 1,
                        t[j] = t[k]
                 PROVE  j = k
      BY <1>6 DEF IsInjective
    <2> DEFINE en(n) == IF n < i THEN n ELSE n + 1
    <2>1. /\ en(j) \in 1 .. Len(s) /\ t[j] = s[en(j)]
          /\ en(k) \in 1 .. Len(s) /\ t[k] = s[en(k)]
      BY <1>1, <1>5
    <2>2. en(j) = en(k)
      BY <1>1, <2>1 DEF IsInjective
    <2> QED BY <1>1, <2>2
  <1> QED BY <1>7, <1>8, <1>9 DEF t

LEMMA ConjuntoCabeza ==
  ASSUME NEW S, NEW s \in Seq(S), s # <<>>, IsInjective(s)
  PROVE  /\ Head(s) \in ToSet(s)
         /\ ToSet(Tail(s)) = ToSet(s) \ {Head(s)}
         /\ IsInjective(Tail(s))
  <1>1. Len(s) \in Nat \ {0} /\ DOMAIN s = 1 .. Len(s)
    BY EmptySeq, LenProperties
  <1>2. 1 \in DOMAIN s /\ Head(s) = s[1]
    BY <1>1
  <1>3. RemoveAt(s, 1) = Tail(s)
    <2>1. SubSeq(s, 1, 0) = <<>>
      BY SubSeqEmpty
    <2>2. Tail(s) = SubSeq(s, 2, Len(s)) /\ Tail(s) \in Seq(S)
      BY TailIsSubSeq, HeadTailProperties
    <2>3. RemoveAt(s, 1) = SubSeq(s, 1, 0) \o SubSeq(s, 2, Len(s))
      BY DEF RemoveAt
    <2> QED BY <2>1, <2>2, <2>3, ConcatEmptySeq
  <1>4. /\ ToSet(RemoveAt(s, 1)) = ToSet(s) \ {s[1]}
        /\ IsInjective(RemoveAt(s, 1))
    BY <1>2, ConjuntoSacar
  <1>5. s[1] \in ToSet(s)
    BY <1>2 DEF ToSet
  <1> QED BY <1>2, <1>3, <1>4, <1>5

LEMMA ConjuntoAnteponer ==
  ASSUME NEW S, NEW s \in Seq(S), NEW x \in S
  PROVE  LET t == <<x>> \o s
         IN /\ t \in Seq(S) /\ Len(t) = Len(s) + 1
            /\ t[1] = x /\ \A k \in 1 .. Len(s) : t[k + 1] = s[k]
            /\ ToSet(t) = ToSet(s) \cup {x}
            /\ IsInjective(s) /\ x \notin ToSet(s) => IsInjective(t)
  <1> DEFINE t == <<x>> \o s
  <1>1. Len(s) \in Nat /\ DOMAIN s = 1 .. Len(s)
    BY LenProperties
  <1>2. <<x>> \in Seq(S) /\ Len(<<x>>) = 1 /\ <<x>>[1] = x
    OBVIOUS
  <1>3. /\ t \in Seq(S) /\ Len(t) = 1 + Len(s)
        /\ \A j \in 1 .. 1 + Len(s) :
              t[j] = IF j <= 1 THEN <<x>>[j] ELSE s[j - 1]
    BY <1>2, ConcatProperties
  <1>4. DOMAIN t = 1 .. Len(s) + 1
    BY <1>1, <1>3, LenProperties
  <1> HIDE DEF t
  <1>5. t[1] = x /\ \A k \in 1 .. Len(s) : t[k + 1] = s[k]
    <2>1. ASSUME NEW k \in 1 .. Len(s) PROVE t[k + 1] = s[k]
      <3>1. k + 1 \in 1 .. 1 + Len(s) /\ ~(k + 1 <= 1) /\ (k + 1) - 1 = k
        BY <1>1
      <3> QED BY <1>3, <3>1
    <2> QED BY <1>1, <1>2, <1>3, <2>1
  <1>6. \A j \in 1 .. Len(s) + 1 :
           j = 1 \/ (j - 1 \in 1 .. Len(s) /\ t[j] = s[j - 1])
    BY <1>1, <1>3
  <1>7. ToSet(t) = ToSet(s) \cup {x}
    <2>1. ToSet(t) \subseteq ToSet(s) \cup {x}
      BY <1>1, <1>4, <1>5, <1>6 DEF ToSet
    <2>2. ASSUME NEW y \in ToSet(s) PROVE y \in ToSet(t)
      <3>1. PICK j \in 1 .. Len(s) : y = s[j]
        BY <1>1 DEF ToSet
      <3>2. j + 1 \in DOMAIN t /\ t[j + 1] = y
        BY <1>1, <1>4, <1>5, <3>1
      <3> QED BY <3>2 DEF ToSet
    <2>3. x \in ToSet(t)
      BY <1>1, <1>4, <1>5 DEF ToSet
    <2> QED BY <2>1, <2>2, <2>3
  <1>8. ASSUME IsInjective(s), x \notin ToSet(s)
        PROVE  IsInjective(t)
    <2> SUFFICES ASSUME NEW j \in 1 .. Len(s) + 1, NEW k \in 1 .. Len(s) + 1,
                        t[j] = t[k]
                 PROVE  j = k
      BY <1>4 DEF IsInjective
    <2>1. \A n \in 1 .. Len(s) : s[n] # x
      BY <1>1, <1>8 DEF ToSet
    <2>2. CASE j = 1 \/ k = 1
      BY <1>5, <1>6, <2>1, <2>2
    <2>3. CASE j # 1 /\ k # 1
      <3>1. /\ j - 1 \in 1 .. Len(s) /\ k - 1 \in 1 .. Len(s)
            /\ s[j - 1] = s[k - 1]
        BY <1>6, <2>3
      <3>2. j - 1 = k - 1
        BY <1>1, <1>8, <3>1 DEF IsInjective
      <3> QED BY <3>2
    <2> QED BY <2>2, <2>3
  <1> QED BY <1>1, <1>3, <1>5, <1>7, <1>8 DEF t

LEMMA ConjuntoResto ==
  ASSUME NEW S, NEW s \in Seq(S), NEW n \in 0 .. Len(s)
  PROVE  LET t == SubSeq(s, n + 1, Len(s))
         IN /\ t \in Seq(S) /\ Len(t) = Len(s) - n
            /\ \A k \in 1 .. Len(s) - n : t[k] = s[n + k]
            /\ ToSet(t) = {s[k] : k \in n + 1 .. Len(s)}
            /\ IsInjective(s) => IsInjective(t)
  <1> DEFINE t == SubSeq(s, n + 1, Len(s))
  <1>0. Len(s) \in Nat /\ n \in Nat /\ n <= Len(s)
    BY LenProperties
  <1>1. /\ Len(s) \in Nat /\ n \in Nat /\ DOMAIN s = 1 .. Len(s)
        /\ \A k \in 1 .. Len(s) : s[k] \in S
    BY LenProperties, ElementOfSeq
  <1>2. /\ t \in Seq(S) /\ Len(t) = Len(s) - n
        /\ \A k \in 1 .. Len(s) - n : t[k] = s[n + k]
    <2>1. \A k \in n + 1 .. Len(s) : s[k] \in S
      BY <1>1
    <2>2. /\ t \in Seq(S)
          /\ Len(t) = IF n + 1 <= Len(s) THEN Len(s) - (n + 1) + 1 ELSE 0
          /\ \A k \in 1 .. Len(s) - (n + 1) + 1 : t[k] = s[(n + 1) + k - 1]
      BY <1>1, <2>1, SubSeqProperties
    <2>3. Len(s) - (n + 1) + 1 = Len(s) - n
      BY <1>1
    <2>4. Len(t) = Len(s) - n
      <3>1. CASE n + 1 <= Len(s)
        BY <1>1, <2>2, <2>3, <3>1
      <3>2. CASE ~(n + 1 <= Len(s))
        <4>1. n = Len(s)
          BY ONLY <1>0, <3>2
        <4>2. Len(t) = 0
          BY ONLY <2>2, <3>2
        <4> QED BY <1>1, <4>1, <4>2
      <3> QED BY <3>1, <3>2
    <2>5. ASSUME NEW k \in 1 .. Len(s) - n PROVE t[k] = s[n + k]
      <3>1. (n + 1) + k - 1 = n + k
        BY <1>1
      <3> QED BY <2>2, <2>3, <3>1
    <2> QED BY <2>2, <2>4, <2>5
  <1>3. DOMAIN t = 1 .. Len(s) - n
    BY <1>2, LenProperties
  <1> HIDE DEF t
  <1>4. ToSet(t) = {s[k] : k \in n + 1 .. Len(s)}
    <2>1. ToSet(t) \subseteq {s[k] : k \in n + 1 .. Len(s)}
      <3> SUFFICES ASSUME NEW k \in 1 .. Len(s) - n
                   PROVE  t[k] \in {s[j] : j \in n + 1 .. Len(s)}
        BY <1>3 DEF ToSet
      <3>1. n + k \in n + 1 .. Len(s) /\ t[k] = s[n + k]
        BY <1>1, <1>2
      <3> QED BY <3>1
    <2>2. ASSUME NEW k \in n + 1 .. Len(s) PROVE s[k] \in ToSet(t)
      <3>1. k - n \in 1 .. Len(s) - n /\ n + (k - n) = k
        BY <1>1
      <3>2. k - n \in DOMAIN t /\ t[k - n] = s[k]
        BY <1>2, <1>3, <3>1
      <3> QED BY <3>2 DEF ToSet
    <2> QED BY <2>1, <2>2
  <1>5. ASSUME IsInjective(s)
        PROVE  IsInjective(t)
    <2> SUFFICES ASSUME NEW j \in 1 .. Len(s) - n, NEW k \in 1 .. Len(s) - n,
                        t[j] = t[k]
                 PROVE  j = k
      BY <1>3 DEF IsInjective
    <2>1. n + j \in 1 .. Len(s) /\ n + k \in 1 .. Len(s) /\ s[n + j] = s[n + k]
      BY <1>1, <1>2
    <2>2. n + j = n + k
      BY <1>1, <1>5, <2>1 DEF IsInjective
    <2> QED BY <1>1, <2>2
  <1> QED BY <1>2, <1>4, <1>5 DEF t

\* How many times an element is in a sequence without repetitions, and how long
\* such a sequence may be.
LEMMA VecesDe ==
  ASSUME NEW S, NEW s \in Seq(S), IsInjective(s), NEW x
  PROVE  Cardinality({k \in DOMAIN s : s[k] = x})
            = IF x \in ToSet(s) THEN 1 ELSE 0
  <1> DEFINE K == {k \in DOMAIN s : s[k] = x}
  <1>1. CASE x \in ToSet(s)
    <2>1. PICK k \in DOMAIN s : s[k] = x
      BY <1>1 DEF ToSet
    <2>2. K = {k}
      BY <2>1 DEF IsInjective
    <2> HIDE DEF K
    <2>3. Cardinality(K) = 1
      BY <2>2, FS_Singleton
    <2> QED BY <1>1, <2>3 DEF K
  <1>2. CASE x \notin ToSet(s)
    <2>1. K = {}
      BY <1>2 DEF ToSet
    <2> HIDE DEF K
    <2>2. Cardinality(K) = 0
      BY <2>1, FS_EmptySet
    <2> QED BY <1>2, <2>2 DEF K
  <1> QED BY <1>1, <1>2

LEMMA LargoSinRepetir ==
  ASSUME NEW S, IsFiniteSet(S), NEW s \in Seq(S), IsInjective(s)
  PROVE  Len(s) <= Cardinality(S)
  <1>1. Len(s) \in Nat /\ DOMAIN s = 1 .. Len(s) /\ s \in [1 .. Len(s) -> S]
    BY LenProperties
  <1>2. s \in Injection(1 .. Len(s), S)
    BY <1>1 DEF Injection, IsInjective
  <1>3. Cardinality(1 .. Len(s)) <= Cardinality(S)
    BY <1>2, FS_Injection
  <1>4. Cardinality(1 .. Len(s)) = Len(s)
    BY <1>1, FS_Interval
  <1> QED BY <1>3, <1>4

LEMMA AgregarAUno ==
  ASSUME NEW x, NEW y
  PROVE  Append(<<y>>, x) = <<y, x>>
  <1> DEFINE s == <<y>>
             t == Append(s, x)
             u == <<y, x>>
  <1>1. s \in Seq({x, y}) /\ Len(s) = 1 /\ s[1] = y
    OBVIOUS
  <1>2. t \in Seq({x, y}) /\ Len(t) = 2 /\ t[1] = y /\ t[2] = x
    BY <1>1, AppendProperties
  <1>3. u \in Seq({x, y}) /\ Len(u) = 2 /\ u[1] = y /\ u[2] = x
    OBVIOUS
  <1> HIDE DEF t, u
  <1>4. \A i \in 1 .. 2 : t[i] = u[i]
    BY <1>2, <1>3
  <1>5. t = u
    BY <1>2, <1>3, <1>4, SeqEqual
  <1> QED BY <1>5 DEF t, u

=============================================================================
