--------------------------- MODULE DeviceListsProofs ---------------------------
(***************************************************************************)
(* Facts about the lists of devices, and about loops in general: a loop is *)
(* written as a recursive function of the number of rounds,                *)
(*   f[n \in 0..N] == IF n = 0 THEN start ELSE ... f[n - 1] ...            *)
(* or with FlattenSeq if it puts together a list.                          *)
(***************************************************************************)
EXTENDS DeviceLists, WellFoundedInduction, SequenceTheorems, TLAPS

\* A set of natural numbers has a least element.
LEMMA LeastElement ==
  ASSUME NEW T, T \subseteq Nat, T # {}
  PROVE  \E m \in T : \A y \in T : m <= y
<1> DEFINE R == OpToRel(<, Nat)
<1>1. IsWellFoundedOn(R, Nat)
  BY NatLessThanWellFounded
<1>2. \A y, z \in Nat : y < z => <<y, z>> \in R
  BY DEF OpToRel
<1> HIDE DEF R
<1>3. PICK m \in T : \A y \in T : ~ (<<y, m>> \in R)
  BY <1>1, WFMin
<1>4. \A y \in T : ~ (y < m) /\ y \in Nat /\ m \in Nat
  BY <1>2, <1>3
<1>5. QED BY <1>4

\* Induction over the natural numbers, for a set.
LEMMA SetInduction ==
  ASSUME NEW S, 0 \in S, \A n \in Nat : n \in S => n + 1 \in S
  PROVE  Nat \subseteq S
<1> SUFFICES ASSUME NEW x \in Nat, x \notin S PROVE FALSE
  OBVIOUS
<1> DEFINE T == Nat \ S
<1>1. T \subseteq Nat /\ T # {}
  OBVIOUS
<1> HIDE DEF T
<1>2. PICK m \in T : \A y \in T : m <= y
  BY <1>1, LeastElement
<1>3. m \in Nat /\ m # 0 /\ m - 1 \in Nat /\ m - 1 < m
  BY <1>2 DEF T
<1>4. m - 1 \in S
  BY <1>2, <1>3 DEF T
<1>5. (m - 1) + 1 \in S
  BY <1>3, <1>4
<1>6. (m - 1) + 1 = m
  BY <1>3
<1>7. QED BY <1>2, <1>5, <1>6 DEF T

\* The states in S that a loop of m rounds goes through.
IsHistory(f, S, start, m, round) ==
  /\ f \in [0..m -> S] /\ f[0] = start
  /\ \A n \in 1..m : f[n] = round[<<f[n - 1], n>>]

\* A loop of N rounds that stays within S has a history.
LEMMA LoopExists ==
  ASSUME NEW S, NEW start \in S, NEW N \in Nat, NEW round \in [S \X (1..N) -> S]
  PROVE  \E f : IsHistory(f, S, start, N, round)
<1> USE DEF IsHistory
<1> DEFINE History(f, m) == IsHistory(f, S, start, m, round)
           M == {m \in Nat : m <= N => \E f : History(f, m)}
<1>1. 0 \in M
  <2>1. History([n \in 0..0 |-> start], 0)
    OBVIOUS
  <2>2. QED BY <2>1
<1>2. ASSUME NEW m \in Nat, m \in M PROVE m + 1 \in M
  <2> SUFFICES ASSUME m + 1 <= N PROVE \E f : History(f, m + 1)
    OBVIOUS
  <2>1. PICK f : History(f, m)
    BY <1>2
  <2> DEFINE g == [n \in 0..(m + 1) |-> IF n <= m THEN f[n] ELSE round[<<f[m], m + 1>>]]
  <2>2. f[m] \in S /\ m + 1 \in 1..N
    BY <2>1
  <2>3. round[<<f[m], m + 1>>] \in S
    BY <2>2
  <2>4. g \in [0..(m + 1) -> S] /\ g[0] = start
    BY <2>1, <2>3
  <2>5. ASSUME NEW n \in 1..(m + 1) PROVE g[n] = round[<<g[n - 1], n>>]
    <3>1. CASE n <= m
      BY <2>1, <3>1
    <3>2. CASE n = m + 1
      BY <2>1, <3>2
    <3>3. QED BY <3>1, <3>2
  <2>6. QED BY <2>4, <2>5
<1>3. N \in M
  <2> HIDE DEF M
  <2>1. \A m \in Nat : m \in M => m + 1 \in M
    BY <1>2
  <2>2. Nat \subseteq M
    BY <1>1, <2>1, SetInduction, Zenon
  <2>3. QED BY <2>2
<1>4. QED BY <1>3

\* What every round keeps holds after every round.
LEMMA LoopStays ==
  ASSUME NEW S, NEW N \in Nat, NEW f, f[0] \in S,
         \A n \in 1..N : f[n - 1] \in S => f[n] \in S
  PROVE  \A n \in 0..N : f[n] \in S
<1> DEFINE M == {n \in Nat : n <= N => f[n] \in S}
<1>1. 0 \in M
  OBVIOUS
<1>2. ASSUME NEW n \in Nat, n \in M PROVE n + 1 \in M
  <2> SUFFICES ASSUME n + 1 <= N PROVE f[n + 1] \in S
    OBVIOUS
  <2>1. n + 1 \in 1..N /\ f[n] \in S /\ (n + 1) - 1 = n
    BY <1>2
  <2>2. QED BY <2>1
<1> HIDE DEF M
<1>3. \A n \in Nat : n \in M => n + 1 \in M
  BY <1>2
<1>4. Nat \subseteq M
  BY <1>1, <1>3, SetInduction, Zenon
<1>5. QED BY <1>4 DEF M

-----------------------------------------------------------------------------
(***************************************************************************)
(* Lists that are put together.                                            *)
(***************************************************************************)

\* f[n] is what the first n lists have in them.
IsFlattening(f, seqs, T) ==
  /\ f \in [0..Len(seqs) -> Seq(T)] /\ f[0] = <<>>
  /\ \A n \in 1..Len(seqs) : f[n] = f[n - 1] \o seqs[n]
  /\ FlattenSeq(seqs) = f[Len(seqs)]

LEMMA FlattenHistory ==
  ASSUME NEW T, NEW seqs \in Seq(Seq(T))
  PROVE  \E f : IsFlattening(f, seqs, T)
<1> DEFINE N == Len(seqs)
<1>0. N \in Nat /\ \A n \in 1..N : seqs[n] \in Seq(T)
  OBVIOUS
<1>1. CASE N = 0
  <2>1. seqs = <<>> /\ FlattenSeq(seqs) = seqs
    BY <1>1 DEF FlattenSeq
  <2>2. IsFlattening([n \in 0..N |-> <<>>], seqs, T)
    BY <1>1, <2>1 DEF IsFlattening
  <2>3. QED BY <2>2
<1>2. CASE N # 0
  <2> DEFINE S == Seq(T)
             start == <<>>
             round == [x \in S \X (1..N) |-> x[1] \o seqs[x[2]]]
  <2>1. start \in S /\ round \in [S \X (1..N) -> S] /\ N \in Nat
    BY <1>0
  <2>2. PICK f : IsHistory(f, S, start, N, round)
    <3> HIDE DEF S, start, round, N
    <3>1. QED BY <2>1, LoopExists
  <2>3. /\ f \in [0..N -> Seq(T)] /\ f[0] = <<>>
        /\ \A n \in 1..N : f[n] = round[<<f[n - 1], n>>]
    BY <2>2 DEF IsHistory
  <2>4. ASSUME NEW n \in 1..N PROVE f[n] = f[n - 1] \o seqs[n]
    <3>1. n - 1 \in 0..N
      BY <1>0
    <3>2. <<f[n - 1], n>> \in S \X (1..N)
      BY <2>3, <3>1
    <3>3. QED BY <2>3, <3>2
  <2> DEFINE Body(g) == [i \in 1..N |-> IF i = 1 THEN seqs[i] ELSE g[i - 1] \o seqs[i]]
             h == CHOOSE g : g = Body(g)
             e == [n \in 1..N |-> f[n]]
  <2>5. e = Body(e)
    <3>1. ASSUME NEW i \in 1..N
          PROVE  f[i] = IF i = 1 THEN seqs[i] ELSE e[i - 1] \o seqs[i]
      <4>1. CASE i = 1
        <5>1. 1 \in 1..N /\ 1 - 1 = 0
          BY <4>1
        <5>2. f[1] = f[0] \o seqs[1]
          BY <2>4, <5>1
        <5>3. QED BY <1>0, <2>3, <4>1, <5>1, <5>2
      <4>2. CASE i # 1
        <5>1. i - 1 \in 1..N
          BY <1>0, <4>2
        <5>2. QED BY <2>4, <4>2, <5>1
      <4>3. QED BY <4>1, <4>2
    <3>2. QED BY <3>1
  <2>6. h = Body(h)
    BY <2>5
  <2>7. FlattenSeq(seqs) = h[N]
    BY <1>2 DEF FlattenSeq
  <2> HIDE DEF h
  <2>8. h[N] = f[N]
    <3> DEFINE M == {n \in Nat : n + 1 <= N => h[n + 1] = f[n + 1]}
    <3>1. 0 \in M
      <4>1. 1 \in 1..N
        BY <1>0, <1>2
      <4>2. h[1] = seqs[1]
        BY <2>6, <4>1
      <4>3. e[1] = seqs[1]
        <5> HIDE DEF e
        <5>1. QED BY <2>5, <4>1
      <4>4. QED BY <4>1, <4>2, <4>3
    <3>2. ASSUME NEW n \in Nat, n \in M PROVE n + 1 \in M
      <4> SUFFICES ASSUME (n + 1) + 1 <= N PROVE h[(n + 1) + 1] = f[(n + 1) + 1]
        OBVIOUS
      <4> DEFINE m == (n + 1) + 1
      <4>1. m \in 1..N /\ m # 1 /\ m - 1 = n + 1 /\ h[n + 1] = f[n + 1]
        BY <1>0, <3>2
      <4>2. h[m] = h[m - 1] \o seqs[m] /\ f[m] = f[m - 1] \o seqs[m]
        BY <2>4, <2>6, <4>1
      <4>3. QED BY <4>1, <4>2
    <3> HIDE DEF M
    <3>3. \A n \in Nat : n \in M => n + 1 \in M
      BY <3>2
    <3>4. Nat \subseteq M
      BY <3>1, <3>3, SetInduction, Zenon
    <3>5. N - 1 \in M /\ (N - 1) + 1 = N
      BY <1>0, <1>2, <3>4
    <3>6. QED BY <3>5 DEF M
  <2>9. QED BY <2>3, <2>4, <2>7, <2>8 DEF IsFlattening
<1>3. QED BY <1>1, <1>2

\* The elements of the first n parts.
Parts(seqs, n) == UNION {Range(seqs[k]) : k \in 1..n}

\* The first n lists have the elements of the first n parts.
LEMMA FlattenRange ==
  ASSUME NEW T, NEW seqs \in Seq(Seq(T)), NEW f, IsFlattening(f, seqs, T),
         NEW n \in 0..Len(seqs)
  PROVE  Range(f[n]) = Parts(seqs, n)
<1> DEFINE N == Len(seqs)
<1>0. N \in Nat /\ n \in Nat /\ n <= N /\ \A m \in 1..N : seqs[m] \in Seq(T)
  OBVIOUS
<1>1. /\ f \in [0..N -> Seq(T)] /\ f[0] = <<>>
      /\ \A m \in 1..N : f[m] = f[m - 1] \o seqs[m]
  BY DEF IsFlattening
<1> HIDE DEF N
<1> DEFINE M == {m \in Nat : m <= N => Range(f[m]) = Parts(seqs, m)}
<1>2. 0 \in M
  BY <1>0, <1>1 DEF Range, Parts
<1>3. ASSUME NEW m \in Nat, m \in M PROVE m + 1 \in M
  <2> SUFFICES ASSUME m + 1 <= N
               PROVE  Range(f[m + 1]) = Parts(seqs, m + 1)
    OBVIOUS
  <2>1. m + 1 \in 1..N /\ m \in 0..N /\ (m + 1) - 1 = m
    BY <1>0
  <2>2. /\ f[m] \in Seq(T) /\ seqs[m + 1] \in Seq(T)
        /\ f[m + 1] = f[m] \o seqs[m + 1]
    BY <1>0, <1>1, <2>1
  <2>3. Range(f[m]) = Parts(seqs, m)
    BY <1>3, <2>1
  <2>4. Range(f[m] \o seqs[m + 1]) = Range(f[m]) \cup Range(seqs[m + 1])
    BY <2>2, RangeConcatenation
  <2>5. Parts(seqs, m + 1) = Parts(seqs, m) \cup Range(seqs[m + 1])
    <3>1. \A k : k \in 1..(m + 1) <=> k \in 1..m \/ k = m + 1
      OBVIOUS
    <3>2. QED BY <3>1 DEF Parts
  <2>6. QED BY <2>2, <2>3, <2>4, <2>5
<1> HIDE DEF M
<1>4. \A m \in Nat : m \in M => m + 1 \in M
  BY <1>3
<1>5. Nat \subseteq M
  BY <1>2, <1>4, SetInduction, Zenon
<1>6. n \in M
  BY <1>0, <1>5
<1>7. QED BY <1>0, <1>6 DEF M

\* The list has the elements of its parts, and no others.
LEMMA FlattenOK ==
  ASSUME NEW T, NEW seqs \in Seq(Seq(T))
  PROVE  /\ FlattenSeq(seqs) \in Seq(T)
         /\ Range(FlattenSeq(seqs)) = Parts(seqs, Len(seqs))
<1>1. PICK f : IsFlattening(f, seqs, T)
  BY FlattenHistory
<1>2. DOMAIN seqs = 1..Len(seqs) /\ Len(seqs) \in 0..Len(seqs)
  OBVIOUS
<1>3. FlattenSeq(seqs) = f[Len(seqs)] /\ f[Len(seqs)] \in Seq(T)
  BY <1>1, <1>2 DEF IsFlattening
<1>4. QED BY <1>1, <1>2, <1>3, FlattenRange

\* Two lists without repetitions and without a common element.
LEMMA ConcatInjective ==
  ASSUME NEW T, NEW u \in Seq(T), NEW v \in Seq(T), IsInjective(u), IsInjective(v),
         \A x : ~(x \in Range(u) /\ x \in Range(v))
  PROVE  IsInjective(u \o v)
<1> DEFINE w == u \o v
<1>1. /\ w \in Seq(T) /\ DOMAIN w = 1..(Len(u) + Len(v)) /\ Len(u) \in Nat /\ Len(v) \in Nat
      /\ \A i \in 1..Len(u) : w[i] = u[i]
      /\ \A i \in DOMAIN w : i > Len(u) => i - Len(u) \in 1..Len(v) /\ w[i] = v[i - Len(u)]
  OBVIOUS
<1> HIDE DEF w
<1>2. \A i \in 1..Len(u) : u[i] \in Range(u)
  BY DEF Range
<1>3. \A i \in 1..Len(v) : v[i] \in Range(v)
  BY DEF Range
<1>4. ASSUME NEW i \in DOMAIN w, NEW j \in DOMAIN w, w[i] = w[j] PROVE i = j
  <2>1. CASE i <= Len(u) /\ j <= Len(u)
    BY <1>1, <1>4, <2>1 DEF IsInjective
  <2>2. CASE i > Len(u) /\ j > Len(u)
    <3>1. v[i - Len(u)] = v[j - Len(u)]
      BY <1>1, <1>4, <2>2
    <3>2. i - Len(u) = j - Len(u)
      BY <1>1, <2>2, <3>1 DEF IsInjective
    <3>3. QED BY <1>1, <3>2
  <2>3. CASE i <= Len(u) /\ j > Len(u)
    BY <1>1, <1>2, <1>3, <1>4, <2>3
  <2>4. CASE i > Len(u) /\ j <= Len(u)
    BY <1>1, <1>2, <1>3, <1>4, <2>4
  <2>5. QED BY <1>1, <2>1, <2>2, <2>3, <2>4
<1>5. QED BY <1>4 DEF IsInjective, w

\* Parts without repetitions and without common elements.
LEMMA FlattenInjective ==
  ASSUME NEW T, NEW seqs \in Seq(Seq(T)), \A n \in DOMAIN seqs : IsInjective(seqs[n]),
         \A m, n \in DOMAIN seqs : \A x : x \in Range(seqs[m]) /\ x \in Range(seqs[n]) => m = n
  PROVE  IsInjective(FlattenSeq(seqs))
<1> DEFINE N == Len(seqs)
<1>0. /\ N \in Nat /\ DOMAIN seqs = 1..N
      /\ \A m \in 1..N : seqs[m] \in Seq(T) /\ IsInjective(seqs[m])
  OBVIOUS
<1>1. PICK f : IsFlattening(f, seqs, T)
  BY FlattenHistory
<1>2. /\ f \in [0..N -> Seq(T)] /\ f[0] = <<>> /\ FlattenSeq(seqs) = f[N]
      /\ \A m \in 1..N : f[m] = f[m - 1] \o seqs[m]
  BY <1>1 DEF IsFlattening
<1> DEFINE S == {u \in Seq(T) : IsInjective(u)}
<1>3. f[0] \in S
  BY <1>2 DEF IsInjective
<1>4. ASSUME NEW n \in 1..N, f[n - 1] \in S PROVE f[n] \in S
  <2>1. n - 1 \in 0..N /\ \A k \in 1..(n - 1) : k \in 1..N /\ k # n
    BY <1>0
  <2>2. Range(f[n - 1]) = Parts(seqs, n - 1)
    BY <1>1, <2>1, FlattenRange
  <2>3. \A x : ~(x \in Range(f[n - 1]) /\ x \in Range(seqs[n]))
    BY <1>0, <2>1, <2>2 DEF Parts
  <2>4. IsInjective(f[n - 1] \o seqs[n])
    BY <1>0, <1>4, <2>3, ConcatInjective
  <2>5. f[n - 1] \o seqs[n] \in Seq(T)
    BY <1>0, <1>4
  <2>6. QED BY <1>2, <2>4, <2>5
<1> HIDE DEF S, N
<1>5. \A n \in 0..N : f[n] \in S
  BY <1>0, <1>3, <1>4, LoopStays
<1>6. QED BY <1>0, <1>2, <1>5 DEF S

\* The same, in terms of the parts.
LEMMA FlattenMembers ==
  ASSUME NEW T, NEW seqs \in Seq(Seq(T)), NEW x
  PROVE  x \in Range(FlattenSeq(seqs)) <=> \E n \in DOMAIN seqs : x \in Range(seqs[n])
<1>1. Range(FlattenSeq(seqs)) = Parts(seqs, Len(seqs)) /\ DOMAIN seqs = 1..Len(seqs)
  BY FlattenOK
<1>2. QED BY <1>1 DEF Parts

\* Of two elements of w the first one is from no later part than the second.
InOrder(w, seqs, N) ==
  \A j, k \in DOMAIN w : j < k =>
    \E m, n \in 1..N : m <= n /\ w[j] \in Range(seqs[m]) /\ w[k] \in Range(seqs[n])

LEMMA FlattenInOrder ==
  ASSUME NEW T, NEW seqs \in Seq(Seq(T))
  PROVE  InOrder(FlattenSeq(seqs), seqs, Len(seqs))
<1> DEFINE N == Len(seqs)
<1>0. N \in Nat /\ \A n \in 1..N : seqs[n] \in Seq(T)
  OBVIOUS
<1>1. PICK f : IsFlattening(f, seqs, T)
  BY FlattenHistory
<1>2. /\ f \in [0..N -> Seq(T)] /\ f[0] = <<>> /\ FlattenSeq(seqs) = f[N]
      /\ \A n \in 1..N : f[n] = f[n - 1] \o seqs[n]
  BY <1>1 DEF IsFlattening
<1>3. \A n \in 0..N : Range(f[n]) = Parts(seqs, n)
  BY <1>1, FlattenRange
<1> HIDE DEF N
<1> DEFINE M == {n \in Nat : n <= N => InOrder(f[n], seqs, n)}
<1>4. 0 \in M
  BY <1>2 DEF InOrder
<1>5. ASSUME NEW n \in Nat, n \in M PROVE n + 1 \in M
  <2> SUFFICES ASSUME n + 1 <= N PROVE InOrder(f[n + 1], seqs, n + 1)
    OBVIOUS
  <2> DEFINE u == f[n]
             v == seqs[n + 1]
             w == f[n + 1]
  <2>1. n \in 0..N /\ n + 1 \in 1..N /\ (n + 1) - 1 = n
    BY <1>0
  <2>2. u \in Seq(T) /\ v \in Seq(T) /\ w = u \o v /\ Range(u) = Parts(seqs, n)
    BY <1>0, <1>2, <1>3, <2>1
  <2>3. InOrder(u, seqs, n)
    BY <1>5, <2>1
  <2> HIDE DEF u, v, w
  <2>4. /\ Len(u) \in Nat /\ Len(v) \in Nat /\ DOMAIN u = 1..Len(u) /\ DOMAIN v = 1..Len(v)
        /\ DOMAIN w = 1..(Len(u) + Len(v))
        /\ \A k \in 1..Len(u) : w[k] = u[k]
        /\ \A k \in DOMAIN w : k > Len(u) => k - Len(u) \in 1..Len(v) /\ w[k] = v[k - Len(u)]
    BY <2>2
  <2>5. \A k \in DOMAIN w : k > Len(u) => w[k] \in Range(seqs[n + 1])
    BY <2>4 DEF Range, v
  <2>6. ASSUME NEW k \in DOMAIN w, k <= Len(u) PROVE \E m \in 1..n : w[k] \in Range(seqs[m])
    <3>1. k \in DOMAIN u /\ w[k] = u[k]
      BY <2>4, <2>6
    <3>2. w[k] \in Range(u)
      BY <3>1 DEF Range
    <3>3. QED BY <2>2, <3>2 DEF Parts
  <2>7. ASSUME NEW j \in DOMAIN w, NEW k \in DOMAIN w, j < k
        PROVE  \E a, b \in 1..(n + 1) :
                 a <= b /\ w[j] \in Range(seqs[a]) /\ w[k] \in Range(seqs[b])
    <3>1. CASE k <= Len(u)
      <4>1. j \in DOMAIN u /\ k \in DOMAIN u /\ w[j] = u[j] /\ w[k] = u[k]
        BY <2>4, <2>7, <3>1
      <4>2. PICK a, b \in 1..n : a <= b /\ u[j] \in Range(seqs[a]) /\ u[k] \in Range(seqs[b])
        BY <2>3, <2>7, <4>1 DEF InOrder
      <4>3. a \in 1..(n + 1) /\ b \in 1..(n + 1)
        OBVIOUS
      <4>4. QED BY <4>1, <4>2, <4>3
    <3>2. CASE k > Len(u) /\ j <= Len(u)
      <4>1. PICK a \in 1..n : w[j] \in Range(seqs[a])
        BY <2>6, <3>2
      <4>2. w[k] \in Range(seqs[n + 1])
        BY <2>5, <3>2
      <4>3. a \in 1..(n + 1) /\ n + 1 \in 1..(n + 1) /\ a <= n + 1
        OBVIOUS
      <4>4. QED BY <4>1, <4>2, <4>3
    <3>3. CASE j > Len(u)
      <4>1. w[j] \in Range(seqs[n + 1]) /\ w[k] \in Range(seqs[n + 1])
        BY <2>4, <2>5, <2>7, <3>3
      <4>2. n + 1 \in 1..(n + 1) /\ n + 1 <= n + 1
        OBVIOUS
      <4>3. QED BY <4>1, <4>2
    <3>4. j \in Nat /\ k \in Nat
      BY <2>4
    <3>5. QED BY <2>4, <3>1, <3>2, <3>3, <3>4
  <2>8. QED BY <2>7 DEF InOrder, w
<1> HIDE DEF M
<1>6. \A n \in Nat : n \in M => n + 1 \in M
  BY <1>5
<1>7. Nat \subseteq M
  BY <1>4, <1>6, SetInduction, Zenon
<1>8. N \in M
  BY <1>0, <1>7
<1>9. QED BY <1>0, <1>2, <1>8 DEF M, N

\* A list with one element or none.
LEMMA Singleton ==
  ASSUME NEW x
  PROVE  Range(<<x>>) = {x} /\ IsInjective(<<x>>)
<1>1. DOMAIN <<x>> = {1} /\ <<x>>[1] = x
  OBVIOUS
<1>2. QED BY <1>1 DEF Range, IsInjective

LEMMA NoElement == Range(<<>>) = {} /\ IsInjective(<<>>)
BY DEF Range, IsInjective

-----------------------------------------------------------------------------
(***************************************************************************)
(* The lists of devices.                                                   *)
(***************************************************************************)
LEMMA ThoseOK ==
  ASSUME NEW T, NEW s \in Seq(T), NEW S
  PROVE  Those(s, S) \in Seq(T) /\ Range(Those(s, S)) = Range(s) \cap S
<1> DEFINE part == [n \in DOMAIN s |-> IF s[n] \in S THEN <<s[n]>> ELSE <<>>]
<1>0. /\ DOMAIN s = 1..Len(s) /\ Len(s) \in Nat
      /\ \A n \in DOMAIN s : (IF s[n] \in S THEN <<s[n]>> ELSE <<>>) \in Seq(T)
  <2>1. ASSUME NEW n \in DOMAIN s PROVE <<s[n]>> \in Seq(T) /\ <<>> \in Seq(T)
    OBVIOUS
  <2>2. QED BY <2>1
<1>1. /\ part \in Seq(Seq(T)) /\ DOMAIN part = DOMAIN s
      /\ \A n \in DOMAIN s : part[n] = IF s[n] \in S THEN <<s[n]>> ELSE <<>>
  <2>1. \A n \in 1..Len(s) : part[n] \in Seq(T)
    BY <1>0
  <2>2. part = [n \in 1..Len(s) |-> part[n]]
    BY <1>0
  <2>3. QED BY <1>0, <2>1, <2>2
<1> HIDE DEF part
<1>2. FlattenSeq(part) \in Seq(T)
  BY <1>1, FlattenOK
<1>3. ASSUME NEW n \in DOMAIN s
      PROVE  Range(part[n]) = IF s[n] \in S THEN {s[n]} ELSE {}
  BY <1>1, Singleton, NoElement
<1>4. ASSUME NEW x PROVE x \in Range(FlattenSeq(part)) <=> x \in Range(s) \cap S
  <2>1. x \in Range(FlattenSeq(part)) <=> \E n \in DOMAIN part : x \in Range(part[n])
    BY <1>1, FlattenMembers
  <2>2. x \in Range(s) \cap S <=> \E n \in DOMAIN s : x = s[n] /\ s[n] \in S
    BY DEF Range
  <2>3. (\E n \in DOMAIN part : x \in Range(part[n])) <=> \E n \in DOMAIN s : x = s[n] /\ s[n] \in S
    BY <1>1, <1>3
  <2>4. QED BY <2>1, <2>2, <2>3
<1>5. QED BY <1>2, <1>4 DEF Those, part

\* get_active_devices() lists each name that the kernel has for an interface that
\* is up or for one of its addresses, once, however many entries bear it.
THEOREM ActiveOnce ==
  ASSUME NEW T, NEW ifaddrs \in Seq(T)
  PROVE  /\ ActiveDevices(ifaddrs) \in Seq({ifa.name : ifa \in T})
         /\ \A x : x \in Range(ActiveDevices(ifaddrs)) <=>
              \E n \in DOMAIN ifaddrs : ifaddrs[n].name = x /\ Has(ifaddrs[n].flags, "IFF_UP")
         /\ IsInjective(ActiveDevices(ifaddrs))
<1> DEFINE U == {ifa.name : ifa \in T}
           part == [n \in DOMAIN ifaddrs |-> ListActive(ifaddrs, n)]
           Up(n) == Has(ifaddrs[n].flags, "IFF_UP")
<1>0. Len(ifaddrs) \in Nat /\ DOMAIN ifaddrs = 1..Len(ifaddrs) /\ \A n \in DOMAIN ifaddrs : ifaddrs[n] \in T
  OBVIOUS
<1>1. ASSUME NEW n \in DOMAIN ifaddrs PROVE ListActive(ifaddrs, n) \in Seq(U)
  <2>1. ifaddrs[n].name \in U
    BY <1>0
  <2> HIDE DEF U
  <2>2. <<ifaddrs[n].name>> \in Seq(U) /\ <<>> \in Seq(U)
    BY <2>1
  <2>3. QED BY <2>2 DEF ListActive
<1>2. part \in Seq(Seq(U)) /\ DOMAIN part = DOMAIN ifaddrs
  BY <1>0, <1>1
<1>3. \A n \in DOMAIN ifaddrs : part[n] = ListActive(ifaddrs, n)
  OBVIOUS
<1> HIDE DEF part
<1>4. ASSUME NEW n \in DOMAIN ifaddrs
      PROVE  /\ Range(part[n]) = IF ~InList(ifaddrs, n) /\ Up(n) THEN {ifaddrs[n].name} ELSE {}
             /\ IsInjective(part[n])
  BY <1>3, Singleton, NoElement DEF ListActive
<1>5. FlattenSeq(part) \in Seq(U)
  <2> HIDE DEF U
  <2>1. QED BY <1>2, FlattenOK
<1>6. ASSUME NEW x
      PROVE  x \in Range(FlattenSeq(part)) <=>
               \E n \in DOMAIN ifaddrs : ifaddrs[n].name = x /\ Up(n)
  <2>1. x \in Range(FlattenSeq(part)) <=> \E n \in DOMAIN part : x \in Range(part[n])
    <3> HIDE DEF U
    <3>1. QED BY <1>2, FlattenMembers
  <2>2. ASSUME NEW n \in DOMAIN part, x \in Range(part[n])
        PROVE  ifaddrs[n].name = x /\ Up(n)
    <3> HIDE DEF Up
    <3>1. QED BY <1>2, <1>4, <2>2
  <2>3. ASSUME NEW n \in DOMAIN ifaddrs, ifaddrs[n].name = x, Up(n)
        PROVE  \E m \in DOMAIN part : x \in Range(part[m])
    <3> DEFINE S == {k \in DOMAIN ifaddrs : ifaddrs[k].name = x /\ Up(k)}
    <3>1. S \subseteq Nat /\ S # {}
      BY <1>0, <2>3
    <3>2. PICK m \in S : \A y \in S : m <= y
      <4> HIDE DEF S
      <4>1. QED BY <3>1, LeastElement
    <3>3. ~InList(ifaddrs, m)
      <4> SUFFICES ASSUME NEW j \in 1..(m - 1), ifaddrs[j].name = ifaddrs[m].name, Up(j)
                   PROVE  FALSE
        BY DEF InList
      <4> HIDE DEF Up
      <4>1. m \in 1..Len(ifaddrs) /\ j \in DOMAIN ifaddrs /\ j < m
        BY <1>0, <3>2
      <4>2. j \in S
        BY <3>2, <4>1
      <4>3. QED BY <1>0, <3>2, <4>1, <4>2
    <3> HIDE DEF Up
    <3>4. QED BY <1>2, <1>4, <3>2, <3>3
  <2> HIDE DEF Up
  <2>4. QED BY <1>2, <2>1, <2>2, <2>3
<1>7. IsInjective(FlattenSeq(part))
  <2>1. ASSUME NEW m \in DOMAIN part, NEW n \in DOMAIN part, m < n, NEW x,
               x \in Range(part[m]), x \in Range(part[n])
        PROVE  FALSE
    <3> DEFINE a == Up(m)
    <3>1. /\ Up(m) /\ ifaddrs[m].name = x
          /\ ~InList(ifaddrs, n) /\ ifaddrs[n].name = x
      <4> HIDE DEF Up
      <4>1. QED BY <1>2, <1>4, <2>1
    <3>2. m \in 1..(n - 1)
      BY <1>0, <1>2, <2>1
    <3>3. QED BY <3>1, <3>2 DEF InList
  <2>2. \A m, n \in DOMAIN part : \A x : x \in Range(part[m]) /\ x \in Range(part[n]) => m = n
    <3>1. \A m, n \in DOMAIN part : m = n \/ m < n \/ n < m
      BY <1>0, <1>2
    <3>2. QED BY <2>1, <3>1
  <2>3. \A n \in DOMAIN part : IsInjective(part[n])
    BY <1>2, <1>4
  <2> HIDE DEF U
  <2>4. QED BY <1>2, <2>2, <2>3, FlattenInjective
<1>8. QED BY <1>5, <1>6, <1>7 DEF ActiveDevices, part

\* get_active_devices() lists the names in the order in which they come up.
LEMMA ActiveInOrder ==
  ASSUME NEW T, NEW ifaddrs \in Seq(T), NEW j \in DOMAIN ActiveDevices(ifaddrs),
         NEW k \in DOMAIN ActiveDevices(ifaddrs), j < k
  PROVE  \E m, n \in DOMAIN ifaddrs :
           /\ m <= n /\ ifaddrs[m].name = ActiveDevices(ifaddrs)[j]
           /\ ifaddrs[n].name = ActiveDevices(ifaddrs)[k]
           /\ ~InList(ifaddrs, n) /\ Has(ifaddrs[n].flags, "IFF_UP")
<1> DEFINE U == {ifa.name : ifa \in T}
           part == [n \in DOMAIN ifaddrs |-> ListActive(ifaddrs, n)]
           act == ActiveDevices(ifaddrs)
<1>0. Len(ifaddrs) \in Nat /\ DOMAIN ifaddrs = 1..Len(ifaddrs) /\ \A n \in DOMAIN ifaddrs : ifaddrs[n] \in T
  OBVIOUS
<1>1. ASSUME NEW n \in DOMAIN ifaddrs PROVE ListActive(ifaddrs, n) \in Seq(U)
  <2>1. ifaddrs[n].name \in U
    BY <1>0
  <2> HIDE DEF U
  <2>2. <<ifaddrs[n].name>> \in Seq(U) /\ <<>> \in Seq(U)
    BY <2>1
  <2>3. QED BY <2>2 DEF ListActive
<1>2. part \in Seq(Seq(U)) /\ Len(part) = Len(ifaddrs)
  BY <1>0, <1>1
<1>3. ASSUME NEW n \in DOMAIN ifaddrs, NEW x \in Range(part[n])
      PROVE  /\ ifaddrs[n].name = x
             /\ ~InList(ifaddrs, n) /\ Has(ifaddrs[n].flags, "IFF_UP")
  <2>1. x \in Range(ListActive(ifaddrs, n))
    BY <1>3
  <2>2. QED BY <2>1, Singleton, NoElement DEF ListActive
<1>4. act = FlattenSeq(part)
  BY DEF ActiveDevices
<1> HIDE DEF part, U
<1>5. InOrder(act, part, Len(ifaddrs))
  BY <1>2, <1>4, FlattenInOrder
<1>6. PICK m, n \in 1..Len(ifaddrs) :
        m <= n /\ act[j] \in Range(part[m]) /\ act[k] \in Range(part[n])
  BY <1>5 DEF InOrder
<1>7. QED BY <1>0, <1>3, <1>6

\* get_devices() lists the names of all lines, and at most one thing that is
\* no name: what a line too long for the buffer holds beyond it.
THEOREM AllListed ==
  ASSUME NEW T, NEW lines \in Seq(T)
  PROVE  /\ GetDevices(lines) \in Seq({line.name : line \in T} \cup {Rest})
         /\ \A n \in DOMAIN lines : lines[n].name \in Range(GetDevices(lines))
         /\ \A x \in Range(GetDevices(lines)) :
              x = Rest \/ \E n \in DOMAIN lines : x = lines[n].name
<1> DEFINE U == {line.name : line \in T} \cup {Rest}
           part == [n \in DOMAIN lines |->
             IF lines[n].long THEN <<lines[n].name, Rest>> ELSE <<lines[n].name>>]
<1>1. DOMAIN lines = 1..Len(lines) /\ \A n \in DOMAIN lines : lines[n].name \in U
  OBVIOUS
<1>2. /\ part \in Seq(Seq(U)) /\ DOMAIN part = DOMAIN lines
      /\ \A n \in DOMAIN lines : part[n] =
           IF lines[n].long THEN <<lines[n].name, Rest>> ELSE <<lines[n].name>>
  <2> HIDE DEF U
  <2>1. Rest \in U
    BY DEF U
  <2>2. QED BY <1>1, <2>1
<1> HIDE DEF part
<1>3. FlattenSeq(part) \in Seq(U)
  <2> HIDE DEF U
  <2>1. QED BY <1>2, FlattenOK
<1>4. ASSUME NEW n \in DOMAIN lines
      PROVE  lines[n].name \in Range(part[n]) /\ Range(part[n]) \subseteq {lines[n].name, Rest}
  <2>1. CASE lines[n].long
    <3>1. part[n] = <<lines[n].name, Rest>>
      BY <1>2, <2>1
    <3>2. /\ DOMAIN part[n] = {1, 2} /\ part[n][1] = lines[n].name
          /\ part[n][2] = Rest
      BY <3>1
    <3>3. QED BY <3>2 DEF Range
  <2>2. CASE ~lines[n].long
    BY <1>2, <2>2, Singleton
  <2>3. QED BY <2>1, <2>2
<1>5. ASSUME NEW x
      PROVE  x \in Range(FlattenSeq(part)) <=> \E n \in DOMAIN part : x \in Range(part[n])
  <2> HIDE DEF U
  <2>1. QED BY <1>2, FlattenMembers
<1>6. \A n \in DOMAIN lines : lines[n].name \in Range(FlattenSeq(part))
  BY <1>2, <1>4, <1>5
<1>7. ASSUME NEW x \in Range(FlattenSeq(part))
      PROVE  x = Rest \/ \E n \in DOMAIN lines : x = lines[n].name
  BY <1>2, <1>4, <1>5
<1>8. GetDevices(lines) = FlattenSeq(part)
  BY DEF GetDevices, part
<1>9. QED BY <1>3, <1>6, <1>7, <1>8

=============================================================================
