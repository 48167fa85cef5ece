-------------------------- MODULE BloomFilter_proofs --------------------------
(***************************************************************************)
(* The partition sort is correct for every batch that prtn_ranges can      *)
(* count, a probe selects the rows that pass in order, and the parallel    *)
(* builder loses no hash, for any number of workers, of partitions and of  *)
(* blocks.                                                                 *)
(***************************************************************************)
EXTENDS BloomFilter, FiniteSetTheorems, SequenceTheorems, WellFoundedInduction, TLAPS

-----------------------------------------------------------------------------
(* Induction *)

\* Induction over the naturals, for a set instead of a predicate.
LEMMA SetInduction ==
  ASSUME NEW T \in SUBSET Nat, 0 \in T, \A n \in T : n + 1 \in T
  PROVE  T = Nat
<1> SUFFICES ASSUME Nat \ T # {} PROVE FALSE
  OBVIOUS
<1> DEFINE R == OpToRel(<, Nat)
           C == Nat \ T
<1>1. IsWellFoundedOn(R, Nat)
  BY NatLessThanWellFounded
<1>2. \A x, y \in Nat : y < x => <<y, x>> \in R
  BY DEF OpToRel
<1>3. C \subseteq Nat /\ C # {}
  OBVIOUS
<1> HIDE DEF R, C
<1>4. PICK x \in C : \A y \in C : ~(<<y, x>> \in R)
  BY <1>1, <1>3, WFMin
<1>5. x \in Nat /\ x # 0 /\ x - 1 \in Nat /\ x - 1 < x
  BY <1>3 DEF C
<1>6. x - 1 \in T
  BY <1>2, <1>4, <1>5 DEF C
<1> QED
  BY <1>5, <1>6 DEF C

\* The same up to a bound.
LEMMA BoundedInduction ==
  ASSUME NEW N \in Nat, NEW T, 0 \in T, \A n \in 1..N : n - 1 \in T => n \in T
  PROVE  0..N \subseteq T
<1> DEFINE U == {n \in Nat : n <= N => n \in T}
<1>1. 0 \in U
  OBVIOUS
<1>2. ASSUME NEW n \in U
      PROVE  n + 1 \in U
  <2>1. CASE n + 1 <= N
    <3>1. n + 1 \in 1..N /\ (n + 1) - 1 = n /\ n \in T
      BY <2>1
    <3> QED
      BY <3>1
  <2> QED
    BY <2>1
<1>3. U \subseteq Nat
  OBVIOUS
<1> HIDE DEF U
<1>4. U = Nat
  BY <1>1, <1>2, <1>3, SetInduction
<1> QED
  BY <1>4 DEF U

\* What a loop on values of V has computed after each of its N rounds.
IsLoop(N, V, a, F, f) == /\ f \in [0..N -> V] /\ f[0] = a
                         /\ \A n \in 1..N : f[n] = F[n][f[n - 1]]

\* A loop computes something: the function that records its rounds exists.
LEMMA LoopExists ==
  ASSUME NEW N \in Nat, NEW V, NEW a \in V, NEW F \in [1..N -> [V -> V]]
  PROVE  \E f : IsLoop(N, V, a, F, f)
<1> DEFINE Upto(m, f) == IsLoop(m, V, a, F, f)
           T == {m \in Nat : \E f : Upto(m, f)}
<1>1. 0 \in T
  <2> DEFINE f == [i \in 0..0 |-> a]
  <2>1. Upto(0, f)
    BY DEF IsLoop
  <2> QED
    BY <2>1
<1>2. ASSUME NEW m \in 1..N, m - 1 \in T
      PROVE  m \in T
  <2>1. PICK f : Upto(m - 1, f)
    BY <1>2
  <2> DEFINE g == [i \in 0..m |-> IF i = m THEN F[m][f[m - 1]] ELSE f[i]]
  <2>2. f[m - 1] \in V /\ F[m][f[m - 1]] \in V
    BY <2>1 DEF IsLoop
  <2>3. g \in [0..m -> V] /\ g[0] = a
    BY <2>1, <2>2 DEF IsLoop
  <2>4. ASSUME NEW n \in 1..m
        PROVE  g[n] = F[n][g[n - 1]]
    <3>1. g[n - 1] = f[n - 1]
      OBVIOUS
    <3>2. CASE n = m
      BY <3>1, <3>2
    <3>3. CASE n # m
      <4>1. n \in 1..(m - 1) /\ g[n] = f[n]
        BY <3>3
      <4> QED
        BY <2>1, <3>1, <4>1 DEF IsLoop
    <3> QED
      BY <3>2, <3>3
  <2>5. Upto(m, g)
    BY <2>3, <2>4 DEF IsLoop
  <2>6. m \in Nat
    OBVIOUS
  <2> HIDE DEF g, Upto
  <2> QED
    BY <2>5, <2>6
<1> HIDE DEF T
<1>3. 0..N \subseteq T
  BY <1>1, <1>2, BoundedInduction
<1> QED
  BY <1>3 DEF T

-----------------------------------------------------------------------------
(* The loops of PartitionSort *)

\* The rows of a batch and their partitions, as many as prtn_ranges can count.
Sortable(id, P) == /\ P \in Nat \ {0} /\ Len(id) \in Nat /\ Len(id) < 2^Width
                   /\ id \in [1..Len(id) -> 0..(P - 1)]

\* Nothing wraps up to the number of rows.
LEMMA NoWrap ==
  ASSUME NEW N \in Nat, N < 2^Width
  PROVE  /\ \A x \in 0..N : Wrapped(x) = x
         /\ \A x \in Int : Wrapped(x) \in Int
<1> DEFINE w == 2^Width
<1>1. w \in Int /\ N < w
  BY PartitionSortAssumption
<1> HIDE DEF w
<1>2. \A x \in 0..N : x % w = x
  BY <1>1
<1>3. \A x \in Int : x % w \in Int
  BY <1>1
<1> QED
  BY <1>2, <1>3 DEF Wrapped, w

\* The first loop, round by round.
CountsRows(C, id, P) ==
  /\ C \in [0..Len(id) -> [0..P -> Int]]
  /\ C[0] = [p \in 0..P |-> 0]
  /\ \A n \in 1..Len(id) : C[n] = [C[n - 1] EXCEPT ![id[n] + 1] = Wrapped(@ + 1)]

\* Counted is that loop.
LEMMA CountedLoop ==
  ASSUME NEW P, NEW id, Sortable(id, P)
  PROVE  CountsRows(Counted(id, P), id, P)
<1> DEFINE N == Len(id)
           V == [0..P -> Int]
           a == [p \in 0..P |-> 0]
           Step(n, v) == [v EXCEPT ![id[n] + 1] = Wrapped(@ + 1)]
           F == [n \in 1..N |-> [v \in V |-> Step(n, v)]]
           Loop(f) == f = [n \in 0..N |-> IF n = 0 THEN a ELSE Step(n, f[n - 1])]
<1>1. N \in Nat /\ P \in Nat /\ \A n \in 1..N : id[n] + 1 \in 0..P
  <2>1. P \in Nat \ {0} /\ N \in Nat /\ id \in [1..N -> 0..(P - 1)]
    BY DEF Sortable
  <2>2. \A x \in 0..(P - 1) : x + 1 \in 0..P
    BY <2>1
  <2>3. \A n \in 1..N : id[n] \in 0..(P - 1)
    BY <2>1, Zenon
  <2> QED
    BY <2>1, <2>2, <2>3
<1>2. a \in V
  OBVIOUS
<1>3. ASSUME NEW n \in 1..N, NEW v \in V
      PROVE  Step(n, v) \in V
  <2>1. v[id[n] + 1] + 1 \in Int
    BY <1>1
  <2>2. N < 2^Width
    BY DEF Sortable
  <2>3. Wrapped(v[id[n] + 1] + 1) \in Int
    BY <1>1, <2>1, <2>2, NoWrap
  <2> QED
    BY <2>3
<1>4. F \in [1..N -> [V -> V]]
  BY <1>3
<1> HIDE DEF V, a, N, Step
<1>5. \A n \in 1..N : \A v \in V : F[n][v] = Step(n, v)
  OBVIOUS
<1> HIDE DEF F
<1>6. PICK f : IsLoop(N, V, a, F, f)
  BY <1>1, <1>2, <1>4, LoopExists
<1>7. Loop(f)
  <2>1. \A n \in 1..N : f[n - 1] \in V
    BY <1>1, <1>6 DEF IsLoop
  <2>2. \A n \in 1..N : f[n] = Step(n, f[n - 1])
    BY <1>5, <1>6, <2>1 DEF IsLoop
  <2> QED
    BY <1>6, <2>2 DEF IsLoop
<1>8. Loop(Counted(id, P))
  <2>1. Counted(id, P) = CHOOSE g : Loop(g)
    BY DEF Counted, Step, a, N
  <2> QED
    BY <1>7, <2>1
<1> DEFINE g == Counted(id, P)
           T == {n \in 0..N : g[n] \in V}
<1>9. g = [n \in 0..N |-> IF n = 0 THEN a ELSE Step(n, g[n - 1])]
  BY <1>8
<1> HIDE DEF g
<1>10. g[0] = a /\ \A n \in 1..N : g[n] = Step(n, g[n - 1])
  BY <1>1, <1>9
<1>11. 0..N \subseteq T
  <2>1. 0 \in T
    BY <1>1, <1>2, <1>10
  <2>2. \A n \in 1..N : n - 1 \in T => n \in T
    BY <1>1, <1>3, <1>10
  <2> HIDE DEF T
  <2> QED
    BY <1>1, <2>1, <2>2, BoundedInduction
<1>12. g \in [0..N -> V]
  <2>1. \A n \in 0..N : g[n] \in V
    BY <1>11
  <2> QED
    BY <1>9, <2>1
<1> QED
  BY <1>10, <1>12 DEF CountsRows, g, V, a, N, Step

\* The second loop, round by round.
LEMMA SumsLoop ==
  ASSUME NEW P \in Nat, NEW counts \in [0..P -> Int], NEW M \in Nat, M < 2^Width
  PROVE  /\ Sums(counts, P) \in [0..P -> Int]
         /\ Sums(counts, P)[0] = 0
         /\ \A i \in 1..P : Sums(counts, P)[i] = Wrapped(Sums(counts, P)[i - 1] + counts[i])
<1> DEFINE N == P
           V == Int
           a == 0
           Step(n, v) == Wrapped(v + counts[n])
           F == [n \in 1..N |-> [v \in V |-> Step(n, v)]]
           Loop(f) == f = [n \in 0..N |-> IF n = 0 THEN a ELSE Step(n, f[n - 1])]
<1>1. N \in Nat
  OBVIOUS
<1>2. a \in V
  OBVIOUS
<1>3. ASSUME NEW n \in 1..N, NEW v \in V
      PROVE  Step(n, v) \in V
  <2>1. v + counts[n] \in Int
    OBVIOUS
  <2> QED
    BY <2>1, NoWrap
<1>4. F \in [1..N -> [V -> V]]
  BY <1>3
<1> HIDE DEF V, a, N, Step
<1>5. \A n \in 1..N : \A v \in V : F[n][v] = Step(n, v)
  OBVIOUS
<1> HIDE DEF F
<1>6. PICK f : IsLoop(N, V, a, F, f)
  BY <1>1, <1>2, <1>4, LoopExists
<1>7. Loop(f)
  <2>1. \A n \in 1..N : f[n - 1] \in V
    BY <1>1, <1>6 DEF IsLoop
  <2>2. \A n \in 1..N : f[n] = Step(n, f[n - 1])
    BY <1>5, <1>6, <2>1 DEF IsLoop
  <2> QED
    BY <1>6, <2>2 DEF IsLoop
<1> DEFINE g == Sums(counts, P)
           T == {n \in 0..N : g[n] \in V}
<1>8. Loop(g)
  <2>1. g = CHOOSE h : Loop(h)
    BY DEF Sums, Step, a, N
  <2> QED
    BY <1>7, <2>1
<1>9. g = [n \in 0..N |-> IF n = 0 THEN a ELSE Step(n, g[n - 1])]
  BY <1>8
<1> HIDE DEF g
<1>10. g[0] = a /\ \A n \in 1..N : g[n] = Step(n, g[n - 1])
  BY <1>1, <1>9
<1>11. 0..N \subseteq T
  <2>1. 0 \in T
    BY <1>1, <1>2, <1>10
  <2>2. \A n \in 1..N : n - 1 \in T => n \in T
    BY <1>1, <1>3, <1>10
  <2> HIDE DEF T
  <2> QED
    BY <1>1, <2>1, <2>2, BoundedInduction
<1>12. g \in [0..N -> V]
  <2>1. \A n \in 0..N : g[n] \in V
    BY <1>11
  <2> QED
    BY <1>9, <2>1
<1> QED
  BY <1>10, <1>12 DEF g, V, a, N, Step

\* The third loop, round by round.
PlaceRow(s, id, n) ==
  LET i == s.ranges[id[n] + 1] + 1
  IN  [ranges |-> [s.ranges EXCEPT ![id[n] + 1] = Wrapped(@ + 1)],
       out |-> [j \in DOMAIN s.out \cup {i} |-> IF j = i THEN n ELSE s.out[j]]]

\* Placed is that loop.
LEMMA PlacedLoop ==
  ASSUME NEW P, NEW id, Sortable(id, P), NEW starts \in [0..P -> Int]
  PROVE  /\ Placed(id, starts)[0] = [ranges |-> starts, out |-> <<>>]
         /\ \A n \in 1..Len(id) : Placed(id, starts)[n] = PlaceRow(Placed(id, starts)[n - 1], id, n)
<1> DEFINE N == Len(id)
           V == [ranges : [0..P -> Int], out : UNION {[D -> Int] : D \in SUBSET Int}]
           a == [ranges |-> starts, out |-> <<>>]
           Step(n, v) == PlaceRow(v, id, n)
           F == [n \in 1..N |-> [v \in V |-> Step(n, v)]]
           Loop(f) == f = [n \in 0..N |-> IF n = 0 THEN a ELSE Step(n, f[n - 1])]
<1>1. N \in Nat /\ P \in Nat /\ \A n \in 1..N : id[n] + 1 \in 0..P
  <2>1. P \in Nat \ {0} /\ N \in Nat /\ id \in [1..N -> 0..(P - 1)]
    BY DEF Sortable
  <2>2. \A x \in 0..(P - 1) : x + 1 \in 0..P
    BY <2>1
  <2>3. \A n \in 1..N : id[n] \in 0..(P - 1)
    BY <2>1, Zenon
  <2> QED
    BY <2>1, <2>2, <2>3
<1>2. a \in V
  <2>1. <<>> \in [{} -> Int] /\ {} \in SUBSET Int
    OBVIOUS
  <2> QED
    BY <2>1
<1>3. ASSUME NEW n \in 1..N, NEW v \in V
      PROVE  Step(n, v) \in V
  <2> DEFINE p == id[n] + 1
             i == v.ranges[p] + 1
             r == [v.ranges EXCEPT ![p] = Wrapped(@ + 1)]
             o == [j \in DOMAIN v.out \cup {i} |-> IF j = i THEN n ELSE v.out[j]]
  <2>1. p \in 0..P /\ v.ranges \in [0..P -> Int] /\ i \in Int
    BY <1>1
  <2>2. PICK D \in SUBSET Int : v.out \in [D -> Int]
    OBVIOUS
  <2>3. N < 2^Width
    BY DEF Sortable
  <2>4. Wrapped(v.ranges[p] + 1) \in Int
    BY <1>1, <2>1, <2>3, NoWrap
  <2>5. r \in [0..P -> Int]
    BY <2>1, <2>4
  <2> HIDE DEF p, i
  <2>6. o \in [D \cup {i} -> Int] /\ D \cup {i} \in SUBSET Int
    BY <2>1, <2>2
  <2>7. o \in UNION {[E -> Int] : E \in SUBSET Int}
    BY <2>6
  <2>8. Step(n, v) = [ranges |-> r, out |-> o]
    BY DEF PlaceRow, p, i
  <2> HIDE DEF r, o
  <2> QED
    BY <2>5, <2>7, <2>8
<1>4. F \in [1..N -> [V -> V]]
  BY <1>3
<1> HIDE DEF V, a, N, Step
<1>5. \A n \in 1..N : \A v \in V : F[n][v] = Step(n, v)
  OBVIOUS
<1> HIDE DEF F
<1>6. PICK f : IsLoop(N, V, a, F, f)
  BY <1>1, <1>2, <1>4, LoopExists
<1>7. Loop(f)
  <2>1. \A n \in 1..N : f[n - 1] \in V
    BY <1>1, <1>6 DEF IsLoop
  <2>2. \A n \in 1..N : f[n] = Step(n, f[n - 1])
    BY <1>5, <1>6, <2>1 DEF IsLoop
  <2> QED
    BY <1>6, <2>2 DEF IsLoop
<1> DEFINE g == Placed(id, starts)
<1>8. Loop(g)
  <2>1. g = CHOOSE h : Loop(h)
    BY DEF Placed, PlaceRow, Step, a, N
  <2> QED
    BY <1>7, <2>1
<1>9. g = [n \in 0..N |-> IF n = 0 THEN a ELSE Step(n, g[n - 1])]
  BY <1>8
<1> HIDE DEF g
<1>10. g[0] = a /\ \A n \in 1..N : g[n] = Step(n, g[n - 1])
  BY <1>1, <1>9
<1> QED
  BY <1>10 DEF g, a, N, Step

\* The loop that lists what it meets.
LEMMA AscendingLoop ==
  ASSUME NEW S, NEW to \in Nat, NEW met, met = Listing(S, to)
  PROVE  /\ met \in [0..to -> Seq(Int)]
         /\ met[0] = <<>>
         /\ \A n \in 1..to : met[n] = IF n - 1 \in S THEN Append(met[n - 1], n - 1) ELSE met[n - 1]
<1> DEFINE N == to
           V == Seq(Int)
           a == <<>>
           Step(n, v) == IF n - 1 \in S THEN Append(v, n - 1) ELSE v
           F == [n \in 1..N |-> [v \in V |-> Step(n, v)]]
           Loop(f) == f = [n \in 0..N |-> IF n = 0 THEN a ELSE Step(n, f[n - 1])]
<1>1. N \in Nat
  OBVIOUS
<1>2. a \in V
  OBVIOUS
<1>3. ASSUME NEW n \in 1..N, NEW v \in V
      PROVE  Step(n, v) \in V
  OBVIOUS
<1>4. F \in [1..N -> [V -> V]]
  BY <1>3
<1> HIDE DEF V, a, N, Step
<1>5. \A n \in 1..N : \A v \in V : F[n][v] = Step(n, v)
  OBVIOUS
<1> HIDE DEF F
<1>6. PICK f : IsLoop(N, V, a, F, f)
  BY <1>1, <1>2, <1>4, LoopExists
<1>7. Loop(f)
  <2>1. \A n \in 1..N : f[n - 1] \in V
    BY <1>1, <1>6 DEF IsLoop
  <2>2. \A n \in 1..N : f[n] = Step(n, f[n - 1])
    BY <1>5, <1>6, <2>1 DEF IsLoop
  <2> QED
    BY <1>6, <2>2 DEF IsLoop
<1> DEFINE g == Listing(S, to)
           T == {n \in 0..N : g[n] \in V}
<1>8. Loop(g)
  <2>1. g = CHOOSE h : Loop(h)
    BY DEF Listing, Step, a, N
  <2> QED
    BY <1>7, <2>1
<1>9. g = [n \in 0..N |-> IF n = 0 THEN a ELSE Step(n, g[n - 1])]
  BY <1>8
<1> HIDE DEF g
<1>10. g[0] = a /\ \A n \in 1..N : g[n] = Step(n, g[n - 1])
  BY <1>1, <1>9
<1>11. 0..N \subseteq T
  <2>1. 0 \in T
    BY <1>1, <1>2, <1>10
  <2>2. \A n \in 1..N : n - 1 \in T => n \in T
    BY <1>1, <1>3, <1>10
  <2> HIDE DEF T
  <2> QED
    BY <1>1, <2>1, <2>2, BoundedInduction
<1>12. g \in [0..N -> V]
  <2>1. \A n \in 0..N : g[n] \in V
    BY <1>11
  <2> QED
    BY <1>9, <2>1
<1> QED
  BY <1>10, <1>12 DEF g, V, a, N, Step

-----------------------------------------------------------------------------
(* PartitionSort::Eval sorts by partition *)

\* The counts c of n rows and their running sums S: nothing has wrapped.
Tally(P, c, S, n) ==
  /\ c \in [0..P -> 0..n] /\ c[0] = 0
  /\ S \in [0..P -> 0..n] /\ S[0] = 0 /\ S[P] = n
  /\ \A i \in 1..P : S[i] = S[i - 1] + c[i]

\* Before the first row.
LEMMA TallyStart ==
  ASSUME NEW P \in Nat, NEW M \in Nat, M < 2^Width, NEW c, c = [p \in 0..P |-> 0]
  PROVE  Tally(P, c, Sums(c, P), 0)
<1> DEFINE S == Sums(c, P)
           T == {i \in 0..P : S[i] = 0}
<1>1. c \in [0..P -> Int] /\ \A i \in 0..P : c[i] = 0
  OBVIOUS
<1>2. /\ S \in [0..P -> Int] /\ S[0] = 0
      /\ \A i \in 1..P : S[i] = Wrapped(S[i - 1] + c[i])
  BY <1>1, SumsLoop
<1>3. Wrapped(0) = 0
  BY NoWrap
<1> HIDE DEF S
<1>4. 0..P \subseteq T
  <2>1. 0 \in T
    BY <1>2
  <2>2. ASSUME NEW i \in 1..P, i - 1 \in T
        PROVE  i \in T
    <3>1. S[i - 1] + c[i] = 0
      BY <1>1, <2>2
    <3> QED
      BY <1>2, <1>3, <3>1
  <2> HIDE DEF T
  <2> QED
    BY <2>1, <2>2, BoundedInduction
<1>5. \A i \in 0..P : S[i] = 0
  BY <1>4
<1>6. S \in [0..P -> 0..0] /\ c \in [0..P -> 0..0]
  <2>1. 0 \in 0..0
    OBVIOUS
  <2> QED
    BY <1>1, <1>2, <1>5, <2>1
<1>7. \A i \in 1..P : S[i] = S[i - 1] + c[i]
  <2>1. \A i \in 1..P : i - 1 \in 0..P /\ i \in 0..P
    OBVIOUS
  <2> QED
    BY <1>1, <1>5, <2>1
<1>8. c[0] = 0 /\ S[P] = 0
  BY <1>1, <1>5
<1> QED
  BY <1>2, <1>6, <1>7, <1>8 DEF Tally, S

\* One row more, in the partition before place q.
LEMMA TallyStep ==
  ASSUME NEW P \in Nat, NEW M \in Nat, M < 2^Width, NEW n \in 1..M, NEW q \in 1..P,
         NEW c, NEW S, S = Sums(c, P), Tally(P, c, S, n - 1),
         NEW d, d = [c EXCEPT ![q] = Wrapped(@ + 1)]
  PROVE  Tally(P, d, Sums(d, P), n)
<1> DEFINE R == Sums(d, P)
           one(i) == IF q <= i THEN 1 ELSE 0
           T == {i \in 0..P : R[i] = S[i] + one(i)}
<1>1. /\ c \in [0..P -> 0..(n - 1)] /\ c[0] = 0 /\ S \in [0..P -> 0..(n - 1)] /\ S[0] = 0 /\ S[P] = n - 1
      /\ \A i \in 1..P : S[i] = S[i - 1] + c[i]
  BY DEF Tally
<1>2. Wrapped(c[q] + 1) = c[q] + 1
  <2>1. q \in 0..P /\ \A x \in 0..(n - 1) : x + 1 \in 0..M
    OBVIOUS
  <2>2. c[q] + 1 \in 0..M
    BY <1>1, <2>1
  <2> QED
    BY <2>2, NoWrap
<1>3. /\ d \in [0..P -> 0..n] /\ d[0] = 0
      /\ \A i \in 1..P : d[i] = c[i] + IF i = q THEN 1 ELSE 0
  <2>1. d = [c EXCEPT ![q] = c[q] + 1]
    BY <1>2
  <2>2. q \in 0..P /\ 0 \in 0..P /\ q # 0 /\ \A x \in 0..(n - 1) : x \in 0..n /\ x + 1 \in 0..n /\ x + 0 = x
    OBVIOUS
  <2>3. DOMAIN d = 0..P /\ \A i \in 0..P : d[i] = IF i = q THEN c[i] + 1 ELSE c[i]
    BY <1>1, <2>1, <2>2
  <2>4. \A i \in 0..P : d[i] \in 0..n
    BY <1>1, <2>2, <2>3
  <2>5. d \in [0..P -> 0..n]
    <3>1. d = [i \in 0..P |-> d[i]]
      BY <1>1, <2>1
    <3> QED
      BY <2>4, <3>1
  <2>6. \A i \in 1..P : d[i] = c[i] + IF i = q THEN 1 ELSE 0
    <3>1. \A i \in 1..P : i \in 0..P
      OBVIOUS
    <3>2. \A i \in 1..P : c[i] \in 0..(n - 1)
      BY <1>1, <3>1
    <3> QED
      BY <2>2, <2>3, <3>1, <3>2
  <2> QED
    BY <1>1, <2>2, <2>3, <2>5, <2>6
<1>4. /\ R \in [0..P -> Int] /\ R[0] = 0
      /\ \A i \in 1..P : R[i] = Wrapped(R[i - 1] + d[i])
  <2>1. d \in [0..P -> Int]
    BY <1>3
  <2> QED
    BY <2>1, SumsLoop
<1> HIDE DEF R
<1>a. \A i \in 1..P : S[i] \in 0..(n - 1) /\ S[i - 1] \in 0..(n - 1) /\ c[i] \in 0..(n - 1)
  <2>1. \A i \in 1..P : i \in 0..P /\ i - 1 \in 0..P
    OBVIOUS
  <2> QED
    BY <1>1, <2>1
<1>5. ASSUME NEW i \in 1..P, i - 1 \in T
      PROVE  R[i - 1] + d[i] = S[i] + one(i)
  <2>1. R[i - 1] = S[i - 1] + one(i - 1) /\ d[i] = c[i] + IF i = q THEN 1 ELSE 0
    BY <1>3, <1>5
  <2>2. S[i] = S[i - 1] + c[i] /\ S[i - 1] \in Int /\ c[i] \in Int
    <3>1. \A x \in 0..(n - 1) : x \in Int
      OBVIOUS
    <3>2. S[i - 1] \in Int /\ c[i] \in Int
      BY <1>a, <3>1
    <3> QED
      BY <1>1, <3>2
  <2>3. one(i) = one(i - 1) + IF i = q THEN 1 ELSE 0
    OBVIOUS
  <2>4. one(i - 1) \in Int
    OBVIOUS
  <2> HIDE DEF one
  <2> QED
    BY <2>1, <2>2, <2>3, <2>4
<1>6. 0..P \subseteq T
  <2>1. 0 \in T
    BY <1>1, <1>4
  <2>2. ASSUME NEW i \in 1..P, i - 1 \in T
        PROVE  i \in T
    <3>1. S[i] + one(i) \in 0..M
      <4>1. S[i] \in 0..(n - 1) /\ one(i) \in 0..1
        BY <1>a
      <4>2. \A x \in 0..(n - 1), y \in 0..1 : x + y \in 0..M
        OBVIOUS
      <4> QED
        BY <4>1, <4>2
    <3>2. R[i] = S[i] + one(i)
      BY <1>4, <1>5, <2>2, <3>1, NoWrap
    <3> QED
      BY <3>2
  <2> HIDE DEF T
  <2> QED
    BY <2>1, <2>2, BoundedInduction
<1>7. \A i \in 0..P : R[i] = S[i] + one(i)
  BY <1>6
<1>8. R \in [0..P -> 0..n] /\ R[P] = n
  <2>0. \A i \in 0..P : S[i] \in 0..(n - 1)
    BY <1>1, Zenon
  <2>a. \A i \in 0..P : one(i) \in 0..1
    OBVIOUS
  <2>1. \A i \in 0..P : S[i] \in 0..(n - 1) /\ one(i) \in 0..1
    BY <2>0, <2>a, Zenon
  <2>2. \A x \in 0..(n - 1), y \in 0..1 : x + y \in 0..n
    OBVIOUS
  <2>3. \A i \in 0..P : R[i] \in 0..n
    BY <1>7, <2>1, <2>2
  <2>4. one(P) = 1 /\ P \in 0..P /\ (n - 1) + 1 = n
    OBVIOUS
  <2>5. R[P] = n
    BY <1>1, <1>7, <2>4
  <2> QED
    BY <1>4, <2>3, <2>5
<1>9. \A i \in 1..P : R[i] = R[i - 1] + d[i]
  <2>1. \A i \in 1..P : i - 1 \in T
    BY <1>6
  <2>2. \A i \in 1..P : i \in 0..P
    OBVIOUS
  <2> QED
    BY <1>5, <1>7, <2>1, <2>2
<1> QED
  BY <1>3, <1>4, <1>8, <1>9 DEF Tally, R

\* The first loop counts every row.
LEMMA CountsTally ==
  ASSUME NEW P, NEW id, Sortable(id, P), NEW n \in 0..Len(id)
  PROVE  Tally(P, Counted(id, P)[n], Sums(Counted(id, P)[n], P), n)
<1> DEFINE N == Len(id)
           C == Counted(id, P)
           T == {m \in 0..N : Tally(P, C[m], Sums(C[m], P), m)}
<1>1. N \in Nat /\ P \in Nat /\ N < 2^Width /\ \A m \in 1..N : id[m] + 1 \in 1..P
  BY DEF Sortable
<1>2. /\ C[0] = [p \in 0..P |-> 0]
      /\ \A m \in 1..N : C[m] = [C[m - 1] EXCEPT ![id[m] + 1] = Wrapped(@ + 1)]
  BY CountedLoop DEF CountsRows
<1> HIDE DEF C, N
<1>3. 0 \in T
  BY <1>1, <1>2, TallyStart
<1>4. ASSUME NEW m \in 1..N, m - 1 \in T
      PROVE  m \in T
  <2>1. Tally(P, C[m - 1], Sums(C[m - 1], P), m - 1)
    BY <1>4
  <2>2. Tally(P, C[m], Sums(C[m], P), m)
    BY <1>1, <1>2, <2>1, TallyStep
  <2>3. m \in 0..N
    BY <1>1
  <2> QED
    BY <2>2, <2>3
<1> HIDE DEF T
<1>5. 0..N \subseteq T
  BY <1>1, <1>3, <1>4, BoundedInduction
<1> QED
  BY <1>5 DEF T, C, N

\* A row counts for its partition and for no other.
LEMMA CountsStep ==
  ASSUME NEW P, NEW id, Sortable(id, P)
  PROVE  \A n \in 1..Len(id), q \in 0..P :
           Counted(id, P)[n][q] = Counted(id, P)[n - 1][q] + IF q = id[n] + 1 THEN 1 ELSE 0
<1> DEFINE N == Len(id)
           C == Counted(id, P)
<1>1. N \in Nat /\ P \in Nat /\ N < 2^Width /\ \A n \in 1..N : id[n] + 1 \in 0..P
  BY DEF Sortable
<1>2. CountsRows(C, id, P)
  BY CountedLoop
<1>3. \A n \in 0..N : C[n] \in [0..P -> 0..n]
  BY CountsTally DEF Tally
<1> HIDE DEF C, N
<1> SUFFICES ASSUME NEW n \in 1..N, NEW q \in 0..P
             PROVE  C[n][q] = C[n - 1][q] + IF q = id[n] + 1 THEN 1 ELSE 0
  BY DEF C, N
<1> DEFINE c == C[n - 1]
           w == id[n] + 1
<1>4. w \in 0..P /\ n - 1 \in 0..N
  BY <1>1
<1>5. C[n] = [c EXCEPT ![w] = Wrapped(@ + 1)] /\ c \in [0..P -> 0..(n - 1)]
  <2>1. c \in [0..P -> 0..(n - 1)]
    BY <1>3, <1>4
  <2>2. C[n] = [c EXCEPT ![w] = Wrapped(@ + 1)]
    BY <1>2 DEF CountsRows, N
  <2> QED
    BY <2>1, <2>2
<1> HIDE DEF c, w
<1>6. \A x \in 0..(n - 1) : x + 1 \in 0..N /\ x + 0 = x
  BY <1>1
<1>7. Wrapped(c[w] + 1) = c[w] + 1
  <2>1. c[w] + 1 \in 0..N
    BY <1>1, <1>4, <1>5, <1>6
  <2>2. \A x \in 0..N : Wrapped(x) = x
    BY <1>1, NoWrap
  <2> QED
    BY <2>1, <2>2
<1>8. C[n][q] = IF q = w THEN c[q] + 1 ELSE c[q]
  BY <1>4, <1>5, <1>7
<1> QED
  BY <1>5, <1>6, <1>8 DEF c, w

\* No round of the first loop lowers a count.
LEMMA CountsGrow ==
  ASSUME NEW P, NEW id, Sortable(id, P), NEW n \in 0..Len(id), NEW q \in 0..P
  PROVE  Counted(id, P)[n][q] <= Counted(id, P)[Len(id)][q]
<1> DEFINE N == Len(id)
           C(m) == Counted(id, P)[m][q]
           T == {k \in 0..(N - n) : C(n) <= C(n + k)}
<1>1. N \in Nat /\ n \in 0..N /\ N - n \in Nat
  BY DEF Sortable
<1>2. \A m \in 0..N : C(m) \in Int
  <2>1. \A m \in 0..N : Counted(id, P)[m] \in [0..P -> Int]
    BY CountedLoop DEF CountsRows
  <2> QED
    BY <2>1
<1>3. \A m \in 1..N : C(m) = C(m - 1) \/ C(m) = C(m - 1) + 1
  <2> SUFFICES ASSUME NEW m \in 1..N PROVE C(m) = C(m - 1) \/ C(m) = C(m - 1) + 1
    OBVIOUS
  <2>1. C(m) = C(m - 1) + IF q = id[m] + 1 THEN 1 ELSE 0
    BY CountsStep
  <2>2. C(m - 1) \in Int
    <3>1. m - 1 \in 0..N
      BY <1>1
    <3> QED
      BY <1>2, <3>1
  <2> HIDE DEF C
  <2> QED
    BY <2>1, <2>2
<1> HIDE DEF C, N
<1>4. 0 \in T
  <2>1. n + 0 = n /\ 0 \in 0..(N - n) /\ C(n) \in Int
    BY <1>1, <1>2
  <2> QED
    BY <2>1
<1>5. ASSUME NEW k \in 1..(N - n), k - 1 \in T
      PROVE  k \in T
  <2> DEFINE m == n + k
  <2>1. m \in 1..N /\ m - 1 = n + (k - 1) /\ k \in 0..(N - n) /\ m - 1 \in 0..N /\ m \in 0..N
    BY <1>1
  <2>2. C(n) <= C(m - 1)
    BY <1>5, <2>1
  <2>3. C(m) = C(m - 1) \/ C(m) = C(m - 1) + 1
    BY <1>3, <2>1
  <2>4. C(n) \in Int /\ C(m) \in Int /\ C(m - 1) \in Int
    BY <1>1, <1>2, <2>1
  <2>5. C(n) <= C(m)
    BY <2>2, <2>3, <2>4
  <2> QED
    BY <2>1, <2>5
<1> HIDE DEF T
<1>6. 0..(N - n) \subseteq T
  BY <1>1, <1>4, <1>5, BoundedInduction
<1>7. N - n \in T /\ n + (N - n) = N
  BY <1>1, <1>6
<1> QED
  BY <1>7 DEF T, C, N

\* The running sums grow, so that the partitions do not overlap.
LEMMA SumsGrow ==
  ASSUME NEW P \in Nat, NEW n \in Nat, NEW c, NEW S, Tally(P, c, S, n),
         NEW i \in 0..P, NEW j \in 0..P, i <= j
  PROVE  S[i] <= S[j]
<1> DEFINE T == {k \in 0..(P - i) : S[i] <= S[i + k]}
<1>1. P - i \in Nat
  OBVIOUS
<1>2. /\ \A m \in 0..P : S[m] \in 0..n /\ c[m] \in 0..n
      /\ \A m \in 1..P : S[m] = S[m - 1] + c[m]
  BY DEF Tally
<1>3. 0 \in T
  BY <1>2
<1>4. ASSUME NEW k \in 1..(P - i), k - 1 \in T
      PROVE  k \in T
  <2> DEFINE m == i + k
  <2>1. m \in 1..P /\ m - 1 = i + (k - 1) /\ k \in 0..(P - i) /\ m - 1 \in 0..P /\ m \in 0..P
    OBVIOUS
  <2>2. S[i] <= S[m - 1]
    BY <1>4, <2>1
  <2>3. S[m] = S[m - 1] + c[m] /\ c[m] \in 0..n /\ S[m - 1] \in 0..n /\ S[i] \in 0..n
    BY <1>2, <2>1
  <2>4. S[i] <= S[m]
    BY <2>2, <2>3
  <2> QED
    BY <2>1, <2>4
<1> HIDE DEF T
<1>5. 0..(P - i) \subseteq T
  BY <1>1, <1>3, <1>4, BoundedInduction
<1>6. j - i \in T /\ i + (j - i) = j
  BY <1>5
<1> QED
  BY <1>6 DEF T

\* Where the first c[q] rows of partition q - 1 are put.
Slice(S, c, q) == (S[q - 1] + 1)..(S[q - 1] + c[q])

\* What the third loop has done after n rows, c[q] of them of partition q - 1.
IsPlaced(P, id, S, c, n, r, o) ==
  /\ r \in [0..P -> Int] /\ r[0] = 0
  /\ \A q \in 1..P : r[q] = S[q - 1] + c[q]
  /\ \A i : i \in DOMAIN o <=> \E q \in 1..P : i \in Slice(S, c, q)
  /\ \A q \in 1..P : \A i \in Slice(S, c, q) : o[i] \in 1..n /\ id[o[i]] = q - 1
  /\ \A k \in 1..n : \E i \in DOMAIN o : o[i] = k

\* The place of the next row is free.
LEMMA PlaceIsFree ==
  ASSUME NEW P \in Nat, NEW N \in Nat, NEW all, NEW S, Tally(P, all, S, N),
         NEW c \in [0..P -> Int], \A q \in 0..P : c[q] <= all[q],
         NEW w \in 1..P, c[w] + 1 <= all[w], c[w] >= 0
  PROVE  /\ S[w - 1] + c[w] + 1 \in 1..N
         /\ \A q \in 1..P : S[w - 1] + c[w] + 1 \notin Slice(S, c, q)
<1> DEFINE i == S[w - 1] + c[w] + 1
<1>1. /\ \A m \in 0..P : S[m] \in 0..N /\ all[m] \in 0..N /\ c[m] \in Int
      /\ \A m \in 1..P : S[m] = S[m - 1] + all[m]
  BY DEF Tally
<1>2. \A m \in 1..P : m \in 0..P /\ m - 1 \in 0..P
  OBVIOUS
<1>3. S[w] \in 0..N /\ S[w - 1] \in 0..N /\ c[w] \in Int /\ S[w] = S[w - 1] + all[w] /\ all[w] \in 0..N
  BY <1>1, <1>2
<1> DEFINE x(m) == S[m]
           y(m) == c[m]
           z(m) == all[m]
<1> HIDE DEF x, y, z
<1>4. x(w - 1) < i /\ i <= x(w) /\ i \in 1..N
  <2>1. /\ x(w) \in 0..N /\ x(w - 1) \in 0..N /\ y(w) \in Int /\ x(w) = x(w - 1) + z(w) /\ z(w) \in 0..N
        /\ y(w) + 1 <= z(w) /\ y(w) >= 0 /\ i = x(w - 1) + y(w) + 1
    BY <1>3 DEF x, y, z
  <2>2. \A a, b, u, v \in Int :
          a \in 0..N /\ b \in 0..N /\ b = a + v /\ u + 1 <= v /\ u >= 0 =>
            a < a + u + 1 /\ a + u + 1 <= b /\ a + u + 1 \in 1..N
    OBVIOUS
  <2>3. x(w) \in Int /\ x(w - 1) \in Int /\ z(w) \in Int
    BY <2>1
  <2> HIDE DEF i
  <2> QED
    BY <2>1, <2>2, <2>3
<1>5. ASSUME NEW q \in 1..P, i \in Slice(S, c, q)
      PROVE  FALSE
  <2>1. x(q) \in 0..N /\ x(q - 1) \in 0..N /\ x(q) = x(q - 1) + z(q) /\ y(q) \in Int /\ y(q) <= z(q)
        /\ z(q) \in 0..N
    BY <1>1, <1>2 DEF x, y, z
  <2>2. i \in (x(q - 1) + 1)..(x(q - 1) + y(q))
    BY <1>5 DEF Slice, x, y
  <2>3. i = x(w - 1) + y(w) + 1 /\ x(w - 1) \in 0..N /\ x(w) \in 0..N /\ y(w) \in Int
    BY <1>3 DEF x, y
  <2>4. x(q - 1) < i /\ i <= x(q - 1) + y(q) /\ i <= x(q)
    <3>1. \A a, b, u, v, k \in Int :
            b = a + v /\ u <= v /\ k \in (a + 1)..(a + u) => a < k /\ k <= a + u /\ k <= b
      OBVIOUS
    <3>2. x(q) \in Int /\ x(q - 1) \in Int /\ z(q) \in Int /\ y(q) \in Int
      BY <2>1
    <3>3. i \in Int
      BY <1>4
    <3> HIDE DEF i
    <3> QED
      BY <2>1, <2>2, <3>1, <3>2, <3>3
  <2>5. CASE q = w
    <3> HIDE DEF i
    <3> QED
      BY <2>3, <2>4, <2>5
  <2>6. CASE q < w
    <3>1. q \in 0..P /\ w - 1 \in 0..P /\ q <= w - 1
      BY <2>6
    <3>2. x(q) <= x(w - 1)
      BY <3>1, SumsGrow DEF x
    <3> HIDE DEF i
    <3>3. \A a, b, k \in Int : a <= b /\ b < k /\ k <= a => FALSE
      OBVIOUS
    <3>4. x(q) \in Int /\ x(w) \in Int /\ x(q - 1) \in Int /\ x(w - 1) \in Int /\ i \in Int
      BY <1>4, <2>1, <2>3
    <3> QED
      BY <1>4, <2>4, <3>2, <3>3, <3>4
  <2>7. CASE w < q
    <3>1. w \in 0..P /\ q - 1 \in 0..P /\ w <= q - 1
      BY <2>7
    <3>2. x(w) <= x(q - 1)
      BY <3>1, SumsGrow DEF x
    <3> HIDE DEF i
    <3>3. \A a, b, k \in Int : a <= b /\ b < k /\ k <= a => FALSE
      OBVIOUS
    <3>4. x(q) \in Int /\ x(w) \in Int /\ x(q - 1) \in Int /\ x(w - 1) \in Int /\ i \in Int
      BY <1>4, <2>1, <2>3
    <3> QED
      BY <1>4, <2>4, <3>2, <3>3, <3>4
  <2> QED
    BY <2>5, <2>6, <2>7
<1> QED
  BY <1>4, <1>5

\* One row more is placed.
CanPlace(P, id, S, c, d, n, w, r, o, i, s, p) ==
  /\ P \in Nat /\ n \in Nat \ {0} /\ w \in 1..P /\ id[n] = w - 1
  /\ c \in [0..P -> Int] /\ d \in [0..P -> Int] /\ c[w] >= 0
  /\ \A m \in 0..P : S[m] \in Int
  /\ \A q \in 0..P : d[q] = c[q] + IF q = w THEN 1 ELSE 0
  /\ IsPlaced(P, id, S, c, n - 1, r, o)
  /\ i = r[w] + 1 /\ \A q \in 1..P : i \notin Slice(S, c, q)
  /\ s = [r EXCEPT ![w] = r[w] + 1]
  /\ DOMAIN p = DOMAIN o \cup {i} /\ p[i] = n
  /\ \A j \in DOMAIN o : j # i => p[j] = o[j]

\* A row that can be placed is placed, and the rows before it stay.
LEMMA PlaceStep ==
  ASSUME NEW P, NEW id, NEW S, NEW c, NEW d, NEW n, NEW w, NEW r, NEW o,
         NEW i, NEW s, NEW p, CanPlace(P, id, S, c, d, n, w, r, o, i, s, p)
  PROVE  IsPlaced(P, id, S, d, n, s, p)
<1> USE DEF CanPlace
<1>1. /\ r \in [0..P -> Int] /\ r[0] = 0
      /\ \A q \in 1..P : r[q] = S[q - 1] + c[q]
      /\ \A j : j \in DOMAIN o <=> \E q \in 1..P : j \in Slice(S, c, q)
      /\ \A q \in 1..P : \A j \in Slice(S, c, q) : o[j] \in 1..(n - 1) /\ id[o[j]] = q - 1
      /\ \A k \in 1..(n - 1) : \E j \in DOMAIN o : o[j] = k
  BY Zenon DEF IsPlaced
<1>2. w \in 0..P /\ w # 0 /\ \A q \in 1..P : q \in 0..P /\ q - 1 \in 0..P
  OBVIOUS
<1>3. i = S[w - 1] + c[w] + 1 /\ S[w - 1] \in Int /\ c[w] \in Int /\ i \in Int
  <2>1. S[w - 1] \in Int /\ c[w] \in Int
    BY <1>2
  <2>2. r[w] = S[w - 1] + c[w]
    BY <1>1
  <2> QED
    BY <2>1, <2>2
<1>4. \A q \in 1..P : \A j : j \in Slice(S, d, q) <=> j \in Slice(S, c, q) \/ (q = w /\ j = i)
  <2> SUFFICES ASSUME NEW q \in 1..P, NEW j
               PROVE  j \in Slice(S, d, q) <=> j \in Slice(S, c, q) \/ (q = w /\ j = i)
    OBVIOUS
  <2>1. S[q - 1] \in Int /\ c[q] \in Int /\ d[q] = c[q] + IF q = w THEN 1 ELSE 0
    BY <1>2
  <2>2. CASE q = w
    <3> DEFINE x == S[w - 1]
               y == c[w]
    <3>1. x \in Int /\ y \in Int /\ y >= 0 /\ d[w] = y + 1 /\ i = x + y + 1
      BY <1>3, <2>1, <2>2
    <3> HIDE DEF x, y
    <3>3. \A a, b, k \in Int : b >= 0 =>
            (k \in (a + 1)..(a + (b + 1)) <=> k \in (a + 1)..(a + b) \/ k = a + b + 1)
      OBVIOUS
    <3>4. \A a, b \in Int : (j \in a..b => j \in Int) /\ i \in Int
      BY <1>3
    <3>2. j \in (x + 1)..(x + (y + 1)) <=> j \in (x + 1)..(x + y) \/ j = i
      <4>1. CASE j \in Int
        BY <3>1, <3>3, <4>1
      <4>2. CASE j \notin Int
        <5>1. x + 1 \in Int /\ x + y \in Int /\ x + (y + 1) \in Int
          BY <3>1
        <5> QED
          BY <3>4, <4>2, <5>1
      <4> QED
        BY <4>1, <4>2
    <3> QED
      BY <2>2, <3>1, <3>2 DEF Slice, x, y
  <2>3. CASE q # w
    <3>1. d[q] = c[q]
      BY <2>1, <2>3
    <3> QED
      BY <2>3, <3>1 DEF Slice
  <2> QED
    BY <2>2, <2>3
<1>5. s \in [0..P -> Int] /\ s[0] = 0 /\ \A q \in 1..P : s[q] = S[q - 1] + d[q]
  <2>3. r[w] \in Int
    BY <1>1, <1>2
  <2>1. r[w] + 1 \in Int
    BY <2>3
  <2>2. s \in [0..P -> Int] /\ s[w] = r[w] + 1 /\ \A q \in 0..P : q # w => s[q] = r[q]
    BY <1>1, <1>2, <2>1
  <2>5. s[0] = 0
    BY <1>1, <1>2, <2>2
  <2>4. ASSUME NEW q \in 1..P
        PROVE  s[q] = S[q - 1] + d[q]
    <3>1. S[q - 1] \in Int /\ c[q] \in Int /\ d[q] = (c[q] + IF q = w THEN 1 ELSE 0) /\ r[q] = S[q - 1] + c[q]
      BY <1>1, <1>2
    <3>2. s[q] = IF q = w THEN r[q] + 1 ELSE r[q]
      BY <1>2, <2>2
    <3> DEFINE x == S[q - 1]
               y == c[q]
    <3>3. CASE q = w
      <4>1. x \in Int /\ y \in Int /\ d[q] = y + 1 /\ s[q] = (x + y) + 1
        BY <3>1, <3>2, <3>3
      <4> HIDE DEF x, y
      <4>2. s[q] = x + d[q]
        BY <4>1
      <4> QED
        BY <4>2 DEF x
    <3>4. CASE q # w
      <4>1. d[q] = c[q] /\ s[q] = r[q]
        BY <3>1, <3>2, <3>4
      <4> QED
        BY <3>1, <4>1
    <3> QED
      BY <3>3, <3>4
  <2> QED
    BY <2>2, <2>4, <2>5
<1>6. \A j : j \in DOMAIN p <=> \E q \in 1..P : j \in Slice(S, d, q)
  <2>1. \A j : j \in DOMAIN p <=> j \in DOMAIN o \/ j = i
    OBVIOUS
  <2> QED
    BY <1>1, <1>4, <2>1
<1>7. ASSUME NEW q \in 1..P, NEW j \in Slice(S, d, q)
      PROVE  p[j] \in 1..n /\ id[p[j]] = q - 1
  <2>1. CASE j = i
    <3>1. q = w /\ p[j] = n
      BY <1>4, <1>7, <2>1
    <3> QED
      BY <3>1
  <2>2. CASE j # i
    <3>1. j \in Slice(S, c, q)
      BY <1>4, <1>7, <2>2
    <3>2. j \in DOMAIN o /\ o[j] \in 1..(n - 1) /\ id[o[j]] = q - 1
      BY <1>1, <3>1
    <3>3. p[j] = o[j]
      BY <2>2, <3>2
    <3>4. \A k \in 1..(n - 1) : k \in 1..n
      OBVIOUS
    <3> QED
      BY <3>2, <3>3, <3>4
  <2> QED
    BY <2>1, <2>2
<1>8. ASSUME NEW k \in 1..n
      PROVE  \E j \in DOMAIN p : p[j] = k
  <2>1. CASE k = n
    BY <2>1
  <2>2. CASE k # n
    <3>1. k \in 1..(n - 1)
      BY <2>2
    <3>2. PICK j \in DOMAIN o : o[j] = k
      BY <1>1, <3>1
    <3>3. j # i
      BY <1>1
    <3> QED
      BY <3>2, <3>3
  <2> QED
    BY <2>1, <2>2
<1> QED
  BY <1>5, <1>6, <1>7, <1>8 DEF IsPlaced

\* Nothing is placed before the third loop.
LEMMA PlaceStart ==
  ASSUME NEW P \in Nat, NEW N \in Nat, NEW id, NEW all, NEW S, Tally(P, all, S, N), NEW c,
         c = [q \in 0..P |-> 0], S = Sums(all, P), NEW r, r = Starts(all, P), NEW o, o = <<>>
  PROVE  IsPlaced(P, id, S, c, 0, r, o)
<1>1. /\ \A m \in 0..P : S[m] \in 0..N
      /\ all[0] = 0
      /\ \A q \in 1..P : q - 1 \in 0..P /\ q \in 0..P /\ q # 0
  BY DEF Tally
<1>2. r = [p \in 0..P |-> IF p = 0 THEN all[0] ELSE S[p - 1]]
  BY DEF Starts
<1>3. \A q \in 1..P : r[q] = S[q - 1] /\ S[q - 1] \in Int /\ c[q] = 0
  BY <1>1, <1>2
<1>4. r[0] = 0
  <2>1. 0 \in 0..P
    OBVIOUS
  <2> QED
    BY <1>1, <1>2, <2>1
<1>5. r \in [0..P -> Int]
  <2>1. \A p \in 0..P : p = 0 \/ p \in 1..P
    OBVIOUS
  <2>2. \A p \in 0..P : r[p] \in Int
    <3>1. \A p \in 1..P : r[p] \in Int
      BY <1>3
    <3> QED
      BY <1>4, <2>1, <3>1
  <2> QED
    BY <1>2, <2>2
<1>6. \A q \in 1..P : r[q] = S[q - 1] + c[q]
  BY <1>3
<1>7. \A q \in 1..P : Slice(S, c, q) = {}
  <2>1. \A x \in Int : (x + 1)..(x + 0) = {}
    OBVIOUS
  <2> QED
    BY <1>3, <2>1 DEF Slice
<1>8. DOMAIN o = {} /\ 1..0 = {}
  OBVIOUS
<1> QED
  BY <1>4, <1>5, <1>6, <1>7, <1>8 DEF IsPlaced

\* The third loop, all of it.
LEMMA AllPlaced ==
  ASSUME NEW P, NEW id, Sortable(id, P)
  PROVE  LET C == Counted(id, P)
             S == Sums(C[Len(id)], P)
             result == Eval(id, P)
         IN  /\ Tally(P, C[Len(id)], S, Len(id))
             /\ IsPlaced(P, id, S, C[Len(id)], Len(id), result.ranges, result.out)
<1> DEFINE N == Len(id)
           C == Counted(id, P)
           all == C[N]
           S == Sums(all, P)
           starts == Starts(all, P)
           pl == Placed(id, starts)
           T == {n \in 0..N : IsPlaced(P, id, S, C[n], n, pl[n].ranges, pl[n].out)}
<1>1. N \in Nat /\ P \in Nat /\ N < 2^Width /\ \A n \in 1..N : id[n] + 1 \in 1..P /\ id[n] = (id[n] + 1) - 1
  BY DEF Sortable
<1>2. C[0] = [p \in 0..P |-> 0]
  BY CountedLoop DEF CountsRows
<1>3. \A n \in 0..N : C[n] \in [0..P -> 0..n]
  BY CountsTally DEF Tally
<1>4. \A n \in 1..N, q \in 0..P : C[n][q] = C[n - 1][q] + IF q = id[n] + 1 THEN 1 ELSE 0
  BY CountsStep
<1>5. \A n \in 0..N, q \in 0..P : C[n][q] <= all[q]
  BY CountsGrow
<1>6. Tally(P, all, S, N)
  <2>1. N \in 0..N
    BY <1>1
  <2> QED
    BY <2>1, CountsTally
<1>7. starts \in [0..P -> Int]
  <2> HIDE DEF C, N, all, S
  <2>1. IsPlaced(P, id, S, [q \in 0..P |-> 0], 0, starts, <<>>)
    BY <1>1, <1>6, PlaceStart DEF S
  <2> QED
    BY <2>1 DEF IsPlaced
<1>8. /\ pl[0] = [ranges |-> starts, out |-> <<>>]
      /\ \A n \in 1..N : pl[n] = PlaceRow(pl[n - 1], id, n)
  <2> HIDE DEF starts
  <2> QED
    BY <1>7, PlacedLoop
<1>9. 0 \in T
  <2> HIDE DEF C, N, all
  <2>1. pl[0].ranges = starts /\ pl[0].out = <<>>
    BY <1>8
  <2> HIDE DEF pl
  <2>2. IsPlaced(P, id, S, C[0], 0, pl[0].ranges, pl[0].out)
    BY <1>1, <1>2, <1>6, <2>1, PlaceStart
  <2> QED
    BY <1>1, <2>2
<1>10. ASSUME NEW n \in 1..N, n - 1 \in T
       PROVE  n \in T
  <2> DEFINE w == id[n] + 1
             c == C[n - 1]
             d == C[n]
             r == pl[n - 1].ranges
             o == pl[n - 1].out
             i == r[w] + 1
             s == [r EXCEPT ![w] = Wrapped(@ + 1)]
             p == [j \in DOMAIN o \cup {i} |-> IF j = i THEN n ELSE o[j]]
  <2>1. pl[n].ranges = s /\ pl[n].out = p
    <3> HIDE DEF pl, N
    <3>1. pl[n] = PlaceRow(pl[n - 1], id, n)
      BY <1>8
    <3>2. pl[n] = [ranges |-> s, out |-> p]
      BY <3>1 DEF PlaceRow
    <3> HIDE DEF s, p
    <3> QED
      BY <3>2
  <2>2. IsPlaced(P, id, S, c, n - 1, r, o)
    BY <1>10
  <2>3. /\ n - 1 \in 0..N /\ n \in 0..N /\ n \in Nat \ {0} /\ w \in 1..P /\ w \in 0..P /\ w - 1 \in 0..P
        /\ id[n] = w - 1
    BY <1>1
  <2> HIDE DEF N, C, all, S, pl, w
  <2>4. c \in [0..P -> 0..(n - 1)] /\ d \in [0..P -> 0..n] /\ \A q \in 0..P : c[q] <= all[q] /\ d[q] <= all[q]
    BY <1>3, <1>5, <2>3
  <2>5. \A q \in 0..P : d[q] = c[q] + IF q = w THEN 1 ELSE 0
    BY <1>4 DEF w
  <2>6. /\ \A m \in 0..P : S[m] \in 0..N /\ all[m] \in 0..N
        /\ S[w] = S[w - 1] + all[w]
    BY <1>6, <2>3 DEF Tally
  <2>7. r[w] = S[w - 1] + c[w]
    BY <2>2, <2>3 DEF IsPlaced
  <2> HIDE DEF c, d, r, o
  <2>8. c \in [0..P -> Int] /\ d \in [0..P -> Int] /\ c[w] >= 0 /\ c[w] + 1 <= all[w] /\ c[w] \in Int
    <3>1. c \in [0..P -> Int] /\ d \in [0..P -> Int]
      BY <2>4
    <3>2. c[w] \in 0..(n - 1) /\ d[w] = c[w] + 1 /\ d[w] <= all[w]
      BY <2>3, <2>4, <2>5
    <3> QED
      BY <3>1, <3>2
  <2>9. S[w - 1] + c[w] + 1 \in 1..N /\ \A q \in 1..P : S[w - 1] + c[w] + 1 \notin Slice(S, c, q)
    BY <1>1, <1>6, <2>3, <2>4, <2>8, PlaceIsFree
  <2>10. i = S[w - 1] + c[w] + 1
    BY <2>7
  <2>11. Wrapped(r[w] + 1) = r[w] + 1
    <3>1. i \in 0..N
      BY <1>1, <2>9, <2>10
    <3> QED
      BY <1>1, <3>1, NoWrap
  <2>12. s = [r EXCEPT ![w] = r[w] + 1]
    BY <2>11
  <2>13. CanPlace(P, id, S, c, d, n, w, r, o, i, s, p)
    <3>1. \A q \in 1..P : i \notin Slice(S, c, q)
      BY <2>9, <2>10
    <3>2. \A m \in 0..P : S[m] \in Int
      BY <2>6
    <3>3. i = r[w] + 1
      OBVIOUS
    <3> HIDE DEF i
    <3>4. DOMAIN p = DOMAIN o \cup {i} /\ p[i] = n /\ \A j \in DOMAIN o : j # i => p[j] = o[j]
      OBVIOUS
    <3> HIDE DEF s, p
    <3> QED
      BY <1>1, <2>2, <2>3, <2>5, <2>8, <2>12, <3>1, <3>2, <3>3, <3>4 DEF CanPlace
  <2> HIDE DEF i, s, p
  <2>14. IsPlaced(P, id, S, d, n, s, p)
    BY <2>13, PlaceStep
  <2> QED
    BY <2>1, <2>3, <2>14 DEF d
<1>11. 0..N \subseteq T
  <2> HIDE DEF T
  <2> QED
    BY <1>1, <1>9, <1>10, BoundedInduction
<1>12. IsPlaced(P, id, S, all, N, pl[N].ranges, pl[N].out)
  <2>1. N \in T
    BY <1>1, <1>11
  <2> QED
    BY <2>1
<1>13. Eval(id, P) = pl[N]
  BY DEF Eval, Place, Counts
<1> HIDE DEF pl, T
<1> QED
  BY <1>6, <1>12, <1>13

\* Every place is in the range of some partition.
LEMMA RangesCover ==
  ASSUME NEW P \in Nat, NEW N \in Nat, NEW c, NEW S, Tally(P, c, S, N), NEW i \in 1..N
  PROVE  \E q \in 1..P : i \in (S[q - 1] + 1)..S[q]
<1> SUFFICES ASSUME \A q \in 1..P : i \notin (S[q - 1] + 1)..S[q] PROVE FALSE
  OBVIOUS
<1> DEFINE T == {m \in 0..P : S[m] < i}
<1>1. S[0] = 0 /\ S[P] = N /\ \A m \in 0..P : S[m] \in 0..N
  BY DEF Tally
<1>2. 0 \in T
  BY <1>1
<1>3. ASSUME NEW m \in 1..P, m - 1 \in T
      PROVE  m \in T
  <2>1. m \in 0..P /\ m - 1 \in 0..P
    OBVIOUS
  <2>2. S[m] \in 0..N /\ S[m - 1] \in 0..N /\ S[m - 1] < i /\ i \notin (S[m - 1] + 1)..S[m]
    BY <1>1, <1>3, <2>1
  <2>3. \A a, b \in Int : a < i /\ i \notin (a + 1)..b => b < i
    OBVIOUS
  <2>4. S[m] < i
    BY <2>2, <2>3
  <2> QED
    BY <2>1, <2>4
<1> HIDE DEF T
<1>4. 0..P \subseteq T
  BY <1>2, <1>3, BoundedInduction
<1>5. P \in T
  BY <1>4
<1> QED
  BY <1>1, <1>5 DEF T

\* PartitionSort::Eval sorts every batch that its 16-bit counters can count, into
\* any number of partitions: each row is put once, in the range of its partition.
THEOREM EvalSorts ==
  ASSUME NEW P, NEW id, Sortable(id, P)
  PROVE  PartitionSorted(id, P, Eval(id, P))
<1> DEFINE N == Len(id)
           c == Counted(id, P)[N]
           S == Sums(c, P)
           r == Eval(id, P).ranges
           o == Eval(id, P).out
<1>1. /\ N \in Nat /\ P \in Nat \ {0} /\ DOMAIN id = 1..N /\ \A k \in 1..N : id[k] \in 0..(P - 1)
  BY DEF Sortable
<1>2. Tally(P, c, S, N) /\ IsPlaced(P, id, S, c, N, r, o)
  BY AllPlaced
<1> HIDE DEF N, c, S, r, o
<1>3. /\ S[0] = 0 /\ S[P] = N /\ \A m \in 0..P : S[m] \in 0..N
      /\ \A q \in 1..P : S[q] = S[q - 1] + c[q]
  BY <1>2 DEF Tally
<1>4. \A q \in 1..P : Slice(S, c, q) = (S[q - 1] + 1)..S[q]
  BY <1>3 DEF Slice
<1>5. \A p \in 0..P : r[p] = S[p]
  <2>1. r[0] = 0 /\ \A q \in 1..P : r[q] = S[q - 1] + c[q]
    BY <1>2 DEF IsPlaced
  <2>2. \A p \in 0..P : p = 0 \/ p \in 1..P
    BY <1>1
  <2> QED
    BY <1>3, <2>1, <2>2
<1>6. DOMAIN o = 1..N
  <2>1. ASSUME NEW i \in DOMAIN o
        PROVE  i \in 1..N
    <3>0. PICK q \in 1..P : i \in Slice(S, c, q)
      BY <1>2 DEF IsPlaced
    <3>1. i \in (S[q - 1] + 1)..S[q]
      BY <1>4, <3>0
    <3>2. S[q] \in 0..N /\ S[q - 1] \in 0..N
      <4>1. q \in 0..P /\ q - 1 \in 0..P
        BY <1>1
      <4> QED
        BY <1>3, <4>1
    <3>3. \A a, b \in 0..N : (a + 1)..b \subseteq 1..N
      BY <1>1
    <3> QED
      BY <3>1, <3>2, <3>3
  <2>2. ASSUME NEW i \in 1..N
        PROVE  i \in DOMAIN o
    <3>1. PICK q \in 1..P : i \in (S[q - 1] + 1)..S[q]
      BY <1>1, <1>2, RangesCover
    <3> QED
      BY <1>2, <1>4, <3>1 DEF IsPlaced
  <2> QED
    BY <2>1, <2>2
<1>7. \A q \in 1..P : \A i \in (S[q - 1] + 1)..S[q] : o[i] \in 1..N /\ id[o[i]] = q - 1
  BY <1>2, <1>4 DEF IsPlaced
<1>8. {o[i] : i \in DOMAIN o} = 1..N
  <2>1. ASSUME NEW i \in DOMAIN o
        PROVE  o[i] \in 1..N
    <3>0. PICK q \in 1..P : i \in Slice(S, c, q)
      BY <1>2 DEF IsPlaced
    <3>1. i \in (S[q - 1] + 1)..S[q]
      BY <1>4, <3>0
    <3> QED
      BY <1>7, <3>1
  <2>2. \A k \in 1..N : \E i \in DOMAIN o : o[i] = k
    BY <1>2 DEF IsPlaced
  <2> QED
    BY <2>1, <2>2
<1>9. r[0] = 0 /\ r[P] = N /\ \A p \in 0..P : r[p] \in 0..N
  <2>1. 0 \in 0..P /\ P \in 0..P
    BY <1>1
  <2> QED
    BY <1>3, <1>5, <2>1
<1>10. ASSUME NEW p \in 0..(P - 1), NEW i \in 1..N
       PROVE  id[o[i]] = p <=> i \in (r[p] + 1)..r[p + 1]
  <2> DEFINE q == p + 1
  <2>1. q \in 1..P /\ q - 1 = p /\ p \in 0..P /\ q \in 0..P
    BY <1>1
  <2>2. r[p] = S[q - 1] /\ r[p + 1] = S[q]
    BY <1>5, <2>1
  <2> HIDE DEF q
  <2>3. ASSUME i \in (S[q - 1] + 1)..S[q]
        PROVE  id[o[i]] = p
    BY <1>7, <2>1, <2>3
  <2>4. ASSUME id[o[i]] = p
        PROVE  i \in (S[q - 1] + 1)..S[q]
    <3>1. PICK u \in 1..P : i \in (S[u - 1] + 1)..S[u]
      BY <1>1, <1>2, RangesCover
    <3>2. id[o[i]] = u - 1
      BY <1>7, <3>1
    <3>3. u = q
      BY <2>1, <2>4, <3>2
    <3> QED
      BY <3>1, <3>3
  <2> QED
    BY <2>2, <2>3, <2>4
<1> QED
  BY <1>1, <1>6, <1>8, <1>9, <1>10 DEF PartitionSorted, N, r, o

-----------------------------------------------------------------------------
(* A probe selects the rows that pass *)

Shifted(s, k) == [i \in DOMAIN s |-> s[i] + k]

\* One more row for the scalar loop is one more row for the whole.
LEMMA ShiftAppend ==
  ASSUME NEW a \in Seq(Int), NEW s \in Seq(Int), NEW k \in Int, NEW x \in Int
  PROVE  a \o Shifted(Append(s, x), k) = Append(a \o Shifted(s, k), x + k)
<1> DEFINE y == x + k
           u == Shifted(s, k)
           v == Shifted(Append(s, x), k)
<1>1. Len(s) \in Nat /\ DOMAIN s = 1..Len(s) /\ \A i \in DOMAIN s : s[i] \in Int
  OBVIOUS
<1>2. u \in [1..Len(s) -> Int] /\ u \in Seq(Int) /\ Len(u) = Len(s) /\ \A i \in 1..Len(s) : u[i] = s[i] + k
  BY <1>1 DEF Shifted
<1>3. v = Append(u, y)
  <2>1. Append(s, x) \in Seq(Int) /\ Len(Append(s, x)) = Len(s) + 1 /\ Append(s, x)[Len(s) + 1] = x
        /\ \A i \in 1..Len(s) : Append(s, x)[i] = s[i]
    BY AppendProperties
  <2> DEFINE t == Append(s, x)
             n == Len(s)
  <2>2. DOMAIN t = 1..(n + 1) /\ n \in Nat
    BY <1>1, <2>1
  <2>3. v = [i \in 1..(n + 1) |-> t[i] + k]
    BY <2>2 DEF Shifted
  <2>4. Append(u, y) \in Seq(Int) /\ Len(Append(u, y)) = n + 1 /\ Append(u, y)[n + 1] = y
        /\ \A i \in 1..n : Append(u, y)[i] = u[i]
    BY <1>2, AppendProperties
  <2>5. DOMAIN Append(u, y) = 1..(n + 1) /\ Append(u, y) = [i \in 1..(n + 1) |-> Append(u, y)[i]]
    BY <2>4
  <2> HIDE DEF u, v, t, n, y
  <2>6. \A i \in 1..(n + 1) : i = n + 1 \/ i \in 1..n
    BY <2>2
  <2>7. \A i \in 1..(n + 1) : Append(u, y)[i] = t[i] + k
    <3>1. Append(u, y)[n + 1] = t[n + 1] + k
      BY <2>1, <2>4 DEF t, n, y
    <3>2. \A i \in 1..n : Append(u, y)[i] = t[i] + k
      BY <1>2, <2>1, <2>4 DEF t, n
    <3> QED
      BY <2>6, <3>1, <3>2
  <2> QED
    BY <2>3, <2>5, <2>7
<1> HIDE DEF u, v
<1>4. a \o u \in Seq(Int)
  BY <1>2, ConcatProperties
<1>5. a \o Append(u, y) = Append(a \o u, y)
  BY <1>2, <1>4
<1> QED
  BY <1>2, <1>3, <1>4, <1>5 DEF u, v

\* The vectorised loop and the scalar loop together meet what one loop meets.
SplitAt(k, m, A, A1, B) == /\ \A j \in 0..(k - 1) : j \in A <=> j \in A1
                           /\ \A j \in 0..(m - 1) : j + k \in A <=> j \in B

\* One listing is the listing of its first part and the shifted listing of the rest.
LEMMA ListingSplits ==
  ASSUME NEW k \in Nat, NEW m \in Nat, NEW A, NEW A1, NEW B, SplitAt(k, m, A, A1, B)
  PROVE  Ascending(A, k + m) = Ascending(A1, k) \o Shifted(Ascending(B, m), k)
<1> DEFINE f == Listing(A, k + m)
           g == Listing(A1, k)
           h == Listing(B, m)
           T == {j \in 0..k : f[j] = g[j]}
           U == {j \in 0..m : f[k + j] = f[k] \o Shifted(h[j], k)}
<1>1. /\ f \in [0..(k + m) -> Seq(Int)] /\ f[0] = <<>>
      /\ \A n \in 1..(k + m) : f[n] = IF n - 1 \in A THEN Append(f[n - 1], n - 1) ELSE f[n - 1]
  BY AscendingLoop
<1>2. /\ g[0] = <<>>
      /\ \A n \in 1..k : g[n] = IF n - 1 \in A1 THEN Append(g[n - 1], n - 1) ELSE g[n - 1]
  BY AscendingLoop
<1>3. /\ h \in [0..m -> Seq(Int)] /\ h[0] = <<>>
      /\ \A n \in 1..m : h[n] = IF n - 1 \in B THEN Append(h[n - 1], n - 1) ELSE h[n - 1]
  BY AscendingLoop
<1> HIDE DEF f, g, h
<1>4. 0..k \subseteq T
  <2>1. 0 \in T
    BY <1>1, <1>2
  <2>2. ASSUME NEW n \in 1..k, n - 1 \in T
        PROVE  n \in T
    <3>1. n \in 1..(k + m) /\ n - 1 \in 0..(k - 1) /\ n \in 0..k
      OBVIOUS
    <3>2. f[n - 1] = g[n - 1] /\ (n - 1 \in A <=> n - 1 \in A1)
      BY <2>2, <3>1 DEF SplitAt
    <3>3. f[n] = g[n]
      BY <1>1, <1>2, <3>1, <3>2
    <3> QED
      BY <3>1, <3>3
  <2> HIDE DEF T
  <2> QED
    BY <2>1, <2>2, BoundedInduction
<1>5. f[k] = g[k] /\ f[k] \in Seq(Int)
  <2>1. k \in 0..k /\ k \in 0..(k + m)
    OBVIOUS
  <2>2. k \in T
    BY <1>4, <2>1
  <2> QED
    BY <1>1, <2>1, <2>2
<1>6. 0 \in U
  <2>1. Shifted(h[0], k) = <<>>
    BY <1>3 DEF Shifted
  <2>2. k + 0 = k /\ 0 \in 0..m
    OBVIOUS
  <2>3. f[k] \o <<>> = f[k]
    BY <1>5
  <2> QED
    BY <2>1, <2>2, <2>3
<1>7. ASSUME NEW n \in 1..m, n - 1 \in U
      PROVE  n \in U
  <2> DEFINE x == n - 1
             y == x + k
  <2>1. /\ x \in 0..(m - 1) /\ x \in 0..m /\ n \in 0..m /\ x \in Int /\ y \in Int /\ k \in Int
        /\ k + n \in 1..(k + m) /\ (k + n) - 1 = y /\ k + x = y
    OBVIOUS
  <2>2. f[y] = f[k] \o Shifted(h[x], k) /\ h[x] \in Seq(Int) /\ (y \in A <=> x \in B)
    BY <1>3, <1>7, <2>1 DEF SplitAt
  <2>3. f[k + n] = IF y \in A THEN Append(f[y], y) ELSE f[y]
    BY <1>1, <2>1
  <2>4. h[n] = IF x \in B THEN Append(h[x], x) ELSE h[x]
    BY <1>3
  <2>5. y = x + k
    OBVIOUS
  <2> HIDE DEF x, y
  <2>6. f[k] \o Shifted(Append(h[x], x), k) = Append(f[k] \o Shifted(h[x], k), y)
    <3> DEFINE a == f[k]
               b == h[x]
    <3>1. a \in Seq(Int) /\ b \in Seq(Int)
      BY <1>5, <2>2
    <3> HIDE DEF a, b
    <3>2. a \o Shifted(Append(b, x), k) = Append(a \o Shifted(b, k), x + k)
      BY <2>1, <3>1, ShiftAppend
    <3> QED
      BY <2>5, <3>2 DEF a, b
  <2>7. f[k + n] = f[k] \o Shifted(h[n], k)
    BY <2>2, <2>3, <2>4, <2>6
  <2> QED
    BY <2>1, <2>7
<1> HIDE DEF U
<1>8. 0..m \subseteq U
  BY <1>6, <1>7, BoundedInduction
<1>9. f[k + m] = f[k] \o Shifted(h[m], k)
  <2>1. m \in 0..m
    OBVIOUS
  <2> QED
    BY <1>8, <2>1 DEF U
<1> QED
  BY <1>5, <1>9 DEF Ascending, f, g, h

\* The rows that pass are numbers, shifted or not.
LEMMA PassingType ==
  ASSUME NEW c \in Seq(Hash)
  PROVE  /\ Passing(c, Len(c)) \in Seq(Int)
         /\ \A n \in Nat : Shifted(Passing(c, Len(c)), n) \in Seq(Int)
<1>1. Len(c) \in Nat
  OBVIOUS
<1>2. Passing(c, Len(c)) \in Seq(Int)
  BY <1>1, AscendingLoop DEF Passing, Ascending
<1> QED
  BY <1>2 DEF Shifted

\* A chunk may be cut anywhere: the rows of the second part that pass, counted
\* from the cut, follow those of the first.
LEMMA PassingSplits ==
  ASSUME NEW c \in Seq(Hash), NEW k \in 0..Len(c)
  PROVE  LET tail == SubSeq(c, k + 1, Len(c))
         IN  /\ tail \in Seq(Hash) /\ Len(tail) = Len(c) - k
             /\ k = 0 => tail = c
             /\ Passing(c, k) \o Shifted(Passing(tail, Len(tail)), k) = Passing(c, Len(c))
<1> DEFINE m == Len(c) - k
           tail == SubSeq(c, k + 1, Len(c))
           rest == Passing(tail, Len(tail))
           A == {i \in 0..(Len(c) - 1) : Find(c[i + 1])}
           A1 == {i \in 0..(k - 1) : Find(c[i + 1])}
           B == {i \in 0..(Len(tail) - 1) : Find(tail[i + 1])}
<1>1. Len(c) \in Nat /\ m \in Nat /\ k \in Nat /\ Len(c) = k + m
  OBVIOUS
<1> HIDE DEF m
<1>2. Len(tail) = m /\ tail \in Seq(Hash) /\ \A i \in 1..m : tail[i] = c[k + i]
  BY <1>1, SubSeqProperties
<1>3. k = 0 => tail = c
  BY <1>1
<1> HIDE DEF tail
<1>4. \A j \in 0..(k - 1) : j \in A <=> j \in A1
  BY <1>1
<1>5. \A j \in 0..(m - 1) : j + k \in A <=> j \in B
  <2> SUFFICES ASSUME NEW j \in 0..(m - 1) PROVE j + k \in A <=> j \in B
    OBVIOUS
  <2>1. j + 1 \in 1..m /\ j + k \in 0..(Len(c) - 1) /\ k + (j + 1) = (j + k) + 1
    BY <1>1
  <2>2. tail[j + 1] = c[(j + k) + 1] /\ j \in 0..(Len(tail) - 1)
    BY <1>2, <2>1
  <2> QED
    BY <2>1, <2>2
<1> HIDE DEF A, A1, B
<1>6. Ascending(A, k + m) = Ascending(A1, k) \o Shifted(Ascending(B, m), k)
  <2>1. SplitAt(k, m, A, A1, B)
    BY <1>4, <1>5 DEF SplitAt
  <2> QED
    BY <1>1, <2>1, ListingSplits
<1>7. /\ Passing(c, Len(c)) = Ascending(A, k + m) /\ Passing(c, k) = Ascending(A1, k)
      /\ rest = Ascending(B, m)
  BY <1>1, <1>2 DEF Passing, A, A1, B
<1> QED
  BY <1>1, <1>2, <1>3, <1>6, <1>7 DEF m, tail

\* No row is before the first.
LEMMA NothingPassed ==
  ASSUME NEW c, NEW s \in Seq(Int)
  PROVE  Passing(c, 0) \o s = s
<1>1. Passing(c, 0) = <<>>
  BY AscendingLoop DEF Passing, Ascending
<1> QED
  BY <1>1

\* The two scalar loops find the rows that pass, shifted by what was processed
\* before them, when nothing was or when the first loop is not run.
LEMMA ScalarLoops ==
  ASSUME NEW c \in Seq(Hash), NEW n \in Nat, NEW prefetch \in BOOLEAN, prefetch => n = 0
  PROVE  FindImp(c, n, prefetch) = IF prefetch THEN Passing(c, Len(c))
                                               ELSE Shifted(Passing(c, Len(c)), n)
<1> DEFINE k == IF prefetch /\ Len(c) > PrefetchIterations THEN Len(c) - PrefetchIterations ELSE 0
           tail == SubSeq(c, k + 1, Len(c))
           rest == Passing(tail, Len(tail))
<1>1. k \in 0..Len(c) /\ k + n \in Int
  BY BloomFilterAssumption
<1>2. FindImp(c, n, prefetch) = Passing(c, k) \o Shifted(rest, k + n)
  BY DEF FindImp, Shifted
<1>3. CASE prefetch
  <2>1. k + n = k
    BY <1>1, <1>3
  <2> HIDE DEF k
  <2>2. Passing(c, k) \o Shifted(rest, k) = Passing(c, Len(c))
    BY <1>1, PassingSplits
  <2> QED
    BY <1>2, <1>3, <2>1, <2>2
<1>4. CASE ~prefetch
  <2>1. k = 0 /\ k + n = n
    BY <1>4
  <2> HIDE DEF k
  <2>2. tail = c /\ rest = Passing(c, Len(c))
    BY <1>1, <2>1, PassingSplits
  <2>3. Shifted(rest, n) \in Seq(Int)
    BY <2>2, PassingType
  <2> QED
    BY <1>2, <1>4, <2>1, <2>2, <2>3, NothingPassed
<1> QED
  BY <1>3, <1>4

\* The selection vector of a probe is exact at all times, for chunks of every
\* length, groups of every size and filters of every size, with prefetching and
\* without.
THEOREM SelectionsAreExact == Spec => []SelectionIsExact
<1>1. ASSUME NEW c \in Probes, NEW enable_prefetch \in BOOLEAN
      PROVE  FindRows(c, enable_prefetch) = Passing(c, Len(c))
  <2> DEFINE prefetch == enable_prefetch /\ UsePrefetch
             k == IF prefetch THEN 0 ELSE Len(c) - (Len(c) % Unroll)
             tail == SubSeq(c, k + 1, Len(c))
  <2>1. c \in Seq(Hash) /\ Len(c) \in Nat /\ Unroll \in Nat \ {0}
    BY BloomFilterAssumption
  <2>2. k \in 0..Len(c) /\ k \in Nat
    <3> DEFINE n == Len(c)
    <3>1. n \in Nat /\ Unroll \in Nat \ {0}
      BY <2>1
    <3> HIDE DEF n
    <3>2. n % Unroll \in Nat /\ n - (n % Unroll) \in 0..n
      BY <3>1
    <3> QED
      BY <3>1, <3>2 DEF n
  <2>3. FindRows(c, enable_prefetch) = Passing(c, k) \o FindImp(tail, k, prefetch)
    BY DEF FindRows
  <2>4. prefetch \in BOOLEAN /\ (prefetch => k = 0)
    OBVIOUS
  <2> HIDE DEF k, prefetch
  <2>5. /\ tail \in Seq(Hash) /\ (k = 0 => tail = c)
        /\ Passing(c, k) \o Shifted(Passing(tail, Len(tail)), k) = Passing(c, Len(c))
    BY <2>1, <2>2, PassingSplits
  <2> HIDE DEF tail
  <2>6. FindImp(tail, k, prefetch) = IF prefetch THEN Passing(tail, Len(tail))
                                                 ELSE Shifted(Passing(tail, Len(tail)), k)
    BY <2>2, <2>4, <2>5, ScalarLoops
  <2>7. CASE prefetch
    <3>1. FindImp(tail, k, prefetch) = Passing(c, Len(c)) /\ k = 0
      BY <2>4, <2>5, <2>6, <2>7
    <3>2. Passing(c, Len(c)) \in Seq(Int)
      BY <2>1, PassingType
    <3> QED
      BY <2>3, <3>1, <3>2, NothingPassed
  <2>8. CASE ~prefetch
    BY <2>3, <2>5, <2>6, <2>8
  <2> QED
    BY <2>7, <2>8
<1>2. SelectionIsExact
  BY <1>1 DEF SelectionIsExact, filter
<1> QED
  BY <1>2, PTL

-----------------------------------------------------------------------------
(* What a thread has in its buffers *)

\* The loop over the partitions lists those it looks for.
LEMMA AscendingLists ==
  ASSUME NEW n \in Nat, NEW S, S \subseteq 0..(n - 1)
  PROVE  /\ Ascending(S, n) \in Seq(S)
         /\ \A p \in S : \E i \in DOMAIN Ascending(S, n) : Ascending(S, n)[i] = p
<1> DEFINE f == Listing(S, n)
           Lists(s, m) == s \in Seq(S) /\ \A p \in S : p < m => \E i \in DOMAIN s : s[i] = p
           T == {m \in 0..n : Lists(f[m], m)}
<1>1. /\ f[0] = <<>>
      /\ \A m \in 1..n : f[m] = IF m - 1 \in S THEN Append(f[m - 1], m - 1) ELSE f[m - 1]
  BY AscendingLoop
<1> HIDE DEF f
<1>2. 0 \in T
  <2>1. \A p \in S : ~(p < 0)
    OBVIOUS
  <2>2. <<>> \in Seq(S) /\ 0 \in 0..n
    OBVIOUS
  <2> QED
    BY <1>1, <2>1, <2>2
<1>3. ASSUME NEW m \in 1..n, m - 1 \in T
      PROVE  m \in T
  <2> DEFINE s == f[m - 1]
             x == m - 1
  <2>1. s \in Seq(S) /\ \A p \in S : p < x => \E i \in DOMAIN s : s[i] = p
    BY <1>3
  <2>2. \A p \in S : p < m => p < x \/ p = x
    OBVIOUS
  <2>3. f[m] = IF x \in S THEN Append(s, x) ELSE s
    BY <1>1
  <2>4. m \in 0..n
    OBVIOUS
  <2> HIDE DEF s, x
  <2>5. CASE x \in S
    <3> DEFINE t == Append(s, x)
    <3>1. t \in Seq(S) /\ Len(t) = Len(s) + 1 /\ t[Len(s) + 1] = x /\ \A i \in 1..Len(s) : t[i] = s[i]
      BY <2>1, <2>5, AppendProperties
    <3>2. Len(s) \in Nat /\ DOMAIN s = 1..Len(s) /\ DOMAIN t = 1..Len(t)
      BY <2>1, <3>1
    <3> HIDE DEF t
    <3>3. Len(s) + 1 \in DOMAIN t /\ DOMAIN s \subseteq DOMAIN t
      BY <3>1, <3>2
    <3>4. \A p \in S : p < x => \E i \in DOMAIN t : t[i] = p
      BY <2>1, <3>1, <3>2, <3>3
    <3>5. Lists(t, m)
      BY <2>2, <3>1, <3>3, <3>4
    <3> QED
      BY <2>3, <2>4, <2>5, <3>5 DEF t
  <2>6. CASE x \notin S
    BY <2>1, <2>2, <2>3, <2>4, <2>6
  <2> QED
    BY <2>5, <2>6
<1>4. 0..n \subseteq T
  <2> HIDE DEF T
  <2> QED
    BY <1>2, <1>3, BoundedInduction
<1>5. Lists(f[n], n)
  <2>1. n \in 0..n
    OBVIOUS
  <2> QED
    BY <1>4, <2>1
<1>6. \A p \in S : p < n
  OBVIOUS
<1> QED
  BY <1>5, <1>6 DEF Ascending, f

\* The block of a hash.
LEMMA HashIds == \A h \in Hash : h \in Nat /\ block_id(h) \in Block
<1> SUFFICES ASSUME NEW h \in Hash PROVE h \in Nat /\ block_id(h) \in Block
  OBVIOUS
<1> DEFINE n == 2^LogNumBlocks
           w == NumMasks * n - 1
<1>1. n \in Nat \ {0} /\ NumMasks \in Nat \ {0}
  BY BloomFilterAssumption, PowersAssumption
<1>2. h \in 0..w
  BY DEF Hash
<1>3. Block = 0..(n - 1) /\ block_id(h) = (h \div NumMasks) % n
  BY DEF Block, block_id
<1> HIDE DEF n
<1>4. w \in Int
  BY <1>1
<1> HIDE DEF w
<1>5. h \in Nat
  BY <1>2, <1>4
<1>6. h \div NumMasks \in Nat
  BY <1>1, <1>5
<1> QED
  BY <1>1, <1>3, <1>5, <1>6

Prtns == 0..(NumPrtns - 1)

\* The buffers hold the hashes of batch b, and those of partition p at the places
\* from ranges[p] + 1 to ranges[p + 1].
Buffered(b, hashes, ranges) ==
  /\ Len(hashes) = Len(b) /\ Len(b) \in Nat
  /\ \A i \in 1..Len(b) : \E k \in DOMAIN b : hashes[i] = b[k]
  /\ \A p \in 0..NumPrtns : ranges[p] \in 0..Len(b)
  /\ \A k \in DOMAIN b : \E p \in Prtns : \E i \in (ranges[p] + 1)..ranges[p + 1] : hashes[i] = b[k]

\* A batch after PartitionSort::Eval.
LEMMA BatchIsBuffered ==
  ASSUME NEW b \in Batches
  PROVE  Buffered(b, SortBatch(b).hashes, SortBatch(b).ranges)
<1> DEFINE id == [i \in DOMAIN b |-> PrtnId(b[i])]
           e == Eval(id, NumPrtns)
           hs == SortBatch(b).hashes
           rs == SortBatch(b).ranges
           N == Len(b)
<1>1. b \in Seq(Hash) /\ N < 2^Width /\ N \in Nat /\ DOMAIN b = 1..N
  BY BloomFilterAssumption
<1>2. \A i \in 1..N : PrtnId(b[i]) \in Prtns
  <2> SUFFICES ASSUME NEW i \in 1..N PROVE PrtnId(b[i]) \in Prtns
    OBVIOUS
  <2> DEFINE h == b[i]
             k == 2^KeptTogether
             w == NumMasks * k
             x == h \div w
  <2>1. h \in Nat
    BY <1>1, HashIds
  <2>2. k \in Nat \ {0} /\ NumMasks \in Nat \ {0} /\ NumPrtns \in Nat \ {0}
    BY BloomFilterAssumption, PowersAssumption
  <2> HIDE DEF h, k
  <2>3. w \in Nat \ {0}
    BY <2>2
  <2> HIDE DEF w
  <2>4. x \in Nat
    BY <2>1, <2>3
  <2> HIDE DEF x
  <2>5. x % NumPrtns \in Prtns
    BY <2>2, <2>4 DEF Prtns
  <2> QED
    BY <2>5 DEF PrtnId, x, w, h, k
<1>3. id \in [1..N -> Prtns] /\ Len(id) = N
  BY <1>1, <1>2
<1>4. Sortable(id, NumPrtns)
  <2> HIDE DEF id
  <2> QED
    BY <1>1, <1>3, PowersAssumption DEF Sortable, Prtns
<1>5. PartitionSorted(id, NumPrtns, e)
  <2> HIDE DEF id
  <2> QED
    BY <1>4, EvalSorts
<1>6. hs = [i \in DOMAIN e.out |-> b[e.out[i]]] /\ rs = e.ranges
  BY DEF SortBatch
<1>7. \A i \in 1..N : id[i] = PrtnId(b[i])
  BY <1>1
<1> HIDE DEF id, e, hs, rs, N
<1>8. /\ DOMAIN e.out = 1..N /\ {e.out[i] : i \in DOMAIN e.out} = 1..N
      /\ \A p \in 0..NumPrtns : rs[p] \in 0..N
      /\ \A p \in Prtns : \A i \in 1..N : id[e.out[i]] = p <=> i \in (rs[p] + 1)..rs[p + 1]
  <2>1. DOMAIN id = 1..N /\ Len(id) = N
    BY <1>3
  <2>2. DOMAIN e.out = 1..N /\ {e.out[i] : i \in DOMAIN e.out} = 1..N
    BY <1>5, <2>1 DEF PartitionSorted
  <2>3. \A p \in 0..NumPrtns : rs[p] \in 0..N
    BY <1>5, <1>6, <2>1 DEF PartitionSorted
  <2>4. \A p \in Prtns : \A i \in 1..N : id[e.out[i]] = p <=> i \in (rs[p] + 1)..rs[p + 1]
    BY <1>5, <1>6, <2>1 DEF PartitionSorted, Prtns
  <2> QED
    BY <2>2, <2>3, <2>4
<1>9. \A i \in 1..N : e.out[i] \in 1..N /\ hs[i] = b[e.out[i]]
  BY <1>6, <1>8
<1>10. Len(hs) = N
  BY <1>1, <1>6, <1>8
<1>11. ASSUME NEW k \in DOMAIN b
       PROVE  \E p \in Prtns : \E i \in (rs[p] + 1)..rs[p + 1] : hs[i] = b[k]
  <2>1. PICK i \in 1..N : e.out[i] = k
    BY <1>1, <1>8
  <2>2. id[k] \in Prtns
    BY <1>1, <1>3
  <2>3. i \in (rs[id[k]] + 1)..rs[id[k] + 1]
    BY <1>8, <2>1, <2>2
  <2> QED
    BY <1>9, <2>1, <2>2, <2>3
<1>12. \A i \in 1..N : \E k \in DOMAIN b : hs[i] = b[k]
  BY <1>1, <1>9
<1> QED
  BY <1>1, <1>8, <1>10, <1>11, <1>12 DEF Buffered, N, hs, rs

-----------------------------------------------------------------------------
(* The inductive invariant of the build *)

\* There is one thread besides the scheduler's, as when queries run one after
\* another, so that every thread has a ThreadLocalState of its own.
OwnStates ==
  /\ Len(Scheduled) \in Nat /\ DOMAIN Scheduled = 1..Len(Scheduled)
  /\ \A i, j \in DOMAIN Scheduled : Scheduled[i] = Scheduled[j] => i = j
  /\ \E main : Outside = {main}

In(B, h) == mask(h) \subseteq B[block_id(h)]

\* The hashes at places from + 1 to upto are in the blocks.
AllIn(B, hashes, from, upto) == \A i \in (from + 1)..upto : In(B, hashes[i])

SlotFields == {"hashes", "ranges", "ids"}

\* Every partition is inserted or still has its id among the first n.
Remaining(B, s, n) ==
  \A p \in Prtns : \/ AllIn(B, s.hashes, s.ranges[p], s.ranges[p + 1])
                   \/ \E j \in 1..n : s.ids[j] = p

\* Insert is at place x of the partition that is first, which ends at y.
Inserting(B, s, x, y) ==
  /\ x \in 0..Len(s.hashes) /\ y = s.ranges[s.ids[1] + 1]
  /\ AllIn(B, s.hashes, s.ranges[s.ids[1]], x)

\* A thread that is pushing batch b has it in its own state s.
SlotInv(B, b, s, n, c, x, y) ==
  /\ b \in Batches /\ DOMAIN s = SlotFields
  /\ Buffered(b, s.hashes, s.ranges)
  /\ s.ids \in Seq(Prtns) /\ n \in 0..Len(s.ids)
  /\ Remaining(B, s, n)
  /\ c = "insert" => n > 0 /\ Inserting(B, s, x, y)

FunctionsInv ==
  /\ pc \in [Thread -> {"idle", "partition", "insert"}]
  /\ DOMAIN batch = Thread /\ DOMAIN unprocessed = Thread /\ DOMAIN pos = Thread /\ DOMAIN end = Thread
  /\ DOMAIN slots = 0..Len(Scheduled)

ThreadsInv ==
  \A t \in Thread : pc[t] # "idle" =>
    SlotInv(blocks, batch[t], slots[SlotOf(t)], unprocessed[t], pc[t], pos[t], end[t])

\* The bits that the hashes of the batches set in block x.
BitsOf(x) == UNION {mask(h) : h \in {k \in HashesOf(Batches) : block_id(k) = x}}

\* Nothing but hashes of the batches has been inserted.
BlocksInv ==
  IF blocks = <<>> THEN pending = Batches /\ \A t \in Thread : pc[t] = "idle"
  ELSE DOMAIN blocks = Block /\ \A x \in Block : blocks[x] \subseteq BitsOf(x)

PushedInv == \A b \in Pushed : \A k \in DOMAIN b : In(blocks, b[k])

IInv == FunctionsInv /\ ThreadsInv /\ BlocksInv /\ PushedInv

\* Every thread has its own ThreadLocalState.
LEMMA StatesDistinct ==
  ASSUME OwnStates
  PROVE  /\ \A t \in Thread : SlotOf(t) \in 0..Len(Scheduled)
         /\ \A t, u \in Thread : SlotOf(t) = SlotOf(u) => t = u
<1>1. PICK main : Outside = {main}
  BY DEF OwnStates
<1>2. Len(Scheduled) \in Nat /\ DOMAIN Scheduled = 1..Len(Scheduled)
  BY DEF OwnStates
<1>3. ASSUME NEW t \in Thread, \E i \in DOMAIN Scheduled : Scheduled[i] = t
      PROVE  SlotOf(t) \in 1..Len(Scheduled) /\ Scheduled[SlotOf(t)] = t
  BY <1>2, <1>3 DEF SlotOf
<1>4. ASSUME NEW t \in Thread, ~(\E i \in DOMAIN Scheduled : Scheduled[i] = t)
      PROVE  SlotOf(t) = 0 /\ t = main
  BY <1>1, <1>4 DEF SlotOf, Thread
<1>5. \A i \in 1..Len(Scheduled) : i \in 0..Len(Scheduled) /\ i # 0
  BY <1>2
<1>6. 0 \in 0..Len(Scheduled)
  BY <1>2
<1>7. ASSUME NEW t \in Thread
      PROVE  SlotOf(t) \in 0..Len(Scheduled)
  BY <1>3, <1>4, <1>5, <1>6
<1>8. ASSUME NEW t \in Thread, NEW u \in Thread, SlotOf(t) = SlotOf(u)
      PROVE  t = u
  <2>1. CASE SlotOf(t) = 0
    BY <1>3, <1>4, <1>5, <1>8, <2>1
  <2>2. CASE SlotOf(t) # 0
    BY <1>3, <1>4, <1>8, <2>2
  <2> QED
    BY <2>1, <2>2
<1> QED
  BY <1>7, <1>8

\* The hashes of the buffers are hashes.
LEMMA BufferedHashes ==
  ASSUME NEW b \in Batches, NEW hashes, NEW ranges, Buffered(b, hashes, ranges)
  PROVE  /\ Len(hashes) = Len(b) /\ Len(b) \in Nat
         /\ \A i \in 1..Len(b) : hashes[i] \in Hash /\ hashes[i] \in HashesOf(Batches)
         /\ \A p \in Prtns : /\ ranges[p] \in 0..Len(b) /\ ranges[p + 1] \in 0..Len(b)
<1>1. b \in Seq(Hash)
  BY BloomFilterAssumption
<1>2. /\ Len(hashes) = Len(b) /\ Len(b) \in Nat
      /\ \A i \in 1..Len(b) : \E k \in DOMAIN b : hashes[i] = b[k]
      /\ \A p \in 0..NumPrtns : ranges[p] \in 0..Len(b)
  BY DEF Buffered
<1>3. \A k \in DOMAIN b : b[k] \in Hash /\ b[k] \in HashesOf(Batches)
  BY <1>1 DEF HashesOf
<1>4. \A p \in Prtns : p \in 0..NumPrtns /\ p + 1 \in 0..NumPrtns
  BY PowersAssumption DEF Prtns
<1> QED
  BY <1>2, <1>3, <1>4

\* More bits in the blocks disturb no thread.
LEMMA SlotGrows ==
  ASSUME NEW B, NEW D, \A h \in Hash : In(B, h) => In(D, h),
         NEW b, NEW s, NEW n, NEW c, NEW x, NEW y, SlotInv(B, b, s, n, c, x, y)
  PROVE  SlotInv(D, b, s, n, c, x, y)
<1> DEFINE N == Len(b)
           hs == s.hashes
           rs == s.ranges
<1>1. /\ b \in Batches /\ DOMAIN s = SlotFields /\ Buffered(b, hs, rs)
      /\ s.ids \in Seq(Prtns) /\ n \in 0..Len(s.ids) /\ Remaining(B, s, n)
      /\ c = "insert" => n > 0 /\ Inserting(B, s, x, y)
  BY DEF SlotInv
<1>2. /\ Len(hs) = N /\ N \in Nat /\ \A i \in 1..N : hs[i] \in Hash
      /\ \A p \in Prtns : rs[p] \in 0..N /\ rs[p + 1] \in 0..N
  BY <1>1, BufferedHashes
<1> HIDE DEF N, hs, rs
<1>3. ASSUME NEW from \in 0..N, NEW upto \in 0..N, AllIn(B, hs, from, upto)
      PROVE  AllIn(D, hs, from, upto)
  <2>1. (from + 1)..upto \subseteq 1..N
    BY <1>2
  <2> QED
    BY <1>2, <1>3, <2>1 DEF AllIn
<1>4. Remaining(D, s, n)
  <2> SUFFICES ASSUME NEW p \in Prtns
               PROVE  AllIn(D, hs, rs[p], rs[p + 1]) \/ \E j \in 1..n : s.ids[j] = p
    BY DEF Remaining, hs, rs
  <2>1. AllIn(B, hs, rs[p], rs[p + 1]) \/ \E j \in 1..n : s.ids[j] = p
    BY <1>1 DEF Remaining, hs, rs
  <2>2. rs[p] \in 0..N /\ rs[p + 1] \in 0..N
    BY <1>2
  <2> QED
    BY <1>3, <2>1, <2>2
<1>5. ASSUME c = "insert"
      PROVE  Inserting(D, s, x, y)
  <2>1. n > 0 /\ x \in 0..Len(hs) /\ y = rs[s.ids[1] + 1] /\ AllIn(B, hs, rs[s.ids[1]], x)
    BY <1>1, <1>5 DEF Inserting, hs, rs
  <2>2. s.ids[1] \in Prtns
    <3>1. Len(s.ids) \in Nat /\ 1 \in 1..Len(s.ids)
      BY <1>1, <2>1
    <3> QED
      BY <1>1, <3>1
  <2>3. AllIn(D, hs, rs[s.ids[1]], x)
    BY <1>2, <1>3, <2>1, <2>2
  <2> QED
    BY <2>1, <2>3 DEF Inserting, hs, rs
<1> QED
  BY <1>1, <1>4, <1>5 DEF SlotInv, hs, rs

\* A step of one thread.
LEMMA OneThread ==
  ASSUME OwnStates, FunctionsInv, ThreadsInv, NEW t \in Thread,
         \A h \in Hash : In(blocks, h) => In(blocks', h),
         \A u \in Thread : u # t => /\ pc'[u] = pc[u] /\ batch'[u] = batch[u]
                                    /\ unprocessed'[u] = unprocessed[u]
                                    /\ pos'[u] = pos[u] /\ end'[u] = end[u],
         \A i \in DOMAIN slots : i # SlotOf(t) => slots'[i] = slots[i],
         pc'[t] # "idle" => SlotInv(blocks', batch'[t], slots'[SlotOf(t)], unprocessed'[t],
                                    pc'[t], pos'[t], end'[t])
  PROVE  ThreadsInv'
<1> SUFFICES ASSUME NEW u \in Thread, pc'[u] # "idle"
             PROVE  SlotInv(blocks', batch'[u], slots'[SlotOf(u)], unprocessed'[u], pc'[u], pos'[u], end'[u])
  BY DEF ThreadsInv
<1>1. CASE u = t
  BY <1>1
<1>2. CASE u # t
  <2>1. SlotOf(u) \in DOMAIN slots /\ SlotOf(u) # SlotOf(t)
    BY <1>2, StatesDistinct DEF FunctionsInv
  <2>2. slots'[SlotOf(u)] = slots[SlotOf(u)] /\ pc[u] # "idle"
    BY <1>2, <2>1
  <2>3. SlotInv(blocks, batch[u], slots[SlotOf(u)], unprocessed[u], pc[u], pos[u], end[u])
    BY <2>2 DEF ThreadsInv
  <2>4. SlotInv(blocks', batch[u], slots[SlotOf(u)], unprocessed[u], pc[u], pos[u], end[u])
    BY <2>3, SlotGrows
  <2> QED
    BY <1>2, <2>2, <2>4
<1> QED
  BY <1>1, <1>2

\* What is pushed stays found.
LEMMA PushedKept ==
  ASSUME PushedInv, \A h \in Hash : In(blocks, h) => In(blocks', h), Pushed' \subseteq Pushed
  PROVE  PushedInv'
<1> SUFFICES ASSUME NEW b \in Pushed', NEW k \in DOMAIN b PROVE In(blocks', b[k])
  BY DEF PushedInv
<1>1. b \in Pushed /\ b \in Batches
  BY DEF Pushed
<1>2. b[k] \in Hash
  BY <1>1, BloomFilterAssumption
<1> QED
  BY <1>1, <1>2 DEF PushedInv

-----------------------------------------------------------------------------
(* The actions *)

\* The blocks do not change.
LEMMA BlocksKept ==
  ASSUME blocks' = blocks
  PROVE  /\ \A h \in Hash : In(blocks, h) => In(blocks', h)
         /\ blocks # <<>> /\ BlocksInv => BlocksInv'
<1>1. \A h \in Hash : In(blocks, h) => In(blocks', h)
  BY DEF In
<1>2. blocks # <<>> /\ BlocksInv => BlocksInv'
  BY DEF BlocksInv
<1> QED
  BY <1>1, <1>2

\* A thread that is at work has the blocks allocated.
LEMMA AtWork ==
  ASSUME IInv, NEW t \in Thread, pc[t] # "idle"
  PROVE  /\ blocks # <<>> /\ DOMAIN blocks = Block
         /\ SlotInv(blocks, batch[t], slots[SlotOf(t)], unprocessed[t], pc[t], pos[t], end[t])
BY DEF IInv, BlocksInv, ThreadsInv

\* No thread works before CreateEmpty.
LEMMA InitInv ==
  ASSUME OwnStates, Init
  PROVE  IInv
<1>1. Cardinality(Outside) = 1
  BY FS_Singleton DEF OwnStates
<1>2. DOMAIN slots = 0..Len(Scheduled)
  <2>1. Len(Scheduled) \in Nat
    BY DEF OwnStates
  <2>2. Len(Scheduled) + Cardinality(Outside) - 1 = Len(Scheduled)
    BY <1>1, <2>1
  <2> QED
    BY <2>2 DEF Init
<1>3. FunctionsInv
  BY <1>2 DEF Init, FunctionsInv
<1>4. ThreadsInv
  BY DEF Init, ThreadsInv
<1>5. BlocksInv
  BY DEF Init, BlocksInv
<1>6. PushedInv
  BY DEF Init, PushedInv, Pushed
<1> QED
  BY <1>3, <1>4, <1>5, <1>6 DEF IInv

\* CreateEmpty allocates at least one block.
LEMMA BeginStep ==
  ASSUME IInv, Begin
  PROVE  IInv'
<1>1. /\ blocks = <<>> /\ blocks' = [b \in Block |-> {}] /\ pc' = pc /\ pending' = pending
      /\ slots' = slots /\ batch' = batch /\ unprocessed' = unprocessed /\ pos' = pos /\ end' = end
  BY DEF Begin
<1>2. pending = Batches /\ \A t \in Thread : pc[t] = "idle"
  BY <1>1 DEF IInv, BlocksInv
<1>3. 0 \in Block
  BY PowersAssumption DEF Block
<1>4. DOMAIN blocks' = Block /\ \A x \in Block : blocks'[x] = {}
  BY <1>1
<1>5. blocks' # <<>>
  <2>1. DOMAIN <<>> = {}
    OBVIOUS
  <2> QED
    BY <1>3, <1>4, <2>1
<1>6. FunctionsInv'
  BY <1>1 DEF IInv, FunctionsInv
<1>7. ThreadsInv'
  BY <1>1, <1>2 DEF ThreadsInv
<1>8. BlocksInv'
  BY <1>4, <1>5 DEF BlocksInv
<1>9. PushedInv'
  BY <1>1, <1>2 DEF PushedInv, Pushed
<1> QED
  BY <1>6, <1>7, <1>8, <1>9 DEF IInv

\* The buffers of a batch that has just been sorted.
LEMMA SortedSlot ==
  ASSUME NEW B, NEW b \in Batches, NEW s,
         s = [hashes |-> SortBatch(b).hashes, ranges |-> SortBatch(b).ranges,
              ids |-> NonEmpty(SortBatch(b).ranges)],
         NEW x, NEW y
  PROVE  SlotInv(B, b, s, Len(s.ids), "partition", x, y)
<1> DEFINE hs == SortBatch(b).hashes
           rs == SortBatch(b).ranges
           S == {p \in Prtns : rs[p] # rs[p + 1]}
<1>1. Buffered(b, hs, rs)
  BY BatchIsBuffered
<1>2. NonEmpty(rs) = Ascending(S, NumPrtns) /\ S \subseteq Prtns
  BY DEF NonEmpty, Prtns
<1>3. /\ NonEmpty(rs) \in Seq(S)
      /\ \A p \in S : \E i \in DOMAIN NonEmpty(rs) : NonEmpty(rs)[i] = p
  <2>1. NumPrtns \in Nat /\ S \subseteq 0..(NumPrtns - 1)
    BY PowersAssumption DEF Prtns
  <2> HIDE DEF S
  <2>2. /\ Ascending(S, NumPrtns) \in Seq(S)
        /\ \A p \in S : \E i \in DOMAIN Ascending(S, NumPrtns) : Ascending(S, NumPrtns)[i] = p
    BY <2>1, AscendingLists
  <2> QED
    BY <1>2, <2>2
<1>4. /\ \A p \in Prtns : p \in S <=> rs[p] # rs[p + 1]
      /\ \A p \in Prtns : rs[p] \in Int /\ rs[p + 1] \in Int
  <2>1. \A p \in Prtns : rs[p] \in 0..Len(b) /\ rs[p + 1] \in 0..Len(b)
    BY <1>1, BufferedHashes
  <2> QED
    BY <2>1
<1>5. /\ DOMAIN s = SlotFields /\ s.hashes = hs /\ s.ranges = rs /\ s.ids = NonEmpty(rs)
  BY DEF SlotFields
<1> HIDE DEF hs, rs, S
<1>6. s.ids \in Seq(S) /\ S \subseteq Prtns
  BY <1>2, <1>3, <1>5
<1>7. Len(s.ids) \in Nat /\ DOMAIN s.ids = 1..Len(s.ids) /\ s.ids \in Seq(Prtns)
  BY <1>6
<1>8. Len(s.ids) \in 0..Len(s.ids)
  BY <1>7
<1>9. Remaining(B, s, Len(s.ids))
  <2> SUFFICES ASSUME NEW p \in Prtns
               PROVE  AllIn(B, hs, rs[p], rs[p + 1]) \/ \E j \in 1..Len(s.ids) : s.ids[j] = p
    BY <1>5 DEF Remaining
  <2>1. CASE p \in S
    BY <1>3, <1>5, <1>7, <2>1
  <2>2. CASE p \notin S
    <3>1. rs[p] = rs[p + 1] /\ rs[p] \in Int
      BY <1>4, <2>2
    <3>2. \A z \in Int : \A i \in (z + 1)..z : FALSE
      OBVIOUS
    <3> QED
      BY <3>1, <3>2 DEF AllIn
  <2> QED
    BY <2>1, <2>2
<1> QED
  BY <1>1, <1>5, <1>7, <1>8, <1>9 DEF SlotInv

\* A thread sorts a batch into its own buffers.
LEMMA PushStep ==
  ASSUME OwnStates, IInv, NEW t \in Thread, NEW b \in Batches, PushNextBatch(t, b)
  PROVE  IInv'
<1> DEFINE s == [hashes |-> SortBatch(b).hashes, ranges |-> SortBatch(b).ranges,
                 ids |-> NonEmpty(SortBatch(b).ranges)]
<1>1. /\ blocks # <<>> /\ pc[t] = "idle" /\ b \in pending /\ pending' = pending \ {b}
      /\ batch' = [batch EXCEPT ![t] = b] /\ slots' = [slots EXCEPT ![SlotOf(t)] = s]
      /\ unprocessed' = [unprocessed EXCEPT ![t] = Len(s.ids)]
      /\ pc' = [pc EXCEPT ![t] = "partition"]
      /\ blocks' = blocks /\ pos' = pos /\ end' = end
  BY DEF PushNextBatch
<1>2. SlotInv(blocks', b, s, Len(s.ids), "partition", pos'[t], end'[t])
  BY SortedSlot
<1> HIDE DEF s
<1>3. /\ FunctionsInv /\ ThreadsInv /\ BlocksInv /\ PushedInv
      /\ SlotOf(t) \in DOMAIN slots
  BY StatesDistinct DEF IInv, FunctionsInv
<1>4. FunctionsInv'
  BY <1>1, <1>3 DEF FunctionsInv
<1>5. /\ \A u \in Thread : u # t => /\ pc'[u] = pc[u] /\ batch'[u] = batch[u]
                                    /\ unprocessed'[u] = unprocessed[u]
                                    /\ pos'[u] = pos[u] /\ end'[u] = end[u]
      /\ \A i \in DOMAIN slots : i # SlotOf(t) => slots'[i] = slots[i]
      /\ pc'[t] = "partition" /\ batch'[t] = b /\ slots'[SlotOf(t)] = s
      /\ unprocessed'[t] = Len(s.ids)
  BY <1>1, <1>3 DEF FunctionsInv
<1>6. /\ \A h \in Hash : In(blocks, h) => In(blocks', h)
      /\ BlocksInv'
  BY <1>1, <1>3, BlocksKept
<1>7. ThreadsInv'
  <2>1. SlotInv(blocks', batch'[t], slots'[SlotOf(t)], unprocessed'[t], pc'[t], pos'[t], end'[t])
    BY <1>2, <1>5
  <2> QED
    BY <1>3, <1>5, <1>6, <2>1, OneThread
<1>8. PushedInv'
  <2>1. Pushed' \subseteq Pushed
    BY <1>1, <1>5 DEF Pushed
  <2> QED
    BY <1>3, <1>6, <2>1, PushedKept
<1> QED
  BY <1>4, <1>6, <1>7, <1>8 DEF IInv

\* The first of the remaining partitions.
LEMMA FirstPartition ==
  ASSUME NEW B, NEW b, NEW s, NEW n, NEW c, NEW x, NEW y, SlotInv(B, b, s, n, c, x, y), n > 0
  PROVE  /\ s.ids[1] \in Prtns /\ n \in Nat /\ n <= Len(s.ids) /\ Len(s.ids) \in Nat
         /\ Len(s.hashes) = Len(b) /\ Len(b) \in Nat
         /\ s.ranges[s.ids[1]] \in 0..Len(b) /\ s.ranges[s.ids[1] + 1] \in 0..Len(b)
<1>1. b \in Batches /\ Buffered(b, s.hashes, s.ranges) /\ s.ids \in Seq(Prtns) /\ n \in 0..Len(s.ids)
  BY DEF SlotInv
<1>2. Len(s.ids) \in Nat /\ n \in Nat /\ n <= Len(s.ids) /\ 1 \in 1..Len(s.ids)
  BY <1>1
<1>3. s.ids[1] \in Prtns
  BY <1>1, <1>2
<1> QED
  BY <1>1, <1>2, <1>3, BufferedHashes

\* A thread begins with a partition.
LEMMA TakeStep ==
  ASSUME OwnStates, IInv, NEW t \in Thread, TakePartition(t)
  PROVE  IInv'
<1> DEFINE s == slots[SlotOf(t)]
           p == s.ids[1]
           n == unprocessed[t]
           b == batch[t]
<1>1. /\ pc[t] = "partition" /\ n > 0
      /\ pos' = [pos EXCEPT ![t] = s.ranges[p]] /\ end' = [end EXCEPT ![t] = s.ranges[p + 1]]
      /\ pc' = [pc EXCEPT ![t] = "insert"]
      /\ blocks' = blocks /\ pending' = pending /\ slots' = slots /\ batch' = batch
      /\ unprocessed' = unprocessed
  BY DEF TakePartition
<1>2. /\ FunctionsInv /\ ThreadsInv /\ BlocksInv /\ PushedInv
      /\ blocks # <<>> /\ SlotInv(blocks, b, s, n, "partition", pos[t], end[t])
  BY <1>1, AtWork DEF IInv
<1>3. /\ \A u \in Thread : u # t => /\ pc'[u] = pc[u] /\ batch'[u] = batch[u]
                                    /\ unprocessed'[u] = unprocessed[u]
                                    /\ pos'[u] = pos[u] /\ end'[u] = end[u]
      /\ pc'[t] = "insert" /\ pos'[t] = s.ranges[p] /\ end'[t] = s.ranges[p + 1]
  BY <1>1, <1>2 DEF FunctionsInv
<1>4. FunctionsInv'
  BY <1>1, <1>2 DEF FunctionsInv
<1>5. /\ \A h \in Hash : In(blocks, h) => In(blocks', h)
      /\ BlocksInv'
  BY <1>1, <1>2, BlocksKept
<1>6. SlotInv(blocks, b, s, n, "insert", s.ranges[p], s.ranges[p + 1])
  <2> HIDE DEF s, n, b
  <2>1. p \in Prtns /\ Len(s.hashes) = Len(b) /\ s.ranges[p] \in 0..Len(b)
    BY <1>1, <1>2, FirstPartition
  <2>2. AllIn(blocks, s.hashes, s.ranges[p], s.ranges[p])
    <3>1. \A z \in Int : \A i \in (z + 1)..z : FALSE
      OBVIOUS
    <3>2. s.ranges[p] \in Int
      BY <2>1
    <3> QED
      BY <3>1, <3>2 DEF AllIn
  <2>3. Inserting(blocks, s, s.ranges[p], s.ranges[p + 1])
    BY <2>1, <2>2 DEF Inserting
  <2> QED
    BY <1>1, <1>2, <2>3 DEF SlotInv
<1>7. ThreadsInv'
  <2>1. SlotInv(blocks', batch'[t], slots'[SlotOf(t)], unprocessed'[t], pc'[t], pos'[t], end'[t])
    BY <1>1, <1>3, <1>6
  <2>2. \A i \in DOMAIN slots : i # SlotOf(t) => slots'[i] = slots[i]
    BY <1>1
  <2> QED
    BY <1>2, <1>3, <1>5, <2>1, <2>2, OneThread
<1>8. PushedInv'
  <2>1. Pushed' \subseteq Pushed
    BY <1>1, <1>3 DEF Pushed
  <2> QED
    BY <1>2, <1>5, <2>1, PushedKept
<1> QED
  BY <1>4, <1>5, <1>7, <1>8 DEF IInv

\* One fetch_or: the bits of one hash of a batch are added to its block.
LEMMA FetchOr ==
  ASSUME NEW B, NEW h \in Hash, NEW D,
         \A x \in Block : D[x] = IF x = block_id(h) THEN B[x] \cup mask(h) ELSE B[x]
  PROVE  /\ In(D, h)
         /\ \A k \in Hash : In(B, k) => In(D, k)
         /\ \A x \in Block : D[x] \subseteq B[x] \cup (IF x = block_id(h) THEN mask(h) ELSE {})
<1>1. block_id(h) \in Block /\ \A k \in Hash : block_id(k) \in Block
  BY HashIds
<1>3. \A x \in Block : D[x] = IF x = block_id(h) THEN B[x] \cup mask(h) ELSE B[x]
  OBVIOUS
<1>4. In(D, h)
  BY <1>1, <1>3 DEF In
<1>5. \A k \in Hash : In(B, k) => In(D, k)
  BY <1>1, <1>3 DEF In
<1>6. \A x \in Block : D[x] \subseteq B[x] \cup (IF x = block_id(h) THEN mask(h) ELSE {})
  BY <1>3
<1> QED
  BY <1>4, <1>5, <1>6

\* A thread inserts a hash.
LEMMA InsertStep ==
  ASSUME OwnStates, IInv, NEW t \in Thread, Insert(t)
  PROVE  IInv'
<1> DEFINE s == slots[SlotOf(t)]
           n == unprocessed[t]
           b == batch[t]
           x == pos[t]
           y == end[t]
           h == s.hashes[x + 1]
<1>1. /\ pc[t] = "insert" /\ x < y
      /\ pos' = [pos EXCEPT ![t] = pos[t] + 1]
      /\ pc' = pc /\ pending' = pending /\ slots' = slots /\ batch' = batch
      /\ unprocessed' = unprocessed /\ end' = end
  BY DEF Insert
<1>2. /\ FunctionsInv /\ ThreadsInv /\ BlocksInv /\ PushedInv
      /\ blocks # <<>> /\ DOMAIN blocks = Block /\ SlotInv(blocks, b, s, n, "insert", x, y)
  BY <1>1, AtWork DEF IInv
<1>3. /\ b \in Batches /\ Buffered(b, s.hashes, s.ranges) /\ n > 0 /\ Inserting(blocks, s, x, y)
  BY <1>2 DEF SlotInv
<1>4. /\ Len(s.hashes) = Len(b) /\ Len(b) \in Nat /\ x \in 0..Len(b) /\ y \in 0..Len(b)
      /\ s.ranges[s.ids[1]] \in 0..Len(b) /\ AllIn(blocks, s.hashes, s.ranges[s.ids[1]], x)
      /\ y = s.ranges[s.ids[1] + 1]
  <2> HIDE DEF s, n, b, x, y
  <2>1. /\ Len(s.hashes) = Len(b) /\ Len(b) \in Nat
        /\ s.ranges[s.ids[1]] \in 0..Len(b) /\ s.ranges[s.ids[1] + 1] \in 0..Len(b)
    BY <1>2, <1>3, FirstPartition
  <2> QED
    BY <1>3, <2>1 DEF Inserting
<1>5. h \in Hash /\ h \in HashesOf(Batches) /\ x + 1 \in 0..Len(b) /\ x < Len(s.hashes)
  <2> HIDE DEF s, b, x, y
  <2>1. x + 1 \in 1..Len(b) /\ x + 1 \in 0..Len(b) /\ x < Len(s.hashes)
    BY <1>1, <1>4
  <2> QED
    BY <1>3, <2>1, BufferedHashes
<1>6. blocks' = [blocks EXCEPT ![block_id(h)] = @ \cup mask(h)]
  <2>1. HashAt(t) = {h}
    BY <1>5 DEF HashAt
  <2>2. PICK k \in HashAt(t) : blocks' = [blocks EXCEPT ![block_id(k)] = @ \cup mask(k)]
    BY DEF Insert
  <2> HIDE DEF h
  <2> QED
    BY <2>1, <2>2
<1>7. /\ DOMAIN blocks' = Block /\ In(blocks', h)
      /\ \A k \in Hash : In(blocks, k) => In(blocks', k)
      /\ \A z \in Block : blocks'[z] \subseteq blocks[z] \cup (IF z = block_id(h) THEN mask(h) ELSE {})
  <2> HIDE DEF h
  <2>1. block_id(h) \in Block
    BY <1>5, HashIds
  <2>2. DOMAIN blocks' = Block
    BY <1>2, <1>6
  <2>3. \A z \in Block : blocks'[z] = IF z = block_id(h) THEN blocks[z] \cup mask(h) ELSE blocks[z]
    BY <1>2, <1>6, <2>1
  <2> QED
    BY <1>5, <2>2, <2>3, FetchOr
<1>8. FunctionsInv'
  BY <1>1, <1>2 DEF FunctionsInv
<1>9. BlocksInv'
  <2> HIDE DEF h
  <2>1. blocks' # <<>>
    <3>1. 0 \in Block /\ DOMAIN <<>> = {}
      BY PowersAssumption DEF Block
    <3> QED
      BY <1>7, <3>1
  <2>2. \A z \in Block : blocks[z] \subseteq BitsOf(z)
    BY <1>2 DEF BlocksInv
  <2>3. mask(h) \subseteq BitsOf(block_id(h))
    BY <1>5 DEF BitsOf
  <2>4. \A z \in Block : blocks'[z] \subseteq BitsOf(z)
    BY <1>7, <2>2, <2>3
  <2> QED
    BY <1>7, <2>1, <2>4 DEF BlocksInv
<1>10. SlotInv(blocks', b, s, n, "insert", x + 1, y)
  <2> HIDE DEF s, n, b, x, y
  <2>1. SlotInv(blocks', b, s, n, "insert", x, y)
    BY <1>2, <1>7, SlotGrows
  <2>2. AllIn(blocks', s.hashes, s.ranges[s.ids[1]], x)
    BY <2>1 DEF SlotInv, Inserting
  <2>3. \A i \in (s.ranges[s.ids[1]] + 1)..(x + 1) : i \in (s.ranges[s.ids[1]] + 1)..x \/ i = x + 1
    BY <1>4
  <2>4. In(blocks', s.hashes[x + 1])
    BY <1>7
  <2>5. AllIn(blocks', s.hashes, s.ranges[s.ids[1]], x + 1)
    BY <2>2, <2>3, <2>4 DEF AllIn
  <2>6. Inserting(blocks', s, x + 1, y)
    BY <1>4, <1>5, <2>5 DEF Inserting
  <2> QED
    BY <2>1, <2>6 DEF SlotInv
<1>11. /\ \A u \in Thread : u # t => /\ pc'[u] = pc[u] /\ batch'[u] = batch[u]
                                     /\ unprocessed'[u] = unprocessed[u]
                                     /\ pos'[u] = pos[u] /\ end'[u] = end[u]
       /\ pos'[t] = x + 1
  BY <1>1, <1>2 DEF FunctionsInv
<1>12. ThreadsInv'
  <2>1. SlotInv(blocks', batch'[t], slots'[SlotOf(t)], unprocessed'[t], pc'[t], pos'[t], end'[t])
    BY <1>1, <1>10, <1>11
  <2>2. \A i \in DOMAIN slots : i # SlotOf(t) => slots'[i] = slots[i]
    BY <1>1
  <2> HIDE DEF s, n, b, x, y, h
  <2> QED
    BY <1>2, <1>7, <1>11, <2>1, <2>2, OneThread
<1>13. PushedInv'
  <2>1. Pushed' \subseteq Pushed
    BY <1>1 DEF Pushed
  <2> QED
    BY <1>2, <1>7, <2>1, PushedKept
<1> QED
  BY <1>8, <1>9, <1>12, <1>13 DEF IInv

\* A partition that is inserted leaves the list, and the last one takes its place.
LEMMA FinishedSlot ==
  ASSUME NEW B, NEW b, NEW s, NEW n, NEW x, NEW y, SlotInv(B, b, s, n, "insert", x, y), x >= y,
         NEW r, DOMAIN r = SlotFields, r.hashes = s.hashes, r.ranges = s.ranges,
         r.ids \in Seq(Prtns), Len(r.ids) = Len(s.ids),
         \A j \in 1..Len(s.ids) : r.ids[j] = IF j = 1 /\ n > 1 THEN s.ids[n] ELSE s.ids[j],
         NEW v, NEW w
  PROVE  SlotInv(B, b, r, n - 1, "partition", v, w)
<1> DEFINE hs == s.hashes
           rs == s.ranges
           q == s.ids[1]
<1>1. /\ b \in Batches /\ Buffered(b, hs, rs) /\ n > 0 /\ Inserting(B, s, x, y) /\ Remaining(B, s, n)
  BY DEF SlotInv
<1>2. /\ q \in Prtns /\ n \in Nat /\ n <= Len(s.ids) /\ Len(s.ids) \in Nat
      /\ rs[q] \in Int /\ rs[q + 1] \in Int
  <2>1. rs[q] \in 0..Len(b) /\ rs[q + 1] \in 0..Len(b) /\ Len(b) \in Nat
    BY <1>1, FirstPartition
  <2>2. q \in Prtns /\ n \in Nat /\ n <= Len(s.ids) /\ Len(s.ids) \in Nat
    BY <1>1, FirstPartition
  <2> HIDE DEF rs, q
  <2> QED
    BY <2>1, <2>2
<1>3. AllIn(B, hs, rs[q], rs[q + 1])
  <2>1. AllIn(B, hs, rs[q], x) /\ y = rs[q + 1] /\ x \in 0..Len(hs) /\ Len(hs) \in Nat
    <3>1. Len(hs) \in Nat
      BY <1>1 DEF Buffered
    <3> QED
      BY <1>1, <3>1 DEF Inserting
  <2> HIDE DEF hs, rs, q
  <2>2. (rs[q] + 1)..rs[q + 1] \subseteq (rs[q] + 1)..x
    BY <1>2, <2>1
  <2> QED
    BY <2>1, <2>2 DEF AllIn
<1>4. Remaining(B, r, n - 1)
  <2> SUFFICES ASSUME NEW p \in Prtns, ~AllIn(B, hs, rs[p], rs[p + 1])
               PROVE  \E j \in 1..(n - 1) : r.ids[j] = p
    BY DEF Remaining
  <2>1. PICK j \in 1..n : s.ids[j] = p
    BY <1>1 DEF Remaining
  <2>2. j # 1
    BY <1>3, <2>1
  <2>3. n > 1 /\ j \in 1..Len(s.ids) /\ 1 \in 1..Len(s.ids) /\ 1 \in 1..(n - 1)
    BY <1>2, <2>2
  <2>4. CASE j = n
    BY <2>1, <2>3, <2>4
  <2>5. CASE j # n
    <3>1. j \in 1..(n - 1)
      BY <1>2, <2>5
    <3> QED
      BY <2>1, <2>2, <2>3, <3>1
  <2> QED
    BY <2>4, <2>5
<1>5. n - 1 \in 0..Len(r.ids)
  BY <1>1, <1>2
<1>6. Buffered(b, r.hashes, r.ranges)
  BY <1>1
<1> QED
  BY <1>1, <1>4, <1>5, <1>6 DEF SlotInv

\* A thread is done with a partition.
LEMMA EndPartitionStep ==
  ASSUME OwnStates, IInv, NEW t \in Thread, EndPartition(t)
  PROVE  IInv'
<1> DEFINE s == slots[SlotOf(t)]
           n == unprocessed[t]
           b == batch[t]
           r == slots'[SlotOf(t)]
<1>1. /\ pc[t] = "insert" /\ pos[t] >= end[t]
      /\ unprocessed' = [unprocessed EXCEPT ![t] = unprocessed[t] - 1]
      /\ pc' = [pc EXCEPT ![t] = "partition"]
      /\ blocks' = blocks /\ pending' = pending /\ batch' = batch /\ pos' = pos /\ end' = end
  BY DEF EndPartition
<1>2. /\ FunctionsInv /\ ThreadsInv /\ BlocksInv /\ PushedInv
      /\ blocks # <<>> /\ SlotInv(blocks, b, s, n, "insert", pos[t], end[t])
      /\ SlotOf(t) \in DOMAIN slots
  BY <1>1, AtWork, StatesDistinct DEF IInv, FunctionsInv
<1>3. /\ s.ids \in Seq(Prtns) /\ DOMAIN s = SlotFields /\ n \in Nat /\ n > 0
      /\ n <= Len(s.ids) /\ Len(s.ids) \in Nat
  <2>1. s.ids \in Seq(Prtns) /\ DOMAIN s = SlotFields /\ n > 0
    BY <1>2 DEF SlotInv
  <2> HIDE DEF s, n, b
  <2> QED
    BY <1>2, <2>1, FirstPartition
<1>4. /\ DOMAIN slots' = DOMAIN slots
      /\ \A i \in DOMAIN slots : i # SlotOf(t) => slots'[i] = slots[i]
      /\ r = IF n > 1 THEN [s EXCEPT !.ids[1] = s.ids[n]] ELSE s
  <2>1. CASE n > 1
    <3>1. slots' = [slots EXCEPT ![SlotOf(t)].ids[1] = slots[SlotOf(t)].ids[unprocessed[t]]]
      BY <1>3, <2>1 DEF EndPartition
    <3> QED
      BY <1>2, <2>1, <3>1
  <2>2. CASE ~(n > 1)
    BY <2>2 DEF EndPartition
  <2> QED
    BY <2>1, <2>2
<1>5. /\ DOMAIN r = SlotFields /\ r.hashes = s.hashes /\ r.ranges = s.ranges
      /\ r.ids \in Seq(Prtns) /\ Len(r.ids) = Len(s.ids)
      /\ \A j \in 1..Len(s.ids) : r.ids[j] = IF j = 1 /\ n > 1 THEN s.ids[n] ELSE s.ids[j]
  <2> HIDE DEF s, n, r
  <2>1. CASE n > 1
    <3>1. r = [s EXCEPT !.ids = [s.ids EXCEPT ![1] = s.ids[n]]]
      BY <1>4, <2>1
    <3>2. /\ DOMAIN r = SlotFields /\ r.hashes = s.hashes /\ r.ranges = s.ranges
          /\ r.ids = [s.ids EXCEPT ![1] = s.ids[n]]
      BY <1>3, <3>1 DEF SlotFields
    <3>3. s.ids[n] \in Prtns
      <4>1. n \in 1..Len(s.ids)
        BY <1>3
      <4> QED
        BY <1>3, <4>1
    <3>4. r.ids \in Seq(Prtns) /\ Len(r.ids) = Len(s.ids)
      BY <1>3, <3>2, <3>3
    <3>5. \A j \in 1..Len(s.ids) : r.ids[j] = IF j = 1 THEN s.ids[n] ELSE s.ids[j]
      BY <1>3, <3>2
    <3> QED
      BY <2>1, <3>2, <3>4, <3>5
  <2>2. CASE ~(n > 1)
    BY <1>3, <1>4, <2>2
  <2> QED
    BY <2>1, <2>2
<1>6. SlotInv(blocks, b, r, n - 1, "partition", pos[t], end[t])
  <2> HIDE DEF s, n, r, b
  <2> QED
    BY <1>1, <1>2, <1>5, FinishedSlot
<1>7. /\ \A u \in Thread : u # t => /\ pc'[u] = pc[u] /\ batch'[u] = batch[u]
                                    /\ unprocessed'[u] = unprocessed[u]
                                    /\ pos'[u] = pos[u] /\ end'[u] = end[u]
      /\ pc'[t] = "partition" /\ unprocessed'[t] = n - 1
  BY <1>1, <1>2 DEF FunctionsInv
<1>8. FunctionsInv'
  BY <1>1, <1>2, <1>4 DEF FunctionsInv
<1>9. /\ \A h \in Hash : In(blocks, h) => In(blocks', h)
      /\ BlocksInv'
  BY <1>1, <1>2, BlocksKept
<1>10. ThreadsInv'
  <2>1. SlotInv(blocks', batch'[t], slots'[SlotOf(t)], unprocessed'[t], pc'[t], pos'[t], end'[t])
    BY <1>1, <1>6, <1>7
  <2> HIDE DEF s, n, b, r
  <2> QED
    BY <1>2, <1>4, <1>7, <1>9, <2>1, OneThread
<1>11. PushedInv'
  <2>1. Pushed' \subseteq Pushed
    BY <1>1, <1>7 DEF Pushed
  <2> QED
    BY <1>2, <1>9, <2>1, PushedKept
<1> QED
  BY <1>8, <1>9, <1>10, <1>11 DEF IInv

\* A batch of which no partition remains is found.
LEMMA NothingRemains ==
  ASSUME NEW B, NEW b, NEW s, NEW c, NEW x, NEW y, SlotInv(B, b, s, 0, c, x, y)
  PROVE  \A k \in DOMAIN b : In(B, b[k])
<1> SUFFICES ASSUME NEW k \in DOMAIN b PROVE In(B, b[k])
  OBVIOUS
<1>1. Buffered(b, s.hashes, s.ranges) /\ Remaining(B, s, 0)
  BY DEF SlotInv
<1>2. PICK p \in Prtns : \E i \in (s.ranges[p] + 1)..s.ranges[p + 1] : s.hashes[i] = b[k]
  BY <1>1 DEF Buffered
<1>3. PICK i \in (s.ranges[p] + 1)..s.ranges[p + 1] : s.hashes[i] = b[k]
  BY <1>2
<1>4. AllIn(B, s.hashes, s.ranges[p], s.ranges[p + 1])
  BY <1>1 DEF Remaining
<1>5. In(B, s.hashes[i])
  BY <1>4 DEF AllIn
<1> QED
  BY <1>3, <1>5

\* A thread is done with its batch.
LEMMA EndBatchStep ==
  ASSUME OwnStates, IInv, NEW t \in Thread, EndBatch(t)
  PROVE  IInv'
<1>1. /\ pc[t] = "partition" /\ unprocessed[t] = 0 /\ pc' = [pc EXCEPT ![t] = "idle"]
      /\ blocks' = blocks /\ pending' = pending /\ slots' = slots /\ batch' = batch
      /\ unprocessed' = unprocessed /\ pos' = pos /\ end' = end
  BY DEF EndBatch
<1>2. /\ FunctionsInv /\ ThreadsInv /\ BlocksInv /\ PushedInv
      /\ blocks # <<>>
      /\ SlotInv(blocks, batch[t], slots[SlotOf(t)], 0, "partition", pos[t], end[t])
  BY <1>1, AtWork DEF IInv
<1>3. /\ \A u \in Thread : u # t => pc'[u] = pc[u]
      /\ pc'[t] = "idle"
  BY <1>1, <1>2 DEF FunctionsInv
<1>4. FunctionsInv'
  BY <1>1, <1>2 DEF FunctionsInv
<1>5. ThreadsInv'
  BY <1>1, <1>2, <1>3 DEF ThreadsInv
<1>6. BlocksInv'
  BY <1>1, <1>2, BlocksKept
<1>7. PushedInv'
  <2>1. Pushed' \subseteq Pushed \cup {batch[t]}
    BY <1>1, <1>3 DEF Pushed
  <2>2. \A k \in DOMAIN batch[t] : In(blocks, batch[t][k])
    BY <1>2, NothingRemains
  <2>3. \A b \in Pushed' : \A k \in DOMAIN b : In(blocks, b[k])
    BY <1>2, <2>1, <2>2 DEF PushedInv
  <2> QED
    BY <1>1, <2>3 DEF PushedInv
<1> QED
  BY <1>4, <1>5, <1>6, <1>7 DEF IInv

\* Every step keeps the invariant.
LEMMA NextInv ==
  ASSUME OwnStates, IInv, [Next]_vars
  PROVE  IInv'
<1>1. CASE Begin
  BY <1>1, BeginStep
<1>2. CASE \E t \in Thread, b \in Batches : PushNextBatch(t, b)
  BY <1>2, PushStep
<1>3. CASE \E t \in Thread : TakePartition(t) \/ Insert(t) \/ EndPartition(t) \/ EndBatch(t)
  BY <1>3, TakeStep, InsertStep, EndPartitionStep, EndBatchStep
<1>4. CASE vars' = vars
  <2>1. /\ blocks' = blocks /\ pending' = pending /\ slots' = slots /\ pc' = pc
        /\ batch' = batch /\ unprocessed' = unprocessed /\ pos' = pos /\ end' = end
    BY <1>4 DEF vars
  <2>2. FunctionsInv' /\ ThreadsInv' /\ BlocksInv' /\ PushedInv'
    BY <2>1 DEF IInv, FunctionsInv, ThreadsInv, BlocksInv, PushedInv, Pushed
  <2> QED
    BY <2>2 DEF IInv
<1> QED
  BY <1>1, <1>2, <1>3, <1>4 DEF Next, Terminated

\* The invariant holds throughout the build.
LEMMA BuildInv ==
  ASSUME OwnStates
  PROVE  Spec => []IInv
<1>1. Init => IInv
  BY InitInv
<1>2. IInv /\ [Next]_vars => IInv'
  BY NextInv
<1> QED
  BY <1>1, <1>2, PTL DEF Spec

\* NoFalseNegatives, for any number of scheduler threads, batches, partitions
\* and blocks: once PushNextBatch has returned, every hash of its batch is
\* found, if every thread has a ThreadLocalState of its own.  With two threads
\* outside the scheduler it is false (configuration BloomFilterExternal).
THEOREM NoHashLost ==
  ASSUME OwnStates
  PROVE  Spec => []NoFalseNegatives
<1>1. IInv => NoFalseNegatives
  <2> SUFFICES ASSUME IInv, NEW h \in HashesOf(Pushed) PROVE Find(h)
    BY DEF NoFalseNegatives
  <2>1. PICK b \in Pushed : \E k \in DOMAIN b : h = b[k]
    BY DEF HashesOf
  <2> QED
    BY <2>1 DEF IInv, PushedInv, In, Find
<1> QED
  BY <1>1, BuildInv, PTL

\* SameAsSingleThreaded under the same assumption: however the threads
\* interleave, the blocks end with the bits of every hash and no others.
THEOREM BuildersAgree ==
  ASSUME OwnStates
  PROVE  Spec => []SameAsSingleThreaded
<1>1. IInv => SameAsSingleThreaded
  <2> SUFFICES ASSUME IInv, Built, NEW x \in Block PROVE blocks[x] = BitsOf(x)
    BY DEF SameAsSingleThreaded, BitsOf
  <2>1. Pushed = Batches
    BY DEF Built, Pushed
  <2>2. blocks[x] \subseteq BitsOf(x)
    BY DEF IInv, BlocksInv, Built
  <2>3. \A h \in HashesOf(Batches) : mask(h) \subseteq blocks[block_id(h)]
    BY <2>1 DEF IInv, PushedInv, In, HashesOf
  <2>4. BitsOf(x) \subseteq blocks[x]
    BY <2>3 DEF BitsOf
  <2> QED
    BY <2>2, <2>4
<1> QED
  BY <1>1, BuildInv, PTL

=============================================================================
