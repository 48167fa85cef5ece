--------------------------- MODULE Pipelines_proofs ---------------------------
(***************************************************************************)
(* What BuildPipelines builds, for every plan: pipelines and MetaPipelines *)
(* that belong together, and, whatever route reaches an operator first,    *)
(* dependencies on everything that a pipeline probes or reads.             *)
(***************************************************************************)
EXTENDS QueryPlanning, SequenceTheorems, FiniteSetTheorems, WellFoundedInduction, TLAPS

-----------------------------------------------------------------------------
(* Sequences, whatever their elements *)

IsSeq(s) == s \in Seq({s[i] : i \in DOMAIN s})

\* A member of Seq(S) is a sequence.
LEMMA SeqIsSeq ==
  ASSUME NEW S, NEW s \in Seq(S)
  PROVE  IsSeq(s) /\ Len(s) \in Nat /\ DOMAIN s = 1..Len(s)
BY DEF IsSeq

\* Append on a sequence of anything.
LEMMA IsSeqAppend ==
  ASSUME NEW s, IsSeq(s), NEW e
  PROVE  /\ IsSeq(Append(s, e)) /\ Len(s) \in Nat /\ Len(Append(s, e)) = Len(s) + 1
         /\ DOMAIN s = 1..Len(s) /\ DOMAIN Append(s, e) = 1..(Len(s) + 1)
         /\ \A i \in DOMAIN s : Append(s, e)[i] = s[i]
         /\ Append(s, e)[Len(s) + 1] = e
<1> DEFINE S == {s[i] : i \in DOMAIN s} \cup {e}
<1>1. s \in Seq(S) /\ e \in S
  BY DEF IsSeq
<1>2. Append(s, e) \in Seq(S)
  BY <1>1
<1> HIDE DEF S
<1>3. IsSeq(Append(s, e))
  BY <1>2, SeqIsSeq
<1> QED
  BY <1>1, <1>3

\* t consists of r and s, with elements of S.
ConcatOf(S, r, s, t) ==
  /\ t \in Seq(S) /\ Len(t) = Len(r) + Len(s)
  /\ \A i \in 1..Len(r) + Len(s) : t[i] = IF i <= Len(r) THEN r[i] ELSE s[i - Len(r)]

\* That is concatenation.
LEMMA ConcatIs ==
  ASSUME NEW S, NEW r \in Seq(S), NEW s \in Seq(S)
  PROVE  ConcatOf(S, r, s, r \o s)
BY ConcatProperties, Zenon DEF ConcatOf

\* Changing an element keeps the length.
LEMMA IsSeqExcept ==
  ASSUME NEW s, IsSeq(s), NEW i, NEW e
  PROVE  /\ IsSeq([s EXCEPT ![i] = e]) /\ Len([s EXCEPT ![i] = e]) = Len(s)
         /\ DOMAIN [s EXCEPT ![i] = e] = DOMAIN s
<1> DEFINE S == {s[j] : j \in DOMAIN s} \cup {e}
           t == [s EXCEPT ![i] = e]
<1>1. s \in Seq(S)
  BY DEF IsSeq
<1>2. t \in Seq(S) /\ Len(t) = Len(s)
  <2>1. CASE i \in DOMAIN s
    BY <1>1, <2>1, ExceptSeq
  <2>2. CASE i \notin DOMAIN s
    <3>1. t = s
      BY <1>1, <2>2
    <3> QED
      BY <1>1, <3>1
  <2> QED
    BY <2>1, <2>2
<1> HIDE DEF S
<1> QED
  BY <1>2, SeqIsSeq

\* The elements of a concatenation are those of its parts.
LEMMA IsSeqConcat ==
  ASSUME NEW s, IsSeq(s), NEW t, IsSeq(t)
  PROVE  /\ IsSeq(s \o t)
         /\ \A i \in DOMAIN (s \o t) :
              \/ i \in DOMAIN s /\ (s \o t)[i] = s[i]
              \/ \E j \in DOMAIN t : (s \o t)[i] = t[j]
<1> DEFINE S == {s[j] : j \in DOMAIN s} \cup {t[j] : j \in DOMAIN t}
<1>1. s \in Seq(S) /\ t \in Seq(S)
  BY DEF IsSeq
<1> HIDE DEF S
<1>2. /\ s \o t \in Seq(S) /\ Len(s \o t) = Len(s) + Len(t)
      /\ \A i \in 1..(Len(s) + Len(t)) :
           (s \o t)[i] = IF i <= Len(s) THEN s[i] ELSE t[i - Len(s)]
  BY <1>1, ConcatIs, Zenon DEF ConcatOf
<1>3. /\ IsSeq(s \o t) /\ DOMAIN (s \o t) = 1..(Len(s) + Len(t))
      /\ DOMAIN s = 1..Len(s) /\ DOMAIN t = 1..Len(t) /\ Len(s) \in Nat /\ Len(t) \in Nat
  BY <1>1, <1>2, SeqIsSeq
<1>4. ASSUME NEW i \in DOMAIN (s \o t), i \notin DOMAIN s
      PROVE  i - Len(s) \in DOMAIN t /\ (s \o t)[i] = t[i - Len(s)]
  BY <1>2, <1>3, <1>4
<1>5. ASSUME NEW i \in DOMAIN (s \o t), i \in DOMAIN s
      PROVE  (s \o t)[i] = s[i]
  BY <1>2, <1>3, <1>5
<1> QED
  BY <1>3, <1>4, <1>5

\* The elements of the rest of a sequence.
LEMMA IsSeqTail ==
  ASSUME NEW s, IsSeq(s), s # <<>>
  PROVE  /\ IsSeq(Tail(s))
         /\ \A i \in DOMAIN Tail(s) : i + 1 \in DOMAIN s /\ Tail(s)[i] = s[i + 1]
         /\ 1 \in DOMAIN s /\ Head(s) = s[1]
<1> DEFINE S == {s[j] : j \in DOMAIN s}
<1>1. s \in Seq(S)
  BY DEF IsSeq
<1> HIDE DEF S
<1>2. /\ Tail(s) \in Seq(S) /\ Len(Tail(s)) = Len(s) - 1
      /\ \A i \in 1..Len(Tail(s)) : Tail(s)[i] = s[i + 1]
  BY <1>1, HeadTailProperties
<1>3. /\ IsSeq(Tail(s)) /\ DOMAIN Tail(s) = 1..Len(Tail(s))
      /\ Len(s) \in Nat /\ DOMAIN s = 1..Len(s)
  BY <1>1, <1>2, SeqIsSeq
<1>4. 1 \in DOMAIN s /\ Head(s) = s[1]
  BY <1>1, <1>3
<1> QED
  BY <1>2, <1>3, <1>4

\* A set of naturals has a least element.
LEMMA LeastNumber ==
  ASSUME NEW I \in SUBSET Nat, I # {}
  PROVE  Min(I) \in I
<1> DEFINE R == OpToRel(<, Nat)
<1>1. IsWellFoundedOn(R, Nat)
  BY NatLessThanWellFounded
<1>2. \A x, y \in Nat : y < x => <<y, x>> \in R
  BY DEF OpToRel
<1> HIDE DEF R
<1>3. PICK x \in I : \A y \in I : ~(<<y, x>> \in R)
  BY <1>1, WFMin
<1>4. ASSUME NEW y \in I
      PROVE  x <= y
  <2>1. x \in Nat /\ y \in Nat
    OBVIOUS
  <2>2. ~(y < x)
    BY <1>2, <1>3, <2>1
  <2> QED
    BY <2>1, <2>2
<1>5. \E z \in I : \A y \in I : z <= y
  BY <1>4
<1> QED
  BY <1>5, Zenon DEF Min

\* A part of a sequence is a sequence.
LEMMA IsSeqSubSeq ==
  ASSUME NEW s, IsSeq(s), NEW m \in Nat \ {0}, NEW n \in Int, n <= Len(s)
  PROVE  IsSeq(SubSeq(s, m, n))
<1> DEFINE S == {s[i] : i \in DOMAIN s}
<1>1. s \in Seq(S) /\ Len(s) \in Nat /\ DOMAIN s = 1..Len(s)
  BY DEF IsSeq
<1>2. \A i \in m..n : s[i] \in S
  BY <1>1
<1> HIDE DEF S
<1>3. SubSeq(s, m, n) \in Seq(S)
  BY <1>2, SubSeqProperties
<1> QED
  BY <1>3, SeqIsSeq

\* What SelectInSeq finds for an element.
Found(s, x) == LET I == {i \in 1..Len(s) : s[i] = x} IN IF I # {} THEN Min(I) ELSE 0

\* Where an element is first found.
LEMMA Position ==
  ASSUME NEW s, IsSeq(s), NEW x
  PROVE  Found(s, x) \in 0..Len(s)
<1> DEFINE I == {i \in 1..Len(s) : s[i] = x}
<1>1. Len(s) \in Nat
  BY DEF IsSeq
<1>2. I \subseteq 1..Len(s) /\ I \in SUBSET Nat
  BY <1>1
<1>3. Found(s, x) = IF I # {} THEN Min(I) ELSE 0
  BY DEF Found
<1> HIDE DEF I
<1>4. I # {} => Min(I) \in I
  BY <1>2, LeastNumber
<1>5. CASE I = {}
  BY <1>1, <1>3, <1>5
<1>6. CASE I # {}
  <2>1. Min(I) \in 1..Len(s) /\ Found(s, x) = Min(I)
    BY <1>2, <1>3, <1>4, <1>6
  <2>2. \A l \in Nat : 1..l \subseteq 0..l
    OBVIOUS
  <2> QED
    BY <1>1, <2>1, <2>2
<1> QED
  BY <1>5, <1>6

\* The part of a sequence before an element.
LEMMA PartBefore ==
  ASSUME NEW s, IsSeq(s), NEW x
  PROVE  /\ IsSeq(SubSeq(s, 1, Found(s, x) - 1))
         /\ ToSet(SubSeq(s, 1, Found(s, x) - 1)) \subseteq ToSet(s)
<1> DEFINE k == Found(s, x) - 1
<1>1. Len(s) \in Nat /\ DOMAIN s = 1..Len(s)
  BY IsSeqAppend
<1>2. k \in Int /\ k <= Len(s)
  BY <1>1, Position
<1> HIDE DEF k
<1>3. IsSeq(SubSeq(s, 1, k))
  BY <1>2, IsSeqSubSeq
<1>4. ToSet(SubSeq(s, 1, k)) \subseteq ToSet(s)
  BY <1>1, <1>2, <1>3 DEF ToSet, IsSeq
<1> QED
  BY <1>3, <1>4 DEF k

\* A sequence without one of its elements.
LEMMA IsSeqRemove ==
  ASSUME NEW s, IsSeq(s), NEW x
  PROVE  IsSeq(RemoveFirst(s, x))
<1> DEFINE k == Found(s, x)
           I == {i \in 1..Len(s) : s[i] = x}
<1>1. Len(s) \in Nat
  BY DEF IsSeq
<1>2. CASE I = {}
  BY <1>2 DEF RemoveFirst
<1>3. CASE I # {}
  <2>1. RemoveFirst(s, x) = SubSeq(s, 1, k - 1) \o SubSeq(s, k + 1, Len(s))
    BY <1>3, Zenon DEF RemoveFirst, RemoveAt, SelectInSeq, Found
  <2>2. k \in 0..Len(s)
    BY Position
  <2> HIDE DEF k
  <2>3. IsSeq(SubSeq(s, 1, k - 1)) /\ IsSeq(SubSeq(s, k + 1, Len(s)))
    BY <1>1, <2>2, IsSeqSubSeq
  <2> QED
    BY <2>1, <2>3, IsSeqConcat
<1> QED
  BY <1>2, <1>3

-----------------------------------------------------------------------------
(* The pipelines of a MetaPipeline know it *)

BuildFields    == {"this_pipeline", "pipelines", "metas", "root", "calls"}
PipelineFields == {"meta", "source", "operators", "dependencies", "inner", "group", "ready"}
MetaFields     == {"sink", "children", "pipelines", "finish"}
CallFields     == {"fn", "op", "pipe", "meta", "last"}

\* p is a pipeline of the MetaPipeline m.
Belongs(b, p, m) == p \in DOMAIN b.pipelines /\ b.pipelines[p].meta = m

\* What a pipeline runs and waits for is listed.
Listed(pipeline) ==
  IsSeq(pipeline.operators) /\ IsSeq(pipeline.dependencies) /\ IsSeq(pipeline.inner)

PipelineOK(b, p) ==
  /\ DOMAIN b.pipelines[p] = PipelineFields
  /\ Listed(b.pipelines[p])
  /\ b.pipelines[p].meta \in DOMAIN b.metas
  /\ b.pipelines[p].group = NoPipeline \/ Belongs(b, b.pipelines[p].group, b.pipelines[p].meta)

MetaOK(b, m) ==
  /\ DOMAIN b.metas[m] = MetaFields
  /\ IsSeq(b.metas[m].pipelines) /\ b.metas[m].pipelines # <<>>
  /\ \A i \in DOMAIN b.metas[m].pipelines : Belongs(b, b.metas[m].pipelines[i], m)
  /\ \A p \in b.metas[m].finish : Belongs(b, p, m)

\* The call that makes the second pipeline of an IEJoin still has the old one.
CallOK(b, c) ==
  /\ DOMAIN c = CallFields
  /\ c.op \in Op
  /\ c.meta \in DOMAIN b.metas
  /\ c.fn = "CreatePipeline" \/ Belongs(b, c.pipe, c.meta)

Shape(b) ==
  /\ DOMAIN b = BuildFields
  /\ IsSeq(b.pipelines) /\ IsSeq(b.metas) /\ IsSeq(b.calls) /\ b.root \in Nat
  /\ \A p \in DOMAIN b.pipelines : PipelineOK(b, p)
  /\ \A m \in DOMAIN b.metas : MetaOK(b, m)
  /\ \A i \in DOMAIN b.calls : CallOK(b, b.calls[i])

\* Building adds pipelines and MetaPipelines, and no pipeline changes hands.
Grows(b, c) ==
  /\ DOMAIN b.pipelines \subseteq DOMAIN c.pipelines
  /\ DOMAIN b.metas \subseteq DOMAIN c.metas
  /\ \A p \in DOMAIN b.pipelines : c.pipelines[p].meta = b.pipelines[p].meta
  /\ c.calls = b.calls /\ c.root = b.root

\* What belonged to a MetaPipeline belongs to it still.
LEMMA GrowsKeeps ==
  ASSUME NEW b, NEW c, Grows(b, c)
  PROVE  /\ \A p, m : Belongs(b, p, m) => Belongs(c, p, m)
         /\ \A x : CallOK(b, x) => CallOK(c, x)
<1>1. \A p, m : Belongs(b, p, m) => Belongs(c, p, m)
  BY DEF Grows, Belongs
<1> QED
  BY <1>1 DEF Grows, CallOK

\* Only fields of pipelines change that do not matter here.
LEMMA SamePipelines ==
  ASSUME NEW b, NEW c, Shape(b), DOMAIN c = BuildFields,
         c.metas = b.metas, c.calls = b.calls, c.root = b.root,
         IsSeq(c.pipelines), DOMAIN c.pipelines = DOMAIN b.pipelines,
         \A p \in DOMAIN b.pipelines : /\ DOMAIN c.pipelines[p] = PipelineFields
                                       /\ Listed(c.pipelines[p])
                                       /\ c.pipelines[p].meta = b.pipelines[p].meta
                                       /\ c.pipelines[p].group = b.pipelines[p].group
  PROVE  Shape(c) /\ Grows(b, c)
<1>1. Grows(b, c)
  BY DEF Grows
<1>2. \A p \in DOMAIN c.pipelines : PipelineOK(c, p)
  BY <1>1, GrowsKeeps DEF Shape, PipelineOK
<1>3. \A m \in DOMAIN c.metas : MetaOK(c, m)
  BY <1>1, GrowsKeeps DEF Shape, MetaOK
<1>4. \A i \in DOMAIN c.calls : CallOK(c, c.calls[i])
  BY <1>1, GrowsKeeps DEF Shape
<1> QED
  BY <1>1, <1>2, <1>3, <1>4 DEF Shape

\* Changing a pipeline, but not where it belongs, keeps the shape.
LEMMA ReplacePipeline ==
  ASSUME NEW b, NEW c, Shape(b), NEW p, NEW r, DOMAIN c = BuildFields,
         c.metas = b.metas, c.calls = b.calls, c.root = b.root,
         c.pipelines = [b.pipelines EXCEPT ![p] = r],
         p \in DOMAIN b.pipelines =>
           /\ DOMAIN r = PipelineFields /\ Listed(r)
           /\ r.meta = b.pipelines[p].meta /\ r.group = b.pipelines[p].group
  PROVE  Shape(c) /\ Grows(b, c)
<1>1. IsSeq(b.pipelines)
  BY DEF Shape
<1>2. IsSeq(c.pipelines) /\ DOMAIN c.pipelines = DOMAIN b.pipelines
  <2>1. IsSeq([b.pipelines EXCEPT ![p] = r])
    BY <1>1, IsSeqExcept, Zenon
  <2>2. DOMAIN [b.pipelines EXCEPT ![p] = r] = DOMAIN b.pipelines
    BY <1>1, IsSeqExcept, Zenon
  <2> QED
    BY <2>1, <2>2
<1>3. ASSUME NEW q \in DOMAIN b.pipelines
      PROVE  /\ DOMAIN c.pipelines[q] = PipelineFields /\ Listed(c.pipelines[q])
             /\ c.pipelines[q].meta = b.pipelines[q].meta
             /\ c.pipelines[q].group = b.pipelines[q].group
  BY DEF Shape, PipelineOK
<1> QED
  BY <1>2, <1>3, SamePipelines

\* SetPipelineSource keeps the shape of what is built.
LEMMA SetPipelineSourceShape ==
  ASSUME NEW b, Shape(b), NEW p, NEW op
  PROVE  /\ Shape(SetPipelineSource(b, p, op))
         /\ Grows(b, SetPipelineSource(b, p, op))
<1> DEFINE c == SetPipelineSource(b, p, op)
           v == op
           r == [b.pipelines[p] EXCEPT !.source = v]
<1>1. /\ DOMAIN c = BuildFields /\ c.metas = b.metas /\ c.calls = b.calls /\ c.root = b.root
      /\ c.pipelines = [b.pipelines EXCEPT ![p] = r]
  BY DEF SetPipelineSource, Shape, BuildFields
<1> HIDE DEF v
<1>2. p \in DOMAIN b.pipelines =>
        /\ DOMAIN r = PipelineFields /\ Listed(r)
        /\ r.meta = b.pipelines[p].meta /\ r.group = b.pipelines[p].group
  BY DEF Shape, PipelineOK, PipelineFields, Listed
<1> HIDE DEF c, r
<1>3. Shape(c) /\ Grows(b, c)
  BY <1>1, <1>2, ReplacePipeline
<1> QED
  BY <1>3 DEF c

\* AddPipelineOperator keeps the shape of what is built.
LEMMA AddPipelineOperatorShape ==
  ASSUME NEW b, Shape(b), NEW p, NEW op
  PROVE  /\ Shape(AddPipelineOperator(b, p, op))
         /\ Grows(b, AddPipelineOperator(b, p, op))
<1> DEFINE c == AddPipelineOperator(b, p, op)
           v == Append(b.pipelines[p].operators, op)
           r == [b.pipelines[p] EXCEPT !.operators = v]
<1>1. /\ DOMAIN c = BuildFields /\ c.metas = b.metas /\ c.calls = b.calls /\ c.root = b.root
      /\ c.pipelines = [b.pipelines EXCEPT ![p] = r]
  BY DEF AddPipelineOperator, Shape, BuildFields
<1>a. p \in DOMAIN b.pipelines => IsSeq(v)
  BY IsSeqAppend DEF Shape, PipelineOK, Listed
<1> HIDE DEF v
<1>2. p \in DOMAIN b.pipelines =>
        /\ DOMAIN r = PipelineFields /\ Listed(r)
        /\ r.meta = b.pipelines[p].meta /\ r.group = b.pipelines[p].group
  BY <1>a DEF Shape, PipelineOK, PipelineFields, Listed
<1> HIDE DEF c, r
<1>3. Shape(c) /\ Grows(b, c)
  BY <1>1, <1>2, ReplacePipeline
<1> QED
  BY <1>3 DEF c

\* AddDependency keeps the shape of what is built.
LEMMA AddDependencyShape ==
  ASSUME NEW b, Shape(b), NEW p, NEW d
  PROVE  /\ Shape(AddDependency(b, p, d))
         /\ Grows(b, AddDependency(b, p, d))
         /\ AddDependency(b, p, d).metas = b.metas
         /\ Len(AddDependency(b, p, d).pipelines) = Len(b.pipelines)
<1> DEFINE c == AddDependency(b, p, d)
           v == Append(b.pipelines[p].dependencies, d)
           r == [b.pipelines[p] EXCEPT !.dependencies = v]
<1>1. /\ DOMAIN c = BuildFields /\ c.metas = b.metas /\ c.calls = b.calls /\ c.root = b.root
      /\ c.pipelines = [b.pipelines EXCEPT ![p] = r]
  BY DEF AddDependency, Shape, BuildFields
<1>a. p \in DOMAIN b.pipelines => IsSeq(v)
  BY IsSeqAppend DEF Shape, PipelineOK, Listed
<1> HIDE DEF v
<1>2. p \in DOMAIN b.pipelines =>
        /\ DOMAIN r = PipelineFields /\ Listed(r)
        /\ r.meta = b.pipelines[p].meta /\ r.group = b.pipelines[p].group
  BY <1>a DEF Shape, PipelineOK, PipelineFields, Listed
<1> HIDE DEF c, r
<1>3. Shape(c) /\ Grows(b, c)
  BY <1>1, <1>2, ReplacePipeline
<1>4. Len(c.pipelines) = Len(b.pipelines)
  <2>1. IsSeq(b.pipelines)
    BY DEF Shape
  <2>2. Len([b.pipelines EXCEPT ![p] = r]) = Len(b.pipelines)
    BY <2>1, IsSeqExcept, ZenonT(60)
  <2> QED
    BY <1>1, <2>2
<1> QED
  BY <1>1, <1>3, <1>4 DEF c

\* AddDependenciesFrom keeps the shape of what is built.
LEMMA AddDependenciesFromShape ==
  ASSUME NEW b, Shape(b), NEW m \in DOMAIN b.metas, NEW p, NEW start
  PROVE  /\ Shape(AddDependenciesFrom(b, m, p, start))
         /\ Grows(b, AddDependenciesFrom(b, m, p, start))
<1> DEFINE c == AddDependenciesFrom(b, m, p, start)
           made == b.metas[m].pipelines
           k == Found(made, start)
           u == CreatedAfter(b, m, start)
           v == RemoveFirst(u, p) \o b.pipelines[p].inner
           r == [b.pipelines[p] EXCEPT !.inner = v]
<1>1. /\ DOMAIN c = BuildFields /\ c.metas = b.metas /\ c.calls = b.calls /\ c.root = b.root
      /\ c.pipelines = [b.pipelines EXCEPT ![p] = r]
  BY DEF AddDependenciesFrom, Shape, BuildFields
<1>a. IsSeq(made) /\ u = SubSeq(made, k + 1, Len(made))
  BY Zenon DEF Shape, MetaOK, CreatedAfter, SelectInSeq, Found
<1>b. k \in 0..Len(made) /\ Len(made) \in Nat
  <2> HIDE DEF made
  <2>1. k \in 0..Len(made)
    BY <1>a, Position
  <2> QED
    BY <1>a, <2>1 DEF IsSeq
<1> HIDE DEF k, made, u
<1>c. IsSeq(u)
  BY <1>a, <1>b, IsSeqSubSeq
<1>d. p \in DOMAIN b.pipelines => IsSeq(v)
  <2>1. IsSeq(RemoveFirst(u, p))
    BY <1>c, IsSeqRemove
  <2> QED
    BY <2>1, IsSeqConcat DEF Shape, PipelineOK, Listed
<1> HIDE DEF v
<1>2. p \in DOMAIN b.pipelines =>
        /\ DOMAIN r = PipelineFields /\ Listed(r)
        /\ r.meta = b.pipelines[p].meta /\ r.group = b.pipelines[p].group
  BY <1>d DEF Shape, PipelineOK, PipelineFields, Listed
<1> HIDE DEF c, r
<1>3. Shape(c) /\ Grows(b, c)
  BY <1>1, <1>2, ReplacePipeline
<1> QED
  BY <1>3 DEF c

\* A MetaPipeline gets one more pipeline.
LEMMA AddPipelineShape ==
  ASSUME NEW b, Shape(b), NEW m \in DOMAIN b.metas, NEW r,
         DOMAIN r = PipelineFields, Listed(r), r.meta = m, r.group = NoPipeline
  PROVE  /\ Shape(AddPipeline(b, m, r)) /\ Grows(b, AddPipeline(b, m, r))
         /\ Belongs(AddPipeline(b, m, r), Len(b.pipelines) + 1, m)
         /\ Len(AddPipeline(b, m, r).pipelines) = Len(b.pipelines) + 1
<1> DEFINE c == AddPipeline(b, m, r)
           n == Len(b.pipelines) + 1
           old == b.metas[m].pipelines
           meta == [b.metas[m] EXCEPT !.pipelines = Append(old, n)]
<1>1. /\ DOMAIN c = BuildFields /\ c.calls = b.calls /\ c.root = b.root
      /\ c.pipelines = Append(b.pipelines, r)
      /\ c.metas = [b.metas EXCEPT ![m] = meta]
  BY DEF AddPipeline, Shape, BuildFields
<1>2. /\ IsSeq(c.pipelines) /\ Len(c.pipelines) = n /\ n \in DOMAIN c.pipelines
      /\ DOMAIN c.pipelines = DOMAIN b.pipelines \cup {n}
      /\ \A p \in DOMAIN b.pipelines : c.pipelines[p] = b.pipelines[p]
      /\ c.pipelines[n] = r
  <2>1. IsSeq(b.pipelines)
    BY DEF Shape
  <2>2. /\ IsSeq(c.pipelines) /\ Len(b.pipelines) \in Nat /\ Len(c.pipelines) = n
        /\ DOMAIN b.pipelines = 1..Len(b.pipelines) /\ DOMAIN c.pipelines = 1..n
        /\ \A p \in DOMAIN b.pipelines : c.pipelines[p] = b.pipelines[p]
        /\ c.pipelines[n] = r
    BY <1>1, <2>1, IsSeqAppend
  <2> QED
    BY <2>2
<1>3. /\ DOMAIN meta = MetaFields /\ meta.finish = b.metas[m].finish
      /\ meta.pipelines = Append(old, n)
  BY DEF Shape, MetaOK, MetaFields
<1>4. /\ IsSeq(Append(old, n)) /\ Append(old, n) # <<>>
      /\ \A i \in DOMAIN Append(old, n) : \/ i \in DOMAIN old /\ Append(old, n)[i] = old[i]
                                          \/ Append(old, n)[i] = n
  <2>1. IsSeq(old)
    BY DEF Shape, MetaOK
  <2> HIDE DEF old, n
  <2>2. /\ IsSeq(Append(old, n)) /\ Len(old) \in Nat
        /\ DOMAIN old = 1..Len(old) /\ DOMAIN Append(old, n) = 1..(Len(old) + 1)
        /\ \A i \in DOMAIN old : Append(old, n)[i] = old[i]
        /\ Append(old, n)[Len(old) + 1] = n
    BY <2>1, IsSeqAppend
  <2>3. Append(old, n) # <<>>
    BY <2>2
  <2> QED
    BY <2>2, <2>3
<1>5. IsSeq(c.metas) /\ DOMAIN c.metas = DOMAIN b.metas
  <2>1. IsSeq(b.metas)
    BY DEF Shape
  <2> HIDE DEF meta
  <2>2. IsSeq([b.metas EXCEPT ![m] = meta]) /\ DOMAIN [b.metas EXCEPT ![m] = meta] = DOMAIN b.metas
    BY <2>1, IsSeqExcept, Zenon
  <2> QED
    BY <1>1, <2>2
<1>6. c.metas[m] = meta /\ \A k \in DOMAIN b.metas : k # m => c.metas[k] = b.metas[k]
  BY <1>1
<1> HIDE DEF c, n, meta, old
<1>7. Grows(b, c)
  BY <1>1, <1>2, <1>5 DEF Grows
<1>8. Belongs(c, n, m)
  BY <1>2 DEF Belongs
<1>9. \A p \in DOMAIN c.pipelines : PipelineOK(c, p)
  <2>1. PipelineOK(c, n)
    BY <1>2, <1>5 DEF PipelineOK
  <2>2. ASSUME NEW p \in DOMAIN b.pipelines
        PROVE  PipelineOK(c, p)
    BY <1>2, <1>5, <1>7, GrowsKeeps DEF Shape, PipelineOK
  <2> QED
    BY <1>2, <2>1, <2>2
<1>10. \A k \in DOMAIN c.metas : MetaOK(c, k)
  <2>1. MetaOK(c, m)
    <3>1. \A i \in DOMAIN old : Belongs(c, old[i], m)
      BY <1>7, GrowsKeeps DEF Shape, MetaOK, old
    <3>2. \A p \in meta.finish : Belongs(c, p, m)
      BY <1>3, <1>7, GrowsKeeps DEF Shape, MetaOK
    <3> QED
      BY <1>3, <1>4, <1>6, <1>8, <3>1, <3>2 DEF MetaOK
  <2>2. ASSUME NEW k \in DOMAIN b.metas, k # m
        PROVE  MetaOK(c, k)
    BY <1>6, <1>7, <2>2, GrowsKeeps DEF Shape, MetaOK
  <2> QED
    BY <1>5, <2>1, <2>2
<1>11. \A i \in DOMAIN c.calls : CallOK(c, c.calls[i])
  BY <1>1, <1>7, GrowsKeeps DEF Shape
<1>12. Shape(c)
  BY <1>1, <1>2, <1>5, <1>9, <1>10, <1>11 DEF Shape
<1> QED
  BY <1>2, <1>7, <1>8, <1>12 DEF c, n

\* A new MetaPipeline with its base pipeline.
LEMMA NewMetaShape ==
  ASSUME NEW b, Shape(b), NEW c, NEW op, NEW ms, DOMAIN c = BuildFields,
         c.calls = b.calls, c.root \in Nat,
         c.pipelines = Append(b.pipelines, NewPipeline(Len(b.metas) + 1)),
         c.metas = Append(ms, NewMeta(op, Len(b.pipelines) + 1)),
         IsSeq(ms), Len(ms) = Len(b.metas),
         \A m \in DOMAIN b.metas : /\ DOMAIN ms[m] = MetaFields
                                   /\ ms[m].pipelines = b.metas[m].pipelines
                                   /\ ms[m].finish = b.metas[m].finish
  PROVE  /\ Shape(c)
         /\ c.root = b.root => Grows(b, c)
         /\ Len(c.pipelines) = Len(b.pipelines) + 1 /\ Len(c.metas) = Len(b.metas) + 1
         /\ Belongs(c, Len(b.pipelines) + 1, Len(b.metas) + 1)
         /\ Len(b.metas) + 1 \in DOMAIN c.metas
<1> DEFINE n == Len(b.pipelines) + 1
           k == Len(b.metas) + 1
<1>1. IsSeq(b.pipelines) /\ IsSeq(b.metas)
  BY DEF Shape
<1>2. Len(ms) \in Nat /\ DOMAIN ms = 1..Len(ms) /\ DOMAIN ms = DOMAIN b.metas
  <2>1. Len(ms) \in Nat /\ DOMAIN ms = 1..Len(ms)
    BY IsSeqAppend
  <2>2. Len(b.metas) \in Nat /\ DOMAIN b.metas = 1..Len(b.metas)
    BY <1>1, IsSeqAppend
  <2> QED
    BY <2>1, <2>2
<1>3. /\ IsSeq(c.pipelines) /\ Len(c.pipelines) = n /\ n \in DOMAIN c.pipelines
      /\ DOMAIN c.pipelines = DOMAIN b.pipelines \cup {n}
      /\ \A p \in DOMAIN b.pipelines : c.pipelines[p] = b.pipelines[p]
      /\ c.pipelines[n] = NewPipeline(k)
  <2>1. /\ IsSeq(c.pipelines) /\ Len(b.pipelines) \in Nat /\ Len(c.pipelines) = n
        /\ DOMAIN b.pipelines = 1..Len(b.pipelines) /\ DOMAIN c.pipelines = 1..n
        /\ \A p \in DOMAIN b.pipelines : c.pipelines[p] = b.pipelines[p]
        /\ c.pipelines[n] = NewPipeline(k)
    BY <1>1, IsSeqAppend
  <2> QED
    BY <2>1
<1>4. /\ IsSeq(c.metas) /\ Len(c.metas) = k /\ k \in DOMAIN c.metas
      /\ DOMAIN c.metas = DOMAIN b.metas \cup {k} /\ k \notin DOMAIN b.metas
      /\ \A m \in DOMAIN b.metas : c.metas[m] = ms[m]
      /\ c.metas[k] = NewMeta(op, n)
  <2>1. /\ IsSeq(c.metas) /\ Len(c.metas) = Len(ms) + 1
        /\ DOMAIN c.metas = 1..(Len(ms) + 1)
        /\ \A m \in DOMAIN ms : c.metas[m] = ms[m]
        /\ c.metas[Len(ms) + 1] = NewMeta(op, n)
    BY IsSeqAppend
  <2> QED
    BY <1>2, <2>1
<1> HIDE DEF n, k
<1>5. DOMAIN NewPipeline(k) = PipelineFields /\ NewPipeline(k).meta = k
      /\ NewPipeline(k).group = NoPipeline /\ Listed(NewPipeline(k))
  BY DEF NewPipeline, PipelineFields, Listed, IsSeq
<1>6. /\ DOMAIN NewMeta(op, n) = MetaFields /\ NewMeta(op, n).finish = {}
      /\ NewMeta(op, n).pipelines = <<n>> /\ IsSeq(<<n>>) /\ <<n>> # <<>>
      /\ \A i \in DOMAIN <<n>> : <<n>>[i] = n
  BY DEF NewMeta, MetaFields, IsSeq
<1>7. \A p, m : Belongs(b, p, m) => Belongs(c, p, m)
  BY <1>3 DEF Belongs
<1>8. \A x : CallOK(b, x) => CallOK(c, x)
  BY <1>4, <1>7 DEF CallOK
<1>9. Belongs(c, n, k)
  BY <1>3, <1>5 DEF Belongs
<1>10. \A p \in DOMAIN c.pipelines : PipelineOK(c, p)
  <2>1. PipelineOK(c, n)
    BY <1>3, <1>4, <1>5 DEF PipelineOK
  <2>2. ASSUME NEW p \in DOMAIN b.pipelines
        PROVE  PipelineOK(c, p)
    BY <1>3, <1>4, <1>7 DEF Shape, PipelineOK
  <2> QED
    BY <1>3, <2>1, <2>2
<1>11. \A m \in DOMAIN c.metas : MetaOK(c, m)
  <2>1. MetaOK(c, k)
    <3> DEFINE x == c.metas[k]
    <3>1. /\ DOMAIN x = MetaFields /\ x.finish = {} /\ x.pipelines = <<n>>
      BY <1>4, <1>6
    <3>2. /\ IsSeq(x.pipelines) /\ x.pipelines # <<>>
      BY <1>6, <3>1
    <3>3. \A i \in DOMAIN x.pipelines : x.pipelines[i] = n
      BY <1>6, <3>1
    <3>4. \A p \in x.finish : Belongs(c, p, k)
      BY <3>1
    <3>5. \A i \in DOMAIN x.pipelines : Belongs(c, x.pipelines[i], k)
      BY <1>9, <3>3
    <3> QED
      BY <3>1, <3>2, <3>4, <3>5, Zenon DEF MetaOK
  <2>2. ASSUME NEW m \in DOMAIN b.metas
        PROVE  MetaOK(c, m)
    BY <1>4, <1>7 DEF Shape, MetaOK
  <2> QED
    BY <1>4, <2>1, <2>2
<1>12. \A i \in DOMAIN c.calls : CallOK(c, c.calls[i])
  BY <1>8 DEF Shape
<1>13. IsSeq(c.calls)
  BY DEF Shape
<1>14. Shape(c)
  BY <1>3, <1>4, <1>10, <1>11, <1>12, <1>13 DEF Shape
<1>15. c.root = b.root => Grows(b, c)
  BY <1>3, <1>4 DEF Grows
<1> QED
  BY <1>3, <1>4, <1>9, <1>14, <1>15 DEF n, k

\* A child meta pipeline has a base pipeline of its own.
LEMMA CreateChildMetaPipelineShape ==
  ASSUME NEW b, Shape(b), NEW p, NEW m, NEW op
  PROVE  LET c == CreateChildMetaPipeline(b, p, m, op)
         IN  /\ Shape(c) /\ Grows(b, c)
             /\ Belongs(c, Len(c.pipelines), Len(c.metas)) /\ Len(c.metas) \in DOMAIN c.metas
<1> DEFINE base == Len(b.pipelines) + 1
           child == Len(b.metas) + 1
           children == Append(b.metas[m].children, child)
           meta == [b.metas[m] EXCEPT !.children = children]
           ms == [b.metas EXCEPT ![m] = meta]
           c == [b EXCEPT !.pipelines = Append(@, NewPipeline(child)),
                          !.metas = Append([b.metas EXCEPT ![m].children = Append(@, child)],
                                           NewMeta(op, base))]
           d == AddDependency(c, p, base)
<1>1. CreateChildMetaPipeline(b, p, m, op) = d
  BY Zenon DEF CreateChildMetaPipeline
<1>2. m \in DOMAIN b.metas => /\ DOMAIN meta = MetaFields
                              /\ meta.pipelines = b.metas[m].pipelines
                              /\ meta.finish = b.metas[m].finish
  <2> HIDE DEF children
  <2> QED
    BY DEF Shape, MetaOK, MetaFields
<1>3. IsSeq(ms) /\ DOMAIN ms = DOMAIN b.metas /\ Len(ms) = Len(b.metas)
  <2>1. IsSeq(b.metas)
    BY DEF Shape
  <2> HIDE DEF meta
  <2> QED
    BY <2>1, IsSeqExcept, Zenon
<1>4. \A k \in DOMAIN b.metas : /\ DOMAIN ms[k] = MetaFields
                                /\ ms[k].pipelines = b.metas[k].pipelines
                                /\ ms[k].finish = b.metas[k].finish
  <2> HIDE DEF meta
  <2> QED
    BY <1>2 DEF Shape, MetaOK
<1>5. /\ DOMAIN c = BuildFields /\ c.calls = b.calls /\ c.root = b.root /\ c.root \in Nat
      /\ c.pipelines = Append(b.pipelines, NewPipeline(child))
      /\ c.metas = Append(ms, NewMeta(op, base))
  <2> HIDE DEF child, base
  <2>1. ms = [b.metas EXCEPT ![m].children = Append(@, child)]
    OBVIOUS
  <2>2. /\ DOMAIN c = BuildFields /\ c.calls = b.calls /\ c.root = b.root /\ c.root \in Nat
        /\ c.pipelines = Append(b.pipelines, NewPipeline(child))
    BY DEF Shape, BuildFields
  <2>3. "metas" \in DOMAIN b
    BY DEF Shape, BuildFields
  <2> HIDE DEF ms
  <2>4. c.metas = Append(ms, NewMeta(op, base))
    <3>1. c.metas = Append([b.metas EXCEPT ![m].children = Append(@, child)], NewMeta(op, base))
      BY <2>3
    <3> QED
      BY <2>1, <3>1, Zenon
  <2> QED
    BY <2>2, <2>4
<1> HIDE DEF c, ms
<1>6. /\ Shape(c) /\ Grows(b, c)
      /\ Len(c.pipelines) = base /\ Len(c.metas) = child
      /\ Belongs(c, base, child) /\ child \in DOMAIN c.metas
  BY <1>3, <1>4, <1>5, NewMetaShape
<1>7. /\ Shape(d) /\ Grows(c, d) /\ d.metas = c.metas /\ Len(d.pipelines) = base
  BY <1>6, AddDependencyShape
<1> HIDE DEF d, base, child
<1>8. Grows(b, d)
  BY <1>6, <1>7 DEF Grows
<1>9. Belongs(d, base, child)
  BY <1>6, <1>7, GrowsKeeps
<1> QED
  BY <1>1, <1>6, <1>7, <1>8, <1>9

\* A union pipeline belongs to the meta pipeline it is made in.
LEMMA CreateUnionPipelineShape ==
  ASSUME NEW b, Shape(b), NEW p \in DOMAIN b.pipelines, NEW m \in DOMAIN b.metas, NEW flag
  PROVE  LET c == CreateUnionPipeline(b, p, m, flag)
         IN  Shape(c) /\ Grows(b, c) /\ Belongs(c, Len(b.pipelines) + 1, m)
<1> DEFINE inner == b.pipelines[p].inner \o (IF flag THEN <<p>> ELSE <<>>)
           r == [NewPipeline(m) EXCEPT !.operators    = b.pipelines[p].operators,
                                       !.dependencies = b.pipelines[p].dependencies,
                                       !.inner        = inner]
<1>1. CreateUnionPipeline(b, p, m, flag) = AddPipeline(b, m, r)
  BY Zenon DEF CreateUnionPipeline
<1>a. IsSeq(inner) /\ IsSeq(b.pipelines[p].dependencies) /\ IsSeq(b.pipelines[p].operators)
  <2>1. /\ IsSeq(b.pipelines[p].inner) /\ IsSeq(b.pipelines[p].dependencies)
        /\ IsSeq(b.pipelines[p].operators)
    BY DEF Shape, PipelineOK, Listed
  <2>2. IsSeq(<<p>>) /\ IsSeq(<<>>)
    BY DEF IsSeq
  <2>3. IsSeq(IF flag THEN <<p>> ELSE <<>>)
    BY <2>2
  <2> QED
    BY <2>1, <2>3, IsSeqConcat
<1> HIDE DEF inner
<1>2. DOMAIN r = PipelineFields /\ r.meta = m /\ r.group = NoPipeline /\ Listed(r)
  BY <1>a DEF NewPipeline, PipelineFields, Listed
<1> HIDE DEF r
<1> QED
  BY <1>1, <1>2, AddPipelineShape

\* A child pipeline belongs to the meta pipeline it is made in.
LEMMA CreateChildPipelineShape ==
  ASSUME NEW b, Shape(b), NEW p \in DOMAIN b.pipelines, NEW m \in DOMAIN b.metas, NEW op, NEW last
  PROVE  LET c == CreateChildPipeline(b, p, m, op, last) IN Shape(c) /\ Grows(b, c)
<1> DEFINE ops == b.pipelines[p].operators
           above == SubSeq(ops, 1, SelectInSeq(ops, LAMBDA o : o = op) - 1)
           r == [NewPipeline(m) EXCEPT !.source = op, !.operators = above, !.inner = <<p>>]
           a == AddPipeline(b, m, r)
           c == AddDependenciesFrom(a, m, Len(b.pipelines) + 1, last)
<1>1. CreateChildPipeline(b, p, m, op, last) = c
  BY Zenon DEF CreateChildPipeline
<1>a. IsSeq(above)
  <2>1. IsSeq(ops)
    BY DEF Shape, PipelineOK, Listed
  <2>2. above = SubSeq(ops, 1, Found(ops, op) - 1)
    BY Zenon DEF SelectInSeq, Found
  <2> HIDE DEF ops
  <2> QED
    BY <2>1, <2>2, PartBefore
<1>b. IsSeq(<<p>>) /\ IsSeq(<<>>)
  BY DEF IsSeq
<1> HIDE DEF above
<1>2. DOMAIN r = PipelineFields /\ r.meta = m /\ r.group = NoPipeline /\ Listed(r)
  BY <1>a, <1>b DEF NewPipeline, PipelineFields, Listed
<1> HIDE DEF r
<1>3. Shape(a) /\ Grows(b, a)
  BY <1>2, AddPipelineShape
<1> HIDE DEF a
<1>4. Shape(c) /\ Grows(a, c)
  <2>1. m \in DOMAIN a.metas
    BY <1>3 DEF Grows
  <2> QED
    BY <1>3, <2>1, AddDependenciesFromShape
<1> HIDE DEF c
<1>5. Grows(b, c)
  BY <1>3, <1>4 DEF Grows
<1> QED
  BY <1>1, <1>4, <1>5

\* AddFinishEvent gives a pipeline the group of its own.
LEMMA AddFinishEventShape ==
  ASSUME NEW b, Shape(b), NEW p, NEW m, Belongs(b, p, m)
  PROVE  Shape(AddFinishEvent(b, m, p)) /\ Grows(b, AddFinishEvent(b, m, p))
<1> DEFINE c == AddFinishEvent(b, m, p)
           group(q) == q > p /\ q \in ToSet(b.metas[m].pipelines)
           finish == b.metas[m].finish \cup {p}
           meta == [b.metas[m] EXCEPT !.finish = finish]
<1>1. /\ DOMAIN c = BuildFields /\ c.calls = b.calls /\ c.root = b.root
      /\ c.metas = [b.metas EXCEPT ![m] = meta]
      /\ c.pipelines = [q \in DOMAIN b.pipelines |->
                          IF group(q) THEN [b.pipelines[q] EXCEPT !.group = p] ELSE b.pipelines[q]]
  BY DEF AddFinishEvent, Shape, BuildFields
<1>2. m \in DOMAIN b.metas
  BY DEF Belongs, Shape, PipelineOK
<1>3. \A q \in DOMAIN b.pipelines : group(q) => Belongs(b, q, m)
  BY <1>2 DEF Shape, MetaOK, ToSet
<1> HIDE DEF c, group
<1>4. IsSeq(c.pipelines) /\ DOMAIN c.pipelines = DOMAIN b.pipelines
  <2>1. DOMAIN c.pipelines = DOMAIN b.pipelines
    BY <1>1
  <2>2. PICK n \in Nat : DOMAIN b.pipelines = 1..n
    BY DEF Shape, IsSeq
  <2>3. c.pipelines \in [1..n -> {c.pipelines[i] : i \in DOMAIN c.pipelines}]
    BY <1>1, <2>1, <2>2
  <2>4. IsSeq(c.pipelines)
    BY <2>2, <2>3 DEF IsSeq
  <2> QED
    BY <2>1, <2>4
<1>5. ASSUME NEW q \in DOMAIN b.pipelines
      PROVE  /\ DOMAIN c.pipelines[q] = PipelineFields /\ Listed(c.pipelines[q])
             /\ c.pipelines[q].meta = b.pipelines[q].meta
             /\ c.pipelines[q].group = IF group(q) THEN p ELSE b.pipelines[q].group
  BY <1>1 DEF Shape, PipelineOK, PipelineFields, Listed
<1>6. /\ DOMAIN meta = MetaFields /\ meta.finish = finish
      /\ meta.pipelines = b.metas[m].pipelines
  BY <1>2 DEF Shape, MetaOK, MetaFields
<1>7. IsSeq(c.metas) /\ DOMAIN c.metas = DOMAIN b.metas
  <2>1. IsSeq(b.metas)
    BY DEF Shape
  <2> HIDE DEF meta
  <2>2. IsSeq([b.metas EXCEPT ![m] = meta])
    BY <2>1, IsSeqExcept, Zenon
  <2> QED
    BY <1>1, <2>2
<1> HIDE DEF meta
<1>8. c.metas[m] = meta /\ \A k \in DOMAIN b.metas : k # m => c.metas[k] = b.metas[k]
  BY <1>1, <1>2
<1>9. Grows(b, c)
  BY <1>1, <1>4, <1>5, <1>7 DEF Grows
<1>10. ASSUME NEW q \in DOMAIN c.pipelines
       PROVE  PipelineOK(c, q)
  <2>1. CASE group(q)
    <3>1. b.pipelines[q].meta = m /\ Belongs(c, p, m)
      BY <1>3, <1>4, <1>9, <2>1, GrowsKeeps DEF Belongs
    <3> QED
      BY <1>2, <1>4, <1>5, <1>7, <2>1, <3>1 DEF PipelineOK
  <2>2. CASE ~group(q)
    BY <1>4, <1>5, <1>7, <1>9, <2>2, GrowsKeeps DEF Shape, PipelineOK
  <2> QED
    BY <2>1, <2>2
<1>11. ASSUME NEW k \in DOMAIN c.metas
       PROVE  MetaOK(c, k)
  <2>1. CASE k = m
    <3>1. \A q \in finish : Belongs(c, q, m)
      BY <1>2, <1>9, GrowsKeeps DEF Shape, MetaOK
    <3> QED
      BY <1>2, <1>6, <1>8, <1>9, <2>1, <3>1, GrowsKeeps DEF Shape, MetaOK
  <2>2. CASE k # m
    BY <1>7, <1>8, <1>9, <2>2, GrowsKeeps DEF Shape, MetaOK
  <2> QED
    BY <2>1, <2>2
<1>12. \A i \in DOMAIN c.calls : CallOK(c, c.calls[i])
  BY <1>1, <1>9, GrowsKeeps DEF Shape
<1>13. IsSeq(c.calls) /\ c.root \in Nat
  BY <1>1 DEF Shape
<1>14. Shape(c)
  BY <1>1, <1>4, <1>7, <1>10, <1>11, <1>12, <1>13 DEF Shape
<1> QED
  BY <1>9, <1>14 DEF c

\* The call on top makes way for others.
LEMMA ReplaceShape ==
  ASSUME NEW b, Shape(b), b.calls # <<>>, NEW cs, IsSeq(cs),
         \A i \in DOMAIN cs : CallOK(b, cs[i])
  PROVE  Shape(Replace(b, cs))
<1> DEFINE c == Replace(b, cs)
           rest == Tail(b.calls)
<1>1. /\ DOMAIN c = BuildFields /\ c.metas = b.metas /\ c.pipelines = b.pipelines
      /\ c.root = b.root /\ c.calls = cs \o rest
  BY DEF Replace, Shape, BuildFields
<1>2. IsSeq(rest) /\ \A i \in DOMAIN rest : CallOK(b, rest[i])
  BY IsSeqTail DEF Shape
<1> HIDE DEF rest
<1>3. IsSeq(cs \o rest) /\ \A i \in DOMAIN (cs \o rest) : CallOK(b, (cs \o rest)[i])
  <2>1. /\ IsSeq(cs \o rest)
        /\ \A i \in DOMAIN (cs \o rest) : \/ i \in DOMAIN cs /\ (cs \o rest)[i] = cs[i]
                                          \/ \E j \in DOMAIN rest : (cs \o rest)[i] = rest[j]
    BY <1>2, IsSeqConcat
  <2> QED
    BY <1>2, <2>1
<1> HIDE DEF c
<1>4. \A p, m : Belongs(c, p, m) <=> Belongs(b, p, m)
  BY <1>1 DEF Belongs
<1>5. \A i \in DOMAIN c.calls : CallOK(c, c.calls[i])
  BY <1>1, <1>3, <1>4 DEF CallOK
<1>6. \A p \in DOMAIN c.pipelines : PipelineOK(c, p)
  BY <1>1, <1>4 DEF Shape, PipelineOK
<1>7. \A m \in DOMAIN c.metas : MetaOK(c, m)
  BY <1>1, <1>4 DEF Shape, MetaOK
<1>8. Shape(c)
  BY <1>1, <1>3, <1>5, <1>6, <1>7 DEF Shape
<1> QED
  BY <1>8 DEF c

-----------------------------------------------------------------------------
(* Every call of the descent keeps the shape *)

\* A plan has the children and the related operators that a call visits.
LEMMA Visited ==
  ASSUME IsPlan(plan), NEW op \in Op
  PROVE  /\ plan[op].kind \in {"streaming", "sink", "create_bf", "use_bf"} => plan[op].child[1] \in Op
         /\ plan[op].kind \in {"join", "iejoin", "union"} =>
              plan[op].child[1] \in Op /\ plan[op].child[2] \in Op
         /\ plan[op].related \in Seq(Op)
<1> DEFINE child == plan[op].child
<1>1. child \in Seq(Op) /\ Len(child) >= Arity(plan[op].kind) /\ plan[op].related \in Seq(Op)
  BY DEF IsPlan, Op
<1>2. /\ plan[op].kind \in {"streaming", "sink", "create_bf", "use_bf"} => Arity(plan[op].kind) = 1
      /\ plan[op].kind \in {"join", "iejoin", "union"} => Arity(plan[op].kind) = 2
  BY DEF Arity
<1> HIDE DEF child
<1>3. (Len(child) >= 1 => child[1] \in Op) /\ (Len(child) >= 2 => child[1] \in Op /\ child[2] \in Op)
  BY <1>1
<1> QED
  BY <1>1, <1>2, <1>3 DEF child

\* The call that is executed, and a call made from it.
LEMMA CallOnTop ==
  ASSUME Shape(build), build.calls # <<>>
  PROVE  CallOK(build, Head(build.calls))
BY IsSeqTail DEF Shape

\* A call continues with a child.
LEMMA CallOn ==
  ASSUME NEW b, NEW c, CallOK(b, c), c.fn # "CreatePipeline", NEW op \in Op
  PROVE  CallOK(b, [c EXCEPT !.op = op])
BY DEF CallOK, CallFields

\* A call for a pipeline of its meta pipeline is one that may be made.
LEMMA NewCall ==
  ASSUME NEW b, NEW fn, NEW op \in Op, NEW p, NEW m, NEW last, m \in DOMAIN b.metas, Belongs(b, p, m)
  PROVE  CallOK(b, Call(fn, op, p, m, last))
BY DEF Call, CallOK, CallFields

\* One call is left.
LEMMA Singles ==
  ASSUME NEW b, NEW c, CallOK(b, c)
  PROVE  IsSeq(<<c>>) /\ \A i \in DOMAIN <<c>> : CallOK(b, <<c>>[i])
BY DEF IsSeq

\* Two calls are left.
LEMMA Pairs ==
  ASSUME NEW b, NEW c, NEW d, CallOK(b, c), CallOK(b, d)
  PROVE  IsSeq(<<c, d>>) /\ \A i \in DOMAIN <<c, d>> : CallOK(b, <<c, d>>[i])
BY DEF IsSeq

\* No call is left.
LEMMA NoCalls == IsSeq(<<>>) /\ DOMAIN <<>> = {}
BY DEF IsSeq

\* The calls of two stacks.
LEMMA Joined ==
  ASSUME NEW b, NEW cs, NEW ds, IsSeq(cs), IsSeq(ds),
         \A i \in DOMAIN cs : CallOK(b, cs[i]), \A i \in DOMAIN ds : CallOK(b, ds[i])
  PROVE  IsSeq(cs \o ds) /\ \A i \in DOMAIN (cs \o ds) : CallOK(b, (cs \o ds)[i])
<1>1. /\ IsSeq(cs \o ds)
      /\ \A i \in DOMAIN (cs \o ds) : \/ i \in DOMAIN cs /\ (cs \o ds)[i] = cs[i]
                                      \/ \E j \in DOMAIN ds : (cs \o ds)[i] = ds[j]
  BY IsSeqConcat
<1> QED
  BY <1>1

\* The next state has the shape of the value that is assigned.
LEMMA Assigned ==
  ASSUME NEW b, Shape(b), build' = b, plan' = plan
  PROVE  Shape(build)'
BY DEF Shape, PipelineOK, MetaOK, CallOK, Belongs, Op

\* Building goes on with the given value.
LEMMA BuildKeeps ==
  ASSUME NEW b, Shape(b), Build(b)
  PROVE  Shape(build)'
BY Assigned DEF Build

\* BuildSource keeps the shape.
LEMMA BuildSourceKeeps ==
  ASSUME IsPlan(plan), Shape(build), BuildSource
  PROVE  Shape(build)'
<1> DEFINE c == Head(build.calls)
           b == SetPipelineSource(build, c.pipe, c.op)
<1>1. build.calls # <<>> /\ Build(Replace(b, <<>>))
  BY Zenon DEF BuildSource, Calling
<1>2. Shape(b) /\ Grows(build, b)
  BY SetPipelineSourceShape
<1> HIDE DEF b, c
<1>3. Shape(Replace(b, <<>>))
  BY <1>1, <1>2, NoCalls, ReplaceShape DEF Grows
<1> QED
  BY <1>1, <1>3, BuildKeeps

\* BuildStreaming keeps the shape.
LEMMA BuildStreamingKeeps ==
  ASSUME IsPlan(plan), Shape(build), BuildStreaming
  PROVE  Shape(build)'
<1> DEFINE c == Head(build.calls)
           b == AddPipelineOperator(build, c.pipe, c.op)
           d == [c EXCEPT !.op = plan[c.op].child[1]]
<1>1. /\ build.calls # <<>> /\ Build(Replace(b, <<d>>))
      /\ c.fn = "BuildPipelines" /\ plan[c.op].kind = "streaming"
  BY Zenon DEF BuildStreaming, Calling
<1>2. Shape(b) /\ Grows(build, b)
  BY AddPipelineOperatorShape
<1>3. CallOK(build, c)
  BY <1>1, CallOnTop
<1> HIDE DEF b, c
<1>4. CallOK(b, d)
  <2>1. plan[c.op].child[1] \in Op
    BY <1>1, <1>3, Visited DEF CallOK
  <2>2. CallOK(build, d)
    BY <1>1, <1>3, <2>1, CallOn
  <2> QED
    BY <1>2, <2>2, GrowsKeeps
<1> HIDE DEF d
<1>5. Shape(Replace(b, <<d>>))
  <2>1. IsSeq(<<d>>) /\ \A i \in DOMAIN <<d>> : CallOK(b, <<d>>[i])
    BY <1>4, Singles
  <2> QED
    BY <1>1, <1>2, <2>1, ReplaceShape DEF Grows
<1> QED
  BY <1>1, <1>5, BuildKeeps

\* BuildSink keeps the shape.
LEMMA BuildSinkKeeps ==
  ASSUME IsPlan(plan), Shape(build), BuildSink
  PROVE  Shape(build)'
<1> DEFINE c == Head(build.calls)
           a == SetPipelineSource(build, c.pipe, c.op)
           b == CreateChildMetaPipeline(a, c.pipe, c.meta, c.op)
           d == BuildNewest(b, plan[c.op].child[1])
<1>1. /\ build.calls # <<>> /\ Build(Replace(b, <<d>>))
      /\ c.fn = "BuildPipelines" /\ plan[c.op].kind = "sink"
  BY Zenon DEF BuildSink, Calling
<1>2. CallOK(build, c)
  BY <1>1, CallOnTop
<1>3. Shape(a) /\ Grows(build, a)
  BY SetPipelineSourceShape
<1> HIDE DEF a
<1>4. /\ Shape(b) /\ Grows(a, b)
      /\ Belongs(b, Len(b.pipelines), Len(b.metas)) /\ Len(b.metas) \in DOMAIN b.metas
  BY <1>3, CreateChildMetaPipelineShape
<1> HIDE DEF b, c
<1>5. CallOK(b, d)
  BY <1>1, <1>2, <1>4, Visited, NewCall DEF CallOK, BuildNewest
<1>6. b.calls # <<>>
  BY <1>1, <1>3, <1>4 DEF Grows
<1> HIDE DEF d
<1>7. Shape(Replace(b, <<d>>))
  <2>1. IsSeq(<<d>>) /\ \A i \in DOMAIN <<d>> : CallOK(b, <<d>>[i])
    BY <1>5, Singles
  <2> QED
    BY <1>4, <1>6, <2>1, ReplaceShape
<1> QED
  BY <1>1, <1>7, BuildKeeps

\* Whether or not the CreateBF has its pipeline already.
LEMMA CreateBFPipelineShape ==
  ASSUME IsPlan(plan), NEW b, Shape(b), b.calls # <<>>,
         NEW c, CallOK(b, c), plan[c.op].kind = "create_bf"
  PROVE  Shape(CreateBFPipeline(b, c))
<1>1. CASE b.this_pipeline[c.op] = NoPipeline
  <2> DEFINE made  == CreateChildMetaPipeline(b, c.pipe, c.meta, c.op)
             saved == [made EXCEPT !.this_pipeline[c.op] = Len(made.pipelines)]
             d     == BuildNewest(saved, plan[c.op].child[1])
  <2>1. CreateBFPipeline(b, c) = Replace(saved, <<d>>)
    BY <1>1, Zenon DEF CreateBFPipeline
  <2>2. /\ Shape(made) /\ Grows(b, made)
        /\ Belongs(made, Len(made.pipelines), Len(made.metas)) /\ Len(made.metas) \in DOMAIN made.metas
    BY CreateChildMetaPipelineShape
  <2> HIDE DEF made
  <2>3. /\ DOMAIN saved = BuildFields /\ saved.metas = made.metas /\ saved.pipelines = made.pipelines
        /\ saved.calls = made.calls /\ saved.root = made.root
    BY <2>2 DEF Shape, BuildFields
  <2> HIDE DEF saved
  <2>4. Shape(saved) /\ Grows(made, saved)
    <3>1. IsSeq(saved.pipelines) /\ DOMAIN saved.pipelines = DOMAIN made.pipelines
      BY <2>2, <2>3 DEF Shape
    <3>2. \A p \in DOMAIN made.pipelines : /\ DOMAIN saved.pipelines[p] = PipelineFields
                                           /\ Listed(saved.pipelines[p])
                                           /\ saved.pipelines[p].meta = made.pipelines[p].meta
                                           /\ saved.pipelines[p].group = made.pipelines[p].group
      BY <2>2, <2>3 DEF Shape, PipelineOK
    <3> QED
      BY <2>2, <2>3, <3>1, <3>2, SamePipelines
  <2>5. CallOK(saved, d)
    <3>1. plan[c.op].child[1] \in Op
      BY Visited DEF CallOK
    <3>2. Belongs(saved, Len(saved.pipelines), Len(saved.metas)) /\ Len(saved.metas) \in DOMAIN saved.metas
      BY <2>2, <2>3 DEF Belongs
    <3> QED
      BY <3>1, <3>2, NewCall DEF BuildNewest
  <2>6. saved.calls # <<>>
    BY <2>2, <2>4 DEF Grows
  <2> HIDE DEF d
  <2>7. IsSeq(<<d>>) /\ \A i \in DOMAIN <<d>> : CallOK(saved, <<d>>[i])
    BY <2>5, Singles
  <2> QED
    BY <2>1, <2>4, <2>6, <2>7, ReplaceShape
<1>2. CASE b.this_pipeline[c.op] # NoPipeline
  <2> DEFINE d == AddDependency(b, c.pipe, b.this_pipeline[c.op])
  <2>1. CreateBFPipeline(b, c) = Replace(d, <<>>)
    BY <1>2, Zenon DEF CreateBFPipeline
  <2>2. Shape(d) /\ Grows(b, d)
    BY AddDependencyShape
  <2> HIDE DEF d
  <2> QED
    BY <2>1, <2>2, NoCalls, ReplaceShape DEF Grows
<1> QED
  BY <1>1, <1>2

\* BuildCreateBF keeps the shape.
LEMMA BuildCreateBFKeeps ==
  ASSUME IsPlan(plan), Shape(build), BuildCreateBF
  PROVE  Shape(build)'
<1> DEFINE c == Head(build.calls)
           b == SetPipelineSource(build, c.pipe, c.op)
<1>1. /\ build.calls # <<>> /\ Build(CreateBFPipeline(b, c)) /\ plan[c.op].kind = "create_bf"
  BY Zenon DEF BuildCreateBF, Calling
<1>2. CallOK(build, c)
  BY <1>1, CallOnTop
<1>3. Shape(b) /\ Grows(build, b)
  BY SetPipelineSourceShape
<1> HIDE DEF b, c
<1>4. CallOK(b, c) /\ b.calls # <<>>
  BY <1>1, <1>2, <1>3, GrowsKeeps DEF Grows
<1> QED
  BY <1>1, <1>3, <1>4, CreateBFPipelineShape, BuildKeeps

\* BuildPipelinesFromRelated keeps the shape.
LEMMA BuildPipelinesFromRelatedKeeps ==
  ASSUME IsPlan(plan), Shape(build), BuildPipelinesFromRelated
  PROVE  Shape(build)'
<1> DEFINE c == Head(build.calls)
<1>1. /\ build.calls # <<>> /\ Build(CreateBFPipeline(build, c)) /\ plan[c.op].kind = "create_bf"
  BY Zenon DEF BuildPipelinesFromRelated, Calling
<1>2. CallOK(build, c)
  BY <1>1, CallOnTop
<1> HIDE DEF c
<1> QED
  BY <1>1, <1>2, CreateBFPipelineShape, BuildKeeps

\* BuildUseBF keeps the shape.
LEMMA BuildUseBFKeeps ==
  ASSUME IsPlan(plan), Shape(build), BuildUseBF
  PROVE  Shape(build)'
<1> DEFINE c == Head(build.calls)
           b == AddPipelineOperator(build, c.pipe, c.op)
<1>1. /\ build.calls # <<>> /\ Build(Replace(b, UseBFCalls(c)))
      /\ c.fn = "BuildPipelines" /\ plan[c.op].kind = "use_bf"
  BY Zenon DEF BuildUseBF, Calling
<1>2. CallOK(build, c)
  BY <1>1, CallOnTop
<1>3. Shape(b) /\ Grows(build, b)
  BY AddPipelineOperatorShape
<1> HIDE DEF b, c
<1>4. CallOK(b, c) /\ b.calls # <<>>
  BY <1>1, <1>2, <1>3, GrowsKeeps DEF Grows
<1>5. IsSeq(UseBFCalls(c)) /\ \A i \in DOMAIN UseBFCalls(c) : CallOK(b, UseBFCalls(c)[i])
  <2> DEFINE related == plan[c.op].related
             call(i) == [c EXCEPT !.fn = "BuildPipelinesFromRelated", !.op = related[i]]
             cs == [i \in DOMAIN related |-> call(i)]
             d == [c EXCEPT !.op = plan[c.op].child[1]]
  <2>1. UseBFCalls(c) = cs \o <<d>>
    BY Zenon DEF UseBFCalls
  <2>2. related \in Seq(Op) /\ plan[c.op].child[1] \in Op
    BY <1>1, <1>2, Visited DEF CallOK
  <2>3. CallOK(b, d)
    BY <1>1, <1>4, <2>2, CallOn
  <2> HIDE DEF d, related
  <2>4. \A i \in DOMAIN related : CallOK(b, call(i))
    BY <1>1, <1>4, <2>2 DEF CallOK, CallFields
  <2> HIDE DEF call
  <2>5. IsSeq(cs) /\ \A i \in DOMAIN cs : CallOK(b, cs[i])
    <3>1. cs \in [1..Len(related) -> {cs[i] : i \in DOMAIN cs}] /\ Len(related) \in Nat
      BY <2>2
    <3>2. IsSeq(cs)
      BY <3>1 DEF IsSeq
    <3> QED
      BY <2>4, <3>2
  <2>6. IsSeq(<<d>>) /\ \A i \in DOMAIN <<d>> : CallOK(b, <<d>>[i])
    BY <2>3, Singles
  <2> HIDE DEF cs
  <2> QED
    BY <2>1, <2>5, <2>6, Joined
<1> QED
  BY <1>1, <1>3, <1>4, <1>5, ReplaceShape, BuildKeeps

\* BuildJoin keeps the shape.
LEMMA BuildJoinKeeps ==
  ASSUME IsPlan(plan), Shape(build), BuildJoin
  PROVE  Shape(build)'
<1> DEFINE c == Head(build.calls)
           last == Last(build.metas[c.meta].pipelines)
           a == AddPipelineOperator(build, c.pipe, c.op)
           b == CreateChildMetaPipeline(a, c.pipe, c.meta, c.op)
           d == BuildNewest(b, plan[c.op].child[2])
           e == [c EXCEPT !.op = plan[c.op].child[1]]
           f == [c EXCEPT !.fn = "CreateChildPipeline", !.last = last]
           fs == IF plan[c.op].flag THEN <<f>> ELSE <<>>
<1>1. /\ build.calls # <<>> /\ Build(Replace(b, <<d, e>> \o fs))
      /\ c.fn = "BuildPipelines" /\ plan[c.op].kind = "join"
  BY Zenon DEF BuildJoin, Calling
<1>2. CallOK(build, c)
  BY <1>1, CallOnTop
<1>3. Shape(a) /\ Grows(build, a)
  BY AddPipelineOperatorShape
<1> HIDE DEF a, last
<1>4. /\ Shape(b) /\ Grows(a, b)
      /\ Belongs(b, Len(b.pipelines), Len(b.metas)) /\ Len(b.metas) \in DOMAIN b.metas
  BY <1>3, CreateChildMetaPipelineShape
<1> HIDE DEF b, c
<1>5. plan[c.op].child[1] \in Op /\ plan[c.op].child[2] \in Op
  BY <1>1, <1>2, Visited DEF CallOK
<1>6. CallOK(b, c) /\ b.calls # <<>>
  BY <1>1, <1>2, <1>3, <1>4, GrowsKeeps DEF Grows
<1>7. CallOK(b, d)
  BY <1>4, <1>5, NewCall DEF BuildNewest
<1>8. CallOK(b, e)
  BY <1>1, <1>5, <1>6, CallOn
<1>9. CallOK(b, f)
  BY <1>1, <1>6 DEF CallOK, CallFields
<1> HIDE DEF d, e, f
<1>10. IsSeq(<<d, e>>) /\ \A i \in DOMAIN <<d, e>> : CallOK(b, <<d, e>>[i])
  BY <1>7, <1>8, Pairs
<1>11. IsSeq(fs) /\ \A i \in DOMAIN fs : CallOK(b, fs[i])
  <2>1. CASE plan[c.op].flag
    <3>1. fs = <<f>>
      BY <2>1
    <3> QED
      BY <1>9, <3>1, Singles
  <2>2. CASE ~plan[c.op].flag
    <3>1. fs = <<>>
      BY <2>2
    <3> QED
      BY <3>1, NoCalls
  <2> QED
    BY <2>1, <2>2
<1> HIDE DEF fs
<1>12. /\ IsSeq(<<d, e>> \o fs)
       /\ \A i \in DOMAIN (<<d, e>> \o fs) : CallOK(b, (<<d, e>> \o fs)[i])
  BY <1>10, <1>11, Joined
<1>13. Shape(Replace(b, <<d, e>> \o fs))
  BY <1>4, <1>6, <1>12, ReplaceShape
<1> QED
  BY <1>1, <1>13, BuildKeeps

\* BuildJoinSource keeps the shape.
LEMMA BuildJoinSourceKeeps ==
  ASSUME IsPlan(plan), Shape(build), BuildJoinSource
  PROVE  Shape(build)'
<1> DEFINE c == Head(build.calls)
           b == CreateChildPipeline(build, c.pipe, c.meta, c.op, c.last)
<1>1. build.calls # <<>> /\ Build(Replace(b, <<>>))
  BY Zenon DEF BuildJoinSource, Calling
<1>c. c.fn = "CreateChildPipeline"
  BY Zenon DEF BuildJoinSource, Calling
<1>2. c.meta \in DOMAIN build.metas /\ c.pipe \in DOMAIN build.pipelines
  BY <1>1, <1>c, CallOnTop DEF CallOK, Belongs
<1> HIDE DEF c
<1>3. Shape(b) /\ Grows(build, b)
  BY <1>2, CreateChildPipelineShape
<1> HIDE DEF b
<1>4. Shape(Replace(b, <<>>))
  BY <1>1, <1>3, NoCalls, ReplaceShape DEF Grows
<1> QED
  BY <1>1, <1>4, BuildKeeps

\* BuildUnion keeps the shape.
LEMMA BuildUnionKeeps ==
  ASSUME IsPlan(plan), Shape(build), BuildUnion
  PROVE  Shape(build)'
<1> DEFINE c == Head(build.calls)
           u == Len(build.pipelines) + 1
           flag == plan[c.op].flag
           b == CreateUnionPipeline(build, c.pipe, c.meta, flag)
           d == [c EXCEPT !.op = plan[c.op].child[1]]
           e == [c EXCEPT !.fn = "AddDependenciesFrom", !.pipe = u]
           f == [c EXCEPT !.op = plan[c.op].child[2], !.pipe = u]
           es == IF flag THEN <<e>> ELSE <<>>
<1>1. /\ build.calls # <<>> /\ Build(Replace(b, <<d>> \o es \o <<f>>))
      /\ c.fn = "BuildPipelines" /\ plan[c.op].kind = "union"
  BY Zenon DEF BuildUnion, Calling
<1>2. CallOK(build, c)
  BY <1>1, CallOnTop
<1> HIDE DEF c, flag
<1>3. Shape(b) /\ Grows(build, b) /\ Belongs(b, u, c.meta)
  BY <1>1, <1>2, CreateUnionPipelineShape DEF CallOK, Belongs
<1> HIDE DEF b, u
<1>4. plan[c.op].child[1] \in Op /\ plan[c.op].child[2] \in Op
  BY <1>1, <1>2, Visited DEF CallOK
<1>5. CallOK(b, c) /\ b.calls # <<>>
  BY <1>1, <1>2, <1>3, GrowsKeeps DEF Grows
<1>6. CallOK(b, d)
  BY <1>1, <1>4, <1>5, CallOn
<1>7. CallOK(b, e) /\ CallOK(b, f)
  BY <1>1, <1>3, <1>4, <1>5 DEF CallOK, CallFields
<1> HIDE DEF d, e, f
<1>8. IsSeq(es) /\ \A i \in DOMAIN es : CallOK(b, es[i])
  <2>1. CASE flag
    <3>1. es = <<e>>
      BY <2>1
    <3> QED
      BY <1>7, <3>1, Singles
  <2>2. CASE ~flag
    <3>1. es = <<>>
      BY <2>2
    <3> QED
      BY <3>1, NoCalls
  <2> QED
    BY <2>1, <2>2
<1> HIDE DEF es
<1>9. /\ IsSeq(<<d>>) /\ \A i \in DOMAIN <<d>> : CallOK(b, <<d>>[i])
      /\ IsSeq(<<f>>) /\ \A i \in DOMAIN <<f>> : CallOK(b, <<f>>[i])
  BY <1>6, <1>7, Singles
<1> DEFINE ds == <<d>> \o es
<1>10. IsSeq(ds) /\ \A i \in DOMAIN ds : CallOK(b, ds[i])
  BY <1>8, <1>9, Joined
<1>11. Build(Replace(b, ds \o <<f>>))
  BY <1>1
<1> HIDE DEF ds
<1>12. IsSeq(ds \o <<f>>) /\ \A i \in DOMAIN (ds \o <<f>>) : CallOK(b, (ds \o <<f>>)[i])
  BY <1>9, <1>10, Joined
<1>13. Shape(Replace(b, ds \o <<f>>))
  BY <1>3, <1>5, <1>12, ReplaceShape
<1> QED
  BY <1>11, <1>13, BuildKeeps

\* BuildUnionOrder keeps the shape.
LEMMA BuildUnionOrderKeeps ==
  ASSUME IsPlan(plan), Shape(build), BuildUnionOrder
  PROVE  Shape(build)'
<1> DEFINE c == Head(build.calls)
           b == AddDependenciesFrom(build, c.meta, c.pipe, c.pipe)
<1>1. build.calls # <<>> /\ Build(Replace(b, <<>>))
  BY Zenon DEF BuildUnionOrder, Calling
<1>a. CallOK(build, c)
  BY <1>1, CallOnTop
<1> HIDE DEF c
<1>2. Shape(b) /\ Grows(build, b)
  BY <1>a, AddDependenciesFromShape DEF CallOK
<1> HIDE DEF b, c
<1>3. Shape(Replace(b, <<>>))
  BY <1>1, <1>2, NoCalls, ReplaceShape DEF Grows
<1> QED
  BY <1>1, <1>3, BuildKeeps

\* BuildIEJoin keeps the shape.
LEMMA BuildIEJoinKeeps ==
  ASSUME IsPlan(plan), Shape(build), BuildIEJoin
  PROVE  Shape(build)'
<1> DEFINE c == Head(build.calls)
           a == SetPipelineSource(build, c.pipe, c.op)
           b == CreateChildMetaPipeline(a, c.pipe, c.meta, c.op)
           d == BuildNewest(b, plan[c.op].child[1])
           e == [c EXCEPT !.fn = "CreatePipeline", !.meta = Len(b.metas)]
<1>1. /\ build.calls # <<>> /\ Build(Replace(b, <<d, e>>))
      /\ plan[c.op].kind = "iejoin"
  BY Zenon DEF BuildIEJoin, Calling
<1>2. CallOK(build, c)
  BY <1>1, CallOnTop
<1>3. Shape(a) /\ Grows(build, a)
  BY SetPipelineSourceShape
<1> HIDE DEF a
<1>4. /\ Shape(b) /\ Grows(a, b)
      /\ Belongs(b, Len(b.pipelines), Len(b.metas)) /\ Len(b.metas) \in DOMAIN b.metas
  BY <1>3, CreateChildMetaPipelineShape
<1> HIDE DEF b, c
<1>5. CallOK(b, d)
  BY <1>1, <1>2, <1>4, Visited, NewCall DEF CallOK, BuildNewest
<1>6. CallOK(b, e)
  BY <1>2, <1>4 DEF CallOK, CallFields
<1>7. b.calls # <<>>
  BY <1>1, <1>3, <1>4 DEF Grows
<1> HIDE DEF d, e
<1>8. IsSeq(<<d, e>>) /\ \A i \in DOMAIN <<d, e>> : CallOK(b, <<d, e>>[i])
  BY <1>5, <1>6, Pairs
<1>9. Shape(Replace(b, <<d, e>>))
  BY <1>4, <1>7, <1>8, ReplaceShape
<1> QED
  BY <1>1, <1>9, BuildKeeps

\* BuildIEJoinRight keeps the shape.
LEMMA BuildIEJoinRightKeeps ==
  ASSUME IsPlan(plan), Shape(build), BuildIEJoinRight
  PROVE  Shape(build)'
<1> DEFINE c == Head(build.calls)
           b == AddPipeline(build, c.meta, NewPipeline(c.meta))
           p == Len(b.pipelines)
           d == [c EXCEPT !.fn = "BuildPipelines", !.op = plan[c.op].child[2], !.pipe = p]
           e == [c EXCEPT !.fn = "AddFinishEvent", !.pipe = p]
<1>1. /\ build.calls # <<>> /\ Build(Replace(b, <<d, e>>))
      /\ plan[c.op].kind = "iejoin"
  BY Zenon DEF BuildIEJoinRight, Calling
<1>2. CallOK(build, c)
  BY <1>1, CallOnTop
<1> HIDE DEF c
<1>3. /\ DOMAIN NewPipeline(c.meta) = PipelineFields /\ NewPipeline(c.meta).meta = c.meta
      /\ NewPipeline(c.meta).group = NoPipeline /\ Listed(NewPipeline(c.meta))
  BY DEF NewPipeline, PipelineFields, Listed, IsSeq
<1>4. Shape(b) /\ Grows(build, b) /\ Belongs(b, p, c.meta)
  BY <1>2, <1>3, AddPipelineShape DEF CallOK
<1> HIDE DEF b, p
<1>5. /\ plan[c.op].child[2] \in Op /\ DOMAIN c = CallFields /\ c.op \in Op
      /\ c.meta \in DOMAIN b.metas
  BY <1>1, <1>2, <1>4, Visited DEF CallOK, Grows
<1>6. CallOK(b, d) /\ CallOK(b, e)
  BY <1>4, <1>5 DEF CallOK, CallFields
<1> HIDE DEF d, e
<1>7. IsSeq(<<d, e>>) /\ \A i \in DOMAIN <<d, e>> : CallOK(b, <<d, e>>[i])
  BY <1>6, Pairs
<1>8. Shape(Replace(b, <<d, e>>))
  BY <1>1, <1>4, <1>7, ReplaceShape DEF Grows
<1> QED
  BY <1>1, <1>8, BuildKeeps

\* BuildIEJoinFinish keeps the shape.
LEMMA BuildIEJoinFinishKeeps ==
  ASSUME IsPlan(plan), Shape(build), BuildIEJoinFinish
  PROVE  Shape(build)'
<1> DEFINE c == Head(build.calls)
           b == AddFinishEvent(build, c.meta, c.pipe)
<1>1. build.calls # <<>> /\ Build(Replace(b, <<>>)) /\ c.fn = "AddFinishEvent"
  BY Zenon DEF BuildIEJoinFinish, Calling
<1>2. Belongs(build, c.pipe, c.meta)
  BY <1>1, CallOnTop DEF CallOK
<1> HIDE DEF c
<1>3. Shape(b) /\ Grows(build, b)
  BY <1>2, AddFinishEventShape
<1> HIDE DEF b
<1>4. Shape(Replace(b, <<>>))
  BY <1>1, <1>3, NoCalls, ReplaceShape DEF Grows
<1> QED
  BY <1>1, <1>4, BuildKeeps

\* InitializeInternal begins with a meta pipeline for the root.
LEMMA InitializeInternalKeeps ==
  ASSUME IsPlan(plan), Shape(build), InitializeInternal
  PROVE  Shape(build)'
<1> DEFINE p == Len(build.pipelines) + 1
           m == Len(build.metas) + 1
           b == [build EXCEPT !.pipelines = Append(@, NewPipeline(m)),
                              !.metas = Append(@, NewMeta(NoOperator, p)),
                              !.root = m]
           d == Call("BuildPipelines", 1, p, m, NoPipeline)
           e == [b EXCEPT !.calls = <<d>>]
<1>1. build' = e /\ plan' = plan
  <2>1. DOMAIN build = BuildFields
    BY DEF Shape
  <2>2. build' = [build EXCEPT !.pipelines = Append(@, NewPipeline(m)),
                               !.metas = Append(@, NewMeta(NoOperator, p)),
                               !.root = m, !.calls = <<d>>] /\ plan' = plan
    BY Zenon DEF InitializeInternal
  <2> QED
    BY <2>1, <2>2, Zenon
<1>2. /\ DOMAIN b = BuildFields /\ b.calls = build.calls /\ b.root = m
      /\ b.pipelines = Append(build.pipelines, NewPipeline(m))
      /\ b.metas = Append(build.metas, NewMeta(NoOperator, p))
  BY DEF Shape, BuildFields
<1>3. IsSeq(build.metas) /\ m \in Nat
  <2>1. IsSeq(build.metas)
    BY DEF Shape
  <2>2. Len(build.metas) \in Nat
    BY <2>1, IsSeqAppend
  <2> QED
    BY <2>1, <2>2
<1>4. /\ DOMAIN e = BuildFields /\ e.calls = <<d>> /\ e.root = b.root
      /\ e.pipelines = b.pipelines /\ e.metas = b.metas
  <2> HIDE DEF b, d
  <2> QED
    BY <1>2 DEF BuildFields
<1> HIDE DEF b
<1>5. Shape(b) /\ Belongs(b, p, m) /\ m \in DOMAIN b.metas
  <2>1. \A k \in DOMAIN build.metas : DOMAIN build.metas[k] = MetaFields
    BY DEF Shape, MetaOK
  <2> QED
    BY <1>2, <1>3, <2>1, NewMetaShape
<1> HIDE DEF p, m, e
<1>6. CallOK(b, d)
  <2>1. 1 \in Op
    BY DEF IsPlan, Op
  <2> QED
    BY <1>5, <2>1, NewCall
<1> HIDE DEF d
<1>7. IsSeq(<<d>>) /\ \A i \in DOMAIN <<d>> : CallOK(b, <<d>>[i])
  BY <1>6, Singles
<1>8. \A q, n : Belongs(e, q, n) <=> Belongs(b, q, n)
  BY <1>4 DEF Belongs
<1>9. \A i \in DOMAIN e.calls : CallOK(e, e.calls[i])
  BY <1>4, <1>7, <1>8 DEF CallOK
<1>10. Shape(e)
  <2>1. \A q \in DOMAIN e.pipelines : PipelineOK(e, q)
    BY <1>4, <1>5, <1>8 DEF Shape, PipelineOK
  <2>2. \A n \in DOMAIN e.metas : MetaOK(e, n)
    BY <1>4, <1>5, <1>8 DEF Shape, MetaOK
  <2> QED
    BY <1>4, <1>5, <1>7, <1>9, <2>1, <2>2 DEF Shape
<1> QED
  BY <1>1, <1>10, Assigned

\* A sequence the other way round.
LEMMA IsSeqReverse ==
  ASSUME NEW s, IsSeq(s)
  PROVE  IsSeq(Reverse(s)) /\ ToSet(Reverse(s)) = ToSet(s)
<1>1. Len(s) \in Nat /\ DOMAIN s = 1..Len(s)
  BY IsSeqAppend
<1> DEFINE n == Len(s)
           r == [i \in 1..n |-> s[(n - i) + 1]]
<1>2. Reverse(s) = r
  BY Zenon DEF Reverse
<1>3. r \in [1..n -> {r[i] : i \in DOMAIN r}] /\ DOMAIN r = 1..n
  OBVIOUS
<1>4. IsSeq(r)
  <2>1. n \in Nat
    BY <1>1
  <2> HIDE DEF r, n
  <2> QED
    BY <1>3, <2>1 DEF IsSeq
<1>5. ToSet(r) = ToSet(s)
  <2>1. \A i \in 1..n : (n - i) + 1 \in 1..n /\ (n - ((n - i) + 1)) + 1 = i
    BY <1>1
  <2>2. \A i \in 1..n : r[(n - i) + 1] = s[i] /\ r[i] = s[(n - i) + 1]
    BY <1>1, <2>1
  <2> HIDE DEF r
  <2>3. \A i \in 1..n : s[i] \in ToSet(r) /\ r[i] \in ToSet(s)
    BY <1>1, <1>3, <2>1, <2>2, Zenon DEF ToSet
  <2> QED
    BY <1>1, <1>3, <2>3 DEF ToSet
<1> QED
  BY <1>2, <1>4, <1>5

\* Ready changes no pipeline's place.
LEMMA ReadyKeeps ==
  ASSUME IsPlan(plan), Shape(build), Ready
  PROVE  Shape(build)'
<1> DEFINE new(p) == LET pipeline == build.pipelines[p]
                     IN  IF p \in Current /\ ~pipeline.ready
                         THEN [pipeline EXCEPT !.ready = TRUE, !.operators = Reverse(@)]
                         ELSE pipeline
           b == [build EXCEPT !.pipelines = [p \in Pipeline |-> new(p)]]
<1>1. build' = b /\ plan' = plan
  BY Zenon DEF Ready
<1>2. IsSeq(build.pipelines) /\ Pipeline = DOMAIN build.pipelines /\ Len(build.pipelines) \in Nat
  <2>1. IsSeq(build.pipelines)
    BY DEF Shape
  <2> QED
    BY <2>1, IsSeqAppend DEF Pipeline
<1>3. ASSUME NEW p \in DOMAIN build.pipelines
      PROVE  /\ DOMAIN new(p) = PipelineFields /\ Listed(new(p))
             /\ new(p).meta = build.pipelines[p].meta /\ new(p).group = build.pipelines[p].group
  <2> DEFINE ops == Reverse(build.pipelines[p].operators)
  <2>1. IsSeq(ops)
    BY IsSeqReverse DEF Shape, PipelineOK, Listed
  <2>2. new(p) \in {build.pipelines[p], [build.pipelines[p] EXCEPT !.ready = TRUE, !.operators = ops]}
    BY Zenon
  <2> HIDE DEF new, ops
  <2> QED
    BY <2>1, <2>2 DEF Shape, PipelineOK, PipelineFields, Listed
<1> HIDE DEF new
<1>4. /\ DOMAIN b = BuildFields /\ b.metas = build.metas /\ b.calls = build.calls /\ b.root = build.root
      /\ b.pipelines = [p \in Pipeline |-> new(p)]
  BY DEF Shape, BuildFields
<1> HIDE DEF b
<1>5. IsSeq(b.pipelines) /\ DOMAIN b.pipelines = DOMAIN build.pipelines
  <2>1. DOMAIN b.pipelines = DOMAIN build.pipelines
    BY <1>2, <1>4
  <2>2. PICK n \in Nat : Pipeline = 1..n
    BY <1>2 DEF Pipeline
  <2>3. b.pipelines \in [1..n -> {b.pipelines[i] : i \in DOMAIN b.pipelines}]
    BY <1>4, <2>2
  <2>4. IsSeq(b.pipelines)
    BY <2>2, <2>3 DEF IsSeq
  <2> QED
    BY <2>1, <2>4
<1>6. ASSUME NEW p \in DOMAIN build.pipelines
      PROVE  /\ DOMAIN b.pipelines[p] = PipelineFields /\ Listed(b.pipelines[p])
             /\ b.pipelines[p].meta = build.pipelines[p].meta
             /\ b.pipelines[p].group = build.pipelines[p].group
  BY <1>2, <1>3, <1>4
<1>7. Shape(b)
  BY <1>4, <1>5, <1>6, SamePipelines
<1> QED
  BY <1>1, <1>7, Assigned

\* Building the pipelines of an execution keeps the plan and the shape.
LEMMA BuildStepKeeps ==
  ASSUME IsPlan(plan), Shape(build), BuildStep
  PROVE  plan' = plan /\ Shape(build)'
<1>1. plan' = plan
  BY Zenon DEF BuildStep, InitializeInternal, BuildSource, BuildStreaming, BuildSink, BuildCreateBF,
         BuildPipelinesFromRelated, BuildUseBF, BuildJoin, BuildJoinSource, BuildUnion,
         BuildUnionOrder, BuildIEJoin, BuildIEJoinRight, BuildIEJoinFinish, Ready, Build
<1>2. Shape(build)'
  BY InitializeInternalKeeps, BuildSourceKeeps, BuildStreamingKeeps, BuildSinkKeeps,
     BuildCreateBFKeeps, BuildPipelinesFromRelatedKeeps, BuildUseBFKeeps, BuildJoinKeeps,
     BuildJoinSourceKeeps, BuildUnionKeeps, BuildUnionOrderKeeps, BuildIEJoinKeeps,
     BuildIEJoinRightKeeps, BuildIEJoinFinishKeeps, ReadyKeeps DEF BuildStep
<1> QED
  BY <1>1, <1>2

-----------------------------------------------------------------------------
(* The events of an execution, and what they wait for *)

\* The base pipeline of a MetaPipeline belongs to it.
LEMMA BaseBelongs ==
  ASSUME Shape(build), NEW m \in DOMAIN build.metas
  PROVE  Belongs(build, Base(m), m)
<1> DEFINE s == build.metas[m].pipelines
<1>1. IsSeq(s) /\ s # <<>> /\ \A i \in DOMAIN s : Belongs(build, s[i], m)
  BY DEF Shape, MetaOK
<1> HIDE DEF s
<1>2. 1 \in DOMAIN s /\ Head(s) = s[1]
  BY <1>1, IsSeqTail
<1>3. Belongs(build, Head(s), m)
  BY <1>1, <1>2
<1> QED
  BY <1>3 DEF s, Base

\* Pipelines and MetaPipelines are numbered.
LEMMA Numbered ==
  ASSUME Shape(build)
  PROVE  /\ Pipeline = DOMAIN build.pipelines /\ Meta = DOMAIN build.metas
         /\ Meta \subseteq Nat /\ build.root \in Nat
<1>1. IsSeq(build.pipelines) /\ IsSeq(build.metas) /\ build.root \in Nat
  BY DEF Shape
<1>2. Len(build.pipelines) \in Nat /\ Len(build.metas) \in Nat
  BY <1>1, IsSeqAppend
<1>3. DOMAIN build.pipelines = 1..Len(build.pipelines) /\ DOMAIN build.metas = 1..Len(build.metas)
  BY <1>1, IsSeqAppend
<1> QED
  BY <1>1, <1>2, <1>3 DEF Pipeline, Meta

\* The finish event of a pipeline is that of a pipeline of the same MetaPipeline.
LEMMA FinishBelongs ==
  ASSUME Shape(build), NEW p \in DOMAIN build.pipelines
  PROVE  \E q : FinishEvent(p) = <<"finish", q>> /\ Belongs(build, q, build.pipelines[p].meta)
<1> DEFINE m == build.pipelines[p].meta
<1>1. /\ m \in DOMAIN build.metas
      /\ build.pipelines[p].group = NoPipeline \/ Belongs(build, build.pipelines[p].group, m)
  BY DEF Shape, PipelineOK
<1>2. Belongs(build, Base(m), m) /\ Belongs(build, p, m)
  BY <1>1, BaseBelongs DEF Belongs
<1>3. CASE build.pipelines[p].group # NoPipeline
  <2>1. FinishEvent(p) = <<"finish", build.pipelines[p].group>>
    BY <1>3 DEF FinishEvent
  <2> QED
    BY <1>1, <1>3, <2>1
<1>4. CASE build.pipelines[p].group = NoPipeline /\ p \in build.metas[m].finish
  BY <1>2, <1>4 DEF FinishEvent
<1>5. CASE build.pipelines[p].group = NoPipeline /\ p \notin build.metas[m].finish
  BY <1>2, <1>5 DEF FinishEvent
<1> QED
  BY <1>3, <1>4, <1>5

\* The values of a function on a finite set.
LEMMA FiniteValues ==
  ASSUME NEW S, IsFiniteSet(S), NEW T, NEW f \in [S -> T], \A y \in T : \E x \in S : f[x] = y
  PROVE  IsFiniteSet(T)
<1>1. f \in Surjection(S, T)
  BY DEF Surjection
<1> QED
  BY <1>1, FS_Surjection

\* The places of a list are finitely many.
LEMMA FinitePlaces ==
  ASSUME NEW s, IsSeq(s)
  PROVE  IsFiniteSet(DOMAIN s)
<1>1. Len(s) \in Nat /\ DOMAIN s = 1..Len(s)
  BY IsSeqAppend
<1> QED
  BY <1>1, FS_Interval

\* A pipeline has finitely many dependencies.
LEMMA FiniteDependenciesOf ==
  ASSUME Shape(build), NEW p \in DOMAIN build.pipelines
  PROVE  IsFiniteSet(StackDependencies(p) \cup InnerDependencies(p) \cup OuterDependencies(p))
<1>1. IsSeq(build.pipelines[p].dependencies) /\ IsSeq(build.pipelines[p].inner)
  BY DEF Shape, PipelineOK, Listed
<1>2. IsFiniteSet(StackDependencies(p))
  <2>1. \A a, b, c : IsFiniteSet({a, b, c})
    <3> SUFFICES ASSUME NEW a, NEW b, NEW c PROVE IsFiniteSet({a, b, c})
      OBVIOUS
    <3>1. IsFiniteSet({a}) /\ IsFiniteSet({b}) /\ IsFiniteSet({c})
      BY FS_Singleton
    <3>2. IsFiniteSet({a} \cup {b})
      BY <3>1, FS_Union
    <3>3. IsFiniteSet(({a} \cup {b}) \cup {c})
      BY <3>1, <3>2, FS_Union
    <3>4. {a, b, c} = ({a} \cup {b}) \cup {c}
      OBVIOUS
    <3> QED
      BY <3>3, <3>4
  <2>2. PICK a, b, c : StackDependencies(p) = {a, b, c}
    BY Zenon DEF StackDependencies
  <2>3. IsFiniteSet({a, b, c})
    BY <2>1
  <2> QED
    BY <2>2, <2>3
<1>3. IsFiniteSet(InnerDependencies(p))
  <2> DEFINE S == DOMAIN build.pipelines[p].inner
             f == [k \in S |-> Dependency(PipelineEvent(p), PipelineEvent(build.pipelines[p].inner[k]), k)]
             T == InnerDependencies(p)
  <2>1. f \in [S -> T] /\ \A y \in T : \E x \in S : f[x] = y
    BY DEF InnerDependencies
  <2>2. IsFiniteSet(S)
    BY <1>1, FinitePlaces
  <2> HIDE DEF S, f, T
  <2>3. IsFiniteSet(T)
    BY <2>1, <2>2, FiniteValues
  <2> QED
    BY <2>3 DEF T
<1>4. IsFiniteSet(OuterDependencies(p))
  <2> DEFINE S == DOMAIN build.pipelines[p].dependencies
             f == [k \in S |-> Dependency(PipelineEvent(p),
                     CompleteEvent(build.pipelines[build.pipelines[p].dependencies[k]].meta), k)]
             T == OuterDependencies(p)
  <2>1. f \in [S -> T] /\ \A y \in T : \E x \in S : f[x] = y
    BY DEF OuterDependencies
  <2>2. IsFiniteSet(S)
    BY <1>1, FinitePlaces
  <2> HIDE DEF S, f, T
  <2>3. IsFiniteSet(T)
    BY <2>1, <2>2, FiniteValues
  <2> QED
    BY <2>3 DEF T
<1>5. IsFiniteSet(StackDependencies(p) \cup InnerDependencies(p))
  BY <1>2, <1>3, FS_Union
<1> QED
  BY <1>4, <1>5, FS_Union

\* A plan has finitely many dependencies, none of them of an initialize event or of one
\* that is yet to be inserted, or on the latter.
LEMMA PlanDependencies ==
  ASSUME Shape(build)
  PROVE  /\ IsFiniteSet(Dependencies)
         /\ \A d \in Dependencies : d.event[1] \notin {"initialize", "finalize"} /\ d.on[1] # "finalize"
<1>1. ScheduledPipeline \subseteq DOMAIN build.pipelines
  BY Numbered DEF ScheduledPipeline
<1>2. IsFiniteSet(Dependencies)
  <2> DEFINE g(p) == StackDependencies(p) \cup InnerDependencies(p) \cup OuterDependencies(p)
             S == ScheduledPipeline
             T == {g(p) : p \in S}
             f == [p \in S |-> g(p)]
  <2>1. f \in [S -> T] /\ \A y \in T : \E x \in S : f[x] = y
    OBVIOUS
  <2>2. IsFiniteSet(DOMAIN build.pipelines)
    BY FinitePlaces DEF Shape
  <2>3. IsFiniteSet(S)
    BY <1>1, <2>2, FS_Subset
  <2>4. \A y \in T : IsFiniteSet(y)
    BY <1>1, FiniteDependenciesOf
  <2>5. Dependencies = UNION T
    BY DEF Dependencies
  <2> HIDE DEF S, T, f
  <2>6. IsFiniteSet(T)
    BY <2>1, <2>3, FiniteValues
  <2>7. IsFiniteSet(UNION T)
    BY <2>4, <2>6, FS_UNION
  <2> QED
    BY <2>5, <2>7
<1>3. ASSUME NEW d \in Dependencies
      PROVE  d.event[1] \notin {"initialize", "finalize"} /\ d.on[1] # "finalize"
  <2>1. PICK p \in ScheduledPipeline :
          d \in StackDependencies(p) \cup InnerDependencies(p) \cup OuterDependencies(p)
    BY <1>3 DEF Dependencies
  <2> DEFINE b == Base(build.pipelines[p].meta)
  <2>2. p \in DOMAIN build.pipelines /\ build.pipelines[p].meta \in DOMAIN build.metas
    BY <1>1 DEF Shape, PipelineOK
  <2>3. b \in DOMAIN build.pipelines
    BY <2>2, BaseBelongs DEF Belongs
  <2>4. (\E q : FinishEvent(p) = <<"finish", q>>) /\ (\E q : FinishEvent(b) = <<"finish", q>>)
    <3> HIDE DEF b
    <3> QED
      BY <2>2, <2>3, FinishBelongs
  <2>5. FinishEvent(p)[1] = "finish" /\ FinishEvent(b)[1] = "finish"
    <3> HIDE DEF b
    <3> QED
      BY <2>4
  <2>6. CASE d \in StackDependencies(p)
    BY <2>5, <2>6 DEF StackDependencies, Dependency, PipelineEvent, InitializeEvent, CompleteEvent
  <2>7. CASE d \in InnerDependencies(p)
    BY <2>7 DEF InnerDependencies, Dependency, PipelineEvent
  <2>8. CASE d \in OuterDependencies(p)
    BY <2>8 DEF OuterDependencies, Dependency, PipelineEvent, CompleteEvent
  <2> QED
    BY <2>1, <2>6, <2>7, <2>8
<1> QED
  BY <1>2, <1>3

\* Induction up to a bound.
LEMMA UpTo ==
  ASSUME NEW N \in Nat, NEW T, 0 \in T, \A n \in 1..N : n - 1 \in T => n \in T
  PROVE  0..N \subseteq T
<1> SUFFICES ASSUME (0..N) \ T # {} PROVE FALSE
  OBVIOUS
<1> DEFINE R == OpToRel(<, Nat)
           I == (0..N) \ T
<1>1. IsWellFoundedOn(R, Nat)
  BY NatLessThanWellFounded
<1>2. \A x, y \in Nat : y < x => <<y, x>> \in R
  BY DEF OpToRel
<1>3. I \subseteq Nat /\ I # {}
  OBVIOUS
<1> HIDE DEF R, I
<1>4. PICK x \in I : \A y \in I : ~(<<y, x>> \in R)
  BY <1>1, <1>3, WFMin
<1>5. x \in 1..N /\ x - 1 \in Nat /\ x \in Nat /\ x - 1 < x /\ x \notin T /\ x - 1 \in 0..N
  BY <1>4 DEF I
<1>6. x - 1 \notin T
  BY <1>5
<1>7. x - 1 \in I
  BY <1>5, <1>6 DEF I
<1> QED
  BY <1>2, <1>4, <1>5, <1>7

\* The rounds of a computation on values of V.
Rounds(N, V, a, G, f) ==
  f \in [0..N -> V] /\ f[0] = a /\ \A n \in 1..N : f[n] = G[f[n - 1]]

\* They exist.
LEMMA RoundsExist ==
  ASSUME NEW N \in Nat, NEW V, NEW a \in V, NEW G \in [V -> V]
  PROVE  \E f : Rounds(N, V, a, G, f)
<1> DEFINE T == {m \in Nat : \E f : Rounds(m, V, a, G, f)}
<1>1. 0 \in T
  <2> DEFINE f == [i \in 0..0 |-> a]
  <2>1. Rounds(0, V, a, G, f)
    BY DEF Rounds
  <2> QED
    BY <2>1
<1>2. ASSUME NEW m \in 1..N, m - 1 \in T
      PROVE  m \in T
  <2>1. PICK f : Rounds(m - 1, V, a, G, f)
    BY <1>2
  <2> DEFINE g == [i \in 0..m |-> IF i = m THEN G[f[m - 1]] ELSE f[i]]
  <2>2. f[m - 1] \in V /\ G[f[m - 1]] \in V
    BY <2>1 DEF Rounds
  <2>3. g \in [0..m -> V] /\ g[0] = a
    BY <2>1, <2>2 DEF Rounds
  <2>4. ASSUME NEW n \in 1..m
        PROVE  g[n] = G[g[n - 1]]
    <3>1. g[n - 1] = f[n - 1]
      OBVIOUS
    <3>2. CASE n = m
      BY <3>1, <3>2
    <3>3. CASE n # m
      <4>1. n \in 1..(m - 1) /\ g[n] = f[n]
        BY <3>3
      <4> QED
        BY <2>1, <3>1, <4>1 DEF Rounds
    <3> QED
      BY <3>2, <3>3
  <2>5. Rounds(m, V, a, G, g)
    BY <2>3, <2>4 DEF Rounds
  <2>6. m \in Nat
    OBVIOUS
  <2> HIDE DEF g
  <2> QED
    BY <2>5, <2>6
<1> HIDE DEF T
<1>3. 0..N \subseteq T
  BY <1>1, <1>2, UpTo
<1> QED
  BY <1>3 DEF T

\* The events that those in S wait for.
WaitedFor(S, D) == {d.on : d \in {x \in D : x.event \in S}}

\* What e awaits is computed in rounds.
WaitRounds(e, D, g) ==
  /\ Awaits(e, D) = g[Cardinality(D)] /\ g[0] = WaitedFor({e}, D)
  /\ \A n \in 1..Cardinality(D) : g[n] = g[n - 1] \cup WaitedFor(g[n - 1], D)

\* They are what the recursive function of Awaits has.
LEMMA AwaitsRounds ==
  ASSUME NEW e, NEW D, IsFiniteSet(D)
  PROVE  \E g : WaitRounds(e, D, g)
<1> DEFINE N == Cardinality(D)
           V == SUBSET {d.on : d \in D}
           a == WaitedFor({e}, D)
           G == [v \in V |-> v \cup WaitedFor(v, D)]
           Loop(f) == f = [n \in 0..N |-> IF n = 0 THEN a ELSE f[n - 1] \cup WaitedFor(f[n - 1], D)]
<1>1. N \in Nat
  BY FS_CardinalityType
<1>2. a \in V /\ G \in [V -> V] /\ \A v \in V : G[v] = v \cup WaitedFor(v, D)
  BY DEF WaitedFor
<1>3. Awaits(e, D) = (CHOOSE f : Loop(f))[N]
  BY DEF Awaits, WaitedFor
<1> HIDE DEF N, V, a, G
<1>4. PICK f : Rounds(N, V, a, G, f)
  BY <1>1, <1>2, RoundsExist
<1>5. Loop(f)
  <2>1. \A n \in 1..N : f[n - 1] \in V
    BY <1>1, <1>4 DEF Rounds
  <2>2. \A n \in 1..N : f[n] = f[n - 1] \cup WaitedFor(f[n - 1], D)
    BY <1>2, <1>4, <2>1 DEF Rounds
  <2> QED
    BY <1>4, <2>2 DEF Rounds
<1> DEFINE g == CHOOSE h : Loop(h)
<1>6. g = [n \in 0..N |-> IF n = 0 THEN a ELSE g[n - 1] \cup WaitedFor(g[n - 1], D)]
  BY <1>5
<1> HIDE DEF g, Loop
<1>7. g[0] = a /\ \A n \in 1..N : g[n] = g[n - 1] \cup WaitedFor(g[n - 1], D)
  <2> DEFINE Q(n) == g[n - 1] \cup WaitedFor(g[n - 1], D)
  <2>1. g = [n \in 0..N |-> IF n = 0 THEN a ELSE Q(n)]
    BY <1>6
  <2> HIDE DEF Q
  <2>2. 0 \in 0..N /\ \A n \in 1..N : n \in 0..N /\ n # 0
    BY <1>1
  <2>3. g[0] = a /\ \A n \in 1..N : g[n] = Q(n)
    BY <2>1, <2>2, Zenon
  <2> QED
    BY <2>3 DEF Q
<1>8. Awaits(e, D) = g[N]
  BY <1>3 DEF g
<1>9. WaitRounds(e, D, g)
  BY <1>7, <1>8, Zenon DEF N, a, WaitRounds
<1> QED
  BY <1>9

\* What e awaits is in every set that has what its members and e wait for.
LEMMA AwaitsClosed ==
  ASSUME NEW e, NEW D, IsFiniteSet(D), NEW Z, \A d \in D : d.event = e \/ d.event \in Z => d.on \in Z
  PROVE  Awaits(e, D) \subseteq Z
<1> DEFINE N == Cardinality(D)
<1>1. N \in Nat
  BY FS_CardinalityType
<1>a. PICK g : WaitRounds(e, D, g)
  BY AwaitsRounds
<1>2. /\ Awaits(e, D) = g[N] /\ g[0] = WaitedFor({e}, D)
      /\ \A n \in 1..N : g[n] = g[n - 1] \cup WaitedFor(g[n - 1], D)
  BY <1>a, Zenon DEF WaitRounds
<1> HIDE DEF N
<1>3. g[0] \subseteq Z
  BY <1>2 DEF WaitedFor
<1>4. \A v : v \subseteq Z => v \cup WaitedFor(v, D) \subseteq Z
  BY DEF WaitedFor
<1> DEFINE T == {n \in 0..N : g[n] \subseteq Z}
<1>5. 0 \in T
  BY <1>1, <1>3
<1>6. \A n \in 1..N : n - 1 \in T => n \in T
  BY <1>1, <1>2, <1>4
<1> HIDE DEF T
<1>7. N \in T
  <2>1. 0..N \subseteq T
    BY <1>1, <1>5, <1>6, UpTo
  <2> QED
    BY <1>1, <2>1
<1> QED
  BY <1>2, <1>7 DEF T

-----------------------------------------------------------------------------
(* What a pipeline probes or reads, it waits for.  b stands for the value   *)
(* of build.                                                                *)

Ops(b, p)    == ToSet(b.pipelines[p].operators)
Source(b, p) == b.pipelines[p].source

\* A MetaPipeline of this execution with the sink op has q.
Fills(b, q, op) ==
  /\ q \in DOMAIN b.pipelines
  /\ b.pipelines[q].meta > b.root
  /\ b.metas[b.pipelines[q].meta].sink = op

\* p depends on a MetaPipeline with the sink op.
Provided(b, p, op) == \E q \in ToSet(b.pipelines[p].dependencies) : Fills(b, q, op)

FromRelated(c) == c.fn = "BuildPipelinesFromRelated"

\* The dependency of p on the CreateBF op is yet to be added.
ToBeAdded(b, p, op) ==
  \E i \in DOMAIN b.calls : FromRelated(b.calls[i]) /\ b.calls[i].op = op /\ b.calls[i].pipe = p

\* p itself depends on all it probes and reads.
ProbesWait(b, p) == \A x \in Ops(b, p) : \A r \in ToSet(plan[x].related) : Provided(b, p, r) \/ ToBeAdded(b, p, r)

SourceWaits(b, p) ==
  \/ Source(b, p) = NoOperator
  \/ plan[Source(b, p)].kind = "source"
  \/ Provided(b, p, Source(b, p))

Direct(b, p) == ProbesWait(b, p) /\ SourceWaits(b, p)

\* p waits for q, a pipeline of the same MetaPipeline, which depends on all that
\* p probes and reads: p starts at a join of q.
Behind(b, p, q) ==
  /\ q \in ToSet(b.pipelines[p].inner)
  /\ Belongs(b, q, b.pipelines[p].meta)
  /\ Ops(b, p) \subseteq Ops(b, q)
  /\ Direct(b, q)
  /\ Provided(b, q, Source(b, p))

PipeWaits(b, p) == Direct(b, p) \/ \E q \in DOMAIN b.pipelines : Behind(b, p, q)

\* A call adds to a pipeline that depends on all it has itself.
CallWaits(b, c) ==
  /\ c.fn # "CreatePipeline" => Direct(b, c.pipe)
  /\ c.fn = "CreateChildPipeline" => Provided(b, c.pipe, c.op)

\* Before anything else is added to a pipeline, it has the dependencies of the last UseBF.
Ordered(cs) ==
  \A i, j \in DOMAIN cs : i < j /\ FromRelated(cs[j]) /\ cs[i].pipe = cs[j].pipe => FromRelated(cs[i])

\* A CreateBF has the pipeline that fills it.
Remembered(b) ==
  /\ DOMAIN b.this_pipeline = Op
  /\ \A op \in Op : b.this_pipeline[op] = NoPipeline \/ Fills(b, b.this_pipeline[op], op)

\* Nothing is put into a table.
SinksOK(b) ==
  \A m \in DOMAIN b.metas : m > b.root => b.metas[m].sink \in Op /\ plan[b.metas[m].sink].kind # "source"

Waits(b) ==
  /\ b.root \in DOMAIN b.metas
  /\ \A p \in DOMAIN b.pipelines : PipeWaits(b, p)
  /\ \A i \in DOMAIN b.calls : CallWaits(b, b.calls[i])
  /\ Ordered(b.calls)
  /\ Remembered(b)
  /\ SinksOK(b)

\* In the first execution of a plan.
WInv ==
  /\ IsPlan(plan) /\ Shape(build)
  /\ phase \in {"idle", "building", "scheduled"}
  /\ phase = "idle" => /\ build.pipelines = <<>> /\ build.metas = <<>> /\ build.calls = <<>>
                       /\ build.this_pipeline = [op \in Op |-> NoPipeline] /\ build.root = 0
  /\ phase # "idle" => Waits(build)
  /\ phase = "scheduled" => build.calls = <<>>

-----------------------------------------------------------------------------
(* What the parts of a call change *)

\* What one has is never taken away.
Extends(b, c) ==
  /\ DOMAIN b.pipelines \subseteq DOMAIN c.pipelines
  /\ DOMAIN b.metas \subseteq DOMAIN c.metas
  /\ c.root = b.root
  /\ \A p \in DOMAIN b.pipelines :
       /\ c.pipelines[p].meta = b.pipelines[p].meta
       /\ ToSet(b.pipelines[p].dependencies) \subseteq ToSet(c.pipelines[p].dependencies)
       /\ ToSet(b.pipelines[p].inner) \subseteq ToSet(c.pipelines[p].inner)
  /\ \A m \in DOMAIN b.metas : c.metas[m].sink = b.metas[m].sink

\* Of the pipelines of b only p gets operators or a source.
OnlyOn(b, c, p) ==
  \A q \in DOMAIN b.pipelines : q # p => Ops(c, q) = Ops(b, q) /\ Source(c, q) = Source(b, q)

\* It is still filled, and a dependency is still one.
LEMMA ExtendsKeeps ==
  ASSUME NEW b, NEW c, Shape(b), Extends(b, c)
  PROVE  /\ \A q, op : Fills(b, q, op) => Fills(c, q, op)
         /\ \A p \in DOMAIN b.pipelines : \A op : Provided(b, p, op) => Provided(c, p, op)
<1>1. ASSUME NEW q, NEW op, Fills(b, q, op)
      PROVE  Fills(c, q, op)
  <2>1. q \in DOMAIN b.pipelines /\ b.pipelines[q].meta \in DOMAIN b.metas
    BY <1>1 DEF Fills, Shape, PipelineOK
  <2> QED
    BY <1>1, <2>1 DEF Fills, Extends
<1> QED
  BY <1>1 DEF Provided, Extends

\* One change after the other.
LEMMA ExtendsTwice ==
  ASSUME NEW a, NEW b, NEW c, NEW p, Extends(a, b), Extends(b, c), OnlyOn(a, b, p), OnlyOn(b, c, p)
  PROVE  Extends(a, c) /\ OnlyOn(a, c, p)
<1>1. Extends(a, c)
  <2>1. ASSUME NEW q \in DOMAIN a.pipelines
        PROVE  /\ q \in DOMAIN b.pipelines /\ c.pipelines[q].meta = a.pipelines[q].meta
               /\ ToSet(a.pipelines[q].dependencies) \subseteq ToSet(c.pipelines[q].dependencies)
               /\ ToSet(a.pipelines[q].inner) \subseteq ToSet(c.pipelines[q].inner)
    BY DEF Extends
  <2>2. \A m \in DOMAIN a.metas : c.metas[m].sink = a.metas[m].sink
    BY DEF Extends
  <2> QED
    BY <2>1, <2>2 DEF Extends
<1>2. OnlyOn(a, c, p)
  BY DEF OnlyOn, Extends
<1> QED
  BY <1>1, <1>2

\* Only calls or remembered pipelines differ.
LEMMA SameExtends ==
  ASSUME NEW b, NEW c, NEW p, c.pipelines = b.pipelines, c.metas = b.metas, c.root = b.root
  PROVE  Extends(b, c) /\ OnlyOn(b, c, p)
BY DEF Extends, OnlyOn, Ops, Source

\* What a sequence holds that has got an element, or another sequence.
LEMMA ToSetAppend ==
  ASSUME NEW s, IsSeq(s), NEW e
  PROVE  ToSet(Append(s, e)) = ToSet(s) \cup {e}
<1> DEFINE t == Append(s, e)
<1>1. /\ Len(s) \in Nat /\ DOMAIN s = 1..Len(s) /\ DOMAIN t = 1..(Len(s) + 1)
      /\ \A i \in DOMAIN s : t[i] = s[i]
      /\ t[Len(s) + 1] = e
  BY IsSeqAppend
<1> HIDE DEF t
<1>2. DOMAIN t = DOMAIN s \cup {Len(s) + 1}
  BY <1>1
<1>3. ToSet(t) = ToSet(s) \cup {e}
  BY <1>1, <1>2 DEF ToSet
<1> QED
  BY <1>3 DEF t

\* What the second part has, the whole has.
LEMMA ToSetConcat ==
  ASSUME NEW s, NEW t, IsSeq(s), IsSeq(t)
  PROVE  ToSet(t) \subseteq ToSet(s \o t)
<1> DEFINE S == {s[i] : i \in DOMAIN s} \cup {t[i] : i \in DOMAIN t}
<1>1. s \in Seq(S) /\ t \in Seq(S)
  BY DEF IsSeq
<1> HIDE DEF S
<1>2. /\ Len(s) \in Nat /\ Len(t) \in Nat /\ DOMAIN t = 1..Len(t) /\ DOMAIN (s \o t) = 1..(Len(s) + Len(t))
      /\ \A i \in 1..Len(t) : (s \o t)[Len(s) + i] = t[i]
  BY <1>1
<1>3. \A i \in 1..Len(t) : Len(s) + i \in DOMAIN (s \o t)
  BY <1>2
<1> QED
  BY <1>2, <1>3, Zenon DEF ToSet

\* A pipeline p gets the value r, with all the dependencies it had.
LEMMA Altered ==
  ASSUME NEW b, NEW c, NEW p \in DOMAIN b.pipelines, NEW r,
         c.metas = b.metas, c.root = b.root, c.pipelines = [b.pipelines EXCEPT ![p] = r],
         r.meta = b.pipelines[p].meta,
         ToSet(b.pipelines[p].dependencies) \subseteq ToSet(r.dependencies),
         ToSet(b.pipelines[p].inner) \subseteq ToSet(r.inner)
  PROVE  /\ Extends(b, c) /\ OnlyOn(b, c, p) /\ DOMAIN c.pipelines = DOMAIN b.pipelines
         /\ c.pipelines[p] = r
<1>1. /\ DOMAIN c.pipelines = DOMAIN b.pipelines /\ c.pipelines[p] = r
      /\ \A q \in DOMAIN b.pipelines : q # p => c.pipelines[q] = b.pipelines[q]
  BY Zenon
<1>2. Extends(b, c)
  BY <1>1 DEF Extends
<1>3. OnlyOn(b, c, p)
  BY <1>1 DEF OnlyOn, Ops, Source
<1> QED
  BY <1>1, <1>2, <1>3

\* No pipeline or MetaPipeline is new, and no call is made.
NothingNew(b, c) ==
  /\ c.metas = b.metas /\ c.calls = b.calls /\ c.this_pipeline = b.this_pipeline
  /\ DOMAIN c.pipelines = DOMAIN b.pipelines

\* SetPipelineSource changes the source of p.
LEMMA SetPipelineSourceExtends ==
  ASSUME NEW b, Shape(b), NEW p \in DOMAIN b.pipelines, NEW op, NEW c, c = SetPipelineSource(b, p, op)
  PROVE  /\ Extends(b, c) /\ OnlyOn(b, c, p) /\ NothingNew(b, c)
         /\ Ops(c, p) = Ops(b, p) /\ Source(c, p) = op
<1> DEFINE v == op
           r == [b.pipelines[p] EXCEPT !.source = v]
<1>1. /\ c.metas = b.metas /\ c.calls = b.calls /\ c.root = b.root /\ c.this_pipeline = b.this_pipeline
      /\ c.pipelines = [b.pipelines EXCEPT ![p] = r]
  BY DEF SetPipelineSource, Shape, BuildFields
<1> HIDE DEF v
<1>2. /\ r.meta = b.pipelines[p].meta /\ r.dependencies = b.pipelines[p].dependencies
      /\ r.inner = b.pipelines[p].inner /\ r.operators = b.pipelines[p].operators /\ r.source = v
  BY DEF Shape, PipelineOK, PipelineFields
<1> HIDE DEF r
<1>3. /\ Extends(b, c) /\ OnlyOn(b, c, p) /\ DOMAIN c.pipelines = DOMAIN b.pipelines
      /\ c.pipelines[p] = r
  BY <1>1, <1>2, Altered
<1> QED
  BY <1>1, <1>2, <1>3 DEF NothingNew, Ops, Source, v

\* AddPipelineOperator adds to the operators of p.
LEMMA AddPipelineOperatorExtends ==
  ASSUME NEW b, Shape(b), NEW p \in DOMAIN b.pipelines, NEW op, NEW c, c = AddPipelineOperator(b, p, op)
  PROVE  /\ Extends(b, c) /\ OnlyOn(b, c, p) /\ NothingNew(b, c)
         /\ Ops(c, p) = Ops(b, p) \cup {op} /\ Source(c, p) = Source(b, p)
<1> DEFINE v == Append(b.pipelines[p].operators, op)
           r == [b.pipelines[p] EXCEPT !.operators = v]
<1>1. /\ c.metas = b.metas /\ c.calls = b.calls /\ c.root = b.root /\ c.this_pipeline = b.this_pipeline
      /\ c.pipelines = [b.pipelines EXCEPT ![p] = r]
  BY DEF AddPipelineOperator, Shape, BuildFields
<1>a. ToSet(v) = ToSet(b.pipelines[p].operators) \cup {op}
  BY ToSetAppend DEF Shape, PipelineOK, Listed
<1> HIDE DEF v
<1>2. /\ r.meta = b.pipelines[p].meta /\ r.dependencies = b.pipelines[p].dependencies
      /\ r.inner = b.pipelines[p].inner /\ r.operators = v /\ r.source = b.pipelines[p].source
  BY DEF Shape, PipelineOK, PipelineFields
<1> HIDE DEF r
<1>3. /\ Extends(b, c) /\ OnlyOn(b, c, p) /\ DOMAIN c.pipelines = DOMAIN b.pipelines
      /\ c.pipelines[p] = r
  BY <1>1, <1>2, Altered
<1> QED
  BY <1>1, <1>2, <1>3, <1>a DEF NothingNew, Ops, Source

\* AddDependency adds to the dependencies of p.
LEMMA AddDependencyExtends ==
  ASSUME NEW b, Shape(b), NEW p \in DOMAIN b.pipelines, NEW d, NEW c, c = AddDependency(b, p, d)
  PROVE  /\ Extends(b, c) /\ OnlyOn(b, c, p) /\ NothingNew(b, c)
         /\ Ops(c, p) = Ops(b, p) /\ Source(c, p) = Source(b, p)
         /\ d \in ToSet(c.pipelines[p].dependencies)
<1> DEFINE v == Append(b.pipelines[p].dependencies, d)
           r == [b.pipelines[p] EXCEPT !.dependencies = v]
<1>1. /\ c.metas = b.metas /\ c.calls = b.calls /\ c.root = b.root /\ c.this_pipeline = b.this_pipeline
      /\ c.pipelines = [b.pipelines EXCEPT ![p] = r]
  BY DEF AddDependency, Shape, BuildFields
<1>a. ToSet(v) = ToSet(b.pipelines[p].dependencies) \cup {d}
  BY ToSetAppend DEF Shape, PipelineOK, Listed
<1> HIDE DEF v
<1>2. /\ r.meta = b.pipelines[p].meta /\ r.dependencies = v
      /\ r.inner = b.pipelines[p].inner /\ r.operators = b.pipelines[p].operators
      /\ r.source = b.pipelines[p].source
  BY DEF Shape, PipelineOK, PipelineFields
<1> HIDE DEF r
<1>3. /\ Extends(b, c) /\ OnlyOn(b, c, p) /\ DOMAIN c.pipelines = DOMAIN b.pipelines
      /\ c.pipelines[p] = r
  BY <1>1, <1>2, <1>a, Altered
<1> QED
  BY <1>1, <1>2, <1>3, <1>a DEF NothingNew, Ops, Source

\* AddDependenciesFrom adds to what p waits for in its MetaPipeline.
LEMMA AddDependenciesFromExtends ==
  ASSUME NEW b, Shape(b), NEW m \in DOMAIN b.metas, NEW p \in DOMAIN b.pipelines, NEW start,
         NEW c, c = AddDependenciesFrom(b, m, p, start)
  PROVE  /\ Extends(b, c) /\ OnlyOn(b, c, p) /\ NothingNew(b, c)
         /\ Ops(c, p) = Ops(b, p) /\ Source(c, p) = Source(b, p)
         /\ c.pipelines[p].meta = b.pipelines[p].meta
<1> DEFINE made == b.metas[m].pipelines
           k == Found(made, start)
           u == CreatedAfter(b, m, start)
           v == RemoveFirst(u, p) \o b.pipelines[p].inner
           r == [b.pipelines[p] EXCEPT !.inner = v]
<1>1. /\ c.metas = b.metas /\ c.calls = b.calls /\ c.root = b.root /\ c.this_pipeline = b.this_pipeline
      /\ c.pipelines = [b.pipelines EXCEPT ![p] = r]
  BY DEF AddDependenciesFrom, Shape, BuildFields
<1>a. IsSeq(made) /\ u = SubSeq(made, k + 1, Len(made))
  BY Zenon DEF Shape, MetaOK, CreatedAfter, SelectInSeq, Found
<1>b. k \in 0..Len(made) /\ Len(made) \in Nat
  <2> HIDE DEF made
  <2>1. k \in 0..Len(made)
    BY <1>a, Position
  <2> QED
    BY <1>a, <2>1 DEF IsSeq
<1> HIDE DEF k, made, u
<1>c. IsSeq(u)
  BY <1>a, <1>b, IsSeqSubSeq
<1>d. ToSet(b.pipelines[p].inner) \subseteq ToSet(v)
  <2>1. IsSeq(RemoveFirst(u, p))
    BY <1>c, IsSeqRemove
  <2> QED
    BY <2>1, ToSetConcat DEF Shape, PipelineOK, Listed
<1> HIDE DEF v
<1>2. /\ r.meta = b.pipelines[p].meta /\ r.dependencies = b.pipelines[p].dependencies
      /\ r.inner = v /\ r.operators = b.pipelines[p].operators
      /\ r.source = b.pipelines[p].source
  BY DEF Shape, PipelineOK, PipelineFields
<1> HIDE DEF r
<1>3. /\ Extends(b, c) /\ OnlyOn(b, c, p) /\ DOMAIN c.pipelines = DOMAIN b.pipelines
      /\ c.pipelines[p] = r
  BY <1>1, <1>2, <1>d, Altered
<1> QED
  BY <1>1, <1>2, <1>3 DEF NothingNew, Ops, Source

\* c has one more pipeline than b: n, with the value r.
NewPipe(b, c, n, r) ==
  /\ n \notin DOMAIN b.pipelines /\ DOMAIN c.pipelines = DOMAIN b.pipelines \cup {n} /\ c.pipelines[n] = r
  /\ DOMAIN c.metas = DOMAIN b.metas /\ c.calls = b.calls /\ c.this_pipeline = b.this_pipeline

\* AddPipeline leaves the others as they are.
LEMMA AddPipelineExtends ==
  ASSUME NEW b, Shape(b), NEW m \in DOMAIN b.metas, NEW r, NEW c, c = AddPipeline(b, m, r), NEW p,
         NEW n, n = Len(b.pipelines) + 1
  PROVE  Extends(b, c) /\ OnlyOn(b, c, p) /\ NewPipe(b, c, n, r)
<1> DEFINE old == b.metas[m].pipelines
           meta == [b.metas[m] EXCEPT !.pipelines = Append(old, n)]
<1>1. /\ c.calls = b.calls /\ c.root = b.root /\ c.this_pipeline = b.this_pipeline
      /\ c.pipelines = Append(b.pipelines, r)
      /\ c.metas = [b.metas EXCEPT ![m] = meta]
  BY DEF AddPipeline, Shape, BuildFields
<1>2. /\ Len(b.pipelines) \in Nat /\ DOMAIN b.pipelines = 1..Len(b.pipelines)
      /\ DOMAIN c.pipelines = 1..n
      /\ \A q \in DOMAIN b.pipelines : c.pipelines[q] = b.pipelines[q]
      /\ c.pipelines[n] = r
  BY <1>1, IsSeqAppend DEF Shape
<1>3. DOMAIN c.pipelines = DOMAIN b.pipelines \cup {n} /\ n \notin DOMAIN b.pipelines
  BY <1>2
<1>4. meta.sink = b.metas[m].sink
  BY DEF Shape, MetaOK, MetaFields
<1> HIDE DEF meta
<1>5. DOMAIN c.metas = DOMAIN b.metas /\ \A k \in DOMAIN b.metas : c.metas[k].sink = b.metas[k].sink
  BY <1>1, <1>4
<1>6. Extends(b, c)
  BY <1>1, <1>2, <1>3, <1>5 DEF Extends
<1>7. OnlyOn(b, c, p)
  BY <1>2 DEF OnlyOn, Ops, Source
<1> QED
  BY <1>1, <1>2, <1>3, <1>5, <1>6, <1>7 DEF NewPipe

\* c has one more MetaPipeline than b, with the sink op and one pipeline, on which p depends.
NewChild(b, c, p, op) ==
  LET n == Len(c.pipelines)
      k == Len(c.metas)
  IN  /\ c.calls = b.calls /\ c.this_pipeline = b.this_pipeline
      /\ n \notin DOMAIN b.pipelines /\ DOMAIN c.pipelines = DOMAIN b.pipelines \cup {n}
      /\ k \notin DOMAIN b.metas /\ DOMAIN c.metas = DOMAIN b.metas \cup {k}
      /\ k \in Nat \ {0} /\ c.pipelines[n] = NewPipeline(k) /\ c.metas[k].sink = op
      /\ n \in ToSet(c.pipelines[p].dependencies)

\* CreateChildMetaPipeline makes a MetaPipeline that p waits for.
LEMMA CreateChildMetaPipelineExtends ==
  ASSUME NEW b, Shape(b), NEW p \in DOMAIN b.pipelines, NEW m, NEW op,
         NEW d, d = CreateChildMetaPipeline(b, p, m, op)
  PROVE  /\ Extends(b, d) /\ OnlyOn(b, d, p) /\ NewChild(b, d, p, op)
         /\ Ops(d, p) = Ops(b, p) /\ Source(d, p) = Source(b, p)
<1> DEFINE base == Len(b.pipelines) + 1
           child == Len(b.metas) + 1
           children == Append(b.metas[m].children, child)
           meta == [b.metas[m] EXCEPT !.children = children]
           ms == [b.metas EXCEPT ![m] = meta]
           c == [b EXCEPT !.pipelines = Append(@, NewPipeline(child)),
                          !.metas = Append([b.metas EXCEPT ![m].children = Append(@, child)],
                                           NewMeta(op, base))]
<1>1. d = AddDependency(c, p, base)
  BY Zenon DEF CreateChildMetaPipeline
<1>2. m \in DOMAIN b.metas => /\ DOMAIN meta = MetaFields
                              /\ meta.pipelines = b.metas[m].pipelines
                              /\ meta.finish = b.metas[m].finish
                              /\ meta.sink = b.metas[m].sink
  <2> HIDE DEF children
  <2> QED
    BY DEF Shape, MetaOK, MetaFields
<1>3. IsSeq(ms) /\ DOMAIN ms = DOMAIN b.metas /\ Len(ms) = Len(b.metas)
  <2>1. IsSeq(b.metas)
    BY DEF Shape
  <2> HIDE DEF meta
  <2> QED
    BY <2>1, IsSeqExcept, Zenon
<1>4. \A k \in DOMAIN b.metas : /\ DOMAIN ms[k] = MetaFields
                                /\ ms[k].pipelines = b.metas[k].pipelines
                                /\ ms[k].finish = b.metas[k].finish
                                /\ ms[k].sink = b.metas[k].sink
  <2> HIDE DEF meta
  <2> QED
    BY <1>2 DEF Shape, MetaOK
<1>5. /\ DOMAIN c = BuildFields /\ c.calls = b.calls /\ c.root = b.root /\ c.root \in Nat
      /\ c.this_pipeline = b.this_pipeline
      /\ c.pipelines = Append(b.pipelines, NewPipeline(child))
      /\ c.metas = Append(ms, NewMeta(op, base))
  <2> HIDE DEF child, base
  <2>1. ms = [b.metas EXCEPT ![m].children = Append(@, child)]
    OBVIOUS
  <2>2. /\ DOMAIN c = BuildFields /\ c.calls = b.calls /\ c.root = b.root /\ c.root \in Nat
        /\ c.this_pipeline = b.this_pipeline
        /\ c.pipelines = Append(b.pipelines, NewPipeline(child))
    BY DEF Shape, BuildFields
  <2>3. "metas" \in DOMAIN b
    BY DEF Shape, BuildFields
  <2> HIDE DEF ms
  <2>4. c.metas = Append(ms, NewMeta(op, base))
    <3>1. c.metas = Append([b.metas EXCEPT ![m].children = Append(@, child)], NewMeta(op, base))
      BY <2>3
    <3> QED
      BY <2>1, <3>1, Zenon
  <2> QED
    BY <2>2, <2>4
<1> HIDE DEF c, ms
<1>6. /\ Shape(c) /\ Len(c.pipelines) = base /\ Len(c.metas) = child
  <2>1. \A k \in DOMAIN b.metas : /\ DOMAIN ms[k] = MetaFields
                                  /\ ms[k].pipelines = b.metas[k].pipelines
                                  /\ ms[k].finish = b.metas[k].finish
    BY <1>4
  <2> QED
    BY <1>3, <1>5, <2>1, NewMetaShape
<1>7. /\ Len(b.pipelines) \in Nat /\ DOMAIN b.pipelines = 1..Len(b.pipelines)
      /\ DOMAIN c.pipelines = 1..base
      /\ \A q \in DOMAIN b.pipelines : c.pipelines[q] = b.pipelines[q]
      /\ c.pipelines[base] = NewPipeline(child)
  BY <1>5, IsSeqAppend DEF Shape
<1>8. /\ Len(b.metas) \in Nat /\ DOMAIN b.metas = 1..Len(b.metas)
      /\ DOMAIN c.metas = 1..child
      /\ \A k \in DOMAIN b.metas : c.metas[k] = ms[k]
      /\ c.metas[child] = NewMeta(op, base)
  <2>1. Len(b.metas) \in Nat /\ DOMAIN b.metas = 1..Len(b.metas)
    BY IsSeqAppend DEF Shape
  <2>2. /\ DOMAIN c.metas = 1..(Len(ms) + 1)
        /\ \A k \in DOMAIN ms : c.metas[k] = ms[k]
        /\ c.metas[Len(ms) + 1] = NewMeta(op, base)
    BY <1>3, <1>5, IsSeqAppend
  <2> QED
    BY <1>3, <2>1, <2>2
<1>9. /\ DOMAIN c.pipelines = DOMAIN b.pipelines \cup {base} /\ base \notin DOMAIN b.pipelines
      /\ DOMAIN c.metas = DOMAIN b.metas \cup {child} /\ child \notin DOMAIN b.metas
      /\ child \in Nat \ {0}
  BY <1>7, <1>8
<1>10. c.metas[child].sink = op
  BY <1>8 DEF NewMeta
<1> HIDE DEF base, child
<1>11. Extends(b, c) /\ OnlyOn(b, c, p) /\ Ops(c, p) = Ops(b, p) /\ Source(c, p) = Source(b, p)
  <2>1. Extends(b, c)
    BY <1>4, <1>5, <1>7, <1>8, <1>9 DEF Extends
  <2> QED
    BY <1>7, <2>1 DEF OnlyOn, Ops, Source
<1>12. p \in DOMAIN c.pipelines
  BY <1>9
<1>13. /\ Extends(c, d) /\ OnlyOn(c, d, p) /\ NothingNew(c, d)
       /\ Ops(d, p) = Ops(c, p) /\ Source(d, p) = Source(c, p)
       /\ base \in ToSet(d.pipelines[p].dependencies)
  BY <1>1, <1>6, <1>12, AddDependencyExtends
<1>14. d.pipelines[base] = NewPipeline(child) /\ Len(d.pipelines) = base /\ Len(d.metas) = child
  <2> DEFINE r == [c.pipelines[p] EXCEPT !.dependencies = Append(@, base)]
  <2>1. d.pipelines = [c.pipelines EXCEPT ![p] = r]
    BY <1>1, <1>5 DEF AddDependency, BuildFields
  <2>2. base # p
    BY <1>9
  <2> HIDE DEF r
  <2>3. d.pipelines[base] = c.pipelines[base]
    BY <1>9, <2>1, <2>2
  <2>4. Len(AddDependency(c, p, base).pipelines) = Len(c.pipelines)
    BY <1>6, AddDependencyShape
  <2> QED
    BY <1>1, <1>6, <1>7, <1>13, <2>3, <2>4 DEF NothingNew
<1>15. Extends(b, d) /\ OnlyOn(b, d, p)
  BY <1>11, <1>13, ExtendsTwice
<1>16. NewChild(b, d, p, op)
  BY <1>5, <1>6, <1>8, <1>9, <1>10, <1>13, <1>14 DEF NewChild, NothingNew
<1> QED
  BY <1>11, <1>13, <1>15, <1>16

\* AddFinishEvent is about the events only.
LEMMA AddFinishEventExtends ==
  ASSUME NEW b, Shape(b), NEW p, NEW m, Belongs(b, p, m), NEW c, c = AddFinishEvent(b, m, p), NEW x
  PROVE  /\ Extends(b, c) /\ OnlyOn(b, c, x)
         /\ DOMAIN c.metas = DOMAIN b.metas /\ c.calls = b.calls /\ c.this_pipeline = b.this_pipeline
         /\ DOMAIN c.pipelines = DOMAIN b.pipelines
         /\ \A q \in DOMAIN b.pipelines : Ops(c, q) = Ops(b, q) /\ Source(c, q) = Source(b, q)
<1> DEFINE group(q) == q > p /\ q \in ToSet(b.metas[m].pipelines)
           meta == [b.metas[m] EXCEPT !.finish = b.metas[m].finish \cup {p}]
<1>1. /\ c.calls = b.calls /\ c.root = b.root /\ c.this_pipeline = b.this_pipeline
      /\ c.metas = [b.metas EXCEPT ![m] = meta]
      /\ c.pipelines = [q \in DOMAIN b.pipelines |->
                          IF group(q) THEN [b.pipelines[q] EXCEPT !.group = p] ELSE b.pipelines[q]]
  BY DEF AddFinishEvent, Shape, BuildFields
<1>2. m \in DOMAIN b.metas
  BY DEF Belongs, Shape, PipelineOK
<1>3. meta.sink = b.metas[m].sink
  BY <1>2 DEF Shape, MetaOK, MetaFields
<1> HIDE DEF group, meta
<1>4. DOMAIN c.metas = DOMAIN b.metas /\ \A k \in DOMAIN b.metas : c.metas[k].sink = b.metas[k].sink
  BY <1>1, <1>3
<1>5. DOMAIN c.pipelines = DOMAIN b.pipelines
  BY <1>1
<1>6. ASSUME NEW q \in DOMAIN b.pipelines
      PROVE  /\ c.pipelines[q].meta = b.pipelines[q].meta
             /\ c.pipelines[q].dependencies = b.pipelines[q].dependencies
             /\ c.pipelines[q].inner = b.pipelines[q].inner
             /\ c.pipelines[q].operators = b.pipelines[q].operators
             /\ c.pipelines[q].source = b.pipelines[q].source
  BY <1>1 DEF Shape, PipelineOK, PipelineFields
<1>7. Extends(b, c)
  BY <1>1, <1>4, <1>5, <1>6 DEF Extends
<1> QED
  BY <1>1, <1>4, <1>5, <1>6, <1>7 DEF OnlyOn, Ops, Source

-----------------------------------------------------------------------------
(* One call *)

\* Where the calls of s are in t, when the first has been replaced by cs.
StackedOn(cs, s, t) ==
  /\ IsSeq(t) /\ Len(cs) \in Nat /\ DOMAIN cs = 1..Len(cs)
  /\ Head(s) = s[1] /\ 1 \in DOMAIN s /\ DOMAIN s \subseteq Nat \ {0} /\ DOMAIN t \subseteq Nat \ {0}
  /\ \A j \in DOMAIN s : j # 1 => Len(cs) + j - 1 \in DOMAIN t /\ t[Len(cs) + j - 1] = s[j]
  /\ \A i \in DOMAIN cs : i \in DOMAIN t /\ t[i] = cs[i]
  /\ \A i \in DOMAIN t : i \notin DOMAIN cs =>
       i > Len(cs) /\ i - Len(cs) + 1 \in DOMAIN s /\ i - Len(cs) + 1 > 1 /\ t[i] = s[i - Len(cs) + 1]

\* The calls that are left keep their order.
LEMMA Stacked ==
  ASSUME NEW cs, NEW s, NEW t, IsSeq(cs), IsSeq(s), s # <<>>, t = cs \o Tail(s)
  PROVE  StackedOn(cs, s, t)
<1> DEFINE S == {s[i] : i \in DOMAIN s} \cup {cs[i] : i \in DOMAIN cs}
           r == Tail(s)
<1>1. s \in Seq(S) /\ cs \in Seq(S)
  BY DEF IsSeq
<1> HIDE DEF S
<1>2. /\ Tail(s) \in Seq(S) /\ Len(Tail(s)) = Len(s) - 1 /\ Head(s) = s[1]
      /\ \A i \in 1..Len(Tail(s)) : Tail(s)[i] = s[i + 1]
  BY <1>1, HeadTailProperties
<1>3. Len(s) \in Nat \ {0} /\ DOMAIN s = 1..Len(s) /\ Len(cs) \in Nat /\ DOMAIN cs = 1..Len(cs)
  BY <1>1
<1> HIDE DEF r
<1>4. r \in Seq(S) /\ Len(r) = Len(s) - 1 /\ \A i \in 1..(Len(s) - 1) : r[i] = s[i + 1]
  BY <1>2 DEF r
<1>5. t \in Seq(S) /\ Len(t) = Len(cs) + Len(r)
      /\ \A i \in 1..Len(t) : t[i] = IF i <= Len(cs) THEN cs[i] ELSE r[i - Len(cs)]
  <2>1. t = cs \o r
    BY DEF r
  <2>2. ConcatOf(S, cs, r, t)
    BY <1>1, <1>4, <2>1, ConcatIs
  <2> QED
    BY <2>2, Zenon DEF ConcatOf
<1>6. IsSeq(t) /\ DOMAIN t = 1..Len(t)
  BY <1>5, SeqIsSeq
<1> DEFINE N == Len(s)
           M == Len(cs)
           T == Len(t)
<1>7. /\ N \in Nat \ {0} /\ M \in Nat /\ T = M + (N - 1) /\ DOMAIN s = 1..N /\ DOMAIN cs = 1..M /\ DOMAIN t = 1..T
      /\ \A i \in 1..(N - 1) : r[i] = s[i + 1]
      /\ \A i \in 1..T : t[i] = IF i <= M THEN cs[i] ELSE r[i - M]
  BY <1>3, <1>4, <1>5, <1>6
<1> HIDE DEF N, M, T
<1>8. ASSUME NEW j \in DOMAIN s, j # 1
      PROVE  M + j - 1 \in DOMAIN t /\ t[M + j - 1] = s[j]
  <2> DEFINE i == M + j - 1
  <2>1. i \in 1..T /\ ~(i <= M) /\ i - M \in 1..(N - 1) /\ (i - M) + 1 = j
    BY <1>7, <1>8
  <2>2. t[i] = r[i - M] /\ r[i - M] = s[(i - M) + 1]
    BY <1>7, <2>1
  <2> QED
    BY <1>7, <2>1, <2>2
<1>9. ASSUME NEW i \in DOMAIN cs
      PROVE  i \in DOMAIN t /\ t[i] = cs[i]
  BY <1>7
<1>10. ASSUME NEW i \in DOMAIN t, i \notin DOMAIN cs
       PROVE  i > M /\ i - M + 1 \in DOMAIN s /\ i - M + 1 > 1 /\ t[i] = s[i - M + 1]
  <2>1. i > M /\ i - M \in 1..(N - 1) /\ ~(i <= M)
    BY <1>7, <1>10
  <2> QED
    BY <1>7, <2>1
<1>11. 1 \in DOMAIN s /\ DOMAIN s \subseteq Nat \ {0} /\ DOMAIN t \subseteq Nat \ {0}
  <2>1. N \in Nat \ {0} /\ T \in Nat /\ DOMAIN s = 1..N /\ DOMAIN t = 1..T
    BY <1>7
  <2> QED
    BY <2>1
<1> QED
  BY <1>2, <1>6, <1>7, <1>8, <1>9, <1>10, <1>11, Zenon DEF M, StackedOn

\* What p is still to get, it gets; b is before and c after the call.
Replaced(b, c, cs) ==
  /\ Shape(b) /\ b.calls # <<>> /\ IsSeq(cs) /\ c.calls = cs \o Tail(b.calls)
  /\ FromRelated(Head(b.calls)) => Provided(c, Head(b.calls).pipe, Head(b.calls).op)

\* What is pending stays so or is done.
LEMMA PendingKept ==
  ASSUME NEW b, NEW c, NEW cs, Replaced(b, c, cs), NEW p, NEW op, ToBeAdded(b, p, op)
  PROVE  ToBeAdded(c, p, op) \/ Provided(c, p, op)
<1> DEFINE s == b.calls
           t == c.calls
<1>1. /\ IsSeq(cs) /\ IsSeq(s) /\ s # <<>> /\ t = cs \o Tail(s)
      /\ FromRelated(Head(s)) => Provided(c, Head(s).pipe, Head(s).op)
  BY DEF Replaced, Shape
<1>s. StackedOn(cs, s, t)
  BY <1>1, Stacked
<1>2. PICK j \in DOMAIN s : FromRelated(s[j]) /\ s[j].op = op /\ s[j].pipe = p
  BY DEF ToBeAdded
<1> HIDE DEF s, t
<1>3. /\ Head(s) = s[1]
      /\ \A k \in DOMAIN s : k # 1 => Len(cs) + k - 1 \in DOMAIN t /\ t[Len(cs) + k - 1] = s[k]
  BY <1>s, Zenon DEF StackedOn
<1>4. CASE j = 1
  BY <1>1, <1>2, <1>3, <1>4
<1>5. CASE j # 1
  <2>1. PICK k \in DOMAIN t : t[k] = s[j]
    BY <1>3, <1>5
  <2> QED
    BY <1>2, <2>1 DEF ToBeAdded, t
<1> QED
  BY <1>4, <1>5

\* p gets operators and a source that it waits for.
GainsDependencies(b, c, p) ==
  p \in DOMAIN b.pipelines =>
    /\ Direct(b, p)
    /\ Ops(b, p) \subseteq Ops(c, p)
    /\ \A x \in Ops(c, p) \ Ops(b, p) : \A r \in ToSet(plan[x].related) : Provided(c, p, r) \/ ToBeAdded(c, p, r)
    /\ Source(c, p) = Source(b, p) \/ SourceWaits(c, p)

\* A pipeline that depends on all it has still does.
LEMMA DirectKept ==
  ASSUME NEW b, NEW c, NEW cs, Replaced(b, c, cs), NEW p, Extends(b, c), OnlyOn(b, c, p), GainsDependencies(b, c, p),
         NEW q \in DOMAIN b.pipelines, Direct(b, q)
  PROVE  Direct(c, q)
<1>1. \A op : Provided(b, q, op) => Provided(c, q, op)
  BY ExtendsKeeps DEF Replaced
<1>2. \A op : ToBeAdded(b, q, op) => ToBeAdded(c, q, op) \/ Provided(c, q, op)
  BY PendingKept
<1>3. ProbesWait(c, q)
  <2> SUFFICES ASSUME NEW x \in Ops(c, q), NEW r \in ToSet(plan[x].related)
               PROVE  Provided(c, q, r) \/ ToBeAdded(c, q, r)
    BY DEF ProbesWait
  <2>1. CASE x \in Ops(b, q)
    BY <1>1, <1>2, <2>1 DEF Direct, ProbesWait
  <2>2. CASE x \notin Ops(b, q)
    BY <2>2 DEF OnlyOn, GainsDependencies
  <2> QED
    BY <2>1, <2>2
<1>4. SourceWaits(c, q)
  <2>1. CASE Source(c, q) = Source(b, q)
    BY <1>1, <2>1 DEF Direct, SourceWaits
  <2>2. CASE Source(c, q) # Source(b, q)
    BY <2>2 DEF OnlyOn, GainsDependencies
  <2> QED
    BY <2>1, <2>2
<1> QED
  BY <1>3, <1>4 DEF Direct

\* And a pipeline that starts at a join waits for what it waited for.
LEMMA PipeKept ==
  ASSUME NEW b, NEW c, NEW cs, Replaced(b, c, cs), NEW p, Extends(b, c), OnlyOn(b, c, p), GainsDependencies(b, c, p),
         NEW q \in DOMAIN b.pipelines, PipeWaits(b, q)
  PROVE  PipeWaits(c, q)
<1>1. CASE Direct(b, q)
  BY <1>1, DirectKept DEF PipeWaits
<1>2. CASE q = p
  BY <1>2, DirectKept DEF PipeWaits, GainsDependencies
<1>3. ASSUME q # p, NEW x \in DOMAIN b.pipelines, Behind(b, q, x)
      PROVE  Behind(c, q, x) /\ x \in DOMAIN c.pipelines
  <2>1. Ops(c, q) = Ops(b, q) /\ Source(c, q) = Source(b, q)
    BY <1>3 DEF OnlyOn
  <2>2. Ops(b, x) \subseteq Ops(c, x)
    BY DEF OnlyOn, GainsDependencies
  <2>3. Direct(c, x)
    BY <1>3, DirectKept DEF Behind
  <2>4. Provided(c, x, Source(c, q))
    BY <1>3, <2>1, ExtendsKeeps DEF Behind, Replaced
  <2>5. x \in ToSet(c.pipelines[q].inner) /\ Belongs(c, x, c.pipelines[q].meta) /\ x \in DOMAIN c.pipelines
    BY <1>3 DEF Behind, Extends, Belongs
  <2> QED
    BY <1>3, <2>1, <2>2, <2>3, <2>4, <2>5 DEF Behind
<1> QED
  BY <1>1, <1>2, <1>3 DEF PipeWaits

\* The pipelines that are new wait, too; what is new has a proper sink, and is remembered for it.
Adds(b, c) ==
  /\ \A n \in DOMAIN c.pipelines : n \notin DOMAIN b.pipelines => PipeWaits(c, n)
  /\ \A m \in DOMAIN c.metas : m \notin DOMAIN b.metas =>
       c.metas[m].sink \in Op /\ plan[c.metas[m].sink].kind # "source"
  /\ DOMAIN c.this_pipeline = Op
  /\ \A op \in Op : c.this_pipeline[op] = b.this_pipeline[op] \/ Fills(c, c.this_pipeline[op], op)

\* The calls that are made are for a new pipeline, or go on with that of the call on top.
CallsOn(b, c, cs) ==
  /\ Ordered(cs)
  /\ \A i \in DOMAIN cs :
       /\ CallWaits(c, cs[i])
       /\ \/ cs[i].pipe \notin DOMAIN b.pipelines
          \/ cs[i].pipe = Head(b.calls).pipe /\ ~FromRelated(Head(b.calls))

\* The calls stay in order.
LEMMA OrderedKept ==
  ASSUME NEW b, NEW c, NEW cs, Replaced(b, c, cs), Ordered(b.calls), CallsOn(b, c, cs)
  PROVE  Ordered(c.calls)
<1> DEFINE s == b.calls
           t == c.calls
           M == Len(cs)
<1>1. IsSeq(cs) /\ IsSeq(s) /\ s # <<>> /\ t = cs \o Tail(s)
  BY DEF Replaced, Shape
<1>s. StackedOn(cs, s, t)
  BY <1>1, Stacked
<1>2. \A i \in DOMAIN s : FromRelated(s[i]) => s[i].pipe \in DOMAIN b.pipelines
  BY DEF Replaced, Shape, CallOK, Belongs, FromRelated
<1> HIDE DEF s, t
<1>3. /\ M \in Nat /\ DOMAIN cs = 1..M
      /\ Head(s) = s[1] /\ 1 \in DOMAIN s /\ DOMAIN s \subseteq Nat \ {0} /\ DOMAIN t \subseteq Nat \ {0}
      /\ \A i \in DOMAIN cs : i \in DOMAIN t /\ t[i] = cs[i]
      /\ \A i \in DOMAIN t : i \notin DOMAIN cs =>
           i > M /\ i - M + 1 \in DOMAIN s /\ i - M + 1 > 1 /\ t[i] = s[i - M + 1]
  BY <1>s, Zenon DEF StackedOn
<1> HIDE DEF M
<1> SUFFICES ASSUME NEW i \in DOMAIN t, NEW j \in DOMAIN t, i < j, FromRelated(t[j]), t[i].pipe = t[j].pipe
             PROVE  FromRelated(t[i])
  BY DEF Ordered, t
<1>4. Ordered(s)
  BY DEF s
<1>5. CASE i \in DOMAIN cs /\ j \in DOMAIN cs
  <2>1. t[i] = cs[i] /\ t[j] = cs[j] /\ Ordered(cs)
    BY <1>3, <1>5 DEF CallsOn
  <2> QED
    BY <1>5, <2>1, Zenon DEF Ordered
<1>6. CASE i \notin DOMAIN cs /\ j \notin DOMAIN cs
  <2> DEFINE x == i - M + 1
             y == j - M + 1
  <2>1. x \in DOMAIN s /\ y \in DOMAIN s /\ t[i] = s[x] /\ t[j] = s[y]
    BY <1>3, <1>6
  <2>2. x < y
    BY <1>3
  <2> HIDE DEF x, y
  <2> QED
    BY <1>4, <2>1, <2>2, Zenon DEF Ordered
<1>7. CASE i \in DOMAIN cs /\ j \notin DOMAIN cs
  <2> DEFINE y == j - M + 1
  <2>1. t[i] = cs[i] /\ y \in DOMAIN s /\ y > 1 /\ t[j] = s[y]
    BY <1>3, <1>7
  <2> HIDE DEF y
  <2>2. t[j].pipe \in DOMAIN b.pipelines
    BY <1>2, <2>1
  <2>3. cs[i].pipe = s[1].pipe /\ ~FromRelated(s[1])
    BY <1>3, <1>7, <2>1, <2>2 DEF CallsOn, s
  <2>4. 1 < y /\ 1 \in DOMAIN s
    BY <1>3, <2>1
  <2>5. s[1].pipe = s[y].pipe /\ FromRelated(s[y])
    BY <2>1, <2>3
  <2>6. FromRelated(s[1])
    BY <1>4, <2>1, <2>4, <2>5, Zenon DEF Ordered
  <2> QED
    BY <2>3, <2>6
<1>8. CASE i \notin DOMAIN cs /\ j \in DOMAIN cs
  BY <1>3, <1>8
<1> QED
  BY <1>5, <1>6, <1>7, <1>8

\* What a call must do for everything to wait for what it uses.
LEMMA CallKeepsWaits ==
  ASSUME NEW b, NEW c, NEW cs, NEW p, Replaced(b, c, cs), Waits(b),
         Extends(b, c), OnlyOn(b, c, p), GainsDependencies(b, c, p), Adds(b, c), CallsOn(b, c, cs)
  PROVE  Waits(c)
<1> DEFINE s == b.calls
           t == c.calls
           M == Len(cs)
<1>1. IsSeq(cs) /\ IsSeq(s) /\ s # <<>> /\ t = cs \o Tail(s) /\ Shape(b)
  BY DEF Replaced, Shape
<1>s. StackedOn(cs, s, t)
  BY <1>1, Stacked
<1>2. \A q \in DOMAIN c.pipelines : PipeWaits(c, q)
  BY PipeKept DEF Waits, Adds
<1>3. ASSUME NEW x, CallOK(b, x), CallWaits(b, x)
      PROVE  CallWaits(c, x)
  <2>1. x.fn # "CreatePipeline" => x.pipe \in DOMAIN b.pipelines /\ Direct(b, x.pipe)
    BY <1>3 DEF CallOK, Belongs, CallWaits
  <2>2. x.fn # "CreatePipeline" => Direct(c, x.pipe)
    BY <2>1, DirectKept
  <2>3. x.fn = "CreateChildPipeline" => x.pipe \in DOMAIN b.pipelines /\ Provided(b, x.pipe, x.op)
    BY <1>3, <2>1 DEF CallWaits
  <2> QED
    BY <1>1, <2>2, <2>3, ExtendsKeeps DEF CallWaits
<1>4. \A i \in DOMAIN t : CallWaits(c, t[i])
  <2>1. \A i \in DOMAIN s : CallOK(b, s[i]) /\ CallWaits(b, s[i])
    BY DEF Waits, Replaced, Shape
  <2> HIDE DEF s, t
  <2>2. /\ \A i \in DOMAIN cs : t[i] = cs[i]
        /\ \A i \in DOMAIN t : i \notin DOMAIN cs => i - M + 1 \in DOMAIN s /\ t[i] = s[i - M + 1]
    BY <1>s, Zenon DEF StackedOn
  <2> HIDE DEF M
  <2>3. ASSUME NEW i \in DOMAIN t
        PROVE  CallWaits(c, t[i])
    <3>1. CASE i \in DOMAIN cs
      BY <2>2, <3>1 DEF CallsOn
    <3>2. CASE i \notin DOMAIN cs
      BY <1>3, <2>1, <2>2, <3>2
    <3> QED
      BY <3>1, <3>2
  <2> QED
    BY <2>3
<1>5. Ordered(t)
  BY OrderedKept DEF Waits
<1>6. Remembered(c)
  <2>1. \A q, op : Fills(b, q, op) => Fills(c, q, op)
    BY <1>1, ExtendsKeeps
  <2> QED
    BY <2>1 DEF Waits, Remembered, Adds
<1>7. SinksOK(c) /\ c.root \in DOMAIN c.metas
  BY DEF Waits, SinksOK, Adds, Extends
<1> QED
  BY <1>2, <1>4, <1>5, <1>6, <1>7 DEF Waits

\* The pipeline of a new MetaPipeline fills its sink.
LEMMA ChildMade ==
  ASSUME NEW b, NEW c, NEW p, NEW op, Shape(b), b.root \in DOMAIN b.metas, Extends(b, c), NewChild(b, c, p, op)
  PROVE  Provided(c, p, op) /\ Fills(c, Len(c.pipelines), op)
<1> DEFINE n == Len(c.pipelines)
           k == Len(c.metas)
           L == Len(b.metas)
<1>1. /\ k \in Nat \ {0} /\ k \notin DOMAIN b.metas /\ n \in DOMAIN c.pipelines
      /\ c.pipelines[n] = NewPipeline(k) /\ c.metas[k].sink = op /\ c.root = b.root
      /\ n \in ToSet(c.pipelines[p].dependencies)
  BY DEF NewChild, Extends
<1>2. L \in Nat /\ DOMAIN b.metas = 1..L
  BY IsSeqAppend DEF Shape
<1>3. c.pipelines[n].meta = k
  BY <1>1 DEF NewPipeline
<1> HIDE DEF n, k, L
<1>4. k > c.root
  BY <1>1, <1>2
<1>5. Fills(c, n, op)
  BY <1>1, <1>3, <1>4 DEF Fills
<1> QED
  BY <1>1, <1>5 DEF Provided, n

\* A new pipeline has nothing to wait for.
LEMMA NewIsDirect ==
  ASSUME NEW c, NEW n, NEW k, c.pipelines[n] = NewPipeline(k)
  PROVE  Direct(c, n)
<1>1. Ops(c, n) = {} /\ Source(c, n) = NoOperator
  BY DEF Ops, Source, NewPipeline, ToSet
<1> QED
  BY <1>1 DEF Direct, ProbesWait, SourceWaits

\* The calls change, and nothing else.
LEMMA ReplaceOnly ==
  ASSUME NEW d, Shape(d), NEW cs, NEW e, e = Replace(d, cs)
  PROVE  /\ e.pipelines = d.pipelines /\ e.metas = d.metas /\ e.root = d.root
         /\ e.this_pipeline = d.this_pipeline /\ e.calls = cs \o Tail(d.calls)
         /\ \A q : Ops(e, q) = Ops(d, q) /\ Source(e, q) = Source(d, q)
<1>1. /\ e.pipelines = d.pipelines /\ e.metas = d.metas /\ e.root = d.root
      /\ e.this_pipeline = d.this_pipeline /\ e.calls = cs \o Tail(d.calls)
  BY DEF Replace, Shape, BuildFields
<1>3. \A q : Ops(e, q) = Ops(d, q) /\ Source(e, q) = Source(d, q)
  BY <1>1 DEF Ops, Source
<1> QED
  BY <1>1, <1>3

\* What was there is still there.
LEMMA ReplaceExtends ==
  ASSUME NEW b, NEW d, Shape(d), d.calls = b.calls, NEW cs, NEW e, e = Replace(d, cs),
         NEW p, Extends(b, d), OnlyOn(b, d, p)
  PROVE  Extends(b, e) /\ OnlyOn(b, e, p) /\ e.calls = cs \o Tail(b.calls)
<1>1. /\ e.pipelines = d.pipelines /\ e.metas = d.metas /\ e.root = d.root
      /\ e.calls = cs \o Tail(d.calls)
  BY ReplaceOnly
<1>2. Extends(b, e) /\ OnlyOn(b, e, p)
  BY <1>1 DEF Extends, OnlyOn, Ops, Source
<1> QED
  BY <1>1, <1>2

\* Nothing is new.
LEMMA AddsNothing ==
  ASSUME NEW b, NEW c, Waits(b), DOMAIN c.pipelines = DOMAIN b.pipelines,
         DOMAIN c.metas = DOMAIN b.metas, c.this_pipeline = b.this_pipeline
  PROVE  Adds(b, c)
BY DEF Adds, Waits, Remembered

\* A new MetaPipeline is for an operator that is filled.
LEMMA AddsChild ==
  ASSUME NEW b, NEW d, NEW c, Waits(b), NEW p, NEW op \in Op, plan[op].kind # "source", NewChild(b, d, p, op),
         c.pipelines = d.pipelines, c.metas = d.metas, c.this_pipeline = b.this_pipeline
  PROVE  Adds(b, c)
<1> DEFINE n == Len(d.pipelines)
           k == Len(d.metas)
<1>1. /\ DOMAIN c.pipelines = DOMAIN b.pipelines \cup {n} /\ DOMAIN c.metas = DOMAIN b.metas \cup {k}
      /\ c.pipelines[n] = NewPipeline(k) /\ c.metas[k].sink = op
  BY DEF NewChild
<1> HIDE DEF n, k
<1>2. PipeWaits(c, n)
  BY <1>1, NewIsDirect DEF PipeWaits
<1> QED
  BY <1>1, <1>2 DEF Adds, Waits, Remembered

\* A call that is made, and is not for a UseBF.
NextCall(b, c, x) ==
  /\ ~FromRelated(x)
  /\ CallWaits(c, x)
  /\ \/ x.pipe \notin DOMAIN b.pipelines
     \/ x.pipe = Head(b.calls).pipe /\ ~FromRelated(Head(b.calls))

\* Such calls follow.
LEMMA NextFollows ==
  ASSUME NEW b, NEW c, NEW cs, \A i \in DOMAIN cs : NextCall(b, c, cs[i])
  PROVE  CallsOn(b, c, cs)
BY DEF NextCall, CallsOn, Ordered

\* The call on top.
LEMMA TopWaits ==
  ASSUME Shape(build), Waits(build), build.calls # <<>>
  PROVE  /\ CallOK(build, Head(build.calls)) /\ CallWaits(build, Head(build.calls))
         /\ build.root \in DOMAIN build.metas
<1>1. CallOK(build, Head(build.calls))
  BY CallOnTop
<1>2. Head(build.calls) = build.calls[1] /\ 1 \in DOMAIN build.calls
  BY IsSeqTail DEF Shape
<1> QED
  BY <1>1, <1>2 DEF Waits

\* A call on a new pipeline.
LEMMA NewestNext ==
  ASSUME NEW b, NEW d, NEW c, NEW p, NEW op, NEW x, NewChild(b, d, p, op), c.pipelines = d.pipelines
  PROVE  NextCall(b, c, BuildNewest(d, x))
<1>1. /\ Len(d.pipelines) \notin DOMAIN b.pipelines
      /\ c.pipelines[Len(d.pipelines)] = NewPipeline(Len(d.metas))
  BY DEF NewChild
<1>2. Direct(c, Len(d.pipelines))
  BY <1>1, NewIsDirect
<1> DEFINE y == BuildNewest(d, x)
<1>3. y.fn = "BuildPipelines" /\ y.pipe = Len(d.pipelines)
  BY DEF BuildNewest, Call
<1> HIDE DEF y
<1>4. NextCall(b, c, y)
  <2>1. ~FromRelated(y)
    BY <1>3 DEF FromRelated
  <2>2. y.pipe \notin DOMAIN b.pipelines /\ Direct(c, y.pipe)
    BY <1>1, <1>2, <1>3
  <2>3. CallWaits(c, y)
    BY <1>3, <2>2 DEF CallWaits
  <2> QED
    BY <2>1, <2>2, <2>3 DEF NextCall
<1> QED
  BY <1>4 DEF y

\* The next state waits as the value that is assigned does.
LEMMA WaitsAssigned ==
  ASSUME NEW b, Waits(b), build' = b, plan' = plan
  PROVE  Waits(build)'
<1>1. /\ \A q, op : Fills(build, q, op)' <=> Fills(b, q, op)
      /\ \A q, op : Provided(build, q, op)' <=> Provided(b, q, op)
      /\ \A q, op : ToBeAdded(build, q, op)' <=> ToBeAdded(b, q, op)
      /\ \A q, m : Belongs(build, q, m)' <=> Belongs(b, q, m)
      /\ \A q : Ops(build, q)' = Ops(b, q) /\ Source(build, q)' = Source(b, q)
  BY DEF Fills, Provided, ToBeAdded, Belongs, Ops, Source
<1>2. \A q : Direct(build, q)' <=> Direct(b, q)
  BY <1>1 DEF Direct, ProbesWait, SourceWaits
<1>3. \A q, x : Behind(build, q, x)' <=> Behind(b, q, x)
  BY <1>1, <1>2 DEF Behind
<1>4. \A q \in DOMAIN build'.pipelines : PipeWaits(build, q)'
  BY <1>2, <1>3 DEF Waits, PipeWaits
<1>5. \A i \in DOMAIN build'.calls : CallWaits(build, build.calls[i])'
  BY <1>1, <1>2 DEF Waits, CallWaits
<1>6. Remembered(build)' /\ SinksOK(build)' /\ Ordered(build.calls)' /\ (build.root \in DOMAIN build.metas)'
  BY <1>1 DEF Waits, Remembered, SinksOK, Op, Ordered
<1> QED
  BY <1>4, <1>5, <1>6 DEF Waits

-----------------------------------------------------------------------------
(* Every call leaves pipelines that wait for what they use *)

\* A call that goes on with the pipeline of the call on top.
LEMMA NextOn ==
  ASSUME NEW b, NEW c, NEW x, ~FromRelated(x), x.fn # "CreateChildPipeline", ~FromRelated(Head(b.calls)),
         x.pipe = Head(b.calls).pipe, Direct(c, x.pipe)
  PROVE  NextCall(b, c, x)
BY DEF NextCall, CallWaits

\* The call on top of BuildPipelines has a pipeline that depends on all it has.
LEMMA TopBuild ==
  ASSUME Shape(build), Waits(build), NEW kind, NEW fn, Calling(fn, kind), fn # "CreatePipeline"
  PROVE  /\ build.calls # <<>> /\ Head(build.calls).fn = fn
         /\ Head(build.calls).op \in Op /\ plan[Head(build.calls).op].kind = kind
         /\ Head(build.calls).pipe \in DOMAIN build.pipelines
         /\ Belongs(build, Head(build.calls).pipe, Head(build.calls).meta)
         /\ Head(build.calls).meta \in DOMAIN build.metas
         /\ DOMAIN Head(build.calls) = CallFields
         /\ Direct(build, Head(build.calls).pipe)
         /\ build.root \in DOMAIN build.metas
         /\ fn # "BuildPipelinesFromRelated" => ~FromRelated(Head(build.calls))
<1>1. /\ build.calls # <<>> /\ Head(build.calls).fn = fn
      /\ plan[Head(build.calls).op].kind = kind
  BY DEF Calling
<1>2. CallOK(build, Head(build.calls)) /\ CallWaits(build, Head(build.calls))
      /\ build.root \in DOMAIN build.metas
  BY <1>1, TopWaits
<1> DEFINE c == Head(build.calls)
<1> HIDE DEF c
<1>3. /\ c.fn = fn /\ CallOK(build, c) /\ CallWaits(build, c)
  BY <1>1, <1>2 DEF c
<1>4. /\ c.op \in Op /\ c.pipe \in DOMAIN build.pipelines /\ Belongs(build, c.pipe, c.meta)
      /\ c.meta \in DOMAIN build.metas /\ DOMAIN c = CallFields /\ Direct(build, c.pipe)
      /\ fn # "BuildPipelinesFromRelated" => ~FromRelated(c)
  BY <1>3 DEF CallOK, Belongs, CallWaits, FromRelated
<1> QED
  BY <1>1, <1>2, <1>4 DEF c

\* A call has been executed, d is what it has built and cs are the calls it makes.
LEMMA CallDone ==
  ASSUME Shape(build), Waits(build), build.calls # <<>>, NEW d, Shape(d), d.calls = build.calls,
         NEW cs, IsSeq(cs), NEW e, e = Replace(d, cs), Build(e),
         NEW p, Extends(build, d), OnlyOn(build, d, p), GainsDependencies(build, e, p),
         FromRelated(Head(build.calls)) => Provided(e, Head(build.calls).pipe, Head(build.calls).op),
         Adds(build, e), CallsOn(build, e, cs)
  PROVE  Waits(build)'
<1>1. Extends(build, e) /\ OnlyOn(build, e, p) /\ e.calls = cs \o Tail(build.calls)
  BY ReplaceExtends
<1>2. Replaced(build, e, cs)
  BY <1>1 DEF Replaced
<1>3. Waits(e)
  BY <1>1, <1>2, CallKeepsWaits
<1> QED
  BY <1>3, WaitsAssigned DEF Build

\* The pipeline of the call on top has still all it depends on.
LEMMA StillDirect ==
  ASSUME Shape(build), build.calls # <<>>, NEW d, Shape(d), d.calls = build.calls,
         NEW cs, IsSeq(cs), NEW e, e = Replace(d, cs),
         NEW p, Extends(build, d), OnlyOn(build, d, p), GainsDependencies(build, e, p),
         ~FromRelated(Head(build.calls)), NEW q \in DOMAIN build.pipelines, Direct(build, q)
  PROVE  Direct(e, q)
<1>1. Extends(build, e) /\ OnlyOn(build, e, p) /\ e.calls = cs \o Tail(build.calls)
  BY ReplaceExtends
<1>2. Replaced(build, e, cs)
  BY <1>1 DEF Replaced
<1> QED
  BY <1>1, <1>2, DirectKept

\* BuildSource.
LEMMA BuildSourceWaits ==
  ASSUME IsPlan(plan), Shape(build), Waits(build), BuildSource
  PROVE  Waits(build)'
<1> DEFINE c == Head(build.calls)
           d == SetPipelineSource(build, c.pipe, c.op)
           e == Replace(d, <<>>)
<1>1. Calling("BuildPipelines", "source") /\ Build(e)
  BY Zenon DEF BuildSource
<1>2. /\ build.calls # <<>> /\ c.op \in Op /\ plan[c.op].kind = "source"
      /\ c.pipe \in DOMAIN build.pipelines /\ Direct(build, c.pipe) /\ ~FromRelated(c)
  BY <1>1, TopBuild
<1>3. Shape(d)
  BY SetPipelineSourceShape
<1>4. /\ Extends(build, d) /\ OnlyOn(build, d, c.pipe) /\ NothingNew(build, d)
      /\ Ops(d, c.pipe) = Ops(build, c.pipe) /\ Source(d, c.pipe) = c.op
  BY <1>2, SetPipelineSourceExtends
<1> HIDE DEF c, d
<1>5. /\ e.pipelines = d.pipelines /\ e.metas = d.metas /\ e.this_pipeline = d.this_pipeline
      /\ Ops(e, c.pipe) = Ops(d, c.pipe) /\ Source(e, c.pipe) = Source(d, c.pipe)
  BY <1>3, ReplaceOnly
<1> HIDE DEF e
<1>6. GainsDependencies(build, e, c.pipe)
  BY <1>2, <1>4, <1>5 DEF GainsDependencies, SourceWaits
<1>7. Adds(build, e)
  BY <1>4, <1>5, AddsNothing DEF NothingNew
<1>8. CallsOn(build, e, <<>>)
  BY NoCalls, NextFollows
<1>9. d.calls = build.calls /\ IsSeq(<<>>) /\ e = Replace(d, <<>>)
  BY <1>4, NoCalls DEF NothingNew, e
<1> QED
  BY <1>1, <1>2, <1>3, <1>4, <1>6, <1>7, <1>8, <1>9, CallDone DEF c

\* BuildStreaming.
LEMMA BuildStreamingWaits ==
  ASSUME IsPlan(plan), Shape(build), Waits(build), BuildStreaming
  PROVE  Waits(build)'
<1> DEFINE c == Head(build.calls)
           d == AddPipelineOperator(build, c.pipe, c.op)
           x == [c EXCEPT !.op = plan[c.op].child[1]]
           cs == <<x>>
           e == Replace(d, cs)
<1>1. Calling("BuildPipelines", "streaming") /\ Build(e)
  BY Zenon DEF BuildStreaming
<1>2. /\ build.calls # <<>> /\ c.op \in Op /\ plan[c.op].kind = "streaming" /\ c.fn = "BuildPipelines"
      /\ c.pipe \in DOMAIN build.pipelines /\ Direct(build, c.pipe) /\ ~FromRelated(c)
      /\ DOMAIN c = CallFields
  BY <1>1, TopBuild
<1>3. Shape(d)
  BY AddPipelineOperatorShape
<1>4. /\ Extends(build, d) /\ OnlyOn(build, d, c.pipe) /\ NothingNew(build, d)
      /\ Ops(d, c.pipe) = Ops(build, c.pipe) \cup {c.op} /\ Source(d, c.pipe) = Source(build, c.pipe)
  BY <1>2, AddPipelineOperatorExtends
<1>a. ToSet(plan[c.op].related) = {}
  <2>1. plan[c.op].related = <<>>
    BY <1>2 DEF IsPlan, Op
  <2> QED
    BY <2>1 DEF ToSet
<1>b. x.fn = "BuildPipelines" /\ x.pipe = c.pipe
  BY <1>2 DEF CallFields
<1> HIDE DEF c, d, x
<1>c. IsSeq(cs) /\ \A i \in DOMAIN cs : cs[i] = x
  BY DEF IsSeq
<1> HIDE DEF cs
<1>5. /\ e.pipelines = d.pipelines /\ e.metas = d.metas /\ e.this_pipeline = d.this_pipeline
      /\ Ops(e, c.pipe) = Ops(d, c.pipe) /\ Source(e, c.pipe) = Source(d, c.pipe)
  BY <1>3, ReplaceOnly
<1>s. e = Replace(d, cs)
  OBVIOUS
<1> HIDE DEF e
<1>6. GainsDependencies(build, e, c.pipe)
  BY <1>2, <1>4, <1>5, <1>a DEF GainsDependencies
<1>7. Adds(build, e)
  BY <1>4, <1>5, AddsNothing DEF NothingNew
<1>9. d.calls = build.calls
  BY <1>4 DEF NothingNew
<1>8. CallsOn(build, e, cs)
  <2>1. Direct(e, c.pipe)
    BY <1>2, <1>3, <1>4, <1>6, <1>9, <1>c, <1>s, StillDirect DEF c
  <2>2. NextCall(build, e, x)
    BY <1>2, <1>b, <2>1, NextOn DEF c, FromRelated
  <2> QED
    BY <1>c, <2>2, NextFollows
<1> QED
  BY <1>1, <1>2, <1>3, <1>4, <1>6, <1>7, <1>8, <1>9, <1>c, <1>s, CallDone DEF c

\* What a call makes that starts with a MetaPipeline for the operator op.
LEMMA ChildDone ==
  ASSUME Shape(build), Waits(build), build.calls # <<>>, NEW a, NEW d, Shape(a), Shape(d),
         NEW p \in DOMAIN build.pipelines, NEW op \in Op, plan[op].kind # "source",
         Extends(build, a), OnlyOn(build, a, p), NothingNew(build, a),
         Extends(a, d), OnlyOn(a, d, p), NewChild(a, d, p, op),
         NEW cs, NEW e, e = Replace(d, cs)
  PROVE  /\ Extends(build, d) /\ OnlyOn(build, d, p) /\ NewChild(build, d, p, op) /\ d.calls = build.calls
         /\ Provided(e, p, op) /\ Adds(build, e) /\ Fills(e, Len(d.pipelines), op)
         /\ e.pipelines = d.pipelines /\ e.metas = d.metas /\ e.this_pipeline = d.this_pipeline
         /\ \A q : Ops(e, q) = Ops(d, q) /\ Source(e, q) = Source(d, q)
<1>1. Extends(build, d) /\ OnlyOn(build, d, p)
  BY ExtendsTwice
<1>2. NewChild(build, d, p, op) /\ d.calls = build.calls
  BY DEF NewChild, NothingNew
<1>3. build.root \in DOMAIN build.metas
  BY DEF Waits
<1>4. Provided(d, p, op) /\ Fills(d, Len(d.pipelines), op)
  BY <1>1, <1>2, <1>3, ChildMade
<1>5. /\ e.pipelines = d.pipelines /\ e.metas = d.metas /\ e.this_pipeline = d.this_pipeline
      /\ e.root = d.root
  BY ReplaceOnly, ZenonT(30)
<1>8. /\ \A q : Ops(e, q) = Ops(d, q) /\ Source(e, q) = Source(d, q)
      /\ Provided(e, p, op) /\ Fills(e, Len(d.pipelines), op)
  BY <1>4, <1>5 DEF Ops, Source, Provided, Fills
<1>6. d.this_pipeline = build.this_pipeline
  BY <1>2 DEF NewChild
<1>7. Adds(build, e)
  BY <1>2, <1>5, <1>6, AddsChild
<1> QED
  BY <1>1, <1>2, <1>5, <1>7, <1>8

\* BuildSink.
LEMMA BuildSinkWaits ==
  ASSUME IsPlan(plan), Shape(build), Waits(build), BuildSink
  PROVE  Waits(build)'
<1> DEFINE c == Head(build.calls)
           a == SetPipelineSource(build, c.pipe, c.op)
           d == CreateChildMetaPipeline(a, c.pipe, c.meta, c.op)
           x == BuildNewest(d, plan[c.op].child[1])
           cs == <<x>>
           e == Replace(d, cs)
<1>1. Calling("BuildPipelines", "sink") /\ Build(e)
  BY Zenon DEF BuildSink
<1>2. /\ build.calls # <<>> /\ c.op \in Op /\ plan[c.op].kind = "sink"
      /\ c.pipe \in DOMAIN build.pipelines /\ Direct(build, c.pipe) /\ ~FromRelated(c)
  BY <1>1, TopBuild
<1>3. Shape(a)
  BY SetPipelineSourceShape
<1>4. /\ Extends(build, a) /\ OnlyOn(build, a, c.pipe) /\ NothingNew(build, a)
      /\ Ops(a, c.pipe) = Ops(build, c.pipe) /\ Source(a, c.pipe) = c.op
  BY <1>2, SetPipelineSourceExtends
<1> HIDE DEF a
<1>5. Shape(d)
  BY <1>3, CreateChildMetaPipelineShape
<1>6. /\ Extends(a, d) /\ OnlyOn(a, d, c.pipe) /\ NewChild(a, d, c.pipe, c.op)
      /\ Ops(d, c.pipe) = Ops(a, c.pipe) /\ Source(d, c.pipe) = Source(a, c.pipe)
  BY <1>2, <1>3, <1>4, CreateChildMetaPipelineExtends DEF NothingNew
<1> HIDE DEF c, d
<1>s. e = Replace(d, cs)
  OBVIOUS
<1> HIDE DEF e
<1>7. /\ Extends(build, d) /\ OnlyOn(build, d, c.pipe) /\ NewChild(build, d, c.pipe, c.op) /\ d.calls = build.calls
      /\ Provided(e, c.pipe, c.op) /\ Adds(build, e)
      /\ e.pipelines = d.pipelines
      /\ \A q : Ops(e, q) = Ops(d, q) /\ Source(e, q) = Source(d, q)
  <2> HIDE DEF cs
  <2>1. plan[c.op].kind # "source"
    BY <1>2
  <2> QED
    BY <1>2, <1>3, <1>4, <1>5, <1>6, <1>s, <2>1, ChildDone
<1>8. GainsDependencies(build, e, c.pipe)
  BY <1>2, <1>4, <1>6, <1>7 DEF GainsDependencies, SourceWaits
<1>9. NextCall(build, e, x)
  BY <1>7, NewestNext
<1> HIDE DEF x
<1>10. IsSeq(cs) /\ \A i \in DOMAIN cs : cs[i] = x
  BY DEF IsSeq
<1> HIDE DEF cs
<1>11. CallsOn(build, e, cs)
  BY <1>9, <1>10, NextFollows
<1> QED
  BY <1>1, <1>2, <1>5, <1>7, <1>8, <1>10, <1>11, <1>s, CallDone DEF c

\* A CreateBF, reached from above or from a UseBF; b is build, perhaps with the source set.
LEMMA CreateBFPipelineWaits ==
  ASSUME IsPlan(plan), Shape(build), Waits(build), build.calls # <<>>, NEW c, c = Head(build.calls),
         c.op \in Op, plan[c.op].kind = "create_bf", c.pipe \in DOMAIN build.pipelines, Direct(build, c.pipe),
         NEW b, Shape(b), Extends(build, b), OnlyOn(build, b, c.pipe), NothingNew(build, b),
         Ops(b, c.pipe) = Ops(build, c.pipe), Source(b, c.pipe) \in {Source(build, c.pipe), c.op},
         Build(CreateBFPipeline(b, c))
  PROVE  Waits(build)'
<1> DEFINE p == c.pipe
<1>r. build.root \in DOMAIN build.metas /\ Remembered(build) /\ b.this_pipeline = build.this_pipeline
  BY DEF Waits, NothingNew
<1>1. CASE b.this_pipeline[c.op] = NoPipeline
  <2> DEFINE made  == CreateChildMetaPipeline(b, c.pipe, c.meta, c.op)
             d     == [made EXCEPT !.this_pipeline[c.op] = Len(made.pipelines)]
             x     == BuildNewest(d, plan[c.op].child[1])
             cs    == <<x>>
             e     == Replace(d, cs)
  <2>1. CreateBFPipeline(b, c) = e
    BY <1>1, Zenon DEF CreateBFPipeline
  <2>2. Shape(made)
    BY CreateChildMetaPipelineShape
  <2>3. /\ Extends(b, made) /\ OnlyOn(b, made, p) /\ NewChild(b, made, p, c.op)
        /\ Ops(made, p) = Ops(b, p) /\ Source(made, p) = Source(b, p)
    BY CreateChildMetaPipelineExtends DEF NothingNew
  <2> HIDE DEF made
  <2>4. /\ DOMAIN d = BuildFields /\ d.metas = made.metas /\ d.pipelines = made.pipelines
        /\ d.calls = made.calls /\ d.root = made.root
        /\ DOMAIN d.this_pipeline = DOMAIN made.this_pipeline
        /\ \A op \in DOMAIN made.this_pipeline : op # c.op => d.this_pipeline[op] = made.this_pipeline[op]
        /\ c.op \in DOMAIN made.this_pipeline => d.this_pipeline[c.op] = Len(made.pipelines)
    BY <2>2 DEF Shape, BuildFields
  <2> HIDE DEF d
  <2>5. Shape(d)
    <3>1. IsSeq(d.pipelines) /\ DOMAIN d.pipelines = DOMAIN made.pipelines
      BY <2>2, <2>4 DEF Shape
    <3>2. \A q \in DOMAIN made.pipelines : /\ DOMAIN d.pipelines[q] = PipelineFields
                                           /\ Listed(d.pipelines[q])
                                           /\ d.pipelines[q].meta = made.pipelines[q].meta
                                           /\ d.pipelines[q].group = made.pipelines[q].group
      BY <2>2, <2>4 DEF Shape, PipelineOK
    <3> QED
      BY <2>2, <2>4, <3>1, <3>2, SamePipelines
  <2>6. Extends(build, d) /\ OnlyOn(build, d, p) /\ Extends(build, made)
    <3>1. Extends(made, d) /\ OnlyOn(made, d, p)
      BY <2>4, SameExtends
    <3>2. Extends(build, made) /\ OnlyOn(build, made, p)
      BY <2>3, ExtendsTwice
    <3> QED
      BY <3>1, <3>2, ExtendsTwice
  <2>7. NewChild(build, made, p, c.op) /\ d.calls = build.calls /\ made.this_pipeline = build.this_pipeline
    BY <2>3, <2>4 DEF NewChild, NothingNew
  <2>8. Provided(made, p, c.op) /\ Fills(made, Len(made.pipelines), c.op)
    BY <1>r, <2>6, <2>7, ChildMade
  <2>s. e = Replace(d, cs)
    OBVIOUS
  <2> HIDE DEF e
  <2>9. /\ e.pipelines = made.pipelines /\ e.metas = made.metas /\ e.this_pipeline = d.this_pipeline
        /\ e.root = made.root
    <3> HIDE DEF cs
    <3>1. /\ e.pipelines = d.pipelines /\ e.metas = d.metas /\ e.this_pipeline = d.this_pipeline
          /\ e.root = d.root
      <4> HIDE DEF d
      <4> QED
        BY <2>5, <2>s, ReplaceOnly, ZenonT(60)
    <3> QED
      BY <2>4, <3>1
  <2>10. /\ Provided(e, p, c.op) /\ Fills(e, Len(made.pipelines), c.op)
         /\ Ops(e, p) = Ops(build, p) /\ Source(e, p) \in {Source(build, p), c.op}
    BY <2>3, <2>8, <2>9, Zenon DEF Provided, Fills, Ops, Source
  <2>11. GainsDependencies(build, e, p)
    BY <2>10 DEF GainsDependencies, SourceWaits
  <2>12. Adds(build, e)
    <3>1. /\ DOMAIN e.pipelines = DOMAIN build.pipelines \cup {Len(made.pipelines)}
          /\ DOMAIN e.metas = DOMAIN build.metas \cup {Len(made.metas)}
          /\ e.pipelines[Len(made.pipelines)] = NewPipeline(Len(made.metas))
          /\ e.metas[Len(made.metas)].sink = c.op
      BY <2>7, <2>9 DEF NewChild
    <3>2. PipeWaits(e, Len(made.pipelines))
      BY <3>1, NewIsDirect DEF PipeWaits
    <3>3. DOMAIN build.this_pipeline = Op
      BY <1>r DEF Remembered
    <3>4. /\ DOMAIN e.this_pipeline = Op
          /\ \A op \in Op : e.this_pipeline[op] = build.this_pipeline[op] \/ Fills(e, e.this_pipeline[op], op)
      BY <2>4, <2>7, <2>9, <2>10, <3>3
    <3>5. plan[c.op].kind # "source"
      OBVIOUS
    <3> QED
      BY <3>1, <3>2, <3>4, <3>5 DEF Adds
  <2>13. NextCall(build, e, x)
    <3>1. x = BuildNewest(made, plan[c.op].child[1])
      BY <2>4 DEF BuildNewest
    <3> HIDE DEF x
    <3> QED
      BY <2>7, <2>9, <3>1, NewestNext
  <2> HIDE DEF x
  <2>14. IsSeq(cs) /\ \A i \in DOMAIN cs : cs[i] = x
    BY DEF IsSeq
  <2> HIDE DEF cs
  <2>15. CallsOn(build, e, cs)
    BY <2>13, <2>14, NextFollows
  <2>16. Build(e)
    BY <2>1, Zenon
  <2> QED
    BY <2>5, <2>6, <2>7, <2>10, <2>11, <2>12, <2>14, <2>15, <2>16, <2>s, CallDone
<1>2. CASE b.this_pipeline[c.op] # NoPipeline
  <2> DEFINE q == b.this_pipeline[c.op]
             d == AddDependency(b, c.pipe, q)
             e == Replace(d, <<>>)
  <2>1. CreateBFPipeline(b, c) = e
    BY <1>2, Zenon DEF CreateBFPipeline
  <2>2. Shape(d)
    BY AddDependencyShape
  <2>3. /\ Extends(b, d) /\ OnlyOn(b, d, p) /\ NothingNew(b, d)
        /\ Ops(d, p) = Ops(b, p) /\ Source(d, p) = Source(b, p)
        /\ q \in ToSet(d.pipelines[p].dependencies)
    <3> HIDE DEF q
    <3> QED
      BY AddDependencyExtends DEF NothingNew
  <2>4. Fills(build, q, c.op)
    BY <1>2, <1>r DEF Remembered
  <2> HIDE DEF d, q
  <2>5. Extends(build, d) /\ OnlyOn(build, d, p) /\ NothingNew(build, d)
    <3>1. Extends(build, d) /\ OnlyOn(build, d, p)
      BY <2>3, ExtendsTwice
    <3> QED
      BY <2>3, <3>1 DEF NothingNew
  <2>6. Fills(d, q, c.op)
    BY <2>4, <2>5, ExtendsKeeps
  <2>s. e = Replace(d, <<>>)
    OBVIOUS
  <2> HIDE DEF e
  <2>7. /\ e.pipelines = d.pipelines /\ e.metas = d.metas /\ e.this_pipeline = d.this_pipeline
        /\ e.root = d.root
    <3> HIDE DEF d
    <3> QED
      BY <2>2, <2>s, ReplaceOnly, ZenonT(60)
  <2>8. /\ Provided(e, p, c.op)
        /\ Ops(e, p) = Ops(build, p) /\ Source(e, p) \in {Source(build, p), c.op}
    BY <2>3, <2>6, <2>7, Zenon DEF Provided, Fills, Ops, Source
  <2>9. GainsDependencies(build, e, p)
    BY <2>8 DEF GainsDependencies, SourceWaits
  <2>10. Adds(build, e)
    BY <2>5, <2>7, AddsNothing DEF NothingNew
  <2>11. CallsOn(build, e, <<>>)
    BY NoCalls, NextFollows
  <2>12. d.calls = build.calls /\ IsSeq(<<>>)
    BY <2>5, NoCalls DEF NothingNew
  <2>13. Build(e)
    BY <2>1, Zenon
  <2> QED
    BY <2>2, <2>5, <2>8, <2>9, <2>10, <2>11, <2>12, <2>13, <2>s, CallDone
<1> QED
  BY <1>1, <1>2

\* BuildCreateBF.
LEMMA BuildCreateBFWaits ==
  ASSUME IsPlan(plan), Shape(build), Waits(build), BuildCreateBF
  PROVE  Waits(build)'
<1> DEFINE c == Head(build.calls)
           b == SetPipelineSource(build, c.pipe, c.op)
<1>1. Calling("BuildPipelines", "create_bf") /\ Build(CreateBFPipeline(b, c))
  BY Zenon DEF BuildCreateBF
<1>2. /\ build.calls # <<>> /\ c.op \in Op /\ plan[c.op].kind = "create_bf"
      /\ c.pipe \in DOMAIN build.pipelines /\ Direct(build, c.pipe)
  BY <1>1, TopBuild
<1>3. Shape(b)
  BY SetPipelineSourceShape
<1>4. /\ Extends(build, b) /\ OnlyOn(build, b, c.pipe) /\ NothingNew(build, b)
      /\ Ops(b, c.pipe) = Ops(build, c.pipe) /\ Source(b, c.pipe) = c.op
  BY <1>2, SetPipelineSourceExtends
<1>5. c = Head(build.calls)
  OBVIOUS
<1> HIDE DEF b, c
<1> QED
  BY <1>1, <1>2, <1>3, <1>4, <1>5, CreateBFPipelineWaits

\* BuildPipelinesFromRelated.
LEMMA BuildPipelinesFromRelatedWaits ==
  ASSUME IsPlan(plan), Shape(build), Waits(build), BuildPipelinesFromRelated
  PROVE  Waits(build)'
<1> DEFINE c == Head(build.calls)
<1>1. Calling("BuildPipelinesFromRelated", "create_bf") /\ Build(CreateBFPipeline(build, c))
  BY Zenon DEF BuildPipelinesFromRelated
<1>2. /\ build.calls # <<>> /\ c.op \in Op /\ plan[c.op].kind = "create_bf"
      /\ c.pipe \in DOMAIN build.pipelines /\ Direct(build, c.pipe)
  BY <1>1, TopBuild
<1>3. /\ Extends(build, build) /\ OnlyOn(build, build, c.pipe) /\ NothingNew(build, build)
  BY SameExtends DEF NothingNew
<1>4. c = Head(build.calls)
  OBVIOUS
<1> HIDE DEF c
<1> QED
  BY <1>1, <1>2, <1>3, <1>4, CreateBFPipelineWaits

\* Calls that all follow.
CallsFollow(b, c, cs) == IsSeq(cs) /\ \A i \in DOMAIN cs : NextCall(b, c, cs[i])

\* None, one, two, an optional one, and several after each other.
LEMMA CallsMade ==
  ASSUME NEW b, NEW c
  PROVE  /\ CallsFollow(b, c, <<>>)
         /\ \A x : NextCall(b, c, x) => CallsFollow(b, c, <<x>>)
         /\ \A x, y : NextCall(b, c, x) /\ NextCall(b, c, y) => CallsFollow(b, c, <<x, y>>)
         /\ \A x, f : NextCall(b, c, x) => CallsFollow(b, c, IF f THEN <<x>> ELSE <<>>)
<1>1. CallsFollow(b, c, <<>>)
  BY NoCalls DEF CallsFollow
<1>2. ASSUME NEW x, NextCall(b, c, x)
      PROVE  CallsFollow(b, c, <<x>>)
  <2>1. IsSeq(<<x>>) /\ \A i \in DOMAIN <<x>> : <<x>>[i] = x
    BY DEF IsSeq
  <2> QED
    BY <1>2, <2>1 DEF CallsFollow
<1>3. ASSUME NEW x, NEW y, NextCall(b, c, x), NextCall(b, c, y)
      PROVE  CallsFollow(b, c, <<x, y>>)
  <2>1. IsSeq(<<x, y>>) /\ \A i \in DOMAIN <<x, y>> : <<x, y>>[i] = x \/ <<x, y>>[i] = y
    BY DEF IsSeq
  <2>2. \A i \in DOMAIN <<x, y>> : NextCall(b, c, <<x, y>>[i])
    BY <1>3, <2>1, Zenon
  <2> QED
    BY <2>1, <2>2 DEF CallsFollow
<1>4. ASSUME NEW x, NEW f, NextCall(b, c, x)
      PROVE  CallsFollow(b, c, IF f THEN <<x>> ELSE <<>>)
  <2>1. CASE f
    BY <1>2, <1>4, <2>1, Zenon
  <2>2. CASE ~f
    BY <1>1, <2>2, Zenon
  <2> QED
    BY <2>1, <2>2
<1> QED
  BY <1>1, <1>2, <1>3, <1>4, Zenon

\* Several calls after each other.
LEMMA CallsJoined ==
  ASSUME NEW b, NEW c, NEW cs, NEW ds, CallsFollow(b, c, cs), CallsFollow(b, c, ds)
  PROVE  CallsFollow(b, c, cs \o ds)
<1>1. /\ IsSeq(cs \o ds)
      /\ \A i \in DOMAIN (cs \o ds) : \/ i \in DOMAIN cs /\ (cs \o ds)[i] = cs[i]
                                      \/ \E j \in DOMAIN ds : (cs \o ds)[i] = ds[j]
  BY IsSeqConcat DEF CallsFollow
<1> DEFINE s == cs \o ds
<1> HIDE DEF s
<1>2. IsSeq(s) /\ \A i \in DOMAIN s : NextCall(b, c, s[i])
  BY <1>1, Zenon DEF CallsFollow, s
<1> QED
  BY <1>2 DEF CallsFollow, s

\* BuildJoin.
LEMMA BuildJoinWaits ==
  ASSUME IsPlan(plan), Shape(build), Waits(build), BuildJoin
  PROVE  Waits(build)'
<1> DEFINE c == Head(build.calls)
           last == Last(build.metas[c.meta].pipelines)
           a == AddPipelineOperator(build, c.pipe, c.op)
           d == CreateChildMetaPipeline(a, c.pipe, c.meta, c.op)
           x == BuildNewest(d, plan[c.op].child[2])
           y == [c EXCEPT !.op = plan[c.op].child[1]]
           z == [c EXCEPT !.fn = "CreateChildPipeline", !.last = last]
           zs == IF plan[c.op].flag THEN <<z>> ELSE <<>>
           cs == <<x, y>> \o zs
           e == Replace(d, cs)
<1>1. Calling("BuildPipelines", "join") /\ Build(e)
  BY Zenon DEF BuildJoin
<1>2. /\ build.calls # <<>> /\ c.op \in Op /\ plan[c.op].kind = "join" /\ c.fn = "BuildPipelines"
      /\ c.pipe \in DOMAIN build.pipelines /\ Direct(build, c.pipe) /\ ~FromRelated(c)
      /\ DOMAIN c = CallFields
  BY <1>1, TopBuild
<1>3. Shape(a)
  BY AddPipelineOperatorShape
<1>4. /\ Extends(build, a) /\ OnlyOn(build, a, c.pipe) /\ NothingNew(build, a)
      /\ Ops(a, c.pipe) = Ops(build, c.pipe) \cup {c.op} /\ Source(a, c.pipe) = Source(build, c.pipe)
  BY <1>2, AddPipelineOperatorExtends
<1> HIDE DEF a, last
<1>5. Shape(d)
  BY <1>3, CreateChildMetaPipelineShape
<1>6. /\ Extends(a, d) /\ OnlyOn(a, d, c.pipe) /\ NewChild(a, d, c.pipe, c.op)
      /\ Ops(d, c.pipe) = Ops(a, c.pipe) /\ Source(d, c.pipe) = Source(a, c.pipe)
  BY <1>2, <1>3, <1>4, CreateChildMetaPipelineExtends DEF NothingNew
<1>a. ToSet(plan[c.op].related) = {}
  <2>1. plan[c.op].related = <<>>
    BY <1>2 DEF IsPlan, Op
  <2> QED
    BY <2>1 DEF ToSet
<1>b. /\ y.fn = "BuildPipelines" /\ y.pipe = c.pipe
      /\ z.fn = "CreateChildPipeline" /\ z.pipe = c.pipe /\ z.op = c.op
  BY <1>2 DEF CallFields
<1> HIDE DEF c, d, y, z
<1>s. e = Replace(d, cs)
  OBVIOUS
<1> HIDE DEF e
<1>7. /\ Extends(build, d) /\ OnlyOn(build, d, c.pipe) /\ NewChild(build, d, c.pipe, c.op) /\ d.calls = build.calls
      /\ Provided(e, c.pipe, c.op) /\ Adds(build, e)
      /\ e.pipelines = d.pipelines
      /\ \A q : Ops(e, q) = Ops(d, q) /\ Source(e, q) = Source(d, q)
  <2> HIDE DEF cs
  <2>1. plan[c.op].kind # "source"
    BY <1>2
  <2> QED
    BY <1>2, <1>3, <1>4, <1>5, <1>6, <1>s, <2>1, ChildDone
<1>8. GainsDependencies(build, e, c.pipe)
  BY <1>2, <1>4, <1>6, <1>7, <1>a DEF GainsDependencies, SourceWaits
<1>9. NextCall(build, e, x)
  BY <1>7, NewestNext
<1> HIDE DEF x
<1>10. ASSUME IsSeq(cs)
       PROVE  NextCall(build, e, y) /\ NextCall(build, e, z)
  <2> HIDE DEF cs
  <2>1. Direct(e, c.pipe)
    BY <1>2, <1>5, <1>7, <1>8, <1>10, <1>s, StillDirect DEF c
  <2>2. NextCall(build, e, y)
    BY <1>2, <1>b, <2>1, NextOn DEF c, FromRelated
  <2>3. CallWaits(e, z) /\ ~FromRelated(z)
    BY <1>7, <1>b, <2>1 DEF CallWaits, FromRelated
  <2>4. NextCall(build, e, z)
    BY <1>2, <1>b, <2>3 DEF NextCall, c
  <2> QED
    BY <2>2, <2>4
<1>11. IsSeq(cs)
  <2>1. IsSeq(<<x, y>>) /\ IsSeq(<<z>>) /\ IsSeq(<<>>)
    BY DEF IsSeq
  <2>2. IsSeq(zs)
    BY <2>1
  <2> HIDE DEF zs
  <2> QED
    BY <2>1, <2>2, IsSeqConcat
<1>12. CallsFollow(build, e, cs)
  <2>1. CallsFollow(build, e, <<x, y>>) /\ CallsFollow(build, e, zs)
    BY <1>9, <1>10, <1>11, CallsMade, Zenon
  <2> HIDE DEF zs
  <2> QED
    BY <2>1, CallsJoined
<1> HIDE DEF cs
<1>13. CallsOn(build, e, cs)
  BY <1>12, NextFollows DEF CallsFollow
<1> QED
  BY <1>1, <1>2, <1>5, <1>7, <1>8, <1>11, <1>13, <1>s, CallDone DEF c

\* BuildIEJoin.
LEMMA BuildIEJoinWaits ==
  ASSUME IsPlan(plan), Shape(build), Waits(build), BuildIEJoin
  PROVE  Waits(build)'
<1> DEFINE c == Head(build.calls)
           a == SetPipelineSource(build, c.pipe, c.op)
           d == CreateChildMetaPipeline(a, c.pipe, c.meta, c.op)
           x == BuildNewest(d, plan[c.op].child[1])
           y == [c EXCEPT !.fn = "CreatePipeline", !.meta = Len(d.metas)]
           cs == <<x, y>>
           e == Replace(d, cs)
<1>1. Calling("BuildPipelines", "iejoin") /\ Build(e)
  BY Zenon DEF BuildIEJoin
<1>2. /\ build.calls # <<>> /\ c.op \in Op /\ plan[c.op].kind = "iejoin"
      /\ c.pipe \in DOMAIN build.pipelines /\ Direct(build, c.pipe) /\ ~FromRelated(c)
      /\ DOMAIN c = CallFields
  BY <1>1, TopBuild
<1>3. Shape(a)
  BY SetPipelineSourceShape
<1>4. /\ Extends(build, a) /\ OnlyOn(build, a, c.pipe) /\ NothingNew(build, a)
      /\ Ops(a, c.pipe) = Ops(build, c.pipe) /\ Source(a, c.pipe) = c.op
  BY <1>2, SetPipelineSourceExtends
<1> HIDE DEF a
<1>5. Shape(d)
  BY <1>3, CreateChildMetaPipelineShape
<1>6. /\ Extends(a, d) /\ OnlyOn(a, d, c.pipe) /\ NewChild(a, d, c.pipe, c.op)
      /\ Ops(d, c.pipe) = Ops(a, c.pipe) /\ Source(d, c.pipe) = Source(a, c.pipe)
  BY <1>2, <1>3, <1>4, CreateChildMetaPipelineExtends DEF NothingNew
<1> HIDE DEF d
<1>a. y.fn = "CreatePipeline" /\ y.pipe = c.pipe
  BY <1>2 DEF CallFields
<1> HIDE DEF c, y
<1>s. e = Replace(d, cs)
  OBVIOUS
<1> HIDE DEF e
<1>7. /\ Extends(build, d) /\ OnlyOn(build, d, c.pipe) /\ NewChild(build, d, c.pipe, c.op) /\ d.calls = build.calls
      /\ Provided(e, c.pipe, c.op) /\ Adds(build, e)
      /\ e.pipelines = d.pipelines
      /\ \A q : Ops(e, q) = Ops(d, q) /\ Source(e, q) = Source(d, q)
  <2> HIDE DEF cs
  <2>1. plan[c.op].kind # "source"
    BY <1>2
  <2> QED
    BY <1>2, <1>3, <1>4, <1>5, <1>6, <1>s, <2>1, ChildDone
<1>8. GainsDependencies(build, e, c.pipe)
  BY <1>2, <1>4, <1>6, <1>7 DEF GainsDependencies, SourceWaits
<1>9. NextCall(build, e, x)
  BY <1>7, NewestNext
<1>10. NextCall(build, e, y)
  <2>1. ~FromRelated(y) /\ CallWaits(e, y)
    BY <1>a DEF FromRelated, CallWaits
  <2> QED
    BY <1>2, <1>a, <2>1 DEF NextCall, c
<1> HIDE DEF x
<1>11. CallsFollow(build, e, cs)
  BY <1>9, <1>10, CallsMade, Zenon
<1> HIDE DEF cs
<1>12. CallsOn(build, e, cs) /\ IsSeq(cs)
  BY <1>11, NextFollows DEF CallsFollow
<1> QED
  BY <1>1, <1>2, <1>5, <1>7, <1>8, <1>12, <1>s, CallDone DEF c

\* The calls a UseBF makes.
LEMMA UseBFMakes ==
  ASSUME IsPlan(plan), NEW c, DOMAIN c = CallFields, c.op \in Op, c.fn = "BuildPipelines"
  PROVE  LET cs == UseBFCalls(c)
             R  == Len(plan[c.op].related)
         IN  /\ IsSeq(cs) /\ R \in Nat /\ DOMAIN cs = 1..(R + 1) /\ DOMAIN plan[c.op].related = 1..R
             /\ \A i \in 1..R : FromRelated(cs[i]) /\ cs[i].op = plan[c.op].related[i] /\ cs[i].pipe = c.pipe
             /\ cs[R + 1].fn = "BuildPipelines" /\ cs[R + 1].pipe = c.pipe /\ cs[R + 1].op = plan[c.op].child[1]
<1> DEFINE related == plan[c.op].related
           call(i) == [c EXCEPT !.fn = "BuildPipelinesFromRelated", !.op = related[i]]
           rs == [i \in DOMAIN related |-> call(i)]
           y == [c EXCEPT !.op = plan[c.op].child[1]]
           cs == rs \o <<y>>
           R == Len(related)
<1>1. UseBFCalls(c) = cs
  BY Zenon DEF UseBFCalls
<1>2. related \in Seq(Op)
  BY Visited
<1>3. R \in Nat /\ DOMAIN related = 1..R
  BY <1>2
<1>4. \A i : FromRelated(call(i)) /\ call(i).op = related[i] /\ call(i).pipe = c.pipe
  BY DEF CallFields, FromRelated
<1>5. y.fn = "BuildPipelines" /\ y.pipe = c.pipe /\ y.op = plan[c.op].child[1]
  BY DEF CallFields
<1> HIDE DEF related, call, y, R
<1> DEFINE S == {call(i) : i \in 1..R} \cup {y}
<1>6. rs \in Seq(S) /\ Len(rs) = R /\ \A i \in 1..R : rs[i] = call(i)
  BY <1>3
<1>7. <<y>> \in Seq(S) /\ Len(<<y>>) = 1 /\ <<y>>[1] = y
  OBVIOUS
<1> HIDE DEF rs, S
<1>8. /\ cs \in Seq(S) /\ Len(cs) = R + 1
      /\ \A i \in 1..(R + 1) : cs[i] = IF i <= R THEN rs[i] ELSE <<y>>[i - R]
  <2>1. ConcatOf(S, rs, <<y>>, rs \o <<y>>)
    BY <1>6, <1>7, ConcatIs
  <2> QED
    BY <1>6, <1>7, <2>1 DEF ConcatOf
<1> HIDE DEF cs
<1>9. IsSeq(cs) /\ DOMAIN cs = 1..(R + 1)
  BY <1>8, SeqIsSeq
<1>10. \A i \in 1..R : cs[i] = call(i)
  BY <1>3, <1>6, <1>8
<1>11. cs[R + 1] = y
  BY <1>3, <1>7, <1>8
<1> QED
  BY <1>1, <1>3, <1>4, <1>5, <1>9, <1>10, <1>11 DEF related, R

\* BuildUseBF.
LEMMA BuildUseBFWaits ==
  ASSUME IsPlan(plan), Shape(build), Waits(build), BuildUseBF
  PROVE  Waits(build)'
<1> DEFINE c == Head(build.calls)
           d == AddPipelineOperator(build, c.pipe, c.op)
           cs == UseBFCalls(c)
           e == Replace(d, cs)
           R == Len(plan[c.op].related)
<1>1. Calling("BuildPipelines", "use_bf") /\ Build(e)
  BY Zenon DEF BuildUseBF
<1>2. /\ build.calls # <<>> /\ c.op \in Op /\ plan[c.op].kind = "use_bf" /\ c.fn = "BuildPipelines"
      /\ c.pipe \in DOMAIN build.pipelines /\ Direct(build, c.pipe) /\ ~FromRelated(c)
      /\ DOMAIN c = CallFields
  BY <1>1, TopBuild
<1>3. Shape(d)
  BY AddPipelineOperatorShape
<1>4. /\ Extends(build, d) /\ OnlyOn(build, d, c.pipe) /\ NothingNew(build, d)
      /\ Ops(d, c.pipe) = Ops(build, c.pipe) \cup {c.op} /\ Source(d, c.pipe) = Source(build, c.pipe)
  BY <1>2, AddPipelineOperatorExtends
<1> HIDE DEF c, d
<1>5. /\ IsSeq(cs) /\ R \in Nat /\ DOMAIN cs = 1..(R + 1) /\ DOMAIN plan[c.op].related = 1..R
      /\ \A i \in 1..R : FromRelated(cs[i]) /\ cs[i].op = plan[c.op].related[i] /\ cs[i].pipe = c.pipe
      /\ cs[R + 1].fn = "BuildPipelines" /\ cs[R + 1].pipe = c.pipe
  BY <1>2, UseBFMakes
<1>s. e = Replace(d, cs)
  OBVIOUS
<1> HIDE DEF e, cs, R
<1>6. /\ e.pipelines = d.pipelines /\ e.metas = d.metas /\ e.this_pipeline = d.this_pipeline
      /\ Ops(e, c.pipe) = Ops(d, c.pipe) /\ Source(e, c.pipe) = Source(d, c.pipe)
  BY <1>3, <1>s, ReplaceOnly
<1>7. d.calls = build.calls
  BY <1>4 DEF NothingNew
<1>a. e.calls = cs \o Tail(build.calls)
  BY <1>3, <1>4, <1>7, <1>s, ReplaceExtends
<1>8. \A r \in ToSet(plan[c.op].related) : ToBeAdded(e, c.pipe, r)
  <2>1. StackedOn(cs, build.calls, e.calls)
    BY <1>2, <1>5, <1>a, Stacked DEF Shape
  <2>2. \A i \in DOMAIN cs : i \in DOMAIN e.calls /\ e.calls[i] = cs[i]
    BY <2>1, Zenon DEF StackedOn
  <2>3. \A i \in 1..R : i \in DOMAIN cs
    BY <1>5
  <2>4. \A i \in DOMAIN plan[c.op].related : ToBeAdded(e, c.pipe, plan[c.op].related[i])
    BY <1>5, <2>2, <2>3 DEF ToBeAdded
  <2> QED
    BY <2>4 DEF ToSet
<1>9. GainsDependencies(build, e, c.pipe)
  BY <1>2, <1>4, <1>6, <1>8 DEF GainsDependencies
<1>10. Adds(build, e)
  BY <1>4, <1>6, AddsNothing DEF NothingNew
<1>11. Direct(e, c.pipe)
  BY <1>2, <1>3, <1>4, <1>5, <1>7, <1>9, <1>s, StillDirect DEF c
<1>12. \A i \in 1..R : FromRelated(cs[i]) /\ cs[i].fn = "BuildPipelinesFromRelated"
  BY <1>5 DEF FromRelated
<1>13. ~FromRelated(cs[R + 1])
  BY <1>5 DEF FromRelated
<1>14. Ordered(cs)
  <2> SUFFICES ASSUME NEW i \in DOMAIN cs, NEW j \in DOMAIN cs, i < j, FromRelated(cs[j])
               PROVE  FromRelated(cs[i])
    BY DEF Ordered
  <2>1. i \in 1..R
    BY <1>5
  <2> QED
    BY <1>12, <2>1
<1>15. ASSUME NEW i \in DOMAIN cs
       PROVE  CallWaits(e, cs[i]) /\ cs[i].pipe = c.pipe
  <2>1. cs[i].pipe = c.pipe /\ cs[i].fn # "CreateChildPipeline"
    <3>1. i \in 1..R \/ i = R + 1
      BY <1>5
    <3> QED
      BY <1>5, <1>12, <3>1
  <2> QED
    BY <1>11, <2>1 DEF CallWaits
<1>16. CallsOn(build, e, cs)
  BY <1>2, <1>14, <1>15 DEF CallsOn, c
<1> QED
  BY <1>1, <1>2, <1>3, <1>4, <1>5, <1>7, <1>9, <1>10, <1>16, <1>s, CallDone DEF c

\* BuildUnionOrder.
LEMMA BuildUnionOrderWaits ==
  ASSUME IsPlan(plan), Shape(build), Waits(build), BuildUnionOrder
  PROVE  Waits(build)'
<1> DEFINE c == Head(build.calls)
           d == AddDependenciesFrom(build, c.meta, c.pipe, c.pipe)
           e == Replace(d, <<>>)
<1>1. Calling("AddDependenciesFrom", "union") /\ Build(e)
  BY Zenon DEF BuildUnionOrder
<1>2. /\ build.calls # <<>> /\ c.meta \in DOMAIN build.metas
      /\ c.pipe \in DOMAIN build.pipelines /\ Direct(build, c.pipe) /\ ~FromRelated(c)
  BY <1>1, TopBuild
<1>3. Shape(d)
  BY <1>2, AddDependenciesFromShape
<1>4. /\ Extends(build, d) /\ OnlyOn(build, d, c.pipe) /\ NothingNew(build, d)
      /\ Ops(d, c.pipe) = Ops(build, c.pipe) /\ Source(d, c.pipe) = Source(build, c.pipe)
  BY <1>2, AddDependenciesFromExtends
<1> HIDE DEF c, d
<1>5. /\ e.pipelines = d.pipelines /\ e.metas = d.metas /\ e.this_pipeline = d.this_pipeline
      /\ Ops(e, c.pipe) = Ops(d, c.pipe) /\ Source(e, c.pipe) = Source(d, c.pipe)
  BY <1>3, ReplaceOnly
<1> HIDE DEF e
<1>6. GainsDependencies(build, e, c.pipe)
  BY <1>2, <1>4, <1>5 DEF GainsDependencies
<1>7. Adds(build, e)
  BY <1>4, <1>5, AddsNothing DEF NothingNew
<1>8. CallsOn(build, e, <<>>)
  BY NoCalls, NextFollows
<1>9. d.calls = build.calls /\ IsSeq(<<>>) /\ e = Replace(d, <<>>)
  BY <1>4, NoCalls DEF NothingNew, e
<1> QED
  BY <1>1, <1>2, <1>3, <1>4, <1>6, <1>7, <1>8, <1>9, CallDone DEF c

\* BuildIEJoinFinish.
LEMMA BuildIEJoinFinishWaits ==
  ASSUME IsPlan(plan), Shape(build), Waits(build), BuildIEJoinFinish
  PROVE  Waits(build)'
<1> DEFINE c == Head(build.calls)
           d == AddFinishEvent(build, c.meta, c.pipe)
           e == Replace(d, <<>>)
<1>1. Calling("AddFinishEvent", "iejoin") /\ Build(e)
  BY Zenon DEF BuildIEJoinFinish
<1>2. /\ build.calls # <<>> /\ Belongs(build, c.pipe, c.meta)
      /\ c.pipe \in DOMAIN build.pipelines /\ Direct(build, c.pipe) /\ ~FromRelated(c)
  BY <1>1, TopBuild
<1>3. Shape(d)
  BY <1>2, AddFinishEventShape
<1>4. /\ Extends(build, d) /\ OnlyOn(build, d, c.pipe)
      /\ DOMAIN d.metas = DOMAIN build.metas /\ d.calls = build.calls
      /\ d.this_pipeline = build.this_pipeline /\ DOMAIN d.pipelines = DOMAIN build.pipelines
      /\ Ops(d, c.pipe) = Ops(build, c.pipe) /\ Source(d, c.pipe) = Source(build, c.pipe)
  BY <1>2, AddFinishEventExtends
<1> HIDE DEF c, d
<1>5. /\ e.pipelines = d.pipelines /\ e.metas = d.metas /\ e.this_pipeline = d.this_pipeline
      /\ Ops(e, c.pipe) = Ops(d, c.pipe) /\ Source(e, c.pipe) = Source(d, c.pipe)
  BY <1>3, ReplaceOnly
<1> HIDE DEF e
<1>6. GainsDependencies(build, e, c.pipe)
  BY <1>2, <1>4, <1>5 DEF GainsDependencies
<1>7. Adds(build, e)
  BY <1>4, <1>5, AddsNothing
<1>8. CallsOn(build, e, <<>>)
  BY NoCalls, NextFollows
<1>9. IsSeq(<<>>) /\ e = Replace(d, <<>>)
  BY NoCalls DEF e
<1> QED
  BY <1>1, <1>2, <1>3, <1>4, <1>6, <1>7, <1>8, <1>9, CallDone DEF c

\* BuildIEJoinRight.
LEMMA BuildIEJoinRightWaits ==
  ASSUME IsPlan(plan), Shape(build), Waits(build), BuildIEJoinRight
  PROVE  Waits(build)'
<1> DEFINE c == Head(build.calls)
           d == AddPipeline(build, c.meta, NewPipeline(c.meta))
           p == Len(d.pipelines)
           x == [c EXCEPT !.fn = "BuildPipelines", !.op = plan[c.op].child[2], !.pipe = p]
           y == [c EXCEPT !.fn = "AddFinishEvent", !.pipe = p]
           cs == <<x, y>>
           e == Replace(d, cs)
           n == Len(build.pipelines) + 1
<1>1. Calling("CreatePipeline", "iejoin") /\ Build(e)
  BY Zenon DEF BuildIEJoinRight
<1>2. /\ build.calls # <<>> /\ c.meta \in DOMAIN build.metas /\ DOMAIN c = CallFields /\ ~FromRelated(c)
  BY <1>1, CallOnTop DEF Calling, CallOK, FromRelated
<1> HIDE DEF c
<1>3. Shape(d) /\ p = n
  <2>1. /\ DOMAIN NewPipeline(c.meta) = PipelineFields /\ NewPipeline(c.meta).meta = c.meta
        /\ NewPipeline(c.meta).group = NoPipeline /\ Listed(NewPipeline(c.meta))
    BY DEF NewPipeline, PipelineFields, Listed, IsSeq
  <2> QED
    BY <1>2, <2>1, AddPipelineShape
<1>4. /\ Extends(build, d) /\ OnlyOn(build, d, n)
      /\ DOMAIN d.metas = DOMAIN build.metas /\ d.calls = build.calls /\ d.this_pipeline = build.this_pipeline
      /\ DOMAIN d.pipelines = DOMAIN build.pipelines \cup {n} /\ n \notin DOMAIN build.pipelines
      /\ d.pipelines[n] = NewPipeline(c.meta)
  <2>1. d = AddPipeline(build, c.meta, NewPipeline(c.meta)) /\ n = Len(build.pipelines) + 1
    OBVIOUS
  <2> HIDE DEF d, n
  <2>2. Extends(build, d) /\ OnlyOn(build, d, n) /\ NewPipe(build, d, n, NewPipeline(c.meta))
    BY <1>2, <2>1, AddPipelineExtends
  <2> QED
    BY <2>2 DEF NewPipe
<1>5. /\ x.fn = "BuildPipelines" /\ x.pipe = p /\ y.fn = "AddFinishEvent" /\ y.pipe = p
  <2> HIDE DEF p
  <2> QED
    BY <1>2 DEF CallFields
<1> HIDE DEF d, p, n, x, y
<1>s. e = Replace(d, cs)
  OBVIOUS
<1>6. e.pipelines = d.pipelines /\ e.metas = d.metas /\ e.this_pipeline = d.this_pipeline
  <2> HIDE DEF cs
  <2> QED
    BY <1>3, ReplaceOnly
<1> HIDE DEF e
<1>7. Direct(e, n)
  BY <1>4, <1>6, NewIsDirect
<1>8. GainsDependencies(build, e, n)
  BY <1>4 DEF GainsDependencies
<1>9. Adds(build, e)
  BY <1>4, <1>6, <1>7 DEF Adds, PipeWaits, Waits, Remembered
<1>10. NextCall(build, e, x) /\ NextCall(build, e, y)
  <2>1. ~FromRelated(x) /\ ~FromRelated(y)
    BY <1>5 DEF FromRelated
  <2>2. CallWaits(e, x) /\ CallWaits(e, y)
    BY <1>3, <1>5, <1>7 DEF CallWaits
  <2> QED
    BY <1>3, <1>4, <1>5, <2>1, <2>2 DEF NextCall
<1>11. CallsFollow(build, e, cs)
  BY <1>10, CallsMade, Zenon
<1> HIDE DEF cs
<1>12. CallsOn(build, e, cs) /\ IsSeq(cs)
  BY <1>11, NextFollows DEF CallsFollow
<1> QED
  BY <1>1, <1>2, <1>3, <1>4, <1>8, <1>9, <1>12, <1>s, CallDone DEF c

\* BuildJoinSource.
LEMMA BuildJoinSourceWaits ==
  ASSUME IsPlan(plan), Shape(build), Waits(build), BuildJoinSource
  PROVE  Waits(build)'
<1> DEFINE c == Head(build.calls)
           n == Len(build.pipelines) + 1
           ops == build.pipelines[c.pipe].operators
           above == SubSeq(ops, 1, SelectInSeq(ops, LAMBDA o : o = c.op) - 1)
           r == [NewPipeline(c.meta) EXCEPT !.source = c.op, !.operators = above, !.inner = <<c.pipe>>]
           a == AddPipeline(build, c.meta, r)
           d == AddDependenciesFrom(a, c.meta, n, c.last)
           e == Replace(d, <<>>)
<1>1. /\ Calling("CreateChildPipeline", "join")
      /\ Build(Replace(CreateChildPipeline(build, c.pipe, c.meta, c.op, c.last), <<>>))
  BY Zenon DEF BuildJoinSource
<1>2. /\ build.calls # <<>> /\ c.meta \in DOMAIN build.metas /\ Belongs(build, c.pipe, c.meta)
      /\ c.pipe \in DOMAIN build.pipelines /\ Direct(build, c.pipe) /\ ~FromRelated(c)
  BY <1>1, TopBuild
<1>3. Provided(build, c.pipe, c.op)
  <2>1. CallWaits(build, c) /\ c.fn = "CreateChildPipeline"
    BY <1>1, <1>2, TopWaits DEF Calling
  <2> HIDE DEF c
  <2> QED
    BY <2>1 DEF CallWaits
<1>4. CreateChildPipeline(build, c.pipe, c.meta, c.op, c.last) = d
  BY Zenon DEF CreateChildPipeline
<1>5. Shape(CreateChildPipeline(build, c.pipe, c.meta, c.op, c.last))
  <2> HIDE DEF c
  <2> QED
    BY <1>2, CreateChildPipelineShape
<1>6. ToSet(above) \subseteq ToSet(ops) /\ IsSeq(above)
  <2>1. IsSeq(ops)
    BY <1>2 DEF Shape, PipelineOK, Listed
  <2>2. above = SubSeq(ops, 1, Found(ops, c.op) - 1)
    BY Zenon DEF SelectInSeq, Found
  <2> HIDE DEF ops
  <2> QED
    BY <2>1, <2>2, PartBefore
<1> HIDE DEF above, c
<1>7. /\ DOMAIN r = PipelineFields /\ r.meta = c.meta /\ r.group = NoPipeline /\ r.source = c.op
      /\ r.operators = above /\ r.inner = <<c.pipe>> /\ r.dependencies = <<>>
  BY DEF NewPipeline, PipelineFields
<1>8. Listed(r)
  <2>1. IsSeq(<<c.pipe>>) /\ IsSeq(<<>>)
    BY DEF IsSeq
  <2> HIDE DEF r
  <2> QED
    BY <1>6, <1>7, <2>1 DEF Listed
<1> HIDE DEF r
<1>9. Shape(a)
  BY <1>2, <1>7, <1>8, AddPipelineShape
<1>10. /\ Extends(build, a) /\ OnlyOn(build, a, n)
       /\ DOMAIN a.metas = DOMAIN build.metas /\ a.calls = build.calls /\ a.this_pipeline = build.this_pipeline
       /\ DOMAIN a.pipelines = DOMAIN build.pipelines \cup {n} /\ n \notin DOMAIN build.pipelines
       /\ a.pipelines[n] = r
  <2>1. a = AddPipeline(build, c.meta, r) /\ n = Len(build.pipelines) + 1
    OBVIOUS
  <2> HIDE DEF a, n
  <2>2. Extends(build, a) /\ OnlyOn(build, a, n) /\ NewPipe(build, a, n, r)
    BY <1>2, <2>1, AddPipelineExtends
  <2> QED
    BY <2>2 DEF NewPipe
<1> HIDE DEF a, n
<1>11. /\ Extends(a, d) /\ OnlyOn(a, d, n) /\ NothingNew(a, d)
       /\ Ops(d, n) = Ops(a, n) /\ Source(d, n) = Source(a, n)
       /\ d.pipelines[n].meta = a.pipelines[n].meta
  <2>1. c.meta \in DOMAIN a.metas /\ n \in DOMAIN a.pipelines
    BY <1>2, <1>10
  <2> QED
    BY <1>9, <2>1, AddDependenciesFromExtends
<1>12. Shape(d)
  BY <1>4, <1>5
<1> HIDE DEF d
<1>13. Extends(build, d) /\ OnlyOn(build, d, n)
  BY <1>10, <1>11, ExtendsTwice
<1>s. e = Replace(d, <<>>) /\ Build(e) /\ d.calls = build.calls /\ IsSeq(<<>>)
  BY <1>1, <1>4, <1>10, <1>11, NoCalls DEF NothingNew
<1> HIDE DEF e
<1>14. /\ e.pipelines = d.pipelines /\ e.metas = d.metas /\ e.this_pipeline = d.this_pipeline
       /\ \A q : Ops(e, q) = Ops(d, q) /\ Source(e, q) = Source(d, q)
  BY <1>12, <1>s, ReplaceOnly
<1>15. Extends(build, e) /\ OnlyOn(build, e, n)
  BY <1>12, <1>13, <1>s, ReplaceExtends
<1>16. GainsDependencies(build, e, n)
  BY <1>10 DEF GainsDependencies
<1>17. Direct(e, c.pipe)
  BY <1>2, <1>12, <1>13, <1>16, <1>s, StillDirect DEF c
<1>18. Behind(e, n, c.pipe)
  <2>1. Source(e, n) = c.op /\ Ops(e, n) = ToSet(above) /\ e.pipelines[n].meta = c.meta
    BY <1>7, <1>10, <1>11, <1>14 DEF Source, Ops
  <2>2. Ops(e, c.pipe) = ToSet(ops)
    BY <1>2, <1>10, <1>15 DEF OnlyOn, Ops
  <2>3. Provided(e, c.pipe, c.op)
    BY <1>2, <1>3, <1>15, ExtendsKeeps
  <2>4. Belongs(e, c.pipe, c.meta)
    BY <1>2, <1>15 DEF Extends, Belongs
  <2>5. c.pipe \in ToSet(e.pipelines[n].inner)
    <3>1. c.pipe \in ToSet(<<c.pipe>>)
      BY DEF ToSet
    <3>2. c.pipe \in ToSet(a.pipelines[n].inner)
      BY <1>7, <1>10, <3>1
    <3>3. n \in DOMAIN a.pipelines
      BY <1>10
    <3> QED
      BY <1>11, <1>14, <3>2, <3>3 DEF Extends
  <2> QED
    BY <1>6, <1>17, <2>1, <2>2, <2>3, <2>4, <2>5 DEF Behind
<1>19. Adds(build, e)
  <2>1. c.pipe \in DOMAIN e.pipelines
    BY <1>2, <1>15 DEF Extends
  <2>2. PipeWaits(e, n)
    BY <1>18, <2>1 DEF PipeWaits
  <2>3. /\ DOMAIN e.pipelines = DOMAIN build.pipelines \cup {n}
        /\ DOMAIN e.metas = DOMAIN build.metas /\ e.this_pipeline = build.this_pipeline
    BY <1>10, <1>11, <1>14 DEF NothingNew
  <2> QED
    BY <2>2, <2>3 DEF Adds, Waits, Remembered
<1>20. CallsOn(build, e, <<>>)
  BY NoCalls, NextFollows
<1> QED
  BY <1>2, <1>12, <1>13, <1>16, <1>19, <1>20, <1>s, CallDone DEF c


\* Nothing is pending for the pipeline of a call on top that is not for a UseBF.
LEMMA NothingPending ==
  ASSUME Shape(build), Waits(build), build.calls # <<>>, ~FromRelated(Head(build.calls)), NEW r
  PROVE  ~ToBeAdded(build, Head(build.calls).pipe, r)
<1> SUFFICES ASSUME ToBeAdded(build, Head(build.calls).pipe, r) PROVE FALSE
  OBVIOUS
<1> DEFINE s == build.calls
<1>1. IsSeq(s) /\ s # <<>> /\ Ordered(s)
  BY DEF Shape, Waits
<1>2. PICK j \in DOMAIN s : FromRelated(s[j]) /\ s[j].pipe = Head(s).pipe
  BY DEF ToBeAdded
<1> HIDE DEF s
<1>3. 1 \in DOMAIN s /\ Head(s) = s[1] /\ Len(s) \in Nat /\ DOMAIN s = 1..Len(s)
  BY <1>1, IsSeqTail, IsSeqAppend
<1>4. j # 1
  BY <1>2, <1>3 DEF s
<1>5. 1 < j
  BY <1>2, <1>3, <1>4
<1>6. FromRelated(s[1])
  BY <1>1, <1>2, <1>3, <1>5, Zenon DEF Ordered
<1> QED
  BY <1>3, <1>6 DEF s

\* A pipeline with the operators and the dependencies of p depends on what it probes, too.
LEMMA CopyIsDirect ==
  ASSUME NEW b, NEW c, Shape(b), Extends(b, c), NEW p \in DOMAIN b.pipelines, NEW n,
         Direct(b, p), \A r : ~ToBeAdded(b, p, r),
         c.pipelines[n].operators = b.pipelines[p].operators,
         c.pipelines[n].dependencies = b.pipelines[p].dependencies,
         c.pipelines[n].source = NoOperator
  PROVE  Direct(c, n)
<1>1. \A q, op : Fills(b, q, op) => Fills(c, q, op)
  BY ExtendsKeeps
<1>2. \A r : Provided(b, p, r) => Provided(c, n, r)
  BY <1>1 DEF Provided
<1>3. Ops(c, n) = Ops(b, p) /\ Source(c, n) = NoOperator
  BY DEF Ops, Source
<1> QED
  BY <1>2, <1>3 DEF Direct, ProbesWait, SourceWaits

\* BuildUnion.
LEMMA BuildUnionWaits ==
  ASSUME IsPlan(plan), Shape(build), Waits(build), BuildUnion
  PROVE  Waits(build)'
<1> DEFINE c == Head(build.calls)
           n == Len(build.pipelines) + 1
           flag == plan[c.op].flag
           inner == build.pipelines[c.pipe].inner \o (IF flag THEN <<c.pipe>> ELSE <<>>)
           r == [NewPipeline(c.meta) EXCEPT !.operators    = build.pipelines[c.pipe].operators,
                                            !.dependencies = build.pipelines[c.pipe].dependencies,
                                            !.inner        = inner]
           d == CreateUnionPipeline(build, c.pipe, c.meta, flag)
           x == [c EXCEPT !.op = plan[c.op].child[1]]
           z == [c EXCEPT !.fn = "AddDependenciesFrom", !.pipe = n]
           y == [c EXCEPT !.op = plan[c.op].child[2], !.pipe = n]
           zs == IF flag THEN <<z>> ELSE <<>>
           cs == <<x>> \o zs \o <<y>>
           e == Replace(d, cs)
<1>1. Calling("BuildPipelines", "union") /\ Build(e)
  BY Zenon DEF BuildUnion
<1>2. /\ build.calls # <<>> /\ c.meta \in DOMAIN build.metas /\ c.fn = "BuildPipelines"
      /\ c.pipe \in DOMAIN build.pipelines /\ Direct(build, c.pipe) /\ ~FromRelated(c)
      /\ DOMAIN c = CallFields
  BY <1>1, TopBuild
<1>3. \A op : ~ToBeAdded(build, c.pipe, op)
  BY <1>2, NothingPending
<1> HIDE DEF c, flag
<1>4. Shape(d)
  BY <1>2, CreateUnionPipelineShape
<1>5. d = AddPipeline(build, c.meta, r) /\ n = Len(build.pipelines) + 1
  BY Zenon DEF CreateUnionPipeline
<1> HIDE DEF d, n, inner
<1>6. /\ r.operators = build.pipelines[c.pipe].operators /\ r.source = NoOperator
      /\ r.dependencies = build.pipelines[c.pipe].dependencies
  BY DEF NewPipeline
<1> HIDE DEF r
<1>7. Extends(build, d) /\ OnlyOn(build, d, n) /\ NewPipe(build, d, n, r)
  BY <1>2, <1>5, AddPipelineExtends
<1>8. /\ n \notin DOMAIN build.pipelines /\ DOMAIN d.pipelines = DOMAIN build.pipelines \cup {n}
      /\ d.pipelines[n] = r /\ DOMAIN d.metas = DOMAIN build.metas /\ d.calls = build.calls
      /\ d.this_pipeline = build.this_pipeline
  BY <1>7 DEF NewPipe
<1>9. /\ x.fn = "BuildPipelines" /\ x.pipe = c.pipe
      /\ y.fn = "BuildPipelines" /\ y.pipe = n
      /\ z.fn = "AddDependenciesFrom" /\ z.pipe = n
  BY <1>2 DEF CallFields
<1> HIDE DEF x, y, z
<1>10. IsSeq(cs)
  <2>1. IsSeq(<<x>>) /\ IsSeq(<<y>>) /\ IsSeq(<<z>>) /\ IsSeq(<<>>)
    BY DEF IsSeq
  <2>2. IsSeq(zs)
    BY <2>1
  <2> HIDE DEF zs
  <2>3. IsSeq(<<x>> \o zs)
    BY <2>1, <2>2, IsSeqConcat
  <2> QED
    BY <2>1, <2>3, IsSeqConcat
<1>s. e = Replace(d, cs)
  OBVIOUS
<1> HIDE DEF e
<1>11. e.pipelines = d.pipelines /\ e.metas = d.metas /\ e.this_pipeline = d.this_pipeline
  <2> HIDE DEF cs
  <2> QED
    BY <1>4, <1>s, ReplaceOnly
<1>12. GainsDependencies(build, e, n)
  BY <1>8 DEF GainsDependencies
<1>13. Direct(e, c.pipe) /\ Extends(build, e)
  <2> HIDE DEF cs
  <2>1. Extends(build, e)
    BY <1>4, <1>7, <1>8, <1>s, ReplaceExtends
  <2>2. Direct(e, c.pipe)
    BY <1>2, <1>4, <1>7, <1>8, <1>10, <1>12, <1>s, StillDirect DEF c
  <2> QED
    BY <2>1, <2>2
<1>14. Direct(e, n)
  <2>1. /\ e.pipelines[n].operators = build.pipelines[c.pipe].operators
        /\ e.pipelines[n].dependencies = build.pipelines[c.pipe].dependencies
        /\ e.pipelines[n].source = NoOperator
    BY <1>6, <1>8, <1>11
  <2> QED
    BY <1>2, <1>3, <1>13, <2>1, CopyIsDirect
<1>15. Adds(build, e)
  <2>1. PipeWaits(e, n)
    BY <1>14 DEF PipeWaits
  <2> QED
    BY <1>8, <1>11, <2>1 DEF Adds, Waits, Remembered
<1>16. NextCall(build, e, x) /\ NextCall(build, e, y) /\ NextCall(build, e, z)
  <2>1. ~FromRelated(x) /\ ~FromRelated(y) /\ ~FromRelated(z)
    BY <1>9 DEF FromRelated
  <2>2. CallWaits(e, x) /\ CallWaits(e, y) /\ CallWaits(e, z)
    BY <1>9, <1>13, <1>14 DEF CallWaits
  <2> QED
    BY <1>2, <1>8, <1>9, <2>1, <2>2 DEF NextCall, c
<1>17. CallsFollow(build, e, cs)
  <2>1. CallsFollow(build, e, <<x>>) /\ CallsFollow(build, e, <<y>>) /\ CallsFollow(build, e, zs)
    BY <1>16, CallsMade, Zenon
  <2> HIDE DEF zs
  <2>2. CallsFollow(build, e, <<x>> \o zs)
    BY <2>1, CallsJoined
  <2> QED
    BY <2>1, <2>2, CallsJoined
<1> HIDE DEF cs
<1>18. CallsOn(build, e, cs)
  BY <1>17, NextFollows DEF CallsFollow
<1> QED
  BY <1>1, <1>2, <1>4, <1>7, <1>8, <1>10, <1>12, <1>15, <1>18, <1>s, CallDone DEF c


\* InitializeInternal begins with a pipeline that has nothing to wait for.
LEMMA InitializeInternalWaits ==
  ASSUME WInv, InitializeInternal
  PROVE  Waits(build)'
<1>1. /\ IsPlan(plan) /\ build.pipelines = <<>> /\ build.metas = <<>>
      /\ build.this_pipeline = [op \in Op |-> NoPipeline] /\ DOMAIN build = BuildFields
  BY DEF WInv, InitializeInternal, Shape
<1> DEFINE d == Call("BuildPipelines", 1, 1, 1, NoPipeline)
           e == [build EXCEPT !.pipelines = Append(@, NewPipeline(1)),
                              !.metas = Append(@, NewMeta(NoOperator, 1)),
                              !.root = 1, !.calls = <<d>>]
<1>2. build' = e /\ plan' = plan
  <2>1. Len(build.pipelines) + 1 = 1 /\ Len(build.metas) + 1 = 1
    BY <1>1
  <2> QED
    BY <2>1, Zenon DEF InitializeInternal
<1>3. /\ e.pipelines = <<NewPipeline(1)>> /\ e.metas = <<NewMeta(NoOperator, 1)>>
      /\ e.root = 1 /\ e.calls = <<d>> /\ e.this_pipeline = build.this_pipeline
  <2> DEFINE a == NewPipeline(1)
             k == NewMeta(NoOperator, 1)
  <2> HIDE DEF d, a, k
  <2>1. /\ e.pipelines = Append(build.pipelines, a) /\ e.metas = Append(build.metas, k)
        /\ e.root = 1 /\ e.calls = <<d>> /\ e.this_pipeline = build.this_pipeline
    BY <1>1 DEF BuildFields, a, k
  <2>2. Append(<<>>, a) = <<a>> /\ Append(<<>>, k) = <<k>>
    OBVIOUS
  <2> QED
    BY <1>1, <2>1, <2>2 DEF a, k
<1>4. d.fn = "BuildPipelines" /\ d.pipe = 1
  BY DEF Call
<1> HIDE DEF e, d
<1>5. /\ DOMAIN e.pipelines = {1} /\ e.pipelines[1] = NewPipeline(1) /\ DOMAIN e.metas = {1}
      /\ DOMAIN e.calls = {1} /\ e.calls[1] = d
  <2> DEFINE a == NewPipeline(1)
             k == NewMeta(NoOperator, 1)
  <2> HIDE DEF a, k
  <2>1. e.pipelines = <<a>> /\ e.metas = <<k>> /\ e.calls = <<d>>
    BY <1>3 DEF a, k
  <2> QED
    BY <2>1 DEF a
<1>6. Direct(e, 1)
  BY <1>5, NewIsDirect
<1>7. \A p \in DOMAIN e.pipelines : PipeWaits(e, p)
  BY <1>5, <1>6 DEF PipeWaits
<1>8. \A i \in DOMAIN e.calls : CallWaits(e, e.calls[i])
  BY <1>4, <1>5, <1>6 DEF CallWaits
<1>9. Ordered(e.calls)
  BY <1>5 DEF Ordered
<1>10. Remembered(e)
  BY <1>1, <1>3 DEF Remembered
<1>11. SinksOK(e) /\ e.root \in DOMAIN e.metas
  BY <1>3, <1>5 DEF SinksOK
<1>12. Waits(e)
  BY <1>7, <1>8, <1>9, <1>10, <1>11 DEF Waits
<1> QED
  BY <1>2, <1>12, WaitsAssigned

\* The operators of a pipeline are reordered when all calls have returned.
LEMMA ReorderedWaits ==
  ASSUME NEW b, NEW c, Shape(b), Waits(b), b.calls = <<>>, Extends(b, c),
         c.calls = b.calls, c.this_pipeline = b.this_pipeline, DOMAIN c.metas = DOMAIN b.metas,
         DOMAIN c.pipelines = DOMAIN b.pipelines,
         \A q \in DOMAIN b.pipelines : Ops(c, q) = Ops(b, q) /\ Source(c, q) = Source(b, q)
  PROVE  Waits(c)
<1>1. /\ \A q, op : Fills(b, q, op) => Fills(c, q, op)
      /\ \A p \in DOMAIN b.pipelines : \A op : Provided(b, p, op) => Provided(c, p, op)
  BY ExtendsKeeps
<1>2. \A p, r : ~ToBeAdded(b, p, r)
  BY DEF ToBeAdded
<1>3. ASSUME NEW q \in DOMAIN b.pipelines, Direct(b, q)
      PROVE  Direct(c, q)
  BY <1>1, <1>2, <1>3 DEF Direct, ProbesWait, SourceWaits
<1>4. ASSUME NEW q \in DOMAIN b.pipelines, NEW x \in DOMAIN b.pipelines, Behind(b, q, x)
      PROVE  Behind(c, q, x)
  <2>1. x \in ToSet(c.pipelines[q].inner) /\ Belongs(c, x, c.pipelines[q].meta)
    BY <1>4 DEF Behind, Extends, Belongs
  <2> QED
    BY <1>1, <1>3, <1>4, <2>1 DEF Behind
<1>5. \A q \in DOMAIN c.pipelines : PipeWaits(c, q)
  BY <1>3, <1>4 DEF Waits, PipeWaits
<1>6. (\A i \in DOMAIN c.calls : CallWaits(c, c.calls[i])) /\ Ordered(c.calls)
  BY DEF Ordered
<1>7. Remembered(c)
  BY <1>1 DEF Waits, Remembered
<1>8. SinksOK(c) /\ c.root \in DOMAIN c.metas
  BY DEF Waits, SinksOK, Extends
<1> QED
  BY <1>5, <1>6, <1>7, <1>8 DEF Waits

\* Ready.
LEMMA ReadyWaits ==
  ASSUME IsPlan(plan), Shape(build), Waits(build), Ready
  PROVE  Waits(build)' /\ build'.calls = <<>>
<1> DEFINE new(p) == LET pipeline == build.pipelines[p]
                     IN  IF p \in Current /\ ~pipeline.ready
                         THEN [pipeline EXCEPT !.ready = TRUE, !.operators = Reverse(@)]
                         ELSE pipeline
           b == [build EXCEPT !.pipelines = [p \in Pipeline |-> new(p)]]
<1>1. build' = b /\ plan' = plan /\ build.calls = <<>>
  BY Zenon DEF Ready
<1>2. Pipeline = DOMAIN build.pipelines
  BY Numbered
<1>3. ASSUME NEW p \in DOMAIN build.pipelines
      PROVE  /\ ToSet(new(p).operators) = ToSet(build.pipelines[p].operators)
             /\ new(p).source = build.pipelines[p].source
             /\ new(p).meta = build.pipelines[p].meta /\ new(p).inner = build.pipelines[p].inner
             /\ new(p).dependencies = build.pipelines[p].dependencies
  <2> DEFINE ops == Reverse(build.pipelines[p].operators)
  <2>1. ToSet(ops) = ToSet(build.pipelines[p].operators)
    BY IsSeqReverse DEF Shape, PipelineOK, Listed
  <2>2. new(p) \in {build.pipelines[p], [build.pipelines[p] EXCEPT !.ready = TRUE, !.operators = ops]}
    BY Zenon
  <2> HIDE DEF new, ops
  <2> QED
    BY <2>1, <2>2 DEF Shape, PipelineOK, PipelineFields
<1> HIDE DEF new
<1>4. /\ b.metas = build.metas /\ b.calls = build.calls /\ b.root = build.root
      /\ b.this_pipeline = build.this_pipeline
      /\ b.pipelines = [p \in Pipeline |-> new(p)]
  BY DEF Shape, BuildFields
<1> HIDE DEF b
<1>5. DOMAIN b.pipelines = DOMAIN build.pipelines /\ \A p \in DOMAIN build.pipelines : b.pipelines[p] = new(p)
  BY <1>2, <1>4
<1>6. Extends(build, b)
  BY <1>3, <1>4, <1>5 DEF Extends
<1>7. \A q \in DOMAIN build.pipelines : Ops(b, q) = Ops(build, q) /\ Source(b, q) = Source(build, q)
  BY <1>3, <1>5 DEF Ops, Source
<1>8. Waits(b)
  BY <1>1, <1>4, <1>5, <1>6, <1>7, ReorderedWaits
<1> QED
  BY <1>1, <1>4, <1>8, WaitsAssigned

\* A step of building.
LEMMA BuildStepWaits ==
  ASSUME WInv, BuildStep
  PROVE  WInv'
<1>1. IsPlan(plan) /\ Shape(build)
  BY DEF WInv
<1>2. plan' = plan /\ Shape(build)'
  BY <1>1, BuildStepKeeps
<1>3. CASE InitializeInternal
  <2>1. phase' = "building" /\ Waits(build)'
    BY <1>3, InitializeInternalWaits DEF InitializeInternal
  <2> QED
    BY <1>1, <1>2, <2>1 DEF WInv
<1>4. CASE Ready
  <2>1. Waits(build)
    BY <1>4 DEF WInv, Ready
  <2>2. phase' = "scheduled" /\ Waits(build)' /\ build'.calls = <<>>
    BY <1>1, <1>4, <2>1, ReadyWaits DEF Ready
  <2> QED
    BY <1>1, <1>2, <2>2 DEF WInv
<1>5. ASSUME \/ BuildSource \/ BuildStreaming \/ BuildSink \/ BuildCreateBF \/ BuildPipelinesFromRelated
             \/ BuildUseBF \/ BuildJoin \/ BuildJoinSource \/ BuildUnion \/ BuildUnionOrder
             \/ BuildIEJoin \/ BuildIEJoinRight \/ BuildIEJoinFinish
      PROVE  WInv'
  <2>1. phase = "building" /\ phase' = phase
    BY <1>5, Zenon DEF BuildSource, BuildStreaming, BuildSink, BuildCreateBF,
         BuildPipelinesFromRelated, BuildUseBF, BuildJoin, BuildJoinSource, BuildUnion,
         BuildUnionOrder, BuildIEJoin, BuildIEJoinRight, BuildIEJoinFinish, Build, Calling
  <2>2. Waits(build)
    BY <2>1 DEF WInv
  <2>3. Waits(build)'
    BY <1>1, <1>5, <2>2, BuildSourceWaits, BuildStreamingWaits, BuildSinkWaits,
       BuildCreateBFWaits, BuildPipelinesFromRelatedWaits, BuildUseBFWaits, BuildJoinWaits,
       BuildJoinSourceWaits, BuildUnionWaits, BuildUnionOrderWaits, BuildIEJoinWaits,
       BuildIEJoinRightWaits, BuildIEJoinFinishWaits
  <2> QED
    BY <1>1, <1>2, <2>1, <2>3 DEF WInv
<1> QED
  BY <1>3, <1>4, <1>5 DEF BuildStep

\* It holds before the plan is executed.
LEMMA WaitsInit ==
  ASSUME BuildInit
  PROVE  WInv
<1>1. /\ IsPlan(plan) /\ phase = "idle" /\ DOMAIN build = BuildFields
      /\ build.pipelines = <<>> /\ build.metas = <<>> /\ build.calls = <<>> /\ build.root = 0
      /\ build.this_pipeline = [op \in Op |-> NoPipeline]
  BY PipelinesAssumption DEF BuildInit, NoPipelines, BuildFields, Op
<1>2. Shape(build)
  BY <1>1 DEF Shape, IsSeq
<1> QED
  BY <1>1, <1>2 DEF WInv

\* A step that is not one of building.
LEMMA WaitsStutter ==
  ASSUME WInv, UNCHANGED buildVars
  PROVE  WInv'
<1>1. build' = build /\ plan' = plan /\ phase' = phase
  BY DEF buildVars
<1>2. Shape(build)'
  BY <1>1, Assigned DEF WInv
<1>3. phase # "idle" => Waits(build)'
  BY <1>1, WaitsAssigned DEF WInv
<1> QED
  BY <1>1, <1>2, <1>3 DEF WInv, Op


-----------------------------------------------------------------------------
(* The events wait for what the pipelines wait for *)

\* What e awaits is what it waits for, and what that waits for.
LEMMA AwaitsHas ==
  ASSUME NEW e, NEW D, IsFiniteSet(D), NEW c \in D, c.event = e
  PROVE  c.on \in Awaits(e, D) /\ \A d \in D : d.event = c.on => d.on \in Awaits(e, D)
<1> DEFINE N == Cardinality(D)
<1>a. PICK g : WaitRounds(e, D, g)
  BY AwaitsRounds
<1>1. /\ Awaits(e, D) = g[N] /\ g[0] = WaitedFor({e}, D)
      /\ \A n \in 1..N : g[n] = g[n - 1] \cup WaitedFor(g[n - 1], D)
  BY <1>a, Zenon DEF WaitRounds
<1>2. N \in Nat /\ N # 0
  <2>1. N \in Nat
    BY FS_CardinalityType
  <2>2. N # 0
    BY FS_EmptySet
  <2> QED
    BY <2>1, <2>2
<1> HIDE DEF N
<1>3. c.on \in g[0]
  BY <1>1 DEF WaitedFor
<1>4. c.on \in g[1] /\ \A d \in D : d.event = c.on => d.on \in g[1]
  <2>1. 1 \in 1..N /\ 1 - 1 = 0
    BY <1>2
  <2>2. g[1] = g[0] \cup WaitedFor(g[0], D)
    BY <1>1, <2>1
  <2> QED
    BY <1>3, <2>2 DEF WaitedFor
<1> DEFINE T == {n \in 0..N : n = 0 \/ g[1] \subseteq g[n]}
<1>5. 0 \in T
  BY <1>2
<1>6. \A n \in 1..N : n - 1 \in T => n \in T
  <2> SUFFICES ASSUME NEW n \in 1..N, n - 1 \in T PROVE n \in T
    OBVIOUS
  <2>1. n = 1 \/ g[1] \subseteq g[n - 1]
    BY <1>2
  <2>2. g[n - 1] \subseteq g[n]
    BY <1>1
  <2>3. n \in 0..N
    BY <1>2
  <2> QED
    BY <2>1, <2>2, <2>3
<1> HIDE DEF T
<1>7. N \in T
  <2>1. 0..N \subseteq T
    BY <1>2, <1>5, <1>6, UpTo
  <2> QED
    BY <1>2, <2>1
<1>8. g[1] \subseteq g[N]
  BY <1>2, <1>7 DEF T
<1> QED
  BY <1>1, <1>4, <1>8

\* The event of a pipeline waits for the MetaPipelines it depends on, and for
\* the pipelines it is behind.
LEMMA PipelineEventWaits ==
  ASSUME Shape(build), NEW p \in ScheduledPipeline
  PROVE  /\ \A q \in ToSet(build.pipelines[p].dependencies) :
              \E d \in Dependencies : d.event = PipelineEvent(p) /\ d.on = CompleteEvent(build.pipelines[q].meta)
         /\ \A q \in ToSet(build.pipelines[p].inner) :
              \E d \in Dependencies : d.event = PipelineEvent(p) /\ d.on = PipelineEvent(q)
<1>1. OuterDependencies(p) \subseteq Dependencies /\ InnerDependencies(p) \subseteq Dependencies
  BY Zenon DEF Dependencies
<1>2. ASSUME NEW q \in ToSet(build.pipelines[p].dependencies)
      PROVE  \E d \in Dependencies : d.event = PipelineEvent(p) /\ d.on = CompleteEvent(build.pipelines[q].meta)
  <2>1. PICK k \in DOMAIN build.pipelines[p].dependencies : build.pipelines[p].dependencies[k] = q
    BY <1>2 DEF ToSet
  <2> DEFINE d == Dependency(PipelineEvent(p), CompleteEvent(build.pipelines[q].meta), k)
  <2>2. d \in OuterDependencies(p)
    BY <2>1 DEF OuterDependencies
  <2>3. d.event = PipelineEvent(p) /\ d.on = CompleteEvent(build.pipelines[q].meta)
    BY DEF Dependency
  <2> QED
    BY <1>1, <2>2, <2>3
<1>3. ASSUME NEW q \in ToSet(build.pipelines[p].inner)
      PROVE  \E d \in Dependencies : d.event = PipelineEvent(p) /\ d.on = PipelineEvent(q)
  <2>1. PICK k \in DOMAIN build.pipelines[p].inner : build.pipelines[p].inner[k] = q
    BY <1>3 DEF ToSet
  <2> DEFINE d == Dependency(PipelineEvent(p), PipelineEvent(q), k)
  <2>2. d \in InnerDependencies(p)
    BY <2>1 DEF InnerDependencies
  <2>3. d.event = PipelineEvent(p) /\ d.on = PipelineEvent(q)
    BY DEF Dependency
  <2> QED
    BY <1>1, <2>2, <2>3
<1> QED
  BY <1>2, <1>3

\* What a pipeline depends on is awaited by its event, and by those behind it.
LEMMA MadeIsAwaited ==
  ASSUME Shape(build), NEW p \in ScheduledPipeline, NEW q \in ScheduledPipeline,
         p = q \/ q \in ToSet(build.pipelines[p].inner),
         NEW op, Provided(build, q, op), NEW m \in Scheduled, build.metas[m].sink = op,
         \A k, l \in Scheduled : build.metas[k].sink = build.metas[l].sink => k = l
  PROVE  CompleteEvent(m) \in Awaits(PipelineEvent(p), Dependencies)
<1>1. PICK x \in ToSet(build.pipelines[q].dependencies) : Fills(build, x, op)
  BY DEF Provided
<1>2. build.pipelines[x].meta = m
  <2>1. build.pipelines[x].meta \in Scheduled
    BY <1>1, Numbered DEF Fills, Scheduled, Shape, PipelineOK
  <2> QED
    BY <1>1, <2>1 DEF Fills
<1>3. IsFiniteSet(Dependencies)
  BY PlanDependencies
<1>4. PICK d \in Dependencies : d.event = PipelineEvent(q) /\ d.on = CompleteEvent(m)
  BY <1>1, <1>2, PipelineEventWaits
<1>5. CASE p = q
  BY <1>3, <1>4, <1>5, AwaitsHas
<1>6. CASE q \in ToSet(build.pipelines[p].inner)
  <2>1. PICK c \in Dependencies : c.event = PipelineEvent(p) /\ c.on = PipelineEvent(q)
    BY <1>6, PipelineEventWaits
  <2> QED
    BY <1>3, <1>4, <2>1, AwaitsHas
<1> QED
  BY <1>5, <1>6

\* So everything a pipeline uses is complete before it starts.
LEMMA WaitsSuffice ==
  ASSUME WInv, OneSinkPerOperator
  PROVE  FiltersBuiltBeforeUse
<1> SUFFICES ASSUME phase = "scheduled", NEW p \in ScheduledPipeline, NEW m \in Scheduled,
                    build.metas[m].sink \in
                      (UNION {ToSet(plan[op].related) : op \in ToSet(build.pipelines[p].operators)})
                        \cup {build.pipelines[p].source}
             PROVE  CompleteEvent(m) \in Awaits(PipelineEvent(p), Dependencies)
  BY Zenon DEF FiltersBuiltBeforeUse
<1> DEFINE s == build.metas[m].sink
<1>1. /\ IsPlan(plan) /\ Shape(build) /\ Waits(build) /\ build.calls = <<>>
      /\ \A k, l \in Scheduled : build.metas[k].sink = build.metas[l].sink => k = l
  BY DEF WInv, OneSinkPerOperator
<1>2. /\ Pipeline = DOMAIN build.pipelines /\ Meta = DOMAIN build.metas
  BY <1>1, Numbered
<1>3. s \in Op /\ plan[s].kind # "source" /\ s # NoOperator
  <2>1. m \in DOMAIN build.metas /\ m > build.root
    BY <1>2 DEF Scheduled
  <2>2. s \in Op /\ plan[s].kind # "source"
    BY <1>1, <2>1 DEF Waits, SinksOK
  <2> QED
    BY <1>1, <2>2 DEF IsPlan, Op
<1>4. p \in DOMAIN build.pipelines
  BY <1>2 DEF ScheduledPipeline
<1>5. \A q, r : ~ToBeAdded(build, q, r)
  BY <1>1 DEF ToBeAdded
<1>6. ASSUME NEW q, Direct(build, q)
      PROVE  (\E x \in Ops(build, q) : s \in ToSet(plan[x].related)) \/ s = Source(build, q) => Provided(build, q, s)
  BY <1>3, <1>5, <1>6 DEF Direct, ProbesWait, SourceWaits
<1>7. (\E x \in Ops(build, p) : s \in ToSet(plan[x].related)) \/ s = Source(build, p)
  BY DEF Ops, Source
<1> HIDE DEF s
<1>8. CASE Direct(build, p)
  <2>1. Provided(build, p, s)
    BY <1>6, <1>7, <1>8
  <2> QED
    BY <1>1, <2>1, MadeIsAwaited DEF s
<1>9. CASE \E q \in DOMAIN build.pipelines : Behind(build, p, q)
  <2>1. PICK q \in DOMAIN build.pipelines : Behind(build, p, q)
    BY <1>9
  <2>2. Provided(build, q, s)
    <3>1. CASE s = Source(build, p)
      BY <2>1, <3>1 DEF Behind
    <3>2. CASE \E x \in Ops(build, p) : s \in ToSet(plan[x].related)
      BY <1>6, <2>1, <3>2 DEF Behind
    <3> QED
      BY <1>7, <3>1, <3>2
  <2>3. q \in ScheduledPipeline /\ q \in ToSet(build.pipelines[p].inner)
    BY <1>2, <2>1 DEF Behind, Belongs, ScheduledPipeline
  <2> QED
    BY <1>1, <2>2, <2>3, MadeIsAwaited DEF s
<1> QED
  BY <1>1, <1>4, <1>8, <1>9 DEF Waits, PipeWaits

-----------------------------------------------------------------------------
(* One MetaPipeline for each operator that is filled *)

\* The operators that the calls of fn are for.
For(cs, fn) == {cs[i].op : i \in {j \in DOMAIN cs : cs[j].fn = fn}}

\* No operator has two of them.
OnceFor(cs, fn) == \A i, j \in DOMAIN cs : cs[i].fn = fn /\ cs[j].fn = fn /\ cs[i].op = cs[j].op => i = j

\* The operators that are visited next, and the IEJoins whose second child is yet to be visited.
Visits(b) == For(b.calls, "BuildPipelines")
Half(b) == For(b.calls, "CreatePipeline")

Child(op) == {plan[op].child[k] : k \in DOMAIN plan[op].child}

\* V are the operators that have been visited, X is Visits, H is Half and t is this_pipeline:
\* only a CreateBF is visited before its parent.
Progress(X, H, t, V) ==
  /\ \A a \in Op : \A k \in DOMAIN plan[a].child :
       plan[a].child[k] \in X \/ (plan[a].child[k] \in V /\ plan[plan[a].child[k]].kind # "create_bf") =>
         a \in V /\ (plan[a].kind = "iejoin" /\ k = 2 => a \notin H)
  /\ H \subseteq V
  /\ \A x \in X : x \in V => plan[x].kind = "create_bf"
  /\ \A x \in Op : plan[x].kind = "create_bf" /\ t[x] = NoPipeline => x \notin V

\* The sinks have been visited, and each has one MetaPipeline.
OneMeta(b, V) ==
  \A m \in DOMAIN b.metas : m > b.root =>
    /\ b.metas[m].sink \in V
    /\ \A n \in DOMAIN b.metas : n > b.root /\ b.metas[m].sink = b.metas[n].sink => m = n

VisitedBy(b, V) == Progress(Visits(b), Half(b), b.this_pipeline, V) /\ OneMeta(b, V)

SeenOnce(b) ==
  /\ OnceFor(b.calls, "BuildPipelines") /\ OnceFor(b.calls, "CreatePipeline")
  /\ \E V : VisitedBy(b, V)

SInv == WInv /\ (phase # "idle" => SeenOnce(build))

-----------------------------------------------------------------------------
(* Progress *)

\* A plan is a tree.
LEMMA PlanIsTree ==
  ASSUME IsPlan(plan), NEW a \in Op, NEW k \in DOMAIN plan[a].child
  PROVE  /\ plan[a].child[k] # 1
         /\ \A x \in Op : \A j \in DOMAIN plan[x].child : plan[a].child[k] = plan[x].child[j] => a = x /\ k = j
BY DEF IsPlan, IsTree, Op

\* No child is visited, or going to be, before its parent.
LEMMA ChildLater ==
  ASSUME NEW X, NEW H, NEW t, NEW V, Progress(X, H, t, V), NEW x \in Op, x \notin V, NEW y \in Child(x)
  PROVE  y \notin X /\ (y \in V => plan[y].kind = "create_bf")
BY DEF Progress, Child

\* Only the first child of an IEJoin is visited with it.
FirstOnly(x, C) ==
  plan[x].kind = "iejoin" => 1 \in DOMAIN plan[x].child /\ \A y \in C : y = plan[x].child[1]

\* x is visited, Y are the calls on and G the IEJoins that are new.
LEMMA ProgressVisit ==
  ASSUME IsPlan(plan), NEW X, NEW H, NEW t, NEW V, Progress(X, H, t, V),
         NEW x \in Op, x \notin V, x \in X \/ plan[x].kind = "create_bf",
         NEW C, C \subseteq Child(x), FirstOnly(x, C),
         NEW Y, \A y \in Y : y \in C \/ (y \in X /\ (y # x \/ plan[x].kind = "create_bf")),
         NEW G, \A y \in G : y \in H \/ y = x,
         NEW s, \A y \in Op : plan[y].kind = "create_bf" /\ s[y] = NoPipeline => t[y] = NoPipeline /\ y # x,
         NEW W, W = V \cup {x}
  PROVE  Progress(Y, G, s, W)
<1>1. ASSUME NEW a \in Op, NEW k \in DOMAIN plan[a].child,
             plan[a].child[k] \in Y \/ (plan[a].child[k] \in W /\ plan[plan[a].child[k]].kind # "create_bf")
      PROVE  a \in W /\ (plan[a].kind = "iejoin" /\ k = 2 => a \notin G)
  <2> DEFINE y == plan[a].child[k]
  <2>1. CASE y \in X \/ (y \in V /\ plan[y].kind # "create_bf")
    <3>1. a \in V /\ (plan[a].kind = "iejoin" /\ k = 2 => a \notin H)
      BY <2>1 DEF Progress
    <3> QED
      BY <3>1
  <2>2. CASE y \in C
    <3>1. PICK j \in DOMAIN plan[x].child : y = plan[x].child[j]
      BY <2>2 DEF Child
    <3>2. a = x /\ k = j
      BY <3>1, PlanIsTree
    <3>3. ~(plan[x].kind = "iejoin" /\ k = 2)
      <4> SUFFICES ASSUME plan[x].kind = "iejoin", k = 2 PROVE FALSE
        OBVIOUS
      <4>1. y = plan[x].child[1] /\ 1 \in DOMAIN plan[x].child
        BY <2>2 DEF FirstOnly
      <4>2. k = 1
        BY <4>1, PlanIsTree
      <4> QED
        BY <4>2
    <3> QED
      BY <3>2, <3>3
  <2>3. y \in X \/ (y \in V /\ plan[y].kind # "create_bf") \/ y \in C
    BY <1>1
  <2> QED
    BY <2>1, <2>2, <2>3
<1>2. G \subseteq W
  BY DEF Progress
<1>3. ASSUME NEW y \in Y, y \in W
      PROVE  plan[y].kind = "create_bf"
  <2> SUFFICES ASSUME plan[y].kind # "create_bf" PROVE FALSE
    OBVIOUS
  <2>1. CASE y \in C
    <3>1. y \notin X /\ (y \in V => plan[y].kind = "create_bf")
      BY <2>1, ChildLater
    <3>2. y = x
      BY <1>3, <3>1
    <3> QED
      BY <3>1, <3>2
  <2>2. CASE y \in X /\ y # x
    BY <1>3, <2>2 DEF Progress
  <2>3. CASE plan[x].kind = "create_bf" /\ y = x
    BY <2>3
  <2> QED
    BY <2>1, <2>2, <2>3
<1>4. ASSUME NEW y \in Op, plan[y].kind = "create_bf", s[y] = NoPipeline
      PROVE  y \notin W
  BY <1>4 DEF Progress
<1> QED
  BY <1>1, <1>2, <1>3, <1>4 DEF Progress

\* The second child of the IEJoin x is visited.
LEMMA ProgressRight ==
  ASSUME IsPlan(plan), NEW X, NEW H, NEW t, NEW V, Progress(X, H, t, V),
         NEW x \in Op, x \in H, plan[x].kind = "iejoin", 2 \in DOMAIN plan[x].child,
         NEW Y, Y \subseteq X \cup {plan[x].child[2]}, NEW G, G \subseteq H \ {x}
  PROVE  Progress(Y, G, t, V) /\ plan[x].child[2] \notin X
<1> DEFINE z == plan[x].child[2]
<1>1. z \notin X /\ (z \in V => plan[z].kind = "create_bf") /\ x \in V
  BY DEF Progress
<1>2. ASSUME NEW a \in Op, NEW k \in DOMAIN plan[a].child,
             plan[a].child[k] \in Y \/ (plan[a].child[k] \in V /\ plan[plan[a].child[k]].kind # "create_bf")
      PROVE  a \in V /\ (plan[a].kind = "iejoin" /\ k = 2 => a \notin G)
  <2> DEFINE y == plan[a].child[k]
  <2>1. CASE y \in X \/ (y \in V /\ plan[y].kind # "create_bf")
    BY <2>1 DEF Progress
  <2>2. CASE y = z
    <3>1. a = x
      BY <2>2, PlanIsTree
    <3> QED
      BY <1>1, <3>1
  <2> QED
    BY <1>2, <2>1, <2>2
<1>3. ASSUME NEW y \in Y, y \in V
      PROVE  plan[y].kind = "create_bf"
  BY <1>1, <1>3 DEF Progress
<1>4. Progress(Y, G, t, V)
  BY <1>2, <1>3 DEF Progress
<1> QED
  BY <1>1, <1>4

\* Calls return.
LEMMA ProgressLess ==
  ASSUME NEW X, NEW H, NEW t, NEW V, Progress(X, H, t, V),
         NEW Y, Y \subseteq X, NEW G, G \subseteq H
  PROVE  Progress(Y, G, t, V)
BY DEF Progress

-----------------------------------------------------------------------------
(* The calls *)

\* The first call of s has been replaced by cs, which are for other operators.
LEMMA StackFor ==
  ASSUME NEW cs, NEW s, NEW t, NEW fn, StackedOn(cs, s, t), OnceFor(s, fn), OnceFor(cs, fn),
         \A op \in For(cs, fn) : op \notin For(s, fn)
  PROVE  /\ OnceFor(t, fn)
         /\ \A op \in For(t, fn) : op \in For(cs, fn) \/ (op \in For(s, fn) /\ ~(s[1].fn = fn /\ s[1].op = op))
<1> DEFINE M == Len(cs)
<1>1. /\ M \in Nat /\ DOMAIN cs = 1..M
      /\ 1 \in DOMAIN s /\ DOMAIN s \subseteq Nat \ {0} /\ DOMAIN t \subseteq Nat \ {0}
      /\ \A i \in DOMAIN cs : i \in DOMAIN t /\ t[i] = cs[i]
      /\ \A i \in DOMAIN t : i \notin DOMAIN cs =>
           i > M /\ i - M + 1 \in DOMAIN s /\ i - M + 1 > 1 /\ t[i] = s[i - M + 1]
  BY Zenon DEF StackedOn
<1> HIDE DEF M
<1>2. ASSUME NEW i \in DOMAIN t, t[i].fn = fn
      PROVE  \/ i \in DOMAIN cs /\ t[i] = cs[i] /\ t[i].op \in For(cs, fn)
             \/ /\ i \notin DOMAIN cs /\ i - M + 1 \in DOMAIN s /\ i - M + 1 # 1 /\ t[i] = s[i - M + 1]
                /\ t[i].op \in For(s, fn) /\ ~(s[1].fn = fn /\ s[1].op = t[i].op)
  <2>1. CASE i \in DOMAIN cs
    BY <1>1, <1>2, <2>1 DEF For
  <2>2. CASE i \notin DOMAIN cs
    <3> DEFINE j == i - M + 1
    <3>1. j \in DOMAIN s /\ j > 1 /\ t[i] = s[j] /\ j # 1
      BY <1>1, <2>2
    <3> HIDE DEF j
    <3>2. t[i].op \in For(s, fn)
      BY <1>2, <3>1 DEF For
    <3>3. ~(s[1].fn = fn /\ s[1].op = t[i].op)
      BY <1>1, <1>2, <3>1, Zenon DEF OnceFor
    <3> QED
      BY <2>2, <3>1, <3>2, <3>3 DEF j
  <2> QED
    BY <2>1, <2>2
<1>3. OnceFor(t, fn)
  <2> SUFFICES ASSUME NEW i \in DOMAIN t, NEW j \in DOMAIN t, t[i].fn = fn, t[j].fn = fn, t[i].op = t[j].op
               PROVE  i = j
    BY DEF OnceFor
  <2>1. CASE i \in DOMAIN cs /\ j \in DOMAIN cs
    <3>1. t[i] = cs[i] /\ t[j] = cs[j]
      BY <1>1, <2>1
    <3> QED
      BY <2>1, <3>1, Zenon DEF OnceFor
  <2>2. CASE i \notin DOMAIN cs /\ j \notin DOMAIN cs
    <3> DEFINE x == i - M + 1
               y == j - M + 1
    <3>1. x \in DOMAIN s /\ y \in DOMAIN s /\ t[i] = s[x] /\ t[j] = s[y]
      BY <1>1, <2>2
    <3> HIDE DEF x, y
    <3>2. x = y
      BY <3>1, Zenon DEF OnceFor
    <3> QED
      BY <1>1, <3>2 DEF x, y
  <2>3. ~(i \in DOMAIN cs /\ j \notin DOMAIN cs) /\ ~(i \notin DOMAIN cs /\ j \in DOMAIN cs)
    BY <1>2
  <2> QED
    BY <2>1, <2>2, <2>3
<1>4. \A op \in For(t, fn) : op \in For(cs, fn) \/ (op \in For(s, fn) /\ ~(s[1].fn = fn /\ s[1].op = op))
  <2> SUFFICES ASSUME NEW op \in For(t, fn)
               PROVE  op \in For(cs, fn) \/ (op \in For(s, fn) /\ ~(s[1].fn = fn /\ s[1].op = op))
    OBVIOUS
  <2>1. PICK i \in DOMAIN t : t[i].fn = fn /\ op = t[i].op
    BY DEF For
  <2> QED
    BY <1>2, <2>1
<1> QED
  BY <1>3, <1>4


\* The calls of cs visit operators of C and leave IEJoins of G half done.
Makes(cs, C, G) ==
  /\ IsSeq(cs)
  /\ OnceFor(cs, "BuildPipelines") /\ OnceFor(cs, "CreatePipeline")
  /\ For(cs, "BuildPipelines") \subseteq C /\ For(cs, "CreatePipeline") \subseteq G

\* No call, or one.
LEMMA CallsSingle ==
  ASSUME NEW x
  PROVE  /\ Makes(<<>>, {}, {})
         /\ x.fn = "BuildPipelines" => Makes(<<x>>, {x.op}, {})
         /\ x.fn = "CreatePipeline" => Makes(<<x>>, {}, {x.op})
         /\ x.fn \notin {"BuildPipelines", "CreatePipeline"} => Makes(<<x>>, {}, {})
<1>1. IsSeq(<<>>) /\ DOMAIN <<>> = {} /\ IsSeq(<<x>>) /\ DOMAIN <<x>> = {1} /\ <<x>>[1] = x
  BY DEF IsSeq
<1> DEFINE s == <<x>>
           e == <<>>
<1>2. IsSeq(e) /\ DOMAIN e = {} /\ IsSeq(s) /\ DOMAIN s = {1} /\ s[1] = x
  BY <1>1
<1> HIDE DEF s, e
<1>3. Makes(e, {}, {})
  BY <1>2 DEF Makes, For, OnceFor
<1>4. \A fn : OnceFor(s, fn)
  BY <1>2 DEF OnceFor
<1>5. \A fn : (x.fn = fn => For(s, fn) = {x.op}) /\ (x.fn # fn => For(s, fn) = {})
  BY <1>2 DEF For
<1>6. /\ x.fn = "BuildPipelines" => Makes(s, {x.op}, {})
      /\ x.fn = "CreatePipeline" => Makes(s, {}, {x.op})
      /\ x.fn \notin {"BuildPipelines", "CreatePipeline"} => Makes(s, {}, {})
  BY <1>2, <1>4, <1>5 DEF Makes
<1> QED
  BY <1>3, <1>6 DEF s, e

\* The calls for an operator in a sequence that consists of two.
LEMMA ConcatFor ==
  ASSUME NEW cs, NEW ds, IsSeq(cs), IsSeq(ds), NEW fn, OnceFor(cs, fn), OnceFor(ds, fn),
         \A op \in For(cs, fn) : op \notin For(ds, fn)
  PROVE  OnceFor(cs \o ds, fn) /\ For(cs \o ds, fn) \subseteq For(cs, fn) \cup For(ds, fn)
<1> DEFINE t == cs \o ds
           S == {cs[j] : j \in DOMAIN cs} \cup {ds[j] : j \in DOMAIN ds}
           M == Len(cs)
           N == Len(ds)
<1>1. cs \in Seq(S) /\ ds \in Seq(S)
  BY DEF IsSeq
<1> HIDE DEF S
<1>2. /\ M \in Nat /\ N \in Nat /\ DOMAIN cs = 1..M /\ DOMAIN ds = 1..N /\ DOMAIN t = 1..(M + N)
      /\ \A i \in 1..(M + N) : t[i] = IF i <= M THEN cs[i] ELSE ds[i - M]
  <2>1. t \in Seq(S) /\ Len(t) = M + N /\ \A i \in 1..Len(t) : t[i] = IF i <= M THEN cs[i] ELSE ds[i - M]
    <3>1. ConcatOf(S, cs, ds, t)
      BY <1>1, ConcatIs
    <3> QED
      BY <3>1 DEF ConcatOf
  <2> HIDE DEF t
  <2> QED
    BY <1>1, <2>1
<1> HIDE DEF t, M, N
<1>3. ASSUME NEW i \in DOMAIN t
      PROVE  \/ i \in DOMAIN cs /\ t[i] = cs[i]
             \/ i \notin DOMAIN cs /\ i - M \in DOMAIN ds /\ t[i] = ds[i - M]
  BY <1>2
<1>4. ASSUME NEW i \in DOMAIN t, t[i].fn = fn
      PROVE  \/ i \in DOMAIN cs /\ t[i] = cs[i] /\ t[i].op \in For(cs, fn)
             \/ i \notin DOMAIN cs /\ i - M \in DOMAIN ds /\ t[i] = ds[i - M] /\ t[i].op \in For(ds, fn)
  BY <1>3, <1>4 DEF For
<1>5. OnceFor(t, fn)
  <2> SUFFICES ASSUME NEW i \in DOMAIN t, NEW j \in DOMAIN t, t[i].fn = fn, t[j].fn = fn, t[i].op = t[j].op
               PROVE  i = j
    BY DEF OnceFor
  <2>1. CASE i \in DOMAIN cs /\ j \in DOMAIN cs
    <3>1. t[i] = cs[i] /\ t[j] = cs[j]
      BY <1>3, <2>1
    <3> QED
      BY <2>1, <3>1, Zenon DEF OnceFor
  <2>2. CASE i \notin DOMAIN cs /\ j \notin DOMAIN cs
    <3> DEFINE x == i - M
               y == j - M
    <3>1. x \in DOMAIN ds /\ y \in DOMAIN ds /\ t[i] = ds[x] /\ t[j] = ds[y]
      BY <1>3, <2>2
    <3> HIDE DEF x, y
    <3>2. x = y
      BY <3>1, Zenon DEF OnceFor
    <3> QED
      BY <1>2, <3>2 DEF x, y
  <2>3. ~(i \in DOMAIN cs /\ j \notin DOMAIN cs) /\ ~(i \notin DOMAIN cs /\ j \in DOMAIN cs)
    BY <1>4
  <2> QED
    BY <2>1, <2>2, <2>3
<1>6. For(t, fn) \subseteq For(cs, fn) \cup For(ds, fn)
  <2> SUFFICES ASSUME NEW op \in For(t, fn) PROVE op \in For(cs, fn) \cup For(ds, fn)
    OBVIOUS
  <2>1. PICK i \in DOMAIN t : t[i].fn = fn /\ op = t[i].op
    BY DEF For
  <2> QED
    BY <1>4, <2>1
<1> QED
  BY <1>5, <1>6 DEF t

\* Two calls.
LEMMA PairConcat ==
  ASSUME NEW x, NEW y
  PROVE  <<x, y>> = <<x>> \o <<y>>
<1> DEFINE S == {x, y}
           a == <<x>>
           b == <<y>>
           c == <<x, y>>
           d == a \o b
<1>1. a \in Seq(S) /\ b \in Seq(S) /\ Len(a) = 1 /\ Len(b) = 1 /\ a[1] = x /\ b[1] = y
  OBVIOUS
<1>2. c \in Seq(S) /\ Len(c) = 2 /\ c[1] = x /\ c[2] = y
  OBVIOUS
<1> HIDE DEF S, a, b, c
<1>3. /\ d \in Seq(S) /\ Len(d) = Len(a) + Len(b)
      /\ \A i \in 1..Len(a) + Len(b) : d[i] = IF i <= Len(a) THEN a[i] ELSE b[i - Len(a)]
  BY <1>1, ConcatProperties, Zenon
<1> HIDE DEF d
<1>4. Len(d) = 2 /\ d[1] = x /\ d[2] = y
  BY <1>1, <1>3
<1>5. \A i \in 1..Len(c) : c[i] = d[i]
  BY <1>2, <1>4
<1>6. c = d
  BY <1>2, <1>3, <1>4, <1>5, SeqEqual
<1> QED
  BY <1>6 DEF a, b, c, d

\* Several calls.
LEMMA CallsConcat ==
  ASSUME NEW cs, NEW ds, NEW A, NEW B, NEW C, NEW G, NEW H, NEW K, Makes(cs, A, G), Makes(ds, B, H),
         A \cap B = {}, G \cap H = {}, A \cup B \subseteq C, G \cup H \subseteq K
  PROVE  Makes(cs \o ds, C, K)
<1>1. IsSeq(cs \o ds)
  BY IsSeqConcat DEF Makes
<1>2. /\ OnceFor(cs \o ds, "BuildPipelines")
      /\ For(cs \o ds, "BuildPipelines") \subseteq For(cs, "BuildPipelines") \cup For(ds, "BuildPipelines")
  BY ConcatFor DEF Makes
<1>3. /\ OnceFor(cs \o ds, "CreatePipeline")
      /\ For(cs \o ds, "CreatePipeline") \subseteq For(cs, "CreatePipeline") \cup For(ds, "CreatePipeline")
  BY ConcatFor DEF Makes
<1> QED
  BY <1>1, <1>2, <1>3 DEF Makes

-----------------------------------------------------------------------------
(* The sinks *)

\* No MetaPipeline is new.
SameSinks(b, e) ==
  /\ DOMAIN e.metas = DOMAIN b.metas /\ e.root = b.root
  /\ \A m \in DOMAIN b.metas : e.metas[m].sink = b.metas[m].sink

\* One is, with the sink x.
NewSink(b, e, x) ==
  /\ e.root = b.root
  /\ \A m \in DOMAIN b.metas : e.metas[m].sink = b.metas[m].sink
  /\ \E k : k \notin DOMAIN b.metas /\ DOMAIN e.metas = DOMAIN b.metas \cup {k} /\ e.metas[k].sink = x

\* More operators have been visited.
LEMMA SameOneMeta ==
  ASSUME NEW b, NEW e, NEW V, NEW W, OneMeta(b, V), V \subseteq W, SameSinks(b, e)
  PROVE  OneMeta(e, W)
BY DEF OneMeta, SameSinks

\* A MetaPipeline for an operator that has just been visited.
LEMMA NewOneMeta ==
  ASSUME NEW b, NEW e, NEW V, NEW x, OneMeta(b, V), x \notin V, NewSink(b, e, x)
  PROVE  OneMeta(e, V \cup {x})
<1>1. PICK k : k \notin DOMAIN b.metas /\ DOMAIN e.metas = DOMAIN b.metas \cup {k} /\ e.metas[k].sink = x
  BY DEF NewSink
<1>2. e.root = b.root /\ \A m \in DOMAIN b.metas : e.metas[m].sink = b.metas[m].sink
  BY DEF NewSink
<1> QED
  BY <1>1, <1>2 DEF OneMeta


-----------------------------------------------------------------------------
(* One call *)

\* e has the calls cs instead of the first one of b.
LEMMA ReplaceStacks ==
  ASSUME NEW b, Shape(b), b.calls # <<>>, NEW d, Shape(d), d.calls = b.calls, NEW cs, IsSeq(cs),
         NEW e, e = Replace(d, cs)
  PROVE  StackedOn(cs, b.calls, e.calls) /\ SameSinks(d, e) /\ e.this_pipeline = d.this_pipeline
<1> DEFINE t == e.calls
           s == b.calls
<1>1. /\ e.metas = d.metas /\ e.root = d.root /\ e.this_pipeline = d.this_pipeline
      /\ t = cs \o Tail(s)
  BY DEF Replace, Shape, BuildFields
<1>2. IsSeq(s) /\ s # <<>>
  BY DEF Shape
<1> HIDE DEF s, t
<1>3. StackedOn(cs, s, t)
  BY <1>1, <1>2, Stacked
<1> QED
  BY <1>1, <1>3 DEF SameSinks, s, t

\* An operator is visited: for the first time.
Visiting(b, e, x) ==
  \/ Head(b.calls).fn = "BuildPipelines" /\ plan[x].kind # "create_bf" /\ e.this_pipeline = b.this_pipeline
  \/ /\ plan[x].kind = "create_bf" /\ b.this_pipeline[x] = NoPipeline /\ e.this_pipeline[x] # NoPipeline
     /\ \A y \in Op : y # x => e.this_pipeline[y] = b.this_pipeline[y]

\* The operator of the call on top is visited, and the calls cs are made for children of it.
LEMMA VisitDone ==
  ASSUME IsPlan(plan), NEW b, SeenOnce(b), NEW x \in Op, x = Head(b.calls).op, NEW e,
         NEW cs, StackedOn(cs, b.calls, e.calls), NEW C, NEW G, Makes(cs, C, G), C \subseteq Child(x), G \subseteq {x},
         FirstOnly(x, C), Visiting(b, e, x), SameSinks(b, e) \/ NewSink(b, e, x)
  PROVE  SeenOnce(e)
<1> DEFINE t == b.this_pipeline
           s == e.this_pipeline
           h == b.calls[1]
<1>1. /\ OnceFor(b.calls, "BuildPipelines") /\ OnceFor(b.calls, "CreatePipeline")
      /\ OnceFor(cs, "BuildPipelines") /\ OnceFor(cs, "CreatePipeline")
      /\ For(cs, "BuildPipelines") \subseteq C /\ For(cs, "CreatePipeline") \subseteq {x}
  BY DEF SeenOnce, Makes
<1>2. PICK V : Progress(Visits(b), Half(b), t, V) /\ OneMeta(b, V)
  BY DEF SeenOnce, VisitedBy
<1>3. Head(b.calls) = h /\ 1 \in DOMAIN b.calls
  BY Zenon DEF StackedOn
<1>4. x = h.op /\ (h.fn = "BuildPipelines" => x \in Visits(b))
  BY <1>3 DEF Visits, For
<1> HIDE DEF t, s, h
<1>5. \/ h.fn = "BuildPipelines" /\ plan[x].kind # "create_bf" /\ s = t
      \/ /\ plan[x].kind = "create_bf" /\ t[x] = NoPipeline /\ s[x] # NoPipeline
         /\ \A y \in Op : y # x => s[y] = t[y]
  BY <1>3 DEF Visiting, t, s
<1>6. x \notin V /\ (x \in Visits(b) \/ plan[x].kind = "create_bf")
  BY <1>2, <1>4, <1>5 DEF Progress
<1>7. \A y \in C : y \notin Visits(b)
  BY <1>2, <1>6, ChildLater
<1>8. x \notin Half(b)
  BY <1>2, <1>6 DEF Progress
<1>9. /\ OnceFor(e.calls, "BuildPipelines")
      /\ \A op \in Visits(e) : op \in For(cs, "BuildPipelines")
                               \/ (op \in Visits(b) /\ ~(h.fn = "BuildPipelines" /\ h.op = op))
  <2>1. \A op \in For(cs, "BuildPipelines") : op \notin For(b.calls, "BuildPipelines")
    BY <1>1, <1>7 DEF Visits
  <2> QED
    BY <1>1, <2>1, StackFor DEF Visits, h
<1>10. /\ OnceFor(e.calls, "CreatePipeline")
       /\ \A op \in Half(e) : op \in For(cs, "CreatePipeline") \/ op \in Half(b)
  <2>1. \A op \in For(cs, "CreatePipeline") : op \notin For(b.calls, "CreatePipeline")
    BY <1>1, <1>8 DEF Half
  <2> QED
    BY <1>1, <2>1, StackFor DEF Half
<1>11. \A y \in Visits(e) : y \in C \/ (y \in Visits(b) /\ (y # x \/ plan[x].kind = "create_bf"))
  BY <1>1, <1>4, <1>5, <1>9
<1>12. \A y \in Half(e) : y \in Half(b) \/ y = x
  BY <1>1, <1>10
<1>13. \A y \in Op : plan[y].kind = "create_bf" /\ s[y] = NoPipeline => t[y] = NoPipeline /\ y # x
  BY <1>5
<1> DEFINE W == V \cup {x}
<1>w. W = V \cup {x}
  OBVIOUS
<1> HIDE DEF W
<1>14. Progress(Visits(e), Half(e), s, W)
  BY <1>w, <1>2, <1>6, <1>11, <1>12, <1>13, ProgressVisit
<1>15. OneMeta(e, W)
  <2>1. CASE SameSinks(b, e)
    BY <1>2, <1>w, <2>1, SameOneMeta
  <2>2. CASE NewSink(b, e, x)
    BY <1>2, <1>6, <2>2, NewOneMeta DEF W
  <2> QED
    BY <2>1, <2>2
<1>16. VisitedBy(e, W)
  BY <1>14, <1>15 DEF VisitedBy, s
<1> QED
  BY <1>9, <1>10, <1>16 DEF SeenOnce

\* A call returns without visiting an operator.
LEMMA ReturnDone ==
  ASSUME NEW b, SeenOnce(b), NEW e, StackedOn(<<>>, b.calls, e.calls), SameSinks(b, e),
         e.this_pipeline = b.this_pipeline
  PROVE  SeenOnce(e)
<1> DEFINE cs == <<>>
<1>1. \A fn : OnceFor(cs, fn) /\ For(cs, fn) = {}
  BY NoCalls DEF OnceFor, For
<1>2. StackedOn(cs, b.calls, e.calls)
  OBVIOUS
<1> HIDE DEF cs
<1>3. OnceFor(b.calls, "BuildPipelines") /\ OnceFor(b.calls, "CreatePipeline")
  BY DEF SeenOnce
<1>4. PICK V : Progress(Visits(b), Half(b), b.this_pipeline, V) /\ OneMeta(b, V)
  BY DEF SeenOnce, VisitedBy
<1>5. OnceFor(e.calls, "BuildPipelines") /\ Visits(e) \subseteq Visits(b)
  <2>1. /\ OnceFor(e.calls, "BuildPipelines")
        /\ \A op \in For(e.calls, "BuildPipelines") : op \in For(b.calls, "BuildPipelines")
    BY <1>1, <1>2, <1>3, StackFor
  <2> QED
    BY <2>1 DEF Visits
<1>6. OnceFor(e.calls, "CreatePipeline") /\ Half(e) \subseteq Half(b)
  <2>1. /\ OnceFor(e.calls, "CreatePipeline")
        /\ \A op \in For(e.calls, "CreatePipeline") : op \in For(b.calls, "CreatePipeline")
    BY <1>1, <1>2, <1>3, StackFor
  <2> QED
    BY <2>1 DEF Half
<1>7. VisitedBy(e, V)
  BY <1>4, <1>5, <1>6, ProgressLess, SameOneMeta DEF VisitedBy
<1> QED
  BY <1>5, <1>6, <1>7 DEF SeenOnce

\* The second child of an IEJoin is visited.
LEMMA RightDone ==
  ASSUME IsPlan(plan), NEW b, SeenOnce(b), NEW x \in Op, x = Head(b.calls).op, Head(b.calls).fn = "CreatePipeline",
         plan[x].kind = "iejoin", 2 \in DOMAIN plan[x].child, NEW e,
         NEW cs, StackedOn(cs, b.calls, e.calls), Makes(cs, {plan[x].child[2]}, {}),
         e.this_pipeline = b.this_pipeline, SameSinks(b, e)
  PROVE  SeenOnce(e)
<1> DEFINE h == b.calls[1]
           z == plan[x].child[2]
<1>1. /\ OnceFor(b.calls, "BuildPipelines") /\ OnceFor(b.calls, "CreatePipeline")
      /\ OnceFor(cs, "BuildPipelines") /\ OnceFor(cs, "CreatePipeline")
      /\ For(cs, "BuildPipelines") \subseteq {z} /\ For(cs, "CreatePipeline") = {}
  BY DEF SeenOnce, Makes
<1>2. PICK V : Progress(Visits(b), Half(b), b.this_pipeline, V) /\ OneMeta(b, V)
  BY DEF SeenOnce, VisitedBy
<1>3. Head(b.calls) = h /\ 1 \in DOMAIN b.calls
  BY Zenon DEF StackedOn
<1>4. x = h.op /\ h.fn = "CreatePipeline" /\ x \in Half(b)
  BY <1>3 DEF Half, For
<1> HIDE DEF h
<1>5. z \notin Visits(b)
  BY <1>2, <1>4, ProgressRight
<1> HIDE DEF z
<1>6. /\ OnceFor(e.calls, "BuildPipelines") /\ Visits(e) \subseteq Visits(b) \cup {z}
  <2>1. \A op \in For(cs, "BuildPipelines") : op \notin For(b.calls, "BuildPipelines")
    BY <1>1, <1>5 DEF Visits
  <2>2. /\ OnceFor(e.calls, "BuildPipelines")
        /\ \A op \in For(e.calls, "BuildPipelines") :
             op \in For(cs, "BuildPipelines") \/ op \in For(b.calls, "BuildPipelines")
    BY <1>1, <2>1, StackFor
  <2> QED
    BY <1>1, <2>2 DEF Visits
<1>7. OnceFor(e.calls, "CreatePipeline") /\ Half(e) \subseteq Half(b) \ {x}
  <2>1. \A op \in For(cs, "CreatePipeline") : op \notin For(b.calls, "CreatePipeline")
    BY <1>1
  <2>2. /\ OnceFor(e.calls, "CreatePipeline")
        /\ \A op \in For(e.calls, "CreatePipeline") :
             \/ op \in For(cs, "CreatePipeline")
             \/ op \in For(b.calls, "CreatePipeline") /\ ~(h.fn = "CreatePipeline" /\ h.op = op)
    BY <1>1, <2>1, StackFor DEF h
  <2> QED
    BY <1>1, <1>4, <2>2 DEF Half
<1>8. VisitedBy(e, V)
  <2>1. Progress(Visits(e), Half(e), b.this_pipeline, V)
    BY <1>2, <1>4, <1>6, <1>7, ProgressRight DEF z
  <2> QED
    BY <1>2, <2>1, SameOneMeta DEF VisitedBy
<1> QED
  BY <1>6, <1>7, <1>8 DEF SeenOnce

\* The next state is as the value that is assigned.
LEMMA SeenAssigned ==
  ASSUME NEW b, SeenOnce(b), build' = b, plan' = plan
  PROVE  SeenOnce(build)'
<1>1. PICK V : VisitedBy(b, V)
  BY DEF SeenOnce
<1>2. VisitedBy(build, V)'
  BY <1>1 DEF VisitedBy, Progress, OneMeta, Visits, Half, For, Op
<1>3. OnceFor(build.calls, "BuildPipelines")' /\ OnceFor(build.calls, "CreatePipeline")'
  BY DEF SeenOnce, OnceFor
<1> QED
  BY <1>2, <1>3 DEF SeenOnce


\* What the parts of a call do to the sinks.
LEMMA SinksKept ==
  ASSUME NEW b, NEW d, Extends(b, d)
  PROVE  /\ DOMAIN d.metas = DOMAIN b.metas => SameSinks(b, d)
         /\ \A p, x : NewChild(b, d, p, x) => NewSink(b, d, x)
<1>1. DOMAIN d.metas = DOMAIN b.metas => SameSinks(b, d)
  BY DEF Extends, SameSinks
<1>2. ASSUME NEW p, NEW x, NewChild(b, d, p, x)
      PROVE  NewSink(b, d, x)
  <2> DEFINE k == Len(d.metas)
  <2>1. k \notin DOMAIN b.metas /\ DOMAIN d.metas = DOMAIN b.metas \cup {k} /\ d.metas[k].sink = x
    BY <1>2 DEF NewChild
  <2> HIDE DEF k
  <2> QED
    BY <2>1 DEF Extends, NewSink
<1> QED
  BY <1>1, <1>2

\* One after the other.
LEMMA SinksTwice ==
  ASSUME NEW a, NEW b, NEW d
  PROVE  /\ SameSinks(a, b) /\ SameSinks(b, d) => SameSinks(a, d)
         /\ \A x : SameSinks(a, b) /\ NewSink(b, d, x) => NewSink(a, d, x)
         /\ \A x : NewSink(a, b, x) /\ SameSinks(b, d) => NewSink(a, d, x)
<1>1. SameSinks(a, b) /\ SameSinks(b, d) => SameSinks(a, d)
  BY DEF SameSinks
<1>2. ASSUME NEW x, SameSinks(a, b), NewSink(b, d, x)
      PROVE  NewSink(a, d, x)
  BY <1>2 DEF SameSinks, NewSink
<1>3. ASSUME NEW x, NewSink(a, b, x), SameSinks(b, d)
      PROVE  NewSink(a, d, x)
  <2>1. PICK k : k \notin DOMAIN a.metas /\ DOMAIN b.metas = DOMAIN a.metas \cup {k} /\ b.metas[k].sink = x
    BY <1>3 DEF NewSink
  <2> QED
    BY <1>3, <2>1 DEF SameSinks, NewSink
<1> QED
  BY <1>1, <1>2, <1>3

\* The children that are visited.
LEMMA Children ==
  ASSUME IsPlan(plan), NEW x \in Op
  PROVE  /\ plan[x].kind # "source" => 1 \in DOMAIN plan[x].child /\ plan[x].child[1] \in Child(x)
         /\ plan[x].kind \in {"join", "iejoin", "union"} =>
              /\ 2 \in DOMAIN plan[x].child /\ plan[x].child[2] \in Child(x)
              /\ plan[x].child[1] # plan[x].child[2]
<1> DEFINE child == plan[x].child
           kind == plan[x].kind
           n == Len(child)
<1>1. child \in Seq(Op) /\ n >= Arity(kind) /\ kind \in Kinds
  BY DEF IsPlan, Op
<1>2. n \in Nat /\ DOMAIN child = 1..n
  BY <1>1
<1> HIDE DEF n
<1>3. /\ kind # "source" => Arity(kind) \in {1, 2}
      /\ kind \in {"join", "iejoin", "union"} => Arity(kind) = 2
  <2> HIDE DEF kind
  <2> QED
    BY DEF Arity
<1>4. /\ kind # "source" => 1 \in DOMAIN child
      /\ kind \in {"join", "iejoin", "union"} => 1 \in DOMAIN child /\ 2 \in DOMAIN child
  <2> HIDE DEF kind, child
  <2> QED
    BY <1>1, <1>2, <1>3
<1>5. kind \in {"join", "iejoin", "union"} => child[1] # child[2]
  <2> SUFFICES ASSUME kind \in {"join", "iejoin", "union"}, child[1] = child[2] PROVE FALSE
    OBVIOUS
  <2>1. 1 = 2
    BY <1>4, PlanIsTree
  <2> QED
    BY <2>1
<1> QED
  BY <1>4, <1>5 DEF Child

\* A call has visited its operator; d is what it has built.
LEMMA VisitReplaced ==
  ASSUME IsPlan(plan), Shape(build), SeenOnce(build), build.calls # <<>>,
         NEW x \in Op, x = Head(build.calls).op, NEW d, Shape(d), d.calls = build.calls,
         NEW cs, NEW C, NEW G, Makes(cs, C, G), C \subseteq Child(x), G \subseteq {x}, FirstOnly(x, C),
         NEW e, e = Replace(d, cs), Build(e),
         Visiting(build, d, x), SameSinks(build, d) \/ NewSink(build, d, x)
  PROVE  SeenOnce(build)'
<1>1. IsSeq(cs)
  BY DEF Makes
<1>2. StackedOn(cs, build.calls, e.calls) /\ SameSinks(d, e) /\ e.this_pipeline = d.this_pipeline
  BY <1>1, ReplaceStacks
<1>3. SameSinks(build, e) \/ NewSink(build, e, x)
  BY <1>2, SinksTwice
<1>4. Visiting(build, e, x)
  BY <1>2 DEF Visiting
<1>5. SeenOnce(e)
  BY <1>2, <1>3, <1>4, VisitDone
<1> QED
  BY <1>5, SeenAssigned DEF Build

\* A call has returned without visiting an operator.
LEMMA ReturnReplaced ==
  ASSUME Shape(build), SeenOnce(build), build.calls # <<>>, NEW d, Shape(d), d.calls = build.calls,
         NEW e, e = Replace(d, <<>>), Build(e), SameSinks(build, d), d.this_pipeline = build.this_pipeline
  PROVE  SeenOnce(build)'
<1>1. StackedOn(<<>>, build.calls, e.calls) /\ SameSinks(d, e) /\ e.this_pipeline = d.this_pipeline
  BY NoCalls, ReplaceStacks
<1>2. SameSinks(build, e)
  BY <1>1, SinksTwice
<1>3. SeenOnce(e)
  BY <1>1, <1>2, ReturnDone
<1> QED
  BY <1>3, SeenAssigned DEF Build

-----------------------------------------------------------------------------
(* No call visits an operator again *)

\* BuildSource.
LEMMA BuildSourceOnce ==
  ASSUME IsPlan(plan), Shape(build), Waits(build), SeenOnce(build), BuildSource
  PROVE  SeenOnce(build)'
<1> DEFINE c == Head(build.calls)
           d == SetPipelineSource(build, c.pipe, c.op)
           e == Replace(d, <<>>)
<1>1. Calling("BuildPipelines", "source") /\ Build(e)
  BY Zenon DEF BuildSource
<1>2. build.calls # <<>> /\ c.pipe \in DOMAIN build.pipelines
  BY <1>1, TopBuild
<1>3. Shape(d)
  BY SetPipelineSourceShape
<1>4. Extends(build, d) /\ NothingNew(build, d)
  BY <1>2, SetPipelineSourceExtends
<1> HIDE DEF d
<1>5. SameSinks(build, d) /\ d.calls = build.calls /\ d.this_pipeline = build.this_pipeline
  BY <1>4, SinksKept DEF NothingNew
<1> QED
  BY <1>1, <1>2, <1>3, <1>5, ReturnReplaced

\* BuildStreaming.
LEMMA BuildStreamingOnce ==
  ASSUME IsPlan(plan), Shape(build), Waits(build), SeenOnce(build), BuildStreaming
  PROVE  SeenOnce(build)'
<1> DEFINE c == Head(build.calls)
           d == AddPipelineOperator(build, c.pipe, c.op)
           y == [c EXCEPT !.op = plan[c.op].child[1]]
           cs == <<y>>
           e == Replace(d, cs)
           C == {plan[c.op].child[1]}
<1>1. Calling("BuildPipelines", "streaming") /\ Build(e)
  BY Zenon DEF BuildStreaming
<1>2. /\ build.calls # <<>> /\ c.op \in Op /\ plan[c.op].kind = "streaming" /\ c.fn = "BuildPipelines"
      /\ c.pipe \in DOMAIN build.pipelines /\ DOMAIN c = CallFields
  BY <1>1, TopBuild
<1>3. Shape(d)
  BY AddPipelineOperatorShape
<1>4. Extends(build, d) /\ NothingNew(build, d)
  BY <1>2, AddPipelineOperatorExtends
<1>5. y.fn = "BuildPipelines" /\ y.op = plan[c.op].child[1]
  BY <1>2 DEF CallFields
<1> HIDE DEF d, y
<1>6. Makes(cs, C, {})
  BY <1>5, CallsSingle
<1>7. C \subseteq Child(c.op) /\ FirstOnly(c.op, C)
  BY <1>2, Children DEF FirstOnly
<1>8. SameSinks(build, d) /\ d.calls = build.calls /\ d.this_pipeline = build.this_pipeline
  BY <1>4, SinksKept DEF NothingNew
<1>9. Visiting(build, d, c.op)
  BY <1>2, <1>8 DEF Visiting
<1>10. e = Replace(d, cs) /\ {} \subseteq {c.op}
  OBVIOUS
<1> HIDE DEF cs, e, C
<1> QED
  BY <1>1, <1>2, <1>3, <1>6, <1>7, <1>8, <1>9, <1>10, VisitReplaced


\* A MetaPipeline is made for the operator of the call; a is build with the operator or the source added.
LEMMA ChildSink ==
  ASSUME Shape(build), NEW a, Shape(a), NEW p \in DOMAIN build.pipelines, NEW m, NEW x,
         Extends(build, a), NothingNew(build, a),
         NEW d, d = CreateChildMetaPipeline(a, p, m, x)
  PROVE  /\ NewSink(build, d, x) /\ d.calls = build.calls /\ d.this_pipeline = build.this_pipeline
<1>1. p \in DOMAIN a.pipelines
  BY DEF NothingNew
<1>2. Extends(a, d) /\ NewChild(a, d, p, x)
  BY <1>1, CreateChildMetaPipelineExtends
<1>3. NewSink(a, d, x) /\ SameSinks(build, a)
  BY <1>2, SinksKept DEF NothingNew
<1>4. NewSink(build, d, x)
  BY <1>3, SinksTwice
<1> QED
  BY <1>2, <1>4 DEF NewChild, NothingNew

\* BuildSink.
LEMMA BuildSinkOnce ==
  ASSUME IsPlan(plan), Shape(build), Waits(build), SeenOnce(build), BuildSink
  PROVE  SeenOnce(build)'
<1> DEFINE c == Head(build.calls)
           a == SetPipelineSource(build, c.pipe, c.op)
           d == CreateChildMetaPipeline(a, c.pipe, c.meta, c.op)
           y == BuildNewest(d, plan[c.op].child[1])
           cs == <<y>>
           e == Replace(d, cs)
           C == {plan[c.op].child[1]}
<1>1. Calling("BuildPipelines", "sink") /\ Build(e)
  BY Zenon DEF BuildSink
<1>2. /\ build.calls # <<>> /\ c.op \in Op /\ plan[c.op].kind = "sink" /\ c.fn = "BuildPipelines"
      /\ c.pipe \in DOMAIN build.pipelines
  BY <1>1, TopBuild
<1>3. Shape(a)
  BY SetPipelineSourceShape
<1>4. Extends(build, a) /\ NothingNew(build, a)
  BY <1>2, SetPipelineSourceExtends
<1> HIDE DEF a
<1>5. Shape(d)
  BY <1>3, CreateChildMetaPipelineShape
<1>6. NewSink(build, d, c.op) /\ d.calls = build.calls /\ d.this_pipeline = build.this_pipeline
  BY <1>2, <1>3, <1>4, ChildSink
<1> HIDE DEF d
<1>7. y.fn = "BuildPipelines" /\ y.op = plan[c.op].child[1]
  BY DEF BuildNewest, Call
<1> HIDE DEF y
<1>8. Makes(cs, C, {})
  BY <1>7, CallsSingle
<1>9. C \subseteq Child(c.op) /\ FirstOnly(c.op, C)
  BY <1>2, Children DEF FirstOnly
<1>10. Visiting(build, d, c.op)
  BY <1>2, <1>6 DEF Visiting
<1>11. e = Replace(d, cs) /\ {} \subseteq {c.op}
  OBVIOUS
<1> HIDE DEF cs, e, C
<1> QED
  BY <1>1, <1>2, <1>5, <1>6, <1>8, <1>9, <1>10, <1>11, VisitReplaced

\* A CreateBF, reached from above or from a UseBF; b is build, perhaps with the source set.
LEMMA CreateBFPipelineOnce ==
  ASSUME IsPlan(plan), Shape(build), Waits(build), SeenOnce(build), build.calls # <<>>, NEW c, c = Head(build.calls),
         c.op \in Op, plan[c.op].kind = "create_bf", c.pipe \in DOMAIN build.pipelines,
         NEW b, Shape(b), Extends(build, b), NothingNew(build, b), Build(CreateBFPipeline(b, c))
  PROVE  SeenOnce(build)'
<1>r. DOMAIN build.this_pipeline = Op /\ b.this_pipeline = build.this_pipeline
  BY DEF Waits, NothingNew, Remembered
<1>1. CASE b.this_pipeline[c.op] = NoPipeline
  <2> DEFINE made  == CreateChildMetaPipeline(b, c.pipe, c.meta, c.op)
             d     == [made EXCEPT !.this_pipeline[c.op] = Len(made.pipelines)]
             y     == BuildNewest(d, plan[c.op].child[1])
             cs    == <<y>>
             e     == Replace(d, cs)
             C     == {plan[c.op].child[1]}
  <2>1. CreateBFPipeline(b, c) = e
    BY <1>1, Zenon DEF CreateBFPipeline
  <2>2. Shape(made)
    BY CreateChildMetaPipelineShape
  <2>3. NewSink(build, made, c.op) /\ made.calls = build.calls /\ made.this_pipeline = build.this_pipeline
    BY ChildSink
  <2>4. Len(made.pipelines) # NoPipeline
    <3>1. made.pipelines # <<>>
      <4>1. Extends(b, made) /\ c.pipe \in DOMAIN b.pipelines
        BY CreateChildMetaPipelineExtends DEF NothingNew
      <4> HIDE DEF made
      <4> QED
        BY <4>1, NoCalls DEF Extends
    <3> HIDE DEF made
    <3> QED
      BY <2>2, <3>1, IsSeqAppend DEF Shape, NoPipeline, IsSeq
  <2> HIDE DEF made
  <2>5. /\ DOMAIN d = BuildFields /\ d.metas = made.metas /\ d.pipelines = made.pipelines
        /\ d.calls = made.calls /\ d.root = made.root
        /\ \A op \in DOMAIN made.this_pipeline : op # c.op => d.this_pipeline[op] = made.this_pipeline[op]
        /\ c.op \in DOMAIN made.this_pipeline => d.this_pipeline[c.op] = Len(made.pipelines)
    BY <2>2 DEF Shape, BuildFields
  <2> HIDE DEF d
  <2>6. Shape(d)
    <3>1. IsSeq(d.pipelines) /\ DOMAIN d.pipelines = DOMAIN made.pipelines
      BY <2>2, <2>5 DEF Shape
    <3>2. \A q \in DOMAIN made.pipelines : /\ DOMAIN d.pipelines[q] = PipelineFields
                                           /\ Listed(d.pipelines[q])
                                           /\ d.pipelines[q].meta = made.pipelines[q].meta
                                           /\ d.pipelines[q].group = made.pipelines[q].group
      BY <2>2, <2>5 DEF Shape, PipelineOK
    <3> QED
      BY <2>2, <2>5, <3>1, <3>2, SamePipelines
  <2>7. NewSink(build, d, c.op) /\ d.calls = build.calls
    <3>1. SameSinks(made, d)
      BY <2>5 DEF SameSinks
    <3> QED
      BY <2>3, <2>5, <3>1, SinksTwice
  <2>8. Visiting(build, d, c.op)
    BY <1>1, <1>r, <2>3, <2>4, <2>5 DEF Visiting
  <2>9. y.fn = "BuildPipelines" /\ y.op = plan[c.op].child[1]
    BY DEF BuildNewest, Call
  <2> HIDE DEF y
  <2>10. Makes(cs, C, {})
    BY <2>9, CallsSingle
  <2>11. C \subseteq Child(c.op) /\ FirstOnly(c.op, C)
    BY Children DEF FirstOnly
  <2>12. e = Replace(d, cs) /\ {} \subseteq {c.op}
    OBVIOUS
  <2> HIDE DEF cs, e, C
  <2>13. Build(e)
    BY <2>1, Zenon
  <2> QED
    BY <2>6, <2>7, <2>8, <2>10, <2>11, <2>12, <2>13, VisitReplaced
<1>2. CASE b.this_pipeline[c.op] # NoPipeline
  <2> DEFINE q == b.this_pipeline[c.op]
             d == AddDependency(b, c.pipe, q)
             e == Replace(d, <<>>)
  <2>1. CreateBFPipeline(b, c) = e
    BY <1>2, Zenon DEF CreateBFPipeline
  <2>2. Shape(d)
    BY AddDependencyShape
  <2>3. Extends(b, d) /\ NothingNew(b, d)
    <3> HIDE DEF q
    <3> QED
      BY AddDependencyExtends DEF NothingNew
  <2> HIDE DEF d
  <2>4. SameSinks(build, d) /\ d.calls = build.calls /\ d.this_pipeline = build.this_pipeline
    <3>1. SameSinks(build, b) /\ SameSinks(b, d)
      BY <2>3, SinksKept DEF NothingNew
    <3> QED
      BY <2>3, <3>1, SinksTwice DEF NothingNew
  <2>5. e = Replace(d, <<>>)
    OBVIOUS
  <2> HIDE DEF e
  <2>6. Build(e)
    BY <2>1, Zenon
  <2> QED
    BY <2>2, <2>4, <2>5, <2>6, ReturnReplaced
<1> QED
  BY <1>1, <1>2

\* BuildCreateBF.
LEMMA BuildCreateBFOnce ==
  ASSUME IsPlan(plan), Shape(build), Waits(build), SeenOnce(build), BuildCreateBF
  PROVE  SeenOnce(build)'
<1> DEFINE c == Head(build.calls)
           b == SetPipelineSource(build, c.pipe, c.op)
<1>1. Calling("BuildPipelines", "create_bf") /\ Build(CreateBFPipeline(b, c))
  BY Zenon DEF BuildCreateBF
<1>2. /\ build.calls # <<>> /\ c.op \in Op /\ plan[c.op].kind = "create_bf"
      /\ c.pipe \in DOMAIN build.pipelines
  BY <1>1, TopBuild
<1>3. Shape(b)
  BY SetPipelineSourceShape
<1>4. Extends(build, b) /\ NothingNew(build, b)
  BY <1>2, SetPipelineSourceExtends
<1>5. c = Head(build.calls)
  OBVIOUS
<1> HIDE DEF b, c
<1> QED
  BY <1>1, <1>2, <1>3, <1>4, <1>5, CreateBFPipelineOnce

\* BuildPipelinesFromRelated.
LEMMA BuildPipelinesFromRelatedOnce ==
  ASSUME IsPlan(plan), Shape(build), Waits(build), SeenOnce(build), BuildPipelinesFromRelated
  PROVE  SeenOnce(build)'
<1> DEFINE c == Head(build.calls)
<1>1. Calling("BuildPipelinesFromRelated", "create_bf") /\ Build(CreateBFPipeline(build, c))
  BY Zenon DEF BuildPipelinesFromRelated
<1>2. /\ build.calls # <<>> /\ c.op \in Op /\ plan[c.op].kind = "create_bf"
      /\ c.pipe \in DOMAIN build.pipelines
  BY <1>1, TopBuild
<1>3. Extends(build, build) /\ NothingNew(build, build)
  BY SameExtends DEF NothingNew
<1>4. c = Head(build.calls)
  OBVIOUS
<1> HIDE DEF c
<1> QED
  BY <1>1, <1>2, <1>3, <1>4, CreateBFPipelineOnce

\* BuildUseBF.
LEMMA BuildUseBFOnce ==
  ASSUME IsPlan(plan), Shape(build), Waits(build), SeenOnce(build), BuildUseBF
  PROVE  SeenOnce(build)'
<1> DEFINE c == Head(build.calls)
           d == AddPipelineOperator(build, c.pipe, c.op)
           cs == UseBFCalls(c)
           e == Replace(d, cs)
           C == {plan[c.op].child[1]}
           R == Len(plan[c.op].related)
<1>1. Calling("BuildPipelines", "use_bf") /\ Build(e)
  BY Zenon DEF BuildUseBF
<1>2. /\ build.calls # <<>> /\ c.op \in Op /\ plan[c.op].kind = "use_bf" /\ c.fn = "BuildPipelines"
      /\ c.pipe \in DOMAIN build.pipelines /\ DOMAIN c = CallFields
  BY <1>1, TopBuild
<1>3. Shape(d)
  BY AddPipelineOperatorShape
<1>4. Extends(build, d) /\ NothingNew(build, d)
  BY <1>2, AddPipelineOperatorExtends
<1> HIDE DEF d
<1>5. Makes(cs, C, {})
  <2>1. /\ IsSeq(cs) /\ R \in Nat /\ DOMAIN cs = 1..(R + 1)
        /\ \A i \in 1..R : FromRelated(cs[i])
        /\ cs[R + 1].op = plan[c.op].child[1]
    <3> HIDE DEF c
    <3> QED
      BY <1>2, UseBFMakes
  <2> HIDE DEF cs, R
  <2>2. \A i \in DOMAIN cs : cs[i].fn \in {"BuildPipelines", "CreatePipeline"} => i = R + 1
    BY <2>1 DEF FromRelated
  <2>3. For(cs, "BuildPipelines") \subseteq C
    BY <2>1, <2>2 DEF For
  <2>4. For(cs, "CreatePipeline") = {}
    <3>1. cs[R + 1].fn = "BuildPipelines"
      <4> HIDE DEF c
      <4> QED
        BY <1>2, UseBFMakes DEF cs, R
    <3> QED
      BY <2>2, <3>1 DEF For
  <2> QED
    BY <2>1, <2>2, <2>3, <2>4 DEF Makes, OnceFor
<1>6. C \subseteq Child(c.op) /\ FirstOnly(c.op, C)
  BY <1>2, Children DEF FirstOnly
<1>7. SameSinks(build, d) /\ d.calls = build.calls /\ d.this_pipeline = build.this_pipeline
  BY <1>4, SinksKept DEF NothingNew
<1>8. Visiting(build, d, c.op)
  BY <1>2, <1>7 DEF Visiting
<1>9. e = Replace(d, cs) /\ {} \subseteq {c.op}
  OBVIOUS
<1> HIDE DEF cs, e, C
<1> QED
  BY <1>1, <1>2, <1>3, <1>5, <1>6, <1>7, <1>8, <1>9, VisitReplaced


\* BuildJoin.
LEMMA BuildJoinOnce ==
  ASSUME IsPlan(plan), Shape(build), Waits(build), SeenOnce(build), BuildJoin
  PROVE  SeenOnce(build)'
<1> DEFINE c == Head(build.calls)
           last == Last(build.metas[c.meta].pipelines)
           a == AddPipelineOperator(build, c.pipe, c.op)
           d == CreateChildMetaPipeline(a, c.pipe, c.meta, c.op)
           x == BuildNewest(d, plan[c.op].child[2])
           y == [c EXCEPT !.op = plan[c.op].child[1]]
           z == [c EXCEPT !.fn = "CreateChildPipeline", !.last = last]
           zs == IF plan[c.op].flag THEN <<z>> ELSE <<>>
           cs == <<x, y>> \o zs
           e == Replace(d, cs)
           A == {plan[c.op].child[2]}
           B == {plan[c.op].child[1]}
           C == A \cup B
<1>1. Calling("BuildPipelines", "join") /\ Build(e)
  BY ZenonT(30) DEF BuildJoin
<1>2. /\ build.calls # <<>> /\ c.op \in Op /\ plan[c.op].kind = "join" /\ c.fn = "BuildPipelines"
      /\ c.pipe \in DOMAIN build.pipelines /\ DOMAIN c = CallFields
  BY <1>1, TopBuild
<1>3. Shape(a)
  BY AddPipelineOperatorShape
<1>4. Extends(build, a) /\ NothingNew(build, a)
  BY <1>2, AddPipelineOperatorExtends
<1> HIDE DEF a, last
<1>5. Shape(d)
  BY <1>3, CreateChildMetaPipelineShape
<1>6. NewSink(build, d, c.op) /\ d.calls = build.calls /\ d.this_pipeline = build.this_pipeline
  BY <1>2, <1>3, <1>4, ChildSink
<1> HIDE DEF d
<1>7. /\ x.fn = "BuildPipelines" /\ x.op = plan[c.op].child[2]
      /\ y.fn = "BuildPipelines" /\ y.op = plan[c.op].child[1]
      /\ z.fn = "CreateChildPipeline"
  BY <1>2 DEF CallFields, BuildNewest, Call
<1> HIDE DEF x, y, z
<1>8. A \cap B = {} /\ C \subseteq Child(c.op) /\ FirstOnly(c.op, C)
  BY <1>2, Children DEF FirstOnly
<1>9. Makes(cs, C, {})
  <2>1. Makes(<<x>>, A, {}) /\ Makes(<<y>>, B, {})
    BY <1>7, CallsSingle
  <2>2. Makes(zs, {}, {})
    <3>1. Makes(<<z>>, {}, {}) /\ Makes(<<>>, {}, {})
      BY <1>7, CallsSingle
    <3> QED
      BY <3>1
  <2>3. <<x, y>> = <<x>> \o <<y>>
    BY PairConcat, Zenon
  <2> HIDE DEF zs, A, B
  <2>4. Makes(<<x>> \o <<y>>, C, {})
    BY <1>8, <2>1, CallsConcat
  <2>5. Makes(<<x, y>>, C, {})
    BY <2>3, <2>4, Zenon
  <2> HIDE DEF C
  <2> QED
    BY <2>2, <2>5, CallsConcat
<1>10. Visiting(build, d, c.op)
  BY <1>2, <1>6 DEF Visiting
<1>11. e = Replace(d, cs) /\ {} \subseteq {c.op}
  OBVIOUS
<1> HIDE DEF cs, e, C
<1> QED
  BY <1>1, <1>2, <1>5, <1>6, <1>8, <1>9, <1>10, <1>11, VisitReplaced

\* BuildJoinSource.
LEMMA BuildJoinSourceOnce ==
  ASSUME IsPlan(plan), Shape(build), Waits(build), SeenOnce(build), BuildJoinSource
  PROVE  SeenOnce(build)'
<1> DEFINE c == Head(build.calls)
           n == Len(build.pipelines) + 1
           ops == build.pipelines[c.pipe].operators
           above == SubSeq(ops, 1, SelectInSeq(ops, LAMBDA o : o = c.op) - 1)
           r == [NewPipeline(c.meta) EXCEPT !.source = c.op, !.operators = above, !.inner = <<c.pipe>>]
           a == AddPipeline(build, c.meta, r)
           d == CreateChildPipeline(build, c.pipe, c.meta, c.op, c.last)
           e == Replace(d, <<>>)
<1>1. Calling("CreateChildPipeline", "join") /\ Build(e)
  BY Zenon DEF BuildJoinSource
<1>2. /\ build.calls # <<>> /\ c.meta \in DOMAIN build.metas /\ c.pipe \in DOMAIN build.pipelines
  BY <1>1, TopBuild
<1> HIDE DEF c
<1>3. Shape(d)
  BY <1>2, CreateChildPipelineShape
<1>4. d = AddDependenciesFrom(a, c.meta, n, c.last)
  BY Zenon DEF CreateChildPipeline
<1> HIDE DEF r, d
<1>5. SameSinks(build, a) /\ a.calls = build.calls /\ a.this_pipeline = build.this_pipeline
  <2>1. a = AddPipeline(build, c.meta, r) /\ n = Len(build.pipelines) + 1
    OBVIOUS
  <2> HIDE DEF a, n
  <2>2. Extends(build, a) /\ NewPipe(build, a, n, r)
    BY <1>2, <2>1, AddPipelineExtends
  <2>3. DOMAIN a.metas = DOMAIN build.metas /\ a.calls = build.calls /\ a.this_pipeline = build.this_pipeline
    BY <2>2 DEF NewPipe
  <2> QED
    BY <2>2, <2>3, SinksKept
<1>6. DOMAIN a = BuildFields
  BY DEF AddPipeline, Shape
<1> HIDE DEF a, n
<1>7. d.metas = a.metas /\ d.root = a.root /\ d.calls = a.calls /\ d.this_pipeline = a.this_pipeline
  BY <1>4, <1>6 DEF AddDependenciesFrom, BuildFields
<1>8. SameSinks(build, d) /\ d.calls = build.calls /\ d.this_pipeline = build.this_pipeline
  BY <1>5, <1>7 DEF SameSinks
<1> QED
  BY <1>1, <1>2, <1>3, <1>8, ReturnReplaced

\* BuildUnion.
LEMMA BuildUnionOnce ==
  ASSUME IsPlan(plan), Shape(build), Waits(build), SeenOnce(build), BuildUnion
  PROVE  SeenOnce(build)'
<1> DEFINE c == Head(build.calls)
           n == Len(build.pipelines) + 1
           flag == plan[c.op].flag
           r == [NewPipeline(c.meta) EXCEPT !.operators    = build.pipelines[c.pipe].operators,
                                            !.dependencies = build.pipelines[c.pipe].dependencies,
                                            !.inner        = build.pipelines[c.pipe].inner \o (IF flag THEN <<c.pipe>> ELSE <<>>)]
           d == CreateUnionPipeline(build, c.pipe, c.meta, flag)
           x == [c EXCEPT !.op = plan[c.op].child[1]]
           z == [c EXCEPT !.fn = "AddDependenciesFrom", !.pipe = n]
           y == [c EXCEPT !.op = plan[c.op].child[2], !.pipe = n]
           zs == IF flag THEN <<z>> ELSE <<>>
           cs == <<x>> \o zs \o <<y>>
           e == Replace(d, cs)
           A == {plan[c.op].child[1]}
           B == {plan[c.op].child[2]}
           C == A \cup B
<1>1. Calling("BuildPipelines", "union") /\ Build(e)
  BY ZenonT(30) DEF BuildUnion
<1>2. /\ build.calls # <<>> /\ c.op \in Op /\ plan[c.op].kind = "union" /\ c.fn = "BuildPipelines"
      /\ c.pipe \in DOMAIN build.pipelines /\ DOMAIN c = CallFields /\ c.meta \in DOMAIN build.metas
  BY <1>1, TopBuild
<1>3. c = Head(build.calls)
  OBVIOUS
<1> HIDE DEF c, flag
<1>4. Shape(d)
  BY <1>2, CreateUnionPipelineShape
<1>5. d = AddPipeline(build, c.meta, r) /\ n = Len(build.pipelines) + 1
  BY Zenon DEF CreateUnionPipeline
<1> HIDE DEF d, n, r
<1>6. SameSinks(build, d) /\ d.calls = build.calls /\ d.this_pipeline = build.this_pipeline
  <2>1. Extends(build, d) /\ NewPipe(build, d, n, r)
    BY <1>2, <1>5, AddPipelineExtends
  <2>2. DOMAIN d.metas = DOMAIN build.metas /\ d.calls = build.calls /\ d.this_pipeline = build.this_pipeline
    BY <2>1 DEF NewPipe
  <2> QED
    BY <2>1, <2>2, SinksKept
<1>7. /\ x.fn = "BuildPipelines" /\ x.op = plan[c.op].child[1]
      /\ y.fn = "BuildPipelines" /\ y.op = plan[c.op].child[2]
      /\ z.fn = "AddDependenciesFrom"
  BY <1>2 DEF CallFields
<1> HIDE DEF x, y, z
<1>8. A \cap B = {} /\ C \subseteq Child(c.op) /\ FirstOnly(c.op, C)
  BY <1>2, Children DEF FirstOnly
<1>9. Makes(cs, C, {})
  <2>1. Makes(<<x>>, A, {}) /\ Makes(<<y>>, B, {})
    BY <1>7, CallsSingle
  <2>2. Makes(zs, {}, {})
    <3>1. Makes(<<z>>, {}, {}) /\ Makes(<<>>, {}, {})
      BY <1>7, CallsSingle
    <3> QED
      BY <3>1
  <2> HIDE DEF zs, A, B
  <2>3. Makes(<<x>> \o zs, A, {})
    BY <2>1, <2>2, CallsConcat
  <2> QED
    BY <1>8, <2>1, <2>3, CallsConcat
<1>10. Visiting(build, d, c.op)
  BY <1>2, <1>3, <1>6 DEF Visiting
<1>11. e = Replace(d, cs) /\ {} \subseteq {c.op}
  OBVIOUS
<1> HIDE DEF cs, e, C
<1> QED
  BY <1>1, <1>2, <1>3, <1>4, <1>6, <1>8, <1>9, <1>10, <1>11, VisitReplaced

\* BuildUnionOrder.
LEMMA BuildUnionOrderOnce ==
  ASSUME IsPlan(plan), Shape(build), Waits(build), SeenOnce(build), BuildUnionOrder
  PROVE  SeenOnce(build)'
<1> DEFINE c == Head(build.calls)
           d == AddDependenciesFrom(build, c.meta, c.pipe, c.pipe)
           e == Replace(d, <<>>)
<1>1. Calling("AddDependenciesFrom", "union") /\ Build(e)
  BY Zenon DEF BuildUnionOrder
<1>2. build.calls # <<>> /\ c.meta \in DOMAIN build.metas /\ c.pipe \in DOMAIN build.pipelines
  BY <1>1, TopBuild
<1>3. Shape(d)
  BY <1>2, AddDependenciesFromShape
<1>4. Extends(build, d) /\ NothingNew(build, d)
  BY <1>2, AddDependenciesFromExtends
<1> HIDE DEF d
<1>5. SameSinks(build, d) /\ d.calls = build.calls /\ d.this_pipeline = build.this_pipeline
  BY <1>4, SinksKept DEF NothingNew
<1> QED
  BY <1>1, <1>2, <1>3, <1>5, ReturnReplaced

\* BuildIEJoin.
LEMMA BuildIEJoinOnce ==
  ASSUME IsPlan(plan), Shape(build), Waits(build), SeenOnce(build), BuildIEJoin
  PROVE  SeenOnce(build)'
<1> DEFINE c == Head(build.calls)
           a == SetPipelineSource(build, c.pipe, c.op)
           d == CreateChildMetaPipeline(a, c.pipe, c.meta, c.op)
           x == BuildNewest(d, plan[c.op].child[1])
           y == [c EXCEPT !.fn = "CreatePipeline", !.meta = Len(d.metas)]
           cs == <<x, y>>
           e == Replace(d, cs)
           C == {plan[c.op].child[1]}
           G == {c.op}
<1>1. Calling("BuildPipelines", "iejoin") /\ Build(e)
  BY Zenon DEF BuildIEJoin
<1>2. /\ build.calls # <<>> /\ c.op \in Op /\ plan[c.op].kind = "iejoin" /\ c.fn = "BuildPipelines"
      /\ c.pipe \in DOMAIN build.pipelines /\ DOMAIN c = CallFields
  BY <1>1, TopBuild
<1>3. Shape(a)
  BY SetPipelineSourceShape
<1>4. Extends(build, a) /\ NothingNew(build, a)
  BY <1>2, SetPipelineSourceExtends
<1> HIDE DEF a
<1>5. Shape(d)
  BY <1>3, CreateChildMetaPipelineShape
<1>6. NewSink(build, d, c.op) /\ d.calls = build.calls /\ d.this_pipeline = build.this_pipeline
  BY <1>2, <1>3, <1>4, ChildSink
<1> HIDE DEF d
<1>7. /\ x.fn = "BuildPipelines" /\ x.op = plan[c.op].child[1]
      /\ y.fn = "CreatePipeline" /\ y.op = c.op
  BY <1>2 DEF CallFields, BuildNewest, Call
<1> HIDE DEF x, y
<1>8. C \subseteq Child(c.op) /\ FirstOnly(c.op, C)
  BY <1>2, Children DEF FirstOnly
<1>9. Makes(cs, C, G)
  <2>1. Makes(<<x>>, C, {}) /\ Makes(<<y>>, {}, G)
    BY <1>7, CallsSingle
  <2>2. cs = <<x>> \o <<y>>
    BY PairConcat, Zenon
  <2> HIDE DEF cs, C, G
  <2>3. Makes(<<x>> \o <<y>>, C, G)
    BY <2>1, CallsConcat
  <2> QED
    BY <2>2, <2>3, Zenon
<1>10. Visiting(build, d, c.op)
  BY <1>2, <1>6 DEF Visiting
<1>11. e = Replace(d, cs) /\ G \subseteq {c.op}
  OBVIOUS
<1> HIDE DEF cs, e, C, G
<1> QED
  BY <1>1, <1>2, <1>5, <1>6, <1>8, <1>9, <1>10, <1>11, VisitReplaced

\* BuildIEJoinRight.
LEMMA BuildIEJoinRightOnce ==
  ASSUME IsPlan(plan), Shape(build), Waits(build), SeenOnce(build), BuildIEJoinRight
  PROVE  SeenOnce(build)'
<1> DEFINE c == Head(build.calls)
           r == NewPipeline(c.meta)
           d == AddPipeline(build, c.meta, r)
           n == Len(build.pipelines) + 1
           p == Len(d.pipelines)
           x == [c EXCEPT !.fn = "BuildPipelines", !.op = plan[c.op].child[2], !.pipe = p]
           y == [c EXCEPT !.fn = "AddFinishEvent", !.pipe = p]
           cs == <<x, y>>
           e == Replace(d, cs)
           C == {plan[c.op].child[2]}
<1>1. Calling("CreatePipeline", "iejoin") /\ Build(e)
  BY Zenon DEF BuildIEJoinRight
<1>2. /\ build.calls # <<>> /\ c.meta \in DOMAIN build.metas /\ DOMAIN c = CallFields
      /\ c.fn = "CreatePipeline" /\ c.op \in Op /\ plan[c.op].kind = "iejoin"
  BY <1>1, CallOnTop DEF Calling, CallOK
<1>3. Shape(d)
  <2> HIDE DEF c
  <2>1. /\ DOMAIN r = PipelineFields /\ r.meta = c.meta
        /\ r.group = NoPipeline /\ Listed(r)
    BY DEF NewPipeline, PipelineFields, Listed, IsSeq
  <2> HIDE DEF r
  <2> QED
    BY <1>2, <2>1, AddPipelineShape
<1> HIDE DEF r
<1>4. d = AddPipeline(build, c.meta, r) /\ n = Len(build.pipelines) + 1
  OBVIOUS
<1> HIDE DEF d, n
<1>5. SameSinks(build, d) /\ d.calls = build.calls /\ d.this_pipeline = build.this_pipeline
  <2>1. Extends(build, d) /\ NewPipe(build, d, n, r)
    BY <1>2, <1>4, AddPipelineExtends
  <2>2. DOMAIN d.metas = DOMAIN build.metas /\ d.calls = build.calls /\ d.this_pipeline = build.this_pipeline
    BY <2>1 DEF NewPipe
  <2> QED
    BY <2>1, <2>2, SinksKept
<1>6. x.fn = "BuildPipelines" /\ x.op = plan[c.op].child[2] /\ y.fn = "AddFinishEvent"
  <2> HIDE DEF p, c
  <2> QED
    BY <1>2 DEF CallFields
<1> HIDE DEF x, y
<1>7. Makes(cs, C, {})
  <2>1. Makes(<<x>>, C, {}) /\ Makes(<<y>>, {}, {})
    BY <1>6, CallsSingle
  <2>2. cs = <<x>> \o <<y>>
    BY PairConcat, Zenon
  <2> HIDE DEF cs, C
  <2>3. Makes(<<x>> \o <<y>>, C, {})
    BY <2>1, CallsConcat
  <2> QED
    BY <2>2, <2>3, Zenon
<1>8. e = Replace(d, cs)
  OBVIOUS
<1> HIDE DEF cs, e
<1>9. StackedOn(cs, build.calls, e.calls) /\ SameSinks(d, e) /\ e.this_pipeline = d.this_pipeline
  BY <1>2, <1>3, <1>5, <1>7, <1>8, ReplaceStacks DEF Makes
<1>10. SameSinks(build, e)
  BY <1>5, <1>9, SinksTwice
<1>11. 2 \in DOMAIN plan[c.op].child
  BY <1>2, Children
<1>12. SeenOnce(e)
  BY <1>2, <1>5, <1>7, <1>9, <1>10, <1>11, RightDone
<1> QED
  BY <1>1, <1>12, SeenAssigned DEF Build

\* BuildIEJoinFinish.
LEMMA BuildIEJoinFinishOnce ==
  ASSUME IsPlan(plan), Shape(build), Waits(build), SeenOnce(build), BuildIEJoinFinish
  PROVE  SeenOnce(build)'
<1> DEFINE c == Head(build.calls)
           d == AddFinishEvent(build, c.meta, c.pipe)
           e == Replace(d, <<>>)
<1>1. Calling("AddFinishEvent", "iejoin") /\ Build(e)
  BY Zenon DEF BuildIEJoinFinish
<1>2. build.calls # <<>> /\ Belongs(build, c.pipe, c.meta)
  BY <1>1, TopBuild
<1>3. Shape(d)
  BY <1>2, AddFinishEventShape
<1>4. /\ Extends(build, d) /\ DOMAIN d.metas = DOMAIN build.metas
      /\ d.calls = build.calls /\ d.this_pipeline = build.this_pipeline
  BY <1>2, AddFinishEventExtends
<1> HIDE DEF d
<1>5. SameSinks(build, d)
  BY <1>4, SinksKept
<1> QED
  BY <1>1, <1>2, <1>3, <1>4, <1>5, ReturnReplaced


\* InitializeInternal begins with the root of the plan, which is no child.
LEMMA InitializeInternalOnce ==
  ASSUME WInv, InitializeInternal
  PROVE  SeenOnce(build)'
<1>1. /\ IsPlan(plan) /\ build.pipelines = <<>> /\ build.metas = <<>>
      /\ build.this_pipeline = [op \in Op |-> NoPipeline] /\ DOMAIN build = BuildFields
  BY DEF WInv, InitializeInternal, Shape
<1> DEFINE d == Call("BuildPipelines", 1, 1, 1, NoPipeline)
           e == [build EXCEPT !.pipelines = Append(@, NewPipeline(1)),
                              !.metas = Append(@, NewMeta(NoOperator, 1)),
                              !.root = 1, !.calls = <<d>>]
<1>2. build' = e /\ plan' = plan
  <2>1. Len(build.pipelines) + 1 = 1 /\ Len(build.metas) + 1 = 1
    BY <1>1
  <2> QED
    BY <2>1, Zenon DEF InitializeInternal
<1>3. /\ DOMAIN e.metas = {1} /\ e.root = 1 /\ e.calls = <<d>>
  <2> DEFINE k == NewMeta(NoOperator, 1)
  <2> HIDE DEF d, k
  <2>1. /\ e.metas = Append(build.metas, k) /\ e.root = 1 /\ e.calls = <<d>>
    BY <1>1 DEF BuildFields, k
  <2> HIDE DEF e
  <2>2. e.metas = <<k>>
    BY <1>1, <2>1
  <2> QED
    BY <2>1, <2>2
<1>4. d.fn = "BuildPipelines" /\ d.op = 1
  BY DEF Call
<1> HIDE DEF e, d
<1>5. Makes(e.calls, {1}, {})
  BY <1>3, <1>4, CallsSingle
<1>6. OneMeta(e, {})
  BY <1>3 DEF OneMeta
<1>7. Progress(Visits(e), Half(e), e.this_pipeline, {})
  <2>1. Visits(e) \subseteq {1} /\ Half(e) = {}
    BY <1>5 DEF Makes, Visits, Half
  <2>2. \A a \in Op : \A k \in DOMAIN plan[a].child : plan[a].child[k] \notin Visits(e)
    BY <1>1, <2>1, PlanIsTree
  <2> QED
    BY <2>1, <2>2 DEF Progress
<1>8. SeenOnce(e)
  BY <1>5, <1>6, <1>7 DEF SeenOnce, VisitedBy, Makes
<1> QED
  BY <1>2, <1>8, SeenAssigned

\* Ready calls nothing.
LEMMA ReadyOnce ==
  ASSUME Shape(build), SeenOnce(build), Ready
  PROVE  SeenOnce(build)'
<1> DEFINE new == [p \in Pipeline |->
                    LET pipeline == build.pipelines[p]
                    IN  IF p \in Current /\ ~pipeline.ready
                        THEN [pipeline EXCEPT !.ready = TRUE, !.operators = Reverse(@)]
                        ELSE pipeline]
           b == [build EXCEPT !.pipelines = new]
<1>1. build' = b /\ plan' = plan
  BY Zenon DEF Ready
<1> HIDE DEF new
<1>2. /\ b.metas = build.metas /\ b.calls = build.calls /\ b.root = build.root
      /\ b.this_pipeline = build.this_pipeline
  BY DEF Shape, BuildFields
<1> HIDE DEF b
<1>3. PICK V : VisitedBy(build, V)
  BY DEF SeenOnce
<1>4. VisitedBy(b, V)
  BY <1>2, <1>3 DEF VisitedBy, OneMeta, Visits, Half
<1>5. SeenOnce(b)
  BY <1>2, <1>4 DEF SeenOnce
<1> QED
  BY <1>1, <1>5, SeenAssigned

\* A step of building.
LEMMA BuildStepOnce ==
  ASSUME SInv, BuildStep
  PROVE  SInv'
<1>1. IsPlan(plan) /\ Shape(build) /\ WInv
  BY DEF SInv, WInv
<1>2. WInv'
  BY <1>1, BuildStepWaits
<1>3. CASE InitializeInternal
  BY <1>1, <1>2, <1>3, InitializeInternalOnce DEF SInv
<1>4. CASE Ready
  <2>1. SeenOnce(build)
    BY <1>4 DEF SInv, Ready
  <2> QED
    BY <1>1, <1>2, <1>4, <2>1, ReadyOnce DEF SInv
<1>5. ASSUME \/ BuildSource \/ BuildStreaming \/ BuildSink \/ BuildCreateBF \/ BuildPipelinesFromRelated
             \/ BuildUseBF \/ BuildJoin \/ BuildJoinSource \/ BuildUnion \/ BuildUnionOrder
             \/ BuildIEJoin \/ BuildIEJoinRight \/ BuildIEJoinFinish
      PROVE  SInv'
  <2>1. phase = "building"
    BY <1>5, Zenon DEF BuildSource, BuildStreaming, BuildSink, BuildCreateBF,
         BuildPipelinesFromRelated, BuildUseBF, BuildJoin, BuildJoinSource, BuildUnion,
         BuildUnionOrder, BuildIEJoin, BuildIEJoinRight, BuildIEJoinFinish, Build, Calling
  <2>2. Waits(build) /\ SeenOnce(build)
    BY <2>1 DEF SInv, WInv
  <2>3. SeenOnce(build)'
    BY <1>1, <1>5, <2>2, BuildSourceOnce, BuildStreamingOnce, BuildSinkOnce,
       BuildCreateBFOnce, BuildPipelinesFromRelatedOnce, BuildUseBFOnce, BuildJoinOnce,
       BuildJoinSourceOnce, BuildUnionOnce, BuildUnionOrderOnce, BuildIEJoinOnce,
       BuildIEJoinRightOnce, BuildIEJoinFinishOnce
  <2> QED
    BY <1>2, <2>3 DEF SInv
<1> QED
  BY <1>3, <1>4, <1>5 DEF BuildStep

\* It holds before the plan is executed.
LEMMA SinksInit ==
  ASSUME BuildInit
  PROVE  SInv
<1>1. phase = "idle"
  BY DEF BuildInit
<1> QED
  BY <1>1, WaitsInit DEF SInv

\* A step that is not one of building.
LEMMA SinksStutter ==
  ASSUME SInv, UNCHANGED buildVars
  PROVE  SInv'
<1>1. build' = build /\ plan' = plan /\ phase' = phase
  BY DEF buildVars
<1>2. WInv'
  BY WaitsStutter DEF SInv
<1>3. phase # "idle" => SeenOnce(build)'
  BY <1>1, SeenAssigned DEF SInv
<1> QED
  BY <1>1, <1>2, <1>3 DEF SInv

\* So each operator is filled once, and complete before it is used.
LEMMA SinksSuffice ==
  ASSUME SInv
  PROVE  OneSinkPerOperator /\ FiltersBuiltBeforeUse
<1>1. OneSinkPerOperator
  <2> SUFFICES ASSUME phase = "scheduled", NEW m \in Scheduled, NEW n \in Scheduled,
                      build.metas[m].sink = build.metas[n].sink
               PROVE  m = n
    BY DEF OneSinkPerOperator
  <2>1. Shape(build) /\ SeenOnce(build)
    BY DEF SInv, WInv
  <2>2. PICK V : OneMeta(build, V)
    BY <2>1 DEF SeenOnce, VisitedBy
  <2>3. m \in DOMAIN build.metas /\ n \in DOMAIN build.metas /\ m > build.root /\ n > build.root
    BY <2>1, Numbered DEF Scheduled
  <2> QED
    BY <2>2, <2>3 DEF OneMeta
<1> QED
  BY <1>1, WaitsSuffice DEF SInv

\* While the pipelines of a plan are built the invariant is kept.
LEMMA SinksStep ==
  ASSUME SInv, [BuildStep]_buildVars
  PROVE  SInv'
BY BuildStepOnce, SinksStutter

\* Building the pipelines of a plan gives every operator one MetaPipeline, though
\* UseBF, BuildPipelinesFromRelated and the operator's own parent all lead to it.
THEOREM BuildOneSink == BuildInit /\ [][BuildStep]_buildVars => []OneSinkPerOperator
<1>1. BuildInit => SInv
  BY SinksInit
<1>2. SInv /\ [BuildStep]_buildVars => SInv'
  BY SinksStep
<1>3. SInv => OneSinkPerOperator
  BY SinksSuffice
<1> QED
  BY <1>1, <1>2, <1>3, PTL

\* An event waits for every MetaPipeline that fills a filter its pipeline probes,
\* and for the one that fills the operator it reads.
THEOREM BuildWaits == BuildInit /\ [][BuildStep]_buildVars => []FiltersBuiltBeforeUse
<1>1. BuildInit => SInv
  BY SinksInit
<1>2. SInv /\ [BuildStep]_buildVars => SInv'
  BY SinksStep
<1>3. SInv => FiltersBuiltBeforeUse
  BY SinksSuffice
<1> QED
  BY <1>1, <1>2, <1>3, PTL

-----------------------------------------------------------------------------
(* Logical plans *)

ChildrenOf(p, S) == UNION {ToSet(p[op].child) : op \in S}

\* What the root owns is computed in rounds.
OwnedRounds(p, g) ==
  /\ OwnedByRoot(p) = g[Cardinality(DOMAIN p)] /\ g[0] = {1}
  /\ \A n \in 1..Cardinality(DOMAIN p) : g[n] = g[n - 1] \cup ChildrenOf(p, g[n - 1])

\* They are what the recursive function of OwnedByRoot has.
LEMMA OwnedRoundsExist ==
  ASSUME NEW p, IsLogicalPlan(p)
  PROVE  \E g : OwnedRounds(p, g)
<1> DEFINE N == Cardinality(DOMAIN p)
           V == SUBSET DOMAIN p
           a == {1}
           G == [v \in V |-> v \cup ChildrenOf(p, v)]
           Loop(f) == f = [n \in 0..N |-> IF n = 0 THEN a ELSE f[n - 1] \cup ChildrenOf(p, f[n - 1])]
<1>1. N \in Nat
  BY FS_CardinalityType DEF IsLogicalPlan
<1>2. a \in V /\ G \in [V -> V] /\ \A v \in V : G[v] = v \cup ChildrenOf(p, v)
  <2>1. \A op \in DOMAIN p : ToSet(p[op].child) \subseteq DOMAIN p
    BY DEF IsLogicalPlan, ToSet
  <2>2. \A v \in V : v \cup ChildrenOf(p, v) \in V
    BY <2>1 DEF ChildrenOf
  <2> QED
    BY <2>2 DEF IsLogicalPlan
<1>3. OwnedByRoot(p) = (CHOOSE f : Loop(f))[N]
  BY DEF OwnedByRoot, ChildrenOf
<1> HIDE DEF N, V, a, G
<1>4. PICK f : Rounds(N, V, a, G, f)
  BY <1>1, <1>2, RoundsExist
<1>5. Loop(f)
  <2>1. \A n \in 1..N : f[n - 1] \in V
    BY <1>1, <1>4 DEF Rounds
  <2>2. \A n \in 1..N : f[n] = f[n - 1] \cup ChildrenOf(p, f[n - 1])
    BY <1>2, <1>4, <2>1 DEF Rounds
  <2> QED
    BY <1>4, <2>2 DEF Rounds
<1> DEFINE g == CHOOSE h : Loop(h)
<1>6. g = [n \in 0..N |-> IF n = 0 THEN a ELSE g[n - 1] \cup ChildrenOf(p, g[n - 1])]
  BY <1>5
<1> HIDE DEF g, Loop
<1>7. g[0] = a /\ \A n \in 1..N : g[n] = g[n - 1] \cup ChildrenOf(p, g[n - 1])
  <2> DEFINE Q(n) == g[n - 1] \cup ChildrenOf(p, g[n - 1])
  <2>1. g = [n \in 0..N |-> IF n = 0 THEN a ELSE Q(n)]
    BY <1>6
  <2> HIDE DEF Q
  <2>2. 0 \in 0..N /\ \A n \in 1..N : n \in 0..N /\ n # 0
    BY <1>1
  <2>3. g[0] = a /\ \A n \in 1..N : g[n] = Q(n)
    BY <2>1, <2>2, Zenon
  <2> QED
    BY <2>3 DEF Q
<1>8. OwnedByRoot(p) = g[N]
  BY <1>3 DEF g
<1>9. OwnedRounds(p, g)
  BY <1>7, <1>8, Zenon DEF N, a, OwnedRounds
<1> QED
  BY <1>9

\* A set that has the root and the children of its members is the whole plan.
LEMMA RootOwnsAll ==
  ASSUME NEW p, IsLogicalPlan(p), NEW Z, 1 \in Z,
         \A x \in Z : x \in DOMAIN p => \A k \in DOMAIN p[x].child : p[x].child[k] \in Z
  PROVE  DOMAIN p \subseteq Z
<1> DEFINE N == Cardinality(DOMAIN p)
           D == Z \cap DOMAIN p
<1>1. N \in Nat
  BY FS_CardinalityType DEF IsLogicalPlan
<1>a. PICK g : OwnedRounds(p, g)
  BY OwnedRoundsExist
<1>2. /\ OwnedByRoot(p) = g[N] /\ g[0] = {1}
      /\ \A n \in 1..N : g[n] = g[n - 1] \cup ChildrenOf(p, g[n - 1])
  BY <1>a, Zenon DEF OwnedRounds
<1> HIDE DEF N
<1>3. g[0] \subseteq D
  BY <1>2 DEF IsLogicalPlan
<1>4. \A v : v \subseteq D => v \cup ChildrenOf(p, v) \subseteq D
  <2>1. \A x \in D : \A k \in DOMAIN p[x].child : p[x].child[k] \in D
    BY DEF IsLogicalPlan
  <2>2. \A x \in D : ToSet(p[x].child) \subseteq D
    BY <2>1 DEF ToSet
  <2> HIDE DEF D
  <2> QED
    BY <2>2 DEF ChildrenOf
<1> DEFINE T == {n \in 0..N : g[n] \subseteq D}
<1> HIDE DEF D
<1>5. 0 \in T
  BY <1>1, <1>3
<1>6. \A n \in 1..N : n - 1 \in T => n \in T
  BY <1>1, <1>2, <1>4
<1> HIDE DEF T
<1>7. N \in T
  <2>1. 0..N \subseteq T
    BY <1>1, <1>5, <1>6, UpTo
  <2> QED
    BY <1>1, <2>1
<1>8. DOMAIN p \subseteq D
  BY <1>2, <1>7 DEF T, IsLogicalPlan
<1> QED
  BY <1>8 DEF D

\* An operator is the child of one other, once.
LEMMA OnlyParent ==
  ASSUME NEW p, IsLogicalPlan(p), NEW a \in DOMAIN p, NEW b \in DOMAIN p,
         NEW i \in DOMAIN p[a].child, NEW j \in DOMAIN p[b].child, p[a].child[i] = p[b].child[j]
  PROVE  a = b /\ i = j
<1>1. OneParent(p)
  BY DEF IsLogicalPlan
<1> QED
  BY <1>1 DEF OneParent

UsedBy(p, op) == ToSet(p[op].child) \cup ToSet(p[op].related)
UsesOnly(p, S) == {op \in DOMAIN p : UsedBy(p, op) \subseteq S}

\* What leads to no circle is computed in rounds.
CircleRounds(p, g) ==
  /\ WithoutCircle(p) = g[Cardinality(DOMAIN p)] /\ g[0] = {}
  /\ \A n \in 1..Cardinality(DOMAIN p) : g[n] = UsesOnly(p, g[n - 1])

\* They are what the recursive function of WithoutCircle has.
LEMMA CircleRoundsExist ==
  ASSUME NEW p, IsLogicalPlan(p)
  PROVE  \E g : CircleRounds(p, g)
<1> DEFINE N == Cardinality(DOMAIN p)
           V == SUBSET DOMAIN p
           a == {}
           G == [v \in V |-> UsesOnly(p, v)]
           Loop(f) == f = [n \in 0..N |-> IF n = 0 THEN a ELSE UsesOnly(p, f[n - 1])]
<1>1. N \in Nat
  BY FS_CardinalityType DEF IsLogicalPlan
<1>2. a \in V /\ G \in [V -> V] /\ \A v \in V : G[v] = UsesOnly(p, v)
  BY DEF UsesOnly
<1>3. WithoutCircle(p) = (CHOOSE f : Loop(f))[N]
  BY DEF WithoutCircle, UsesOnly, UsedBy
<1> HIDE DEF N, V, a, G
<1>4. PICK f : Rounds(N, V, a, G, f)
  BY <1>1, <1>2, RoundsExist
<1>5. Loop(f)
  <2>1. \A n \in 1..N : f[n - 1] \in V
    BY <1>1, <1>4 DEF Rounds
  <2>2. \A n \in 1..N : f[n] = UsesOnly(p, f[n - 1])
    BY <1>2, <1>4, <2>1 DEF Rounds
  <2> QED
    BY <1>4, <2>2 DEF Rounds
<1> DEFINE g == CHOOSE h : Loop(h)
<1>6. g = [n \in 0..N |-> IF n = 0 THEN a ELSE UsesOnly(p, g[n - 1])]
  BY <1>5
<1> HIDE DEF g, Loop
<1>7. g[0] = a /\ \A n \in 1..N : g[n] = UsesOnly(p, g[n - 1])
  <2> DEFINE Q(n) == UsesOnly(p, g[n - 1])
  <2>1. g = [n \in 0..N |-> IF n = 0 THEN a ELSE Q(n)]
    BY <1>6
  <2> HIDE DEF Q
  <2>2. 0 \in 0..N /\ \A n \in 1..N : n \in 0..N /\ n # 0
    BY <1>1
  <2>3. g[0] = a /\ \A n \in 1..N : g[n] = Q(n)
    BY <2>1, <2>2, Zenon
  <2> QED
    BY <2>3 DEF Q
<1>8. WithoutCircle(p) = g[N]
  BY <1>3 DEF g
<1>9. CircleRounds(p, g)
  BY <1>7, <1>8, Zenon DEF N, a, CircleRounds
<1> QED
  BY <1>9

\* A number of each operator that is above those of all it uses.
Ranked(p, r) == \A x \in DOMAIN p : r[x] \in Nat /\ \A y \in UsedBy(p, x) : r[y] \in Nat /\ r[y] < r[x]

Rank(p) == CHOOSE r : Ranked(p, r)

\* The round in which an operator appears is such a number.
LEMMA RankExists ==
  ASSUME NEW p, IsLogicalPlan(p)
  PROVE  Ranked(p, Rank(p))
<1> DEFINE N == Cardinality(DOMAIN p)
<1>1. N \in Nat
  BY FS_CardinalityType DEF IsLogicalPlan
<1>a. PICK g : CircleRounds(p, g)
  BY CircleRoundsExist
<1>2. DOMAIN p = g[N] /\ g[0] = {} /\ \A n \in 1..N : g[n] = UsesOnly(p, g[n - 1])
  <2>1. WithoutCircle(p) = g[N] /\ g[0] = {} /\ \A n \in 1..N : g[n] = UsesOnly(p, g[n - 1])
    BY <1>a, Zenon DEF CircleRounds
  <2> QED
    BY <2>1 DEF IsLogicalPlan
<1> HIDE DEF N
<1> DEFINE First(x, n) == n \in 0..N /\ x \in g[n] /\ \A m \in 0..N : x \in g[m] => n <= m
           r == [x \in DOMAIN p |-> CHOOSE n : First(x, n)]
<1>3. ASSUME NEW x, NEW n \in 0..N, x \in g[n]
      PROVE  \E m : First(x, m) /\ m <= n
  <2> SUFFICES ASSUME ~ \E m : First(x, m) /\ m <= n PROVE FALSE
    OBVIOUS
  <2> DEFINE T == {k \in 0..n : \A m \in 0..k : x \notin g[m]}
  <2>1. 0 \in T
    <3>1. x \notin g[0] /\ \A m \in 0..0 : m = 0
      BY <1>2
    <3>2. 0 \in 0..n
      BY <1>3
    <3> QED
      BY <3>1, <3>2
  <2>2. ASSUME NEW k \in 1..n, k - 1 \in T
        PROVE  k \in T
    <3>1. ~First(x, k)
      BY <1>1
    <3>2. \A m \in 0..N : m < k => x \notin g[m]
      BY <1>1, <2>2
    <3>3. x \notin g[k]
      BY <1>1, <3>1, <3>2
    <3> QED
      BY <1>1, <2>2, <3>3
  <2> HIDE DEF T
  <2>3. n \in T
    <3>1. n \in Nat
      BY <1>1
    <3>2. 0..n \subseteq T
      BY <2>1, <2>2, <3>1, UpTo
    <3> QED
      BY <3>1, <3>2
  <2> QED
    BY <1>1, <1>3, <2>3 DEF T
<1>4. ASSUME NEW x \in DOMAIN p
      PROVE  First(x, r[x])
  <2>1. \E m : First(x, m)
    BY <1>1, <1>2, <1>3
  <2> HIDE DEF First
  <2> QED
    BY <2>1
<1> HIDE DEF r
<1>5. ASSUME NEW x \in DOMAIN p, NEW y \in UsedBy(p, x)
      PROVE  r[y] \in Nat /\ r[y] < r[x]
  <2>0. y \in DOMAIN p
    BY DEF IsLogicalPlan, UsedBy, ToSet
  <2>1. First(x, r[x]) /\ First(y, r[y])
    BY <1>4, <2>0
  <2>2. r[x] \in 1..N
    BY <1>1, <1>2, <2>1
  <2>3. y \in g[r[x] - 1]
    BY <1>2, <2>1, <2>2 DEF UsesOnly
  <2> QED
    BY <1>1, <2>1, <2>2, <2>3
<1>6. Ranked(p, r)
  BY <1>1, <1>4, <1>5 DEF Ranked
<1> QED
  BY <1>6 DEF Rank

-----------------------------------------------------------------------------
(* The calls of planning *)

\* A call is made.
OneCallMore(s, c, t) ==
  /\ IsSeq(t) /\ Len(s) \in Nat /\ Len(t) = Len(s) + 1
  /\ DOMAIN s = 1..Len(s) /\ DOMAIN t = 1..(Len(s) + 1)
  /\ t[1] = c /\ \A i \in DOMAIN s : t[i + 1] = s[i]
  /\ \A i \in DOMAIN t : i # 1 => i - 1 \in DOMAIN s /\ t[i] = s[i - 1]

\* It comes first.
LEMMA PushedCalls ==
  ASSUME NEW s, IsSeq(s), NEW c, NEW t, t = <<c>> \o s
  PROVE  OneCallMore(s, c, t)
<1> DEFINE S == {s[i] : i \in DOMAIN s} \cup {c}
           b == <<c>>
           N == Len(s)
<1>1. s \in Seq(S) /\ b \in Seq(S) /\ Len(b) = 1 /\ b[1] = c
  BY DEF IsSeq
<1>2. N \in Nat /\ DOMAIN s = 1..N
  BY SeqIsSeq, <1>1
<1> HIDE DEF S, b
<1>3. ConcatOf(S, b, s, t)
  <2>1. t = b \o s
    BY DEF b
  <2> QED
    BY <1>1, <2>1, ConcatIs
<1>4. IsSeq(t) /\ DOMAIN t = 1..Len(t)
  BY <1>3, SeqIsSeq DEF ConcatOf
<1> HIDE DEF N
<1>5. /\ Len(t) = N + 1 /\ \A i \in 1..(N + 1) : t[i] = IF i <= 1 THEN c ELSE s[i - 1]
  <2>1. Len(b) + Len(s) = N + 1
    BY <1>1, <1>2 DEF N
  <2>2. \A i \in 1..(N + 1) : i <= 1 => i = 1
    BY <1>2
  <2> QED
    BY <1>1, <1>3, <2>1, <2>2 DEF ConcatOf
<1>6. t[1] = c /\ \A i \in 1..N : t[i + 1] = s[i]
  BY <1>2, <1>5
<1>7. \A i \in 1..(N + 1) : i # 1 => i - 1 \in 1..N /\ t[i] = s[i - 1]
  BY <1>2, <1>5
<1> QED
  BY <1>2, <1>4, <1>5, <1>6, <1>7 DEF N, OneCallMore

\* A call returns; the one below it becomes c.
OneCallLess(s, c, t) ==
  /\ IsSeq(t) /\ Len(t) = Len(s) - 1 /\ DOMAIN t = 1..(Len(s) - 1)
  /\ 1 \in DOMAIN t => t[1] = c
  /\ \A i \in DOMAIN t : i # 1 => t[i] = s[i + 1]

\* The two calls on top become one.
LEMMA TwoTops ==
  ASSUME NEW s, IsSeq(s), Len(s) \in Nat, Len(s) > 1, NEW c, NEW t, t = <<c>> \o SubSeq(s, 3, Len(s))
  PROVE  OneCallLess(s, c, t)
<1> DEFINE N == Len(s)
           r == SubSeq(s, 3, N)
           S == {s[i] : i \in DOMAIN s}
<1>1. N \in Nat /\ N > 1 /\ DOMAIN s = 1..N
  BY SeqIsSeq DEF IsSeq
<1>2. r \in Seq(S) /\ Len(r) = N - 2 /\ \A i \in 1..(N - 2) : r[i] = s[i + 2]
  <2>1. \A i \in 3..N : s[i] \in S
    BY <1>1
  <2> HIDE DEF N, S
  <2>2. /\ SubSeq(s, 3, N) \in Seq(S)
        /\ Len(SubSeq(s, 3, N)) = IF 3 <= N THEN N - 3 + 1 ELSE 0
        /\ \A i \in 1..N - 3 + 1 : SubSeq(s, 3, N)[i] = s[3 + i - 1]
    <3>1. 3 \in Int /\ N \in Int
      BY <1>1
    <3> QED
      BY <2>1, <3>1, SubSeqProperties
  <2> HIDE DEF r
  <2>3. /\ r \in Seq(S) /\ Len(r) = IF 3 <= N THEN N - 3 + 1 ELSE 0
        /\ \A i \in 1..N - 3 + 1 : r[i] = s[3 + i - 1]
    BY <2>2, Zenon DEF r
  <2> QED
    BY <1>1, <2>3
<1>3. t = <<c>> \o r /\ IsSeq(r)
  BY <1>2, SeqIsSeq
<1> HIDE DEF r, N, S
<1>a. OneCallMore(r, c, t)
  BY <1>3, PushedCalls
<1>4. /\ IsSeq(t) /\ Len(t) = Len(r) + 1 /\ DOMAIN t = 1..(Len(r) + 1) /\ t[1] = c
      /\ \A i \in DOMAIN t : i # 1 => i - 1 \in DOMAIN r /\ t[i] = r[i - 1]
  BY <1>a DEF OneCallMore
<1>5. Len(r) + 1 = N - 1 /\ DOMAIN t = 1..(N - 1)
  BY <1>1, <1>2, <1>4
<1>6. \A i \in DOMAIN t : i # 1 => t[i] = s[i + 1]
  <2> SUFFICES ASSUME NEW i \in DOMAIN t, i # 1 PROVE t[i] = s[i + 1]
    OBVIOUS
  <2>1. i - 1 \in 1..(N - 2) /\ (i - 1) + 2 = i + 1
    BY <1>1, <1>5
  <2>2. t[i] = r[i - 1]
    BY <1>4
  <2> QED
    BY <1>2, <2>1, <2>2
<1> QED
  BY <1>4, <1>5, <1>6 DEF N, OneCallLess

\* The call on top returns to the one below, which becomes c.
LEMMA ReturnedCalls ==
  ASSUME NEW s, IsSeq(s), s # <<>>, NEW c, NEW t,
         t = IF Len(s) = 1 THEN <<>> ELSE <<c>> \o SubSeq(s, 3, Len(s))
  PROVE  /\ Len(s) \in Nat \ {0} /\ DOMAIN s = 1..Len(s)
         /\ OneCallLess(s, c, t) /\ \A i \in DOMAIN t : i + 1 \in DOMAIN s
<1> DEFINE N == Len(s)
<1>1. N \in Nat /\ DOMAIN s = 1..N /\ N # 0
  <2>1. N \in Nat /\ DOMAIN s = 1..N /\ s \in Seq({s[i] : i \in DOMAIN s})
    BY SeqIsSeq DEF IsSeq
  <2> QED
    BY <2>1, EmptySeq
<1>2. CASE N = 1
  <2>1. t = <<>>
    BY <1>2
  <2>2. IsSeq(<<>>) /\ Len(<<>>) = 0 /\ DOMAIN <<>> = {}
    BY DEF IsSeq
  <2> QED
    BY <1>1, <1>2, <2>1, <2>2 DEF OneCallLess
<1>3. CASE N # 1
  <2>1. t = <<c>> \o SubSeq(s, 3, Len(s)) /\ Len(s) \in Nat /\ Len(s) > 1
    BY <1>1, <1>3
  <2>2. OneCallLess(s, c, t)
    BY <2>1, TwoTops
  <2> HIDE DEF N
  <2> QED
    BY <1>1, <1>3, <2>2 DEF N, OneCallLess
<1> QED
  BY <1>2, <1>3

-----------------------------------------------------------------------------
(* What planning has made *)

NeedOf(op) == Len(logical[op].child) + Len(logical[op].related)

\* The operator that is planned for op after k - 1 others.
Want(op, k) ==
  IF k <= Len(logical[op].child) THEN logical[op].child[k]
  ELSE logical[op].related[k - Len(logical[op].child)]

MadeIn(h, x) == \E o \in DOMAIN h : h[o].op = x

IsMade(x) == MadeIn(heap, x)

\* CreatePlan has returned for x.
OwnedIn(p, h, s, x) ==
  \/ x = 1
  \/ \E a \in DOMAIN p : \E k \in DOMAIN p[a].child :
       /\ p[a].child[k] = x
       /\ MadeIn(h, a) \/ \E i \in DOMAIN s : s[i].op = a /\ k \in DOMAIN s[i].got

IsOwned(x) == OwnedIn(logical, heap, calls, x)

\* A call has the operators it wanted, in their order.
PlanCallOK(c) ==
  /\ DOMAIN c = {"fn", "op", "got"} /\ c.fn \in {"CreatePlan", "CreatePlanfromRelated"}
  /\ c.op \in DOMAIN logical /\ (c.fn # "CreatePlan" => logical[c.op].kind = "create_bf")
  /\ IsSeq(c.got) /\ Len(c.got) <= NeedOf(c.op)
  /\ \A k \in DOMAIN c.got : c.got[k] \in DOMAIN heap /\ heap[c.got[k]].op = Want(c.op, k)

\* Each call is what the one below it wants next.
CallsLinked ==
  \A i \in DOMAIN calls : i # Len(calls) =>
    /\ Len(calls[i + 1].got) < NeedOf(calls[i + 1].op)
    /\ calls[i].op = Want(calls[i + 1].op, Len(calls[i + 1].got) + 1)
    /\ calls[i].fn = "CreatePlan" <=> Len(calls[i + 1].got) < Len(logical[calls[i + 1].op].child)

\* No operator is planned while it is being planned.
Descending ==
  \A i, j \in DOMAIN calls : i < j => Rank(logical)[calls[i].op] < Rank(logical)[calls[j].op]

StackInv ==
  /\ IsSeq(calls)
  /\ \A i \in DOMAIN calls : PlanCallOK(calls[i])
  /\ CallsLinked
  /\ calls # <<>> => calls[Len(calls)].op = 1 /\ calls[Len(calls)].fn = "CreatePlan"
  /\ Descending

\* What is being planned has not been made.
UnderWay ==
  \A i \in DOMAIN calls :
    i # 1 \/ i = Len(calls) \/ calls[i].got # <<>> \/ physical[calls[i].op] = NotPlanned =>
      ~IsMade(calls[i].op)

PhysicalInv ==
  /\ DOMAIN physical = DOMAIN logical
  /\ \A x \in DOMAIN logical : physical[x] # NotPlanned =>
       physical[x] \in DOMAIN heap /\ heap[physical[x]].op = x /\ logical[x].kind = "create_bf"
  /\ \A o \in DOMAIN heap : logical[heap[o].op].kind = "create_bf" => physical[heap[o].op] # NotPlanned

\* An operator has those made for its children and links.
OperatorIn(p, h, o) ==
  /\ DOMAIN h[o] = {"op", "child", "related", "owners"} /\ h[o].op \in DOMAIN p
  /\ IsSeq(h[o].child) /\ Len(h[o].child) = Len(p[h[o].op].child)
  /\ \A k \in DOMAIN h[o].child :
       /\ h[o].child[k] \in DOMAIN h /\ h[o].child[k] < o
       /\ h[h[o].child[k]].op = p[h[o].op].child[k]
  /\ IsSeq(h[o].related) /\ Len(h[o].related) = Len(p[h[o].op].related)
  /\ \A k \in DOMAIN h[o].related :
       h[o].related[k] \in DOMAIN h /\ h[h[o].related[k]].op = p[h[o].op].related[k]

OperatorOK(o) == OperatorIn(logical, heap, o)

HeapInv ==
  /\ IsSeq(heap)
  /\ \A o \in DOMAIN heap : OperatorOK(o)
  /\ \A o, x \in DOMAIN heap : heap[o].op = heap[x].op => o = x
  /\ calls = <<>> => heap # <<>> /\ heap[Len(heap)].op = 1

OwnersInv ==
  \A o \in DOMAIN heap :
    /\ heap[o].owners = IF IsOwned(heap[o].op) THEN 1 ELSE 0
    /\ logical[heap[o].op].kind # "create_bf" => IsOwned(heap[o].op)

PInv == IsLogicalPlan(logical) /\ StackInv /\ UnderWay /\ PhysicalInv /\ HeapInv /\ OwnersInv

\* Lengths and wants are those of a logical plan.
LEMMA WantIs ==
  ASSUME IsLogicalPlan(logical), NEW x \in DOMAIN logical
  PROVE  /\ NeedOf(x) \in Nat /\ Len(logical[x].child) \in Nat /\ Len(logical[x].related) \in Nat
         /\ DOMAIN logical[x].child = 1..Len(logical[x].child)
         /\ DOMAIN logical[x].related = 1..Len(logical[x].related)
         /\ \A k \in 1..NeedOf(x) : Want(x, k) \in DOMAIN logical /\ Want(x, k) \in UsedBy(logical, x)
         /\ \A k \in 1..NeedOf(x) : k > Len(logical[x].child) => logical[Want(x, k)].kind = "create_bf"
         /\ \A k \in DOMAIN logical[x].child : Want(x, k) = logical[x].child[k] /\ k \in 1..NeedOf(x)
         /\ \A k \in DOMAIN logical[x].related :
              /\ Want(x, k + Len(logical[x].child)) = logical[x].related[k]
              /\ k + Len(logical[x].child) \in 1..NeedOf(x)
<1> DEFINE c == logical[x].child
           r == logical[x].related
           C == Len(c)
           R == Len(r)
<1>1. c \in Seq(DOMAIN logical) /\ r \in Seq(DOMAIN logical) /\ \A y \in ToSet(r) : logical[y].kind = "create_bf"
  BY DEF IsLogicalPlan
<1>2. C \in Nat /\ R \in Nat /\ DOMAIN c = 1..C /\ DOMAIN r = 1..R
  BY <1>1
<1>3. /\ \A k \in 1..C : c[k] \in DOMAIN logical /\ c[k] \in UsedBy(logical, x)
      /\ \A k \in 1..R : r[k] \in DOMAIN logical /\ r[k] \in UsedBy(logical, x) /\ logical[r[k]].kind = "create_bf"
  BY <1>1, <1>2 DEF UsedBy, ToSet
<1>4. NeedOf(x) = C + R /\ \A k : Want(x, k) = IF k <= C THEN c[k] ELSE r[k - C]
  BY DEF NeedOf, Want
<1> HIDE DEF c, r, C, R
<1>5. ASSUME NEW k \in 1..NeedOf(x)
      PROVE  /\ Want(x, k) \in DOMAIN logical /\ Want(x, k) \in UsedBy(logical, x)
             /\ k > C => logical[Want(x, k)].kind = "create_bf"
  <2>1. CASE k <= C
    BY <1>2, <1>3, <1>4, <2>1
  <2>2. CASE ~(k <= C)
    <3>1. k - C \in 1..R /\ Want(x, k) = r[k - C]
      BY <1>2, <1>4, <2>2
    <3> QED
      BY <1>3, <3>1
  <2> QED
    BY <2>1, <2>2
<1>6. /\ \A k \in 1..C : Want(x, k) = c[k] /\ k \in 1..NeedOf(x)
      /\ \A k \in 1..R : Want(x, k + C) = r[k] /\ k + C \in 1..NeedOf(x)
  BY <1>2, <1>4
<1>7. NeedOf(x) \in Nat
  BY <1>2, <1>4
<1>8. /\ \A k \in 1..NeedOf(x) : Want(x, k) \in DOMAIN logical /\ Want(x, k) \in UsedBy(logical, x)
      /\ \A k \in 1..NeedOf(x) : k > C => logical[Want(x, k)].kind = "create_bf"
  BY <1>5, Zenon
<1> QED
  BY <1>2, <1>6, <1>7, <1>8, Zenon DEF c, r, C, R

-----------------------------------------------------------------------------
(* A call returns *)

\* t is s and e after it.
OneAppended(s, e, t) ==
  /\ IsSeq(t) /\ Len(s) \in Nat /\ Len(t) = Len(s) + 1 /\ DOMAIN s = 1..Len(s) /\ DOMAIN t = 1..(Len(s) + 1)
  /\ t[Len(s) + 1] = e /\ \A k \in DOMAIN s : k \in DOMAIN t /\ t[k] = s[k]

\* That is Append.
LEMMA AppendedIs ==
  ASSUME NEW s, IsSeq(s), NEW e
  PROVE  OneAppended(s, e, Append(s, e))
<1> DEFINE t == Append(s, e)
<1>1. /\ IsSeq(t) /\ Len(s) \in Nat /\ Len(t) = Len(s) + 1
      /\ DOMAIN s = 1..Len(s) /\ DOMAIN t = 1..(Len(s) + 1)
      /\ \A i \in DOMAIN s : t[i] = s[i]
      /\ t[Len(s) + 1] = e
  BY IsSeqAppend, Zenon
<1> HIDE DEF t
<1>2. \A k \in DOMAIN s : k \in DOMAIN t
  BY <1>1
<1>3. OneAppended(s, e, t)
  BY <1>1, <1>2 DEF OneAppended
<1> QED
  BY <1>3 DEF t

\* The calls after the one on top has returned o.
ReturnTo(o) ==
  /\ Len(calls) \in Nat \ {0} /\ DOMAIN calls = 1..Len(calls)
  /\ IsSeq(calls') /\ Len(calls') = Len(calls) - 1 /\ DOMAIN calls' = 1..(Len(calls) - 1)
  /\ \A i \in DOMAIN calls' :
       /\ i + 1 \in DOMAIN calls /\ DOMAIN calls'[i] = {"fn", "op", "got"}
       /\ calls'[i].fn = calls[i + 1].fn /\ calls'[i].op = calls[i + 1].op
       /\ i # 1 => calls'[i].got = calls[i + 1].got
  /\ 1 \in DOMAIN calls' => OneAppended(calls[2].got, o, calls'[1].got)

\* They are those below it, the first of which has o, too.
LEMMA ReturnIs ==
  ASSUME StackInv, calls # <<>>, NEW o, Return(o)
  PROVE  ReturnTo(o)
<1> DEFINE c == [calls[2] EXCEPT !.got = Append(@, o)]
<1>1. calls' = IF Len(calls) = 1 THEN <<>> ELSE <<c>> \o SubSeq(calls, 3, Len(calls))
  BY DEF Return
<1>2. IsSeq(calls) /\ \A i \in DOMAIN calls : PlanCallOK(calls[i])
  BY DEF StackInv
<1>3. /\ Len(calls) \in Nat \ {0} /\ DOMAIN calls = 1..Len(calls)
      /\ OneCallLess(calls, c, calls') /\ \A i \in DOMAIN calls' : i + 1 \in DOMAIN calls
  <2> HIDE DEF c
  <2> QED
    BY <1>1, <1>2, ReturnedCalls
<1>4. ASSUME 2 \in DOMAIN calls
      PROVE  /\ DOMAIN c = {"fn", "op", "got"} /\ c.fn = calls[2].fn /\ c.op = calls[2].op
             /\ OneAppended(calls[2].got, o, c.got)
  <2>1. DOMAIN calls[2] = {"fn", "op", "got"} /\ IsSeq(calls[2].got)
    BY <1>2, <1>4 DEF PlanCallOK
  <2>2. /\ DOMAIN c = {"fn", "op", "got"} /\ c.fn = calls[2].fn /\ c.op = calls[2].op
        /\ c.got = Append(calls[2].got, o)
    BY <2>1
  <2> HIDE DEF c
  <2>3. OneAppended(calls[2].got, o, Append(calls[2].got, o))
    BY <2>1, AppendedIs
  <2> QED
    BY <2>2, <2>3
<1> HIDE DEF c
<1>5. /\ IsSeq(calls') /\ Len(calls') = Len(calls) - 1 /\ DOMAIN calls' = 1..(Len(calls) - 1)
      /\ 1 \in DOMAIN calls' => calls'[1] = c /\ 2 \in DOMAIN calls
      /\ \A i \in DOMAIN calls' : i # 1 => calls'[i] = calls[i + 1]
  <2>1. /\ IsSeq(calls') /\ Len(calls') = Len(calls) - 1 /\ DOMAIN calls' = 1..(Len(calls) - 1)
        /\ 1 \in DOMAIN calls' => calls'[1] = c
        /\ \A i \in DOMAIN calls' : i # 1 => calls'[i] = calls[i + 1]
    BY <1>3, Zenon DEF OneCallLess
  <2>2. 1 \in DOMAIN calls' => 2 \in DOMAIN calls
    <3>1. 1 \in DOMAIN calls' => 1 + 1 \in DOMAIN calls
      BY <1>3, Zenon
    <3> QED
      BY <3>1
  <2> QED
    BY <2>1, <2>2, Zenon
<1>6. ASSUME NEW i \in DOMAIN calls'
      PROVE  /\ i + 1 \in DOMAIN calls /\ DOMAIN calls'[i] = {"fn", "op", "got"}
             /\ calls'[i].fn = calls[i + 1].fn /\ calls'[i].op = calls[i + 1].op
             /\ i # 1 => calls'[i].got = calls[i + 1].got
  <2>0. i + 1 \in DOMAIN calls
    BY <1>3, Zenon
  <2>1. CASE i = 1
    BY <1>4, <1>5, <2>0, <2>1
  <2>2. CASE i # 1
    <3>1. calls'[i] = calls[i + 1]
      BY <1>5, <2>2, Zenon
    <3>2. DOMAIN calls[i + 1] = {"fn", "op", "got"}
      BY <1>2, <2>0, Zenon DEF PlanCallOK
    <3> QED
      BY <2>0, <3>1, <3>2, Zenon
  <2> QED
    BY <2>1, <2>2
<1>7. 1 \in DOMAIN calls' => OneAppended(calls[2].got, o, calls'[1].got)
  BY <1>4, <1>5, Zenon
<1> QED
  BY <1>3, <1>5, <1>6, <1>7, Zenon DEF ReturnTo

\* The operator o exists, and nothing else is new.
HeapHas(o) ==
  /\ logical' = logical
  /\ o \in DOMAIN heap' /\ heap'[o].op = TopCall.op
  /\ \A h \in DOMAIN heap : h \in DOMAIN heap' /\ heap'[h].op = heap[h].op
  /\ \A h \in DOMAIN heap' : h \in DOMAIN heap \/ h = o

\* What the call on top was called for.
LEMMA TopIs ==
  ASSUME IsLogicalPlan(logical), StackInv, calls # <<>>
  PROVE  /\ 1 \in DOMAIN calls /\ TopCall = calls[1] /\ TopOp = logical[calls[1].op]
         /\ calls[1].op \in DOMAIN logical /\ Needed = NeedOf(calls[1].op)
<1>1. IsSeq(calls) /\ \A i \in DOMAIN calls : PlanCallOK(calls[i])
  BY DEF StackInv
<1>2. 1 \in DOMAIN calls /\ Head(calls) = calls[1]
  BY <1>1, IsSeqTail
<1> QED
  BY <1>1, <1>2 DEF TopCall, TopOp, Needed, NeedOf, PlanCallOK

\* The calls that are left go on.
LEMMA ReturnStack ==
  ASSUME IsLogicalPlan(logical), StackInv, calls # <<>>, NEW o, Return(o), HeapHas(o)
  PROVE  StackInv'
<1>1. ReturnTo(o)
  BY ReturnIs
<1>2. 1 \in DOMAIN calls /\ TopCall = calls[1]
  BY TopIs
<1>3. /\ logical' = logical
      /\ o \in DOMAIN heap' /\ heap'[o].op = calls[1].op
      /\ \A h \in DOMAIN heap : h \in DOMAIN heap' /\ heap'[h].op = heap[h].op
  BY <1>2 DEF HeapHas
<1>4. /\ Len(calls) \in Nat \ {0} /\ DOMAIN calls = 1..Len(calls)
      /\ IsSeq(calls') /\ Len(calls') = Len(calls) - 1 /\ DOMAIN calls' = 1..(Len(calls) - 1)
  BY <1>1 DEF ReturnTo
<1>5. \A i \in DOMAIN calls' :
        /\ i + 1 \in DOMAIN calls /\ DOMAIN calls'[i] = {"fn", "op", "got"}
        /\ calls'[i].fn = calls[i + 1].fn /\ calls'[i].op = calls[i + 1].op
        /\ i # 1 => calls'[i].got = calls[i + 1].got
  BY <1>1, Zenon DEF ReturnTo
<1>6. 1 \in DOMAIN calls' => OneAppended(calls[2].got, o, calls'[1].got)
  BY <1>1 DEF ReturnTo
<1>7. \A i \in DOMAIN calls : PlanCallOK(calls[i])
  BY DEF StackInv
<1>8. ASSUME 1 \in DOMAIN calls'
      PROVE  /\ 2 \in DOMAIN calls /\ Len(calls[2].got) < NeedOf(calls[2].op)
             /\ calls[1].op = Want(calls[2].op, Len(calls[2].got) + 1)
  BY <1>4, <1>8 DEF StackInv, CallsLinked
<1>a. ASSUME NEW i \in DOMAIN calls'
      PROVE  PlanCallOK(calls[i])'
  <2> DEFINE old == calls[i + 1]
             c == calls'[i]
  <2>1. /\ DOMAIN old = {"fn", "op", "got"} /\ old.fn \in {"CreatePlan", "CreatePlanfromRelated"}
        /\ old.op \in DOMAIN logical /\ (old.fn # "CreatePlan" => logical[old.op].kind = "create_bf")
        /\ IsSeq(old.got) /\ Len(old.got) <= NeedOf(old.op)
        /\ \A k \in DOMAIN old.got : old.got[k] \in DOMAIN heap /\ heap[old.got[k]].op = Want(old.op, k)
    <3>1. PlanCallOK(calls[i + 1])
      BY <1>5, <1>7, Zenon
    <3> QED
      BY <3>1, Zenon DEF PlanCallOK
  <2>2. DOMAIN c = {"fn", "op", "got"} /\ c.fn = old.fn /\ c.op = old.op /\ (i # 1 => c.got = old.got)
    BY <1>5, Zenon
  <2>3. /\ IsSeq(c.got) /\ Len(c.got) <= NeedOf(c.op)
        /\ \A k \in DOMAIN c.got : c.got[k] \in DOMAIN heap' /\ heap'[c.got[k]].op = Want(c.op, k)
    <3>1. CASE i # 1
      <4>1. c.got = old.got
        BY <2>2, <3>1
      <4> HIDE DEF c, old
      <4> QED
        BY <1>3, <2>1, <2>2, <4>1
    <3>2. CASE i = 1
      <4>1. /\ old = calls[2] /\ c = calls'[1] /\ OneAppended(old.got, o, c.got)
            /\ Len(old.got) < NeedOf(old.op) /\ calls[1].op = Want(old.op, Len(old.got) + 1)
        BY <1>6, <1>8, <3>2
      <4> HIDE DEF c, old
      <4>2. old.op \in DOMAIN logical /\ NeedOf(old.op) \in Nat
        BY <2>1, WantIs
      <4>3. IsSeq(c.got) /\ Len(c.got) <= NeedOf(c.op)
        BY <2>2, <4>1, <4>2 DEF OneAppended
      <4>4. ASSUME NEW k \in DOMAIN c.got
            PROVE  c.got[k] \in DOMAIN heap' /\ heap'[c.got[k]].op = Want(c.op, k)
        <5>1. CASE k \in DOMAIN old.got
          BY <1>3, <2>1, <2>2, <4>1, <5>1 DEF OneAppended
        <5>2. CASE k \notin DOMAIN old.got
          <6>1. k = Len(old.got) + 1 /\ c.got[k] = o
            BY <4>1, <5>2 DEF OneAppended
          <6> QED
            BY <1>3, <2>2, <4>1, <6>1
        <5> QED
          BY <5>1, <5>2
      <4> QED
        BY <4>3, <4>4
    <3> QED
      BY <3>1, <3>2
  <2>4. /\ c.fn \in {"CreatePlan", "CreatePlanfromRelated"}
        /\ c.op \in DOMAIN logical /\ (c.fn # "CreatePlan" => logical[c.op].kind = "create_bf")
    BY <2>1, <2>2, Zenon
  <2> QED
    BY <1>3, <2>2, <2>3, <2>4 DEF PlanCallOK, NeedOf, Want
<1>b. CallsLinked'
  <2> SUFFICES ASSUME NEW i \in DOMAIN calls', i # Len(calls')
               PROVE  /\ Len(calls'[i + 1].got) < NeedOf(calls'[i + 1].op)
                      /\ calls'[i].op = Want(calls'[i + 1].op, Len(calls'[i + 1].got) + 1)
                      /\ calls'[i].fn = "CreatePlan" <=> Len(calls'[i + 1].got) < Len(logical[calls'[i + 1].op].child)
    BY <1>3 DEF CallsLinked, NeedOf, Want
  <2>1. i + 1 \in DOMAIN calls' /\ i + 1 # 1 /\ i + 1 \in DOMAIN calls /\ i + 1 # Len(calls)
    BY <1>4
  <2> DEFINE j == i + 1
  <2>2. calls'[i].op = calls[j].op /\ calls'[i].fn = calls[j].fn
    BY <1>5, Zenon
  <2>3. calls'[j].op = calls[j + 1].op /\ calls'[j].got = calls[j + 1].got
    BY <1>5, <2>1, Zenon
  <2>4. /\ Len(calls[j + 1].got) < NeedOf(calls[j + 1].op)
        /\ calls[j].op = Want(calls[j + 1].op, Len(calls[j + 1].got) + 1)
        /\ calls[j].fn = "CreatePlan" <=> Len(calls[j + 1].got) < Len(logical[calls[j + 1].op].child)
    BY <2>1, Zenon DEF StackInv, CallsLinked
  <2> HIDE DEF j
  <2>5. /\ Len(calls'[j].got) < NeedOf(calls'[j].op)
        /\ calls'[i].op = Want(calls'[j].op, Len(calls'[j].got) + 1)
        /\ calls'[i].fn = "CreatePlan" <=> Len(calls'[j].got) < Len(logical[calls'[j].op].child)
    BY <2>2, <2>3, <2>4, Zenon
  <2> QED
    BY <2>5, Zenon DEF j
<1>c. calls' # <<>> => calls'[Len(calls')].op = 1 /\ calls'[Len(calls')].fn = "CreatePlan"
  <2> SUFFICES ASSUME calls' # <<>>
               PROVE  calls'[Len(calls')].op = 1 /\ calls'[Len(calls')].fn = "CreatePlan"
    OBVIOUS
  <2>1. Len(calls') # 0
    BY <1>4, EmptySeq DEF IsSeq
  <2>2. Len(calls') \in DOMAIN calls' /\ Len(calls') + 1 = Len(calls)
    BY <1>4, <2>1
  <2>3. calls'[Len(calls')].op = calls[Len(calls)].op /\ calls'[Len(calls')].fn = calls[Len(calls)].fn
    BY <1>5, <2>2
  <2> QED
    BY <2>3 DEF StackInv
<1>d. Descending'
  <2>1. \A i, j \in DOMAIN calls : i < j => Rank(logical)[calls[i].op] < Rank(logical)[calls[j].op]
    BY DEF StackInv, Descending
  <2> SUFFICES ASSUME NEW i \in DOMAIN calls', NEW j \in DOMAIN calls', i < j
               PROVE  Rank(logical')[calls'[i].op] < Rank(logical')[calls'[j].op]
    BY DEF Descending
  <2>2. i + 1 \in DOMAIN calls /\ j + 1 \in DOMAIN calls /\ i + 1 < j + 1
    BY <1>4
  <2>3. calls'[i].op = calls[i + 1].op /\ calls'[j].op = calls[j + 1].op
    BY <1>5, Zenon
  <2> QED
    BY <1>3, <2>1, <2>2, <2>3, Zenon
<1> QED
  BY <1>4, <1>a, <1>b, <1>c, <1>d, Zenon DEF StackInv

\* What has been made then.
LEMMA MadeThen ==
  ASSUME NEW o, HeapHas(o), NEW y
  PROVE  IsMade(y)' <=> IsMade(y) \/ y = TopCall.op
<1>1. /\ o \in DOMAIN heap' /\ heap'[o].op = TopCall.op
      /\ \A h \in DOMAIN heap : h \in DOMAIN heap' /\ heap'[h].op = heap[h].op
      /\ \A h \in DOMAIN heap' : h \in DOMAIN heap \/ h = o
  BY DEF HeapHas
<1>2. IsMade(y)' <=> \E h \in DOMAIN heap' : heap'[h].op = y
  BY DEF IsMade, MadeIn
<1>3. IsMade(y) <=> \E h \in DOMAIN heap : heap[h].op = y
  BY DEF IsMade, MadeIn
<1> QED
  BY <1>1, <1>2, <1>3

\* The calls are for different operators.
LEMMA Apart ==
  ASSUME IsLogicalPlan(logical), StackInv, NEW i \in DOMAIN calls, NEW j \in DOMAIN calls,
         calls[i].op = calls[j].op
  PROVE  i = j
<1>1. i \in Nat /\ j \in Nat
  <2>1. DOMAIN calls = 1..Len(calls) /\ Len(calls) \in Nat
    BY SeqIsSeq DEF StackInv, IsSeq
  <2> QED
    BY <2>1
<1>2. Rank(logical)[calls[i].op] \in Nat
  BY RankExists DEF Ranked, StackInv, PlanCallOK
<1>3. ~(i < j) /\ ~(j < i)
  <2>1. \A a, b \in DOMAIN calls : a < b => Rank(logical)[calls[a].op] < Rank(logical)[calls[b].op]
    BY DEF StackInv, Descending
  <2> QED
    BY <1>2, <2>1
<1> QED
  BY <1>1, <1>3

\* None of those that are left has been planned.
LEMMA ReturnUnderWay ==
  ASSUME PInv, calls # <<>>, NEW o, Return(o), HeapHas(o)
  PROVE  UnderWay'
<1> SUFFICES ASSUME NEW i \in DOMAIN calls'
             PROVE  ~(\E h \in DOMAIN heap' : heap'[h].op = calls'[i].op)
  BY DEF UnderWay, IsMade, MadeIn
<1>1. StackInv /\ IsLogicalPlan(logical) /\ UnderWay
  BY DEF PInv
<1>2. ReturnTo(o)
  BY <1>1, ReturnIs
<1>3. 1 \in DOMAIN calls /\ TopCall = calls[1]
  BY <1>1, TopIs
<1>4. i + 1 \in DOMAIN calls /\ i + 1 # 1 /\ calls'[i].op = calls[i + 1].op
  <2>1. i \in 1..(Len(calls) - 1) /\ Len(calls) \in Nat
    BY <1>2 DEF ReturnTo
  <2>2. i + 1 \in DOMAIN calls /\ calls'[i].op = calls[i + 1].op
    BY <1>2, Zenon DEF ReturnTo
  <2> QED
    BY <2>1, <2>2
<1> DEFINE j == i + 1
           y == calls[j].op
<1> HIDE DEF j
<1>5. j \in DOMAIN calls /\ j # 1 /\ calls'[i].op = calls[j].op
  BY <1>4 DEF j
<1>6. ~IsMade(y) /\ y # calls[1].op
  <2>1. ~IsMade(y)
    BY <1>1, <1>5, Zenon DEF UnderWay
  <2>2. y # calls[1].op
    BY <1>1, <1>3, <1>5, Apart
  <2> QED
    BY <2>1, <2>2
<1> QED
  BY <1>3, <1>5, <1>6 DEF HeapHas, IsMade, MadeIn

\* What is owned then: what the call was for, too, if CreatePlan returns it.
LEMMA ReturnOwned ==
  ASSUME PInv, calls # <<>>, NEW o, Return(o), HeapHas(o), NEW y,
         IsMade(TopCall.op) \/ Len(TopCall.got) = Needed
  PROVE  IsOwned(y)' <=> IsOwned(y) \/ (y = TopCall.op /\ TopCall.fn = "CreatePlan")
<1> DEFINE x == calls[1].op
           Has(a, k) == IsMade(a) \/ \E i \in DOMAIN calls : calls[i].op = a /\ k \in DOMAIN calls[i].got
           Then(a, k) == (\E h \in DOMAIN heap' : heap'[h].op = a)
                           \/ \E i \in DOMAIN calls' : calls'[i].op = a /\ k \in DOMAIN calls'[i].got
           Parent(a, k) == a \in DOMAIN logical /\ k \in DOMAIN logical[a].child /\ logical[a].child[k] = y
<1>1. StackInv /\ IsLogicalPlan(logical)
  BY DEF PInv
<1>2. ReturnTo(o)
  BY <1>1, ReturnIs
<1>3. /\ 1 \in DOMAIN calls /\ TopCall = calls[1] /\ x \in DOMAIN logical /\ Needed = NeedOf(x)
  BY <1>1, TopIs
<1>4. logical' = logical
  BY DEF HeapHas
<1>5. IsOwned(y) <=> y = 1 \/ \E a, k : Parent(a, k) /\ Has(a, k)
  BY DEF IsOwned, OwnedIn, IsMade
<1>6. IsOwned(y)' <=> y = 1 \/ \E a, k : Parent(a, k) /\ Then(a, k)
  BY <1>4 DEF IsOwned, OwnedIn, IsMade, MadeIn
<1>7. \A a : (\E h \in DOMAIN heap' : heap'[h].op = a) <=> IsMade(a) \/ a = x
  BY <1>3 DEF HeapHas, IsMade, MadeIn
<1>8. /\ Len(calls) \in Nat \ {0} /\ DOMAIN calls = 1..Len(calls) /\ DOMAIN calls' = 1..(Len(calls) - 1)
  BY <1>2 DEF ReturnTo
<1>9. \A i \in DOMAIN calls' :
        /\ i + 1 \in DOMAIN calls /\ calls'[i].op = calls[i + 1].op
        /\ i # 1 => calls'[i].got = calls[i + 1].got
  BY <1>2, Zenon DEF ReturnTo
<1>10. ASSUME 1 \in DOMAIN calls'
       PROVE  /\ 2 \in DOMAIN calls /\ OneAppended(calls[2].got, o, calls'[1].got)
              /\ calls'[1].op = calls[2].op /\ calls[2].op \in DOMAIN logical
              /\ Len(calls[2].got) \in Nat /\ Len(calls[2].got) < NeedOf(calls[2].op)
              /\ calls[1].op = Want(calls[2].op, Len(calls[2].got) + 1)
              /\ calls[1].fn = "CreatePlan" <=> Len(calls[2].got) < Len(logical[calls[2].op].child)
  <2>1. 2 \in DOMAIN calls /\ 1 # Len(calls)
    BY <1>8, <1>10
  <2>2. OneAppended(calls[2].got, o, calls'[1].got) /\ Len(calls[2].got) \in Nat
    BY <1>2, <1>10 DEF ReturnTo, OneAppended
  <2>3. calls'[1].op = calls[2].op
    BY <1>9, <1>10
  <2>4. calls[2].op \in DOMAIN logical
    BY <1>1, <2>1 DEF StackInv, PlanCallOK
  <2> QED
    BY <1>1, <1>3, <2>1, <2>2, <2>3, <2>4 DEF StackInv, CallsLinked
<1>a. ASSUME NEW a, NEW k, Parent(a, k), Then(a, k)
      PROVE  Has(a, k) \/ (y = x /\ calls[1].fn = "CreatePlan")
  <2>1. CASE \E h \in DOMAIN heap' : heap'[h].op = a
    <3>1. CASE IsMade(a)
      BY <3>1
    <3>2. CASE a = x /\ ~IsMade(x)
      <4>1. Len(calls[1].got) = NeedOf(x) /\ IsSeq(calls[1].got)
        BY <1>1, <1>3, <3>2 DEF StackInv, PlanCallOK
      <4>2. k \in 1..NeedOf(x)
        BY <1>1, <1>3, <1>a, <3>2, WantIs
      <4>3. k \in DOMAIN calls[1].got
        BY <4>1, <4>2, SeqIsSeq DEF IsSeq
      <4> QED
        BY <1>3, <3>2, <4>3
    <3> QED
      BY <1>7, <2>1, <3>1, <3>2
  <2>2. CASE \E i \in DOMAIN calls' : calls'[i].op = a /\ k \in DOMAIN calls'[i].got
    <3>1. PICK i \in DOMAIN calls' : calls'[i].op = a /\ k \in DOMAIN calls'[i].got
      BY <2>2
    <3>2. CASE i # 1
      <4>1. i + 1 \in DOMAIN calls /\ calls[i + 1].op = a /\ k \in DOMAIN calls[i + 1].got
        BY <1>9, <3>1, <3>2
      <4> QED
        BY <4>1
    <3>3. CASE i = 1
      <4>1. CASE k \in DOMAIN calls[2].got
        BY <1>10, <3>1, <3>3, <4>1
      <4>2. CASE k \notin DOMAIN calls[2].got
        <5>1. k = Len(calls[2].got) + 1 /\ calls[2].op = a
          BY <1>10, <3>1, <3>3, <4>2 DEF OneAppended
        <5>2. k \in 1..Len(logical[a].child) /\ Len(logical[a].child) \in Nat /\ y = Want(a, k)
          BY <1>1, <1>a, WantIs
        <5>3. Len(calls[2].got) < Len(logical[calls[2].op].child)
          BY <1>10, <3>3, <5>1, <5>2
        <5> QED
          BY <1>10, <3>3, <5>1, <5>2, <5>3
      <4> QED
        BY <4>1, <4>2
    <3> QED
      BY <3>2, <3>3
  <2> QED
    BY <1>a, <2>1, <2>2
<1>b. ASSUME NEW a, NEW k, Parent(a, k), Has(a, k)
      PROVE  Then(a, k)
  <2>1. CASE IsMade(a)
    BY <1>7, <2>1
  <2>2. CASE \E i \in DOMAIN calls : calls[i].op = a /\ k \in DOMAIN calls[i].got
    <3>1. PICK i \in DOMAIN calls : calls[i].op = a /\ k \in DOMAIN calls[i].got
      BY <2>2
    <3>2. CASE i = 1
      BY <1>7, <3>1, <3>2
    <3>3. CASE i # 1
      <4> DEFINE j == i - 1
      <4>1. j \in DOMAIN calls' /\ j + 1 = i
        BY <1>8, <3>3
      <4> HIDE DEF j
      <4>2. calls'[j].op = a
        BY <1>9, <3>1, <4>1
      <4>3. k \in DOMAIN calls'[j].got
        <5>1. CASE j = 1
          <6>1. i = 2
            BY <4>1, <5>1
          <6> QED
            BY <1>10, <3>1, <4>1, <5>1, <6>1 DEF OneAppended
        <5>2. CASE j # 1
          BY <1>9, <3>1, <4>1, <5>2
        <5> QED
          BY <5>1, <5>2
      <4> QED
        BY <4>1, <4>2, <4>3
    <3> QED
      BY <3>2, <3>3
  <2> QED
    BY <1>b, <2>1, <2>2
<1>c. ASSUME calls[1].fn = "CreatePlan", y = x
      PROVE  y = 1 \/ \E a, k : Parent(a, k) /\ Then(a, k)
  <2>1. CASE Len(calls) = 1
    BY <1>1, <1>c, <2>1 DEF StackInv
  <2>2. CASE Len(calls) # 1
    <3> DEFINE k == Len(calls[2].got) + 1
               a == calls[2].op
    <3>1. 1 \in DOMAIN calls'
      BY <1>8, <2>2
    <3>2. a \in DOMAIN logical /\ Len(calls[2].got) < Len(logical[a].child) /\ x = Want(a, k) /\ k \in Nat \ {0}
      BY <1>10, <1>c, <3>1
    <3>3. k \in DOMAIN calls'[1].got /\ calls'[1].op = a
      BY <1>10, <3>1 DEF OneAppended
    <3>4. Len(logical[a].child) \in Nat /\ DOMAIN logical[a].child = 1..Len(logical[a].child)
      BY <1>1, <3>2, WantIs
    <3>5. k \in DOMAIN logical[a].child
      BY <1>10, <3>1, <3>2, <3>4
    <3> HIDE DEF k, a
    <3>6. Want(a, k) = logical[a].child[k]
      BY <1>1, <3>2, <3>5, WantIs
    <3>7. Parent(a, k) /\ Then(a, k)
      BY <1>c, <3>1, <3>2, <3>3, <3>5, <3>6
    <3> QED
      BY <3>7
  <2> QED
    BY <2>1, <2>2
<1> HIDE DEF Has, Then, Parent
<1> QED
  BY <1>3, <1>5, <1>6, <1>a, <1>b, <1>c

\* What CreatePlan is planning is not owned yet, nor is what no call has made.
LEMMA NotYetOwned ==
  ASSUME PInv, calls # <<>>, Len(calls) # 1, TopCall.fn = "CreatePlan" \/ ~IsMade(TopCall.op)
  PROVE  ~IsOwned(TopCall.op)
<1> DEFINE x == calls[1].op
<1>1. StackInv /\ IsLogicalPlan(logical) /\ UnderWay
  BY DEF PInv
<1>2. 1 \in DOMAIN calls /\ TopCall = calls[1] /\ x \in DOMAIN logical
  BY <1>1, TopIs
<1>3. Len(calls) \in Nat /\ DOMAIN calls = 1..Len(calls)
  BY <1>1, SeqIsSeq DEF StackInv, IsSeq
<1>4. x # 1
  <2>1. Len(calls) \in DOMAIN calls /\ calls[Len(calls)].op = 1
    BY <1>1, <1>2, <1>3 DEF StackInv
  <2> QED
    BY <1>1, <1>2, <2>1, Apart
<1>5. ASSUME NEW a \in DOMAIN logical, NEW k \in DOMAIN logical[a].child, logical[a].child[k] = x,
             IsMade(a) \/ \E i \in DOMAIN calls : calls[i].op = a /\ k \in DOMAIN calls[i].got
      PROVE  FALSE
  <2>1. CASE ~IsMade(x)
    <3>1. ASSUME NEW o \in DOMAIN heap, heap[o].op = a PROVE FALSE
      <4>1. OperatorOK(o)
        BY DEF PInv, HeapInv
      <4>2. /\ IsSeq(heap[o].child) /\ Len(heap[o].child) = Len(logical[a].child)
            /\ \A j \in DOMAIN heap[o].child :
                 heap[o].child[j] \in DOMAIN heap /\ heap[heap[o].child[j]].op = logical[a].child[j]
        BY <3>1, <4>1 DEF OperatorOK, OperatorIn
      <4>3. DOMAIN heap[o].child = 1..Len(heap[o].child) /\ DOMAIN logical[a].child = 1..Len(logical[a].child)
        <5>1. DOMAIN heap[o].child = 1..Len(heap[o].child)
          BY <4>2, SeqIsSeq DEF IsSeq
        <5> QED
          BY <1>1, <5>1, WantIs
      <4>4. k \in DOMAIN heap[o].child
        BY <4>2, <4>3
      <4> QED
        BY <1>5, <2>1, <4>2, <4>4 DEF IsMade, MadeIn
    <3>2. ASSUME NEW i \in DOMAIN calls, calls[i].op = a, k \in DOMAIN calls[i].got PROVE FALSE
      <4>1. calls[i].got[k] \in DOMAIN heap /\ heap[calls[i].got[k]].op = Want(a, k)
        BY <1>1, <3>2 DEF StackInv, PlanCallOK
      <4>2. Want(a, k) = x
        BY <1>1, <1>5, WantIs
      <4> QED
        BY <2>1, <4>1, <4>2 DEF IsMade, MadeIn
    <3> QED
      BY <1>5, <3>1, <3>2 DEF IsMade, MadeIn
  <2>2. CASE calls[1].fn = "CreatePlan"
    <3> DEFINE b == calls[2].op
               j == Len(calls[2].got) + 1
    <3>1. 2 \in DOMAIN calls /\ 2 # 1 /\ 1 # Len(calls)
      BY <1>2, <1>3
    <3>2. /\ Len(calls[2].got) < Len(logical[b].child) /\ x = Want(b, j) /\ b \in DOMAIN logical
          /\ IsSeq(calls[2].got)
      BY <1>1, <1>2, <2>2, <3>1 DEF StackInv, CallsLinked, PlanCallOK
    <3>3. Len(calls[2].got) \in Nat /\ DOMAIN calls[2].got = 1..Len(calls[2].got)
      BY <3>2, SeqIsSeq DEF IsSeq
    <3>4. Len(logical[b].child) \in Nat /\ DOMAIN logical[b].child = 1..Len(logical[b].child)
      BY <1>1, <3>2, WantIs
    <3>5. j \in DOMAIN logical[b].child /\ j \notin DOMAIN calls[2].got
      BY <3>2, <3>3, <3>4, SMTT(30)
    <3> HIDE DEF b, j
    <3>6. logical[b].child[j] = x
      BY <1>1, <3>2, <3>5, WantIs
    <3>7. a = b /\ k = j
      <4>1. logical[a].child[k] = logical[b].child[j] /\ b \in DOMAIN logical
        BY <1>5, <3>2, <3>6
      <4> HIDE DEF x
      <4> QED
        BY <1>1, <3>5, <4>1, OnlyParent
    <3>8. ~IsMade(b)
      BY <1>1, <3>1 DEF UnderWay, b
    <3>9. ASSUME NEW i \in DOMAIN calls, calls[i].op = a
          PROVE  i = 2
      <4>1. calls[i].op = calls[2].op
        BY <3>7, <3>9 DEF b
      <4> QED
        BY <1>1, <3>1, <4>1, Apart
    <3> QED
      BY <1>5, <3>5, <3>7, <3>8, <3>9
  <2> QED
    BY <1>2, <2>1, <2>2
<1> QED
  BY <1>2, <1>4, <1>5 DEF IsOwned, OwnedIn, IsMade

\* An operator that is not changed still has its children and links.
LEMMA SameOperator ==
  ASSUME NEW p, NEW h, NEW g, NEW o, OperatorIn(p, h, o),
         DOMAIN g[o] = {"op", "child", "related", "owners"}, g[o].op = h[o].op,
         g[o].child = h[o].child, g[o].related = h[o].related,
         \A i \in DOMAIN h : i \in DOMAIN g /\ g[i].op = h[i].op
  PROVE  OperatorIn(p, g, o)
<1> DEFINE c == h[o].child
           r == h[o].related
           x == h[o].op
<1>1. /\ x \in DOMAIN p /\ IsSeq(c) /\ Len(c) = Len(p[x].child)
      /\ \A k \in DOMAIN c : c[k] \in DOMAIN h /\ c[k] < o /\ h[c[k]].op = p[x].child[k]
  BY DEF OperatorIn
<1>2. /\ IsSeq(r) /\ Len(r) = Len(p[x].related)
      /\ \A k \in DOMAIN r : r[k] \in DOMAIN h /\ h[r[k]].op = p[x].related[k]
  BY DEF OperatorIn
<1>3. g[o].op = x /\ g[o].child = c /\ g[o].related = r
  OBVIOUS
<1> HIDE DEF c, r, x
<1>4. \A k \in DOMAIN c : c[k] \in DOMAIN g /\ c[k] < o /\ g[c[k]].op = p[x].child[k]
  BY <1>1
<1>5. \A k \in DOMAIN r : r[k] \in DOMAIN g /\ g[r[k]].op = p[x].related[k]
  BY <1>2
<1> QED
  BY <1>1, <1>2, <1>3, <1>4, <1>5 DEF OperatorIn

\* A CreateBF that exists is used again.
LEMMA ReuseKeeps ==
  ASSUME PInv, Reuse
  PROVE  PInv'
<1> DEFINE x == calls[1].op
           o == physical[x]
           owned == TopCall.fn = "CreatePlan"
<1>1. StackInv /\ IsLogicalPlan(logical) /\ UnderWay /\ PhysicalInv /\ HeapInv /\ OwnersInv
  BY DEF PInv
<1>2. /\ calls # <<>> /\ AlreadyPlanned /\ logical' = logical /\ physical' = physical
      /\ heap' = IF owned THEN [heap EXCEPT ![physical[TopCall.op]].owners = @ + 1] ELSE heap
      /\ Return(physical[TopCall.op])
  BY DEF Reuse
<1>3. 1 \in DOMAIN calls /\ TopCall = calls[1] /\ x \in DOMAIN logical
  BY <1>1, <1>2, TopIs
<1>4. o \in DOMAIN heap /\ heap[o].op = x /\ logical[x].kind = "create_bf" /\ IsMade(x)
  BY <1>1, <1>2, <1>3 DEF AlreadyPlanned, PhysicalInv, IsMade, MadeIn
<1>5. Len(calls) # 1
  BY <1>1, <1>3, <1>4 DEF UnderWay
<1>6. Return(o) /\ heap' = IF owned THEN [heap EXCEPT ![o].owners = @ + 1] ELSE heap
  BY <1>2, <1>3
<1>7. \A h \in DOMAIN heap : DOMAIN heap[h] = {"op", "child", "related", "owners"}
  BY <1>1 DEF HeapInv, OperatorOK, OperatorIn
<1> HIDE DEF o, owned
<1>8. /\ DOMAIN heap' = DOMAIN heap
      /\ \A h \in DOMAIN heap :
           /\ DOMAIN heap'[h] = {"op", "child", "related", "owners"} /\ heap'[h].op = heap[h].op
           /\ heap'[h].child = heap[h].child /\ heap'[h].related = heap[h].related
           /\ h # o \/ ~owned => heap'[h].owners = heap[h].owners
           /\ h = o /\ owned => heap'[h].owners = heap[h].owners + 1
  <2>1. CASE owned
    BY <1>4, <1>6, <1>7, <2>1
  <2>2. CASE ~owned
    <3>1. heap' = heap
      BY <1>6, <2>2
    <3> QED
      BY <1>7, <2>2, <3>1, Zenon
  <2> QED
    BY <2>1, <2>2
<1>9. IsSeq(heap') /\ Len(heap') = Len(heap)
  <2> DEFINE r == [heap[o] EXCEPT !.owners = @ + 1]
  <2>1. IsSeq(heap)
    BY <1>1 DEF HeapInv
  <2>2. CASE owned
    <3>1. heap' = [heap EXCEPT ![o] = r]
      BY <1>4, <1>6, <2>2
    <3> HIDE DEF r
    <3> QED
      BY <2>1, <3>1, IsSeqExcept
  <2>3. CASE ~owned
    BY <1>6, <2>1, <2>3
  <2> QED
    BY <2>2, <2>3
<1>10. HeapHas(o)
  <2>1. \A h \in DOMAIN heap : h \in DOMAIN heap' /\ heap'[h].op = heap[h].op
    BY <1>8, Zenon
  <2> QED
    BY <1>2, <1>3, <1>4, <1>8, <2>1 DEF HeapHas
<1>11. StackInv' /\ UnderWay'
  <2>1. StackInv'
    BY <1>1, <1>2, <1>6, <1>10, ReturnStack
  <2>2. UnderWay'
    BY <1>2, <1>6, <1>10, ReturnUnderWay
  <2> QED
    BY <2>1, <2>2
<1>12. PhysicalInv'
  <2>1. \A h \in DOMAIN heap : heap'[h].op = heap[h].op
    BY <1>8, Zenon
  <2> QED
    BY <1>1, <1>2, <1>8, <2>1 DEF PhysicalInv
<1>13. HeapInv'
  <2>1. ASSUME NEW h \in DOMAIN heap'
        PROVE  OperatorOK(h)'
    <3>1. OperatorOK(h)
      BY <1>1, <1>8 DEF HeapInv
    <3>2. /\ DOMAIN heap'[h] = {"op", "child", "related", "owners"} /\ heap'[h].op = heap[h].op
          /\ heap'[h].child = heap[h].child /\ heap'[h].related = heap[h].related
      BY <1>8, Zenon
    <3>3. \A i \in DOMAIN heap : heap'[i].op = heap[i].op
      BY <1>8, Zenon
    <3>4. \A i \in DOMAIN heap : i \in DOMAIN heap' /\ heap'[i].op = heap[i].op
      BY <1>8, <3>3
    <3>5. OperatorIn(logical, heap', h)
      BY <3>1, <3>2, <3>4, SameOperator DEF OperatorOK
    <3> QED
      BY <1>2, <3>5 DEF OperatorOK
  <2>2. \A h, i \in DOMAIN heap' : heap'[h].op = heap'[i].op => h = i
    <3>1. \A i \in DOMAIN heap : heap'[i].op = heap[i].op
      BY <1>8, Zenon
    <3> QED
      BY <1>1, <1>8, <3>1 DEF HeapInv
  <2>3. calls' # <<>>
    <3>1. ReturnTo(o)
      BY <1>1, <1>2, <1>6, ReturnIs
    <3>2. Len(calls') # 0
      BY <1>5, <3>1 DEF ReturnTo
    <3> QED
      BY <3>2
  <2> QED
    BY <1>9, <2>1, <2>2, <2>3 DEF HeapInv
<1>14. OwnersInv'
  <2>1. \A y : IsOwned(y)' <=> IsOwned(y) \/ (y = x /\ owned)
    <3>1. IsMade(TopCall.op)
      BY <1>3, <1>4
    <3> SUFFICES ASSUME NEW y PROVE IsOwned(y)' <=> IsOwned(y) \/ (y = x /\ owned)
      OBVIOUS
    <3>2. IsOwned(y)' <=> IsOwned(y) \/ (y = TopCall.op /\ TopCall.fn = "CreatePlan")
      BY <1>2, <1>6, <1>10, <3>1, ReturnOwned
    <3> QED
      BY <1>3, <3>2 DEF owned
  <2>2. owned => ~IsOwned(x)
    BY <1>2, <1>3, <1>5, NotYetOwned DEF owned
  <2>3. \A h \in DOMAIN heap : h # o => heap[h].op # x
    BY <1>1, <1>4 DEF HeapInv
  <2>4. ASSUME NEW h \in DOMAIN heap
        PROVE  /\ heap'[h].owners = IF OwnedIn(logical', heap', calls', heap'[h].op) THEN 1 ELSE 0
               /\ logical'[heap'[h].op].kind # "create_bf" => OwnedIn(logical', heap', calls', heap'[h].op)
    <3> DEFINE y == heap[h].op
               B == IsOwned(y)
               A == OwnedIn(logical', heap', calls', y)
    <3>1. /\ heap[h].owners = IF B THEN 1 ELSE 0
          /\ logical[y].kind # "create_bf" => B
      BY <1>1 DEF OwnersInv
    <3>2. A <=> B \/ (y = x /\ owned)
      BY <2>1 DEF IsOwned
    <3>3. /\ heap'[h].op = y
          /\ h # o \/ ~owned => heap'[h].owners = heap[h].owners
          /\ h = o /\ owned => heap'[h].owners = heap[h].owners + 1
      BY <1>8, Zenon
    <3>4. h = o => y = x
      BY <1>4
    <3>5. y = x /\ owned => ~B
      BY <2>2
    <3> HIDE DEF A, B, y
    <3>6. heap'[h].owners = IF A THEN 1 ELSE 0
      <4>1. CASE h = o /\ owned
        BY <3>1, <3>2, <3>3, <3>4, <3>5, <4>1
      <4>2. CASE h # o
        <5>1. y # x
          BY <2>3, <4>2 DEF y
        <5> QED
          BY <3>1, <3>2, <3>3, <4>2, <5>1
      <4>3. CASE ~owned
        BY <3>1, <3>2, <3>3, <4>3
      <4> QED
        BY <4>1, <4>2, <4>3
    <3>7. logical'[y].kind # "create_bf" => A
      BY <1>2, <3>1, <3>2
    <3> QED
      BY <3>3, <3>6, <3>7 DEF A
  <2> QED
    BY <1>8, <2>4 DEF OwnersInv, IsOwned
<1> QED
  BY <1>1, <1>2, <1>11, <1>12, <1>13, <1>14 DEF PInv

\* t is the n elements of s after the first m.
PartOf(s, m, n, t) ==
  IsSeq(t) /\ Len(t) = n /\ DOMAIN t = 1..n /\ \A k \in 1..n : m + k \in DOMAIN s /\ t[k] = s[m + k]

\* That is SubSeq.
LEMMA PartIs ==
  ASSUME NEW s, IsSeq(s), NEW m \in Nat, NEW n \in Nat, m + n <= Len(s),
         NEW f, f = m + 1, NEW l, l = m + n
  PROVE  PartOf(s, m, n, SubSeq(s, f, l))
<1> DEFINE S == {s[i] : i \in DOMAIN s}
           t == SubSeq(s, f, l)
<1>1. s \in Seq(S) /\ Len(s) \in Nat /\ DOMAIN s = 1..Len(s)
  BY DEF IsSeq
<1>2. \A i \in f..l : s[i] \in S
  BY <1>1
<1>3. f \in Int /\ l \in Int
  OBVIOUS
<1> HIDE DEF S
<1>4. /\ t \in Seq(S) /\ Len(t) = IF f <= l THEN l - f + 1 ELSE 0
      /\ \A i \in 1..l - f + 1 : t[i] = s[f + i - 1]
  BY <1>2, <1>3, SubSeqProperties
<1> HIDE DEF t
<1>5. IsSeq(t) /\ DOMAIN t = 1..Len(t)
  BY <1>4, SeqIsSeq
<1>6. Len(t) = n
  BY <1>4
<1>7. \A k \in 1..n : m + k \in DOMAIN s /\ t[k] = s[m + k]
  <2> SUFFICES ASSUME NEW k \in 1..n PROVE m + k \in DOMAIN s /\ t[k] = s[m + k]
    OBVIOUS
  <2>1. k \in 1..l - f + 1 /\ f + k - 1 = m + k
    OBVIOUS
  <2> QED
    BY <1>1, <1>4, <2>1
<1>8. PartOf(s, m, n, t)
  BY <1>5, <1>6, <1>7 DEF PartOf
<1> QED
  BY <1>8 DEF t

\* The operator that the call on top makes.
NewIs(r) ==
  /\ DOMAIN r = {"op", "child", "related", "owners"} /\ r.op = calls[1].op
  /\ r.owners = IF calls[1].fn = "CreatePlan" THEN 1 ELSE 0
  /\ PartOf(calls[1].got, 0, Len(logical[calls[1].op].child), r.child)
  /\ PartOf(calls[1].got, Len(logical[calls[1].op].child), Len(logical[calls[1].op].related), r.related)

\* It has what the call got.
LEMMA NewOperatorIs ==
  ASSUME IsLogicalPlan(logical), StackInv, calls # <<>>, Len(TopCall.got) = Needed
  PROVE  NewIs(NewOperator(TopCall))
<1> DEFINE x == calls[1].op
           s == calls[1].got
           C == Len(logical[x].child)
           R == Len(logical[x].related)
           r == NewOperator(TopCall)
<1>1. 1 \in DOMAIN calls /\ TopCall = calls[1] /\ x \in DOMAIN logical /\ Needed = C + R
  BY TopIs DEF NeedOf
<1>2. C \in Nat /\ R \in Nat
  BY <1>1, WantIs
<1>3. IsSeq(s) /\ Len(s) = C + R
  BY <1>1 DEF StackInv, PlanCallOK
<1>4. r = [op |-> x, child |-> SubSeq(s, 1, C), related |-> SubSeq(s, C + 1, Len(s)),
           owners |-> IF calls[1].fn = "CreatePlan" THEN 1 ELSE 0]
  BY <1>1 DEF NewOperator
<1> HIDE DEF r, s, C, R
<1>5. PartOf(s, 0, C, SubSeq(s, 1, C))
  <2>1. 0 \in Nat /\ 0 + C <= Len(s) /\ 1 = 0 + 1 /\ C = 0 + C
    BY <1>2, <1>3
  <2> QED
    BY <1>2, <1>3, <2>1, PartIs
<1>6. PartOf(s, C, R, SubSeq(s, C + 1, Len(s)))
  <2>1. C + R <= Len(s)
    BY <1>2, <1>3
  <2> QED
    BY <1>2, <1>3, <2>1, PartIs
<1>7. /\ DOMAIN r = {"op", "child", "related", "owners"} /\ r.op = x
      /\ r.owners = IF calls[1].fn = "CreatePlan" THEN 1 ELSE 0
      /\ r.child = SubSeq(s, 1, C) /\ r.related = SubSeq(s, C + 1, Len(s))
  BY <1>4
<1>8. PartOf(s, 0, C, r.child) /\ PartOf(s, C, R, r.related)
  BY <1>5, <1>6, <1>7
<1>9. NewIs(r)
  BY <1>7, <1>8, Zenon DEF NewIs, s, C, R
<1> QED
  BY <1>9 DEF r

\* A new operator is the last one.
LEMMA MadeIs ==
  ASSUME HeapInv, NEW r, heap' = Append(heap, r)
  PROVE  /\ Len(heap) \in Nat /\ IsSeq(heap') /\ Len(heap') = Len(heap) + 1
         /\ DOMAIN heap = 1..Len(heap) /\ DOMAIN heap' = 1..(Len(heap) + 1)
         /\ \A h \in DOMAIN heap : h \in DOMAIN heap' /\ heap'[h] = heap[h]
         /\ heap'[Len(heap) + 1] = r
         /\ \A h \in DOMAIN heap' : h \in DOMAIN heap \/ h = Len(heap) + 1
<1>1. OneAppended(heap, r, heap')
  BY AppendedIs DEF HeapInv
<1>2. /\ Len(heap) \in Nat /\ IsSeq(heap') /\ Len(heap') = Len(heap) + 1
      /\ DOMAIN heap = 1..Len(heap) /\ DOMAIN heap' = 1..(Len(heap) + 1)
      /\ \A h \in DOMAIN heap : h \in DOMAIN heap' /\ heap'[h] = heap[h]
      /\ heap'[Len(heap) + 1] = r
  BY <1>1 DEF OneAppended
<1> QED
  BY <1>2

\* An operator is made when all that it needs has been.
LEMMA MakeKeeps ==
  ASSUME PInv, calls # <<>>, Len(TopCall.got) = Needed, Made(NewOperator(TopCall)), ~IsMade(TopCall.op)
  PROVE  /\ IsLogicalPlan(logical)' /\ StackInv' /\ UnderWay' /\ HeapInv' /\ OwnersInv'
         /\ HeapHas(Len(heap) + 1)
<1> DEFINE x == calls[1].op
           o == Len(heap) + 1
           r == NewOperator(TopCall)
<1>1. StackInv /\ IsLogicalPlan(logical) /\ UnderWay /\ PhysicalInv /\ HeapInv /\ OwnersInv
  BY DEF PInv
<1>2. heap' = Append(heap, r) /\ Return(o) /\ logical' = logical
  BY DEF Made
<1>3. 1 \in DOMAIN calls /\ TopCall = calls[1] /\ x \in DOMAIN logical /\ Needed = NeedOf(x)
  BY <1>1, TopIs
<1>4. NewIs(r)
  BY <1>1, NewOperatorIs
<1> HIDE DEF r
<1>5. /\ Len(heap) \in Nat /\ IsSeq(heap') /\ Len(heap') = o /\ o \in Nat
      /\ DOMAIN heap = 1..Len(heap) /\ DOMAIN heap' = 1..o
      /\ \A h \in DOMAIN heap : h \in DOMAIN heap' /\ heap'[h] = heap[h]
      /\ heap'[o] = r
      /\ \A h \in DOMAIN heap' : h \in DOMAIN heap \/ h = o
  BY <1>1, <1>2, MadeIs
<1>6. o \in DOMAIN heap' /\ \A h \in DOMAIN heap : h < o
  BY <1>5
<1> HIDE DEF o
<1>7. HeapHas(o)
  BY <1>2, <1>3, <1>4, <1>5, <1>6 DEF HeapHas, NewIs
<1>8. StackInv' /\ UnderWay'
  <2>1. StackInv'
    BY <1>1, <1>2, <1>7, ReturnStack
  <2>2. UnderWay'
    BY <1>2, <1>7, ReturnUnderWay
  <2> QED
    BY <2>1, <2>2
<1>9. \A h \in DOMAIN heap : heap[h].op # x
  BY <1>3 DEF IsMade, MadeIn
<1>10. HeapInv'
  <2>1. ASSUME NEW h \in DOMAIN heap'
        PROVE  OperatorOK(h)'
    <3>1. CASE h \in DOMAIN heap
      <4>1. OperatorIn(logical, heap, h) /\ heap'[h] = heap[h]
        BY <1>1, <1>5, <3>1 DEF HeapInv, OperatorOK
      <4>2. DOMAIN heap'[h] = {"op", "child", "related", "owners"}
        BY <4>1 DEF OperatorIn
      <4>3. \A i \in DOMAIN heap : i \in DOMAIN heap' /\ heap'[i].op = heap[i].op
        BY <1>5
      <4>4. OperatorIn(logical, heap', h)
        BY <4>1, <4>2, <4>3, SameOperator
      <4> QED
        BY <1>2, <4>4 DEF OperatorOK
    <3>2. CASE h = o
      <4> DEFINE s == calls[1].got
                 C == Len(logical[x].child)
                 R == Len(logical[x].related)
      <4>1. /\ DOMAIN r = {"op", "child", "related", "owners"} /\ r.op = x
            /\ PartOf(s, 0, C, r.child) /\ PartOf(s, C, R, r.related)
        BY <1>4 DEF NewIs
      <4>2. \A k \in DOMAIN s : s[k] \in DOMAIN heap /\ heap[s[k]].op = Want(x, k)
        BY <1>1, <1>3 DEF StackInv, PlanCallOK
      <4>3. /\ C \in Nat /\ R \in Nat /\ \A k \in 1..C : Want(x, k) = logical[x].child[k]
            /\ \A k \in 1..R : Want(x, k + C) = logical[x].related[k]
        <5>1. DOMAIN logical[x].child = 1..C /\ DOMAIN logical[x].related = 1..R
          BY <1>1, <1>3, WantIs
        <5> QED
          BY <1>1, <1>3, <5>1, WantIs
      <4> HIDE DEF s, C, R
      <4>4. /\ IsSeq(r.child) /\ Len(r.child) = C
            /\ \A k \in DOMAIN r.child :
                 r.child[k] \in DOMAIN heap' /\ r.child[k] < o /\ heap'[r.child[k]].op = logical[x].child[k]
        <5>1. IsSeq(r.child) /\ Len(r.child) = C /\ DOMAIN r.child = 1..C
          BY <4>1 DEF PartOf
        <5>2. ASSUME NEW k \in 1..C
              PROVE  /\ r.child[k] \in DOMAIN heap /\ heap[r.child[k]].op = logical[x].child[k]
          <6>1. 0 + k = k /\ 0 + k \in DOMAIN s /\ r.child[k] = s[0 + k]
            BY <4>1, <4>3 DEF PartOf
          <6> QED
            BY <4>2, <4>3, <6>1
        <5> QED
          BY <1>5, <1>6, <5>1, <5>2
      <4>5. /\ IsSeq(r.related) /\ Len(r.related) = R
            /\ \A k \in DOMAIN r.related :
                 r.related[k] \in DOMAIN heap' /\ heap'[r.related[k]].op = logical[x].related[k]
        <5>1. IsSeq(r.related) /\ Len(r.related) = R /\ DOMAIN r.related = 1..R
          BY <4>1 DEF PartOf
        <5>2. ASSUME NEW k \in 1..R
              PROVE  /\ r.related[k] \in DOMAIN heap /\ heap[r.related[k]].op = logical[x].related[k]
          <6>1. C + k = k + C /\ C + k \in DOMAIN s /\ r.related[k] = s[C + k]
            BY <4>1, <4>3 DEF PartOf
          <6> QED
            BY <4>2, <4>3, <6>1
        <5> QED
          BY <1>5, <1>6, <5>1, <5>2
      <4>6. OperatorIn(logical, heap', o)
        <5>1. heap'[o] = r
          BY <1>5
        <5>2. DOMAIN heap'[o] = {"op", "child", "related", "owners"} /\ heap'[o].op = x /\ x \in DOMAIN logical
          BY <1>3, <4>1, <5>1
        <5> QED
          BY <4>4, <4>5, <5>1, <5>2 DEF OperatorIn, C, R
      <4> QED
        BY <1>2, <3>2, <4>6 DEF OperatorOK
    <3> QED
      BY <1>5, <3>1, <3>2
  <2>2. \A h, i \in DOMAIN heap' : heap'[h].op = heap'[i].op => h = i
    <3>1. \A h, i \in DOMAIN heap : heap[h].op = heap[i].op => h = i
      BY <1>1 DEF HeapInv
    <3>2. heap'[o].op = x
      BY <1>4, <1>5 DEF NewIs
    <3> QED
      BY <1>5, <1>9, <3>1, <3>2
  <2>3. heap' # <<>> /\ (calls' = <<>> => heap'[Len(heap')].op = 1)
    <3>1. heap' # <<>>
      BY <1>5, <1>6
    <3>2. ASSUME calls' = <<>> PROVE heap'[o].op = 1
      <4>1. ReturnTo(o)
        BY <1>1, <1>2, ReturnIs
      <4>a. Len(calls) \in Nat /\ Len(calls') = Len(calls) - 1
        BY <4>1 DEF ReturnTo
      <4>b. Len(calls') = 0
        BY <3>2
      <4>2. Len(calls) = 1
        BY <4>a, <4>b
      <4>3. x = 1
        BY <1>1, <4>2 DEF StackInv
      <4> QED
        BY <1>4, <1>5, <4>3 DEF NewIs
    <3> QED
      BY <1>5, <3>1, <3>2
  <2> QED
    BY <1>5, <2>1, <2>2, <2>3 DEF HeapInv
<1>11. OwnersInv'
  <2> DEFINE owned == calls[1].fn = "CreatePlan"
  <2>1. ASSUME NEW y PROVE OwnedIn(logical', heap', calls', y) <=> IsOwned(y) \/ (y = x /\ owned)
    <3>1. IsOwned(y)' <=> IsOwned(y) \/ (y = TopCall.op /\ TopCall.fn = "CreatePlan")
      BY <1>2, <1>7, ReturnOwned
    <3> QED
      BY <1>3, <3>1 DEF IsOwned
  <2>2. ~owned => ~IsOwned(x)
    <3> SUFFICES ASSUME ~owned PROVE ~IsOwned(x)
      OBVIOUS
    <3>1. Len(calls) # 1
      BY <1>1 DEF StackInv
    <3> QED
      BY <1>3, <3>1, NotYetOwned
  <2>3. ASSUME NEW h \in DOMAIN heap'
        PROVE  /\ heap'[h].owners = IF OwnedIn(logical', heap', calls', heap'[h].op) THEN 1 ELSE 0
               /\ logical'[heap'[h].op].kind # "create_bf" => OwnedIn(logical', heap', calls', heap'[h].op)
    <3> DEFINE y == heap'[h].op
               B == IsOwned(y)
               A == OwnedIn(logical', heap', calls', y)
    <3>1. A <=> B \/ (y = x /\ owned)
      BY <2>1
    <3>2. CASE h \in DOMAIN heap
      <4>1. heap'[h] = heap[h] /\ y # x
        BY <1>5, <1>9, <3>2
      <4>2. /\ heap'[h].owners = IF B THEN 1 ELSE 0
            /\ logical[y].kind # "create_bf" => B
        BY <1>1, <3>2, <4>1 DEF OwnersInv
      <4> HIDE DEF A, B, y
      <4>3. heap'[h].owners = IF A THEN 1 ELSE 0
        BY <3>1, <4>1, <4>2
      <4>4. logical'[y].kind # "create_bf" => A
        BY <1>2, <3>1, <4>2
      <4> QED
        BY <4>3, <4>4 DEF A, y
    <3>3. CASE h = o
      <4>1. y = x /\ heap'[h].owners = IF owned THEN 1 ELSE 0
        BY <1>4, <1>5, <3>3 DEF NewIs
      <4>2. B => owned
        BY <2>2, <4>1
      <4>3. logical[x].kind # "create_bf" => owned
        BY <1>1, <1>3 DEF StackInv, PlanCallOK
      <4> HIDE DEF A, B, y, owned
      <4>4. heap'[h].owners = IF A THEN 1 ELSE 0
        BY <3>1, <4>1, <4>2
      <4>5. logical'[y].kind # "create_bf" => A
        BY <1>2, <3>1, <4>1, <4>3
      <4> QED
        BY <4>4, <4>5 DEF A, y
    <3> QED
      BY <1>5, <3>2, <3>3
  <2> QED
    BY <2>3 DEF OwnersInv, IsOwned
<1> QED
  BY <1>1, <1>2, <1>7, <1>8, <1>10, <1>11 DEF o

\* A CreateBF is made.
LEMMA MakeCreateBFKeeps ==
  ASSUME PInv, MakeCreateBF
  PROVE  PInv'
<1> DEFINE x == calls[1].op
           o == Len(heap) + 1
<1>1. StackInv /\ IsLogicalPlan(logical) /\ UnderWay /\ PhysicalInv /\ HeapInv
  BY DEF PInv
<1>2. /\ calls # <<>> /\ TopOp.kind = "create_bf" /\ Len(TopCall.got) = Needed
      /\ physical' = [physical EXCEPT ![TopCall.op] = o] /\ Made(NewOperator(TopCall))
  BY DEF MakeCreateBF
<1>3. 1 \in DOMAIN calls /\ TopCall = calls[1] /\ TopOp = logical[x] /\ x \in DOMAIN logical /\ Needed = NeedOf(x)
  BY <1>1, <1>2, TopIs
<1>4. ~IsMade(TopCall.op)
  <2>1. Len(logical[x].child) = 1 /\ Len(logical[x].related) \in Nat
    <3>1. Len(logical[x].child) = 1
      BY <1>1, <1>2, <1>3 DEF IsLogicalPlan
    <3> QED
      BY <1>1, <1>3, <3>1, WantIs
  <2>2. Len(calls[1].got) > 0
    BY <1>2, <1>3, <2>1 DEF NeedOf
  <2>3. calls[1].got # <<>>
    BY <2>2
  <2> QED
    BY <1>1, <1>3, <2>3 DEF UnderWay
<1>5. /\ IsLogicalPlan(logical)' /\ StackInv' /\ UnderWay' /\ HeapInv' /\ OwnersInv'
      /\ HeapHas(o)
  BY <1>2, <1>4, MakeKeeps
<1>6. PhysicalInv'
  <2>1. /\ logical' = logical /\ o \in DOMAIN heap' /\ heap'[o].op = x
        /\ \A h \in DOMAIN heap : h \in DOMAIN heap' /\ heap'[h].op = heap[h].op
        /\ \A h \in DOMAIN heap' : h \in DOMAIN heap \/ h = o
    BY <1>3, <1>5 DEF HeapHas
  <2>2. Len(heap) \in Nat
    BY <1>1, SeqIsSeq DEF HeapInv, IsSeq
  <2>3. o # NotPlanned
    BY <2>2 DEF NotPlanned
  <2> HIDE DEF o
  <2>4. /\ DOMAIN physical = DOMAIN logical
        /\ \A y \in DOMAIN logical : physical[y] # NotPlanned =>
             physical[y] \in DOMAIN heap /\ heap[physical[y]].op = y /\ logical[y].kind = "create_bf"
        /\ \A h \in DOMAIN heap : logical[heap[h].op].kind = "create_bf" => physical[heap[h].op] # NotPlanned
    BY <1>1 DEF PhysicalInv
  <2>5. \A h \in DOMAIN heap : heap[h].op \in DOMAIN logical
    BY <1>1 DEF HeapInv, OperatorOK, OperatorIn
  <2>6. /\ DOMAIN physical' = DOMAIN logical /\ physical'[x] = o
        /\ \A y \in DOMAIN logical : y # x => physical'[y] = physical[y]
    BY <1>2, <1>3, <2>4
  <2>7. \A y \in DOMAIN logical : physical'[y] # NotPlanned =>
          physical'[y] \in DOMAIN heap' /\ heap'[physical'[y]].op = y /\ logical[y].kind = "create_bf"
    BY <1>2, <1>3, <2>1, <2>4, <2>6
  <2>8. \A h \in DOMAIN heap' : logical[heap'[h].op].kind = "create_bf" => physical'[heap'[h].op] # NotPlanned
    BY <2>1, <2>3, <2>4, <2>5, <2>6
  <2> QED
    BY <2>1, <2>6, <2>7, <2>8 DEF PhysicalInv
<1> QED
  BY <1>5, <1>6 DEF PInv

\* Another operator is made.
LEMMA MakeOperatorKeeps ==
  ASSUME PInv, MakeOperator
  PROVE  PInv'
<1> DEFINE x == calls[1].op
           o == Len(heap) + 1
<1>1. StackInv /\ IsLogicalPlan(logical) /\ UnderWay /\ PhysicalInv /\ HeapInv
  BY DEF PInv
<1>2. /\ calls # <<>> /\ TopOp.kind # "create_bf" /\ Len(TopCall.got) = Needed
      /\ physical' = physical /\ Made(NewOperator(TopCall))
  BY DEF MakeOperator
<1>3. 1 \in DOMAIN calls /\ TopCall = calls[1] /\ TopOp = logical[x] /\ x \in DOMAIN logical
  BY <1>1, <1>2, TopIs
<1>4. ~IsMade(TopCall.op)
  <2>1. physical[x] = NotPlanned
    BY <1>1, <1>2, <1>3 DEF PhysicalInv
  <2> QED
    BY <1>1, <1>3, <2>1 DEF UnderWay
<1>5. /\ IsLogicalPlan(logical)' /\ StackInv' /\ UnderWay' /\ HeapInv' /\ OwnersInv'
      /\ HeapHas(o)
  BY <1>2, <1>4, MakeKeeps
<1>6. PhysicalInv'
  <2>1. /\ logical' = logical /\ o \in DOMAIN heap' /\ heap'[o].op = x
        /\ \A h \in DOMAIN heap : h \in DOMAIN heap' /\ heap'[h].op = heap[h].op
        /\ \A h \in DOMAIN heap' : h \in DOMAIN heap \/ h = o
    BY <1>3, <1>5 DEF HeapHas
  <2> HIDE DEF o
  <2> QED
    BY <1>1, <1>2, <1>3, <2>1 DEF PhysicalInv
<1> QED
  BY <1>5, <1>6 DEF PInv

\* A call for what the call on top wants next.
LEMMA PushKeeps ==
  ASSUME PInv, calls # <<>>, NEW fn, NEW y, Push(PlanCall(fn, y)), UNCHANGED <<logical, physical, heap>>,
         Len(TopCall.got) < Needed, y = Want(TopCall.op, Len(TopCall.got) + 1),
         fn = IF Len(TopCall.got) < Len(TopOp.child) THEN "CreatePlan" ELSE "CreatePlanfromRelated",
         ~AlreadyPlanned
  PROVE  PInv'
<1> DEFINE c == PlanCall(fn, y)
           x == calls[1].op
           k == Len(calls[1].got) + 1
           N == Len(calls)
<1>1. StackInv /\ IsLogicalPlan(logical) /\ UnderWay /\ PhysicalInv /\ HeapInv /\ OwnersInv
  BY DEF PInv
<1>2. 1 \in DOMAIN calls /\ TopCall = calls[1] /\ TopOp = logical[x] /\ x \in DOMAIN logical /\ Needed = NeedOf(x)
  BY <1>1, TopIs
<1>3. /\ DOMAIN c = {"fn", "op", "got"} /\ c.fn = fn /\ c.op = y /\ c.got = <<>>
  BY DEF PlanCall
<1>4. OneCallMore(calls, c, calls')
  <2>1. calls' = <<c>> \o calls
    BY DEF Push
  <2> HIDE DEF c
  <2> QED
    BY <1>1, <2>1, PushedCalls DEF StackInv
<1> HIDE DEF c
<1>5. /\ IsSeq(calls') /\ N \in Nat /\ Len(calls') = N + 1
      /\ DOMAIN calls = 1..N /\ DOMAIN calls' = 1..(N + 1)
      /\ calls'[1] = c /\ \A i \in DOMAIN calls : calls'[i + 1] = calls[i]
      /\ \A i \in DOMAIN calls' : i # 1 => i - 1 \in DOMAIN calls /\ calls'[i] = calls[i - 1]
  BY <1>4, Zenon DEF OneCallMore
<1>6. /\ NeedOf(x) \in Nat /\ Len(logical[x].child) \in Nat
      /\ DOMAIN logical[x].child = 1..Len(logical[x].child)
      /\ Len(calls[1].got) \in Nat /\ DOMAIN calls[1].got = 1..Len(calls[1].got) /\ k \in 1..NeedOf(x)
  <2>1. NeedOf(x) \in Nat /\ Len(logical[x].child) \in Nat /\ DOMAIN logical[x].child = 1..Len(logical[x].child)
    BY <1>1, <1>2, WantIs
  <2>2. IsSeq(calls[1].got)
    BY <1>1, <1>2 DEF StackInv, PlanCallOK
  <2>3. Len(calls[1].got) \in Nat /\ DOMAIN calls[1].got = 1..Len(calls[1].got)
    BY <2>2, SeqIsSeq DEF IsSeq
  <2> QED
    BY <1>2, <2>1, <2>3
<1>7. /\ y = Want(x, k) /\ y \in DOMAIN logical /\ y \in UsedBy(logical, x) /\ Len(calls[1].got) < NeedOf(x)
      /\ fn \in {"CreatePlan", "CreatePlanfromRelated"}
      /\ fn = "CreatePlan" <=> Len(calls[1].got) < Len(logical[x].child)
      /\ fn # "CreatePlan" => logical[y].kind = "create_bf"
  <2>1. y = Want(x, k) /\ y \in DOMAIN logical /\ y \in UsedBy(logical, x) /\ Len(calls[1].got) < NeedOf(x)
    BY <1>1, <1>2, <1>6, WantIs
  <2>2. /\ fn \in {"CreatePlan", "CreatePlanfromRelated"}
        /\ fn = "CreatePlan" <=> Len(calls[1].got) < Len(logical[x].child)
    BY <1>2
  <2>3. fn # "CreatePlan" => k > Len(logical[x].child)
    BY <1>6, <2>2
  <2> QED
    BY <1>1, <1>2, <1>6, <2>1, <2>2, <2>3, WantIs
<1> HIDE DEF k, N
<1>8. logical' = logical /\ physical' = physical /\ heap' = heap
  OBVIOUS
<1>9. ~IsMade(x)
  BY <1>1, <1>2 DEF UnderWay, AlreadyPlanned
<1>10. StackInv'
  <2>1. ASSUME NEW i \in DOMAIN calls'
        PROVE  PlanCallOK(calls[i])'
    <3>1. CASE i = 1
      <4>1. calls'[i] = c
        BY <1>5, <3>1
      <4>2. IsSeq(<<>>) /\ Len(<<>>) = 0 /\ DOMAIN <<>> = {}
        BY DEF IsSeq
      <4>3. NeedOf(y) \in Nat
        BY <1>1, <1>7, WantIs
      <4>4. PlanCallOK(c)
        BY <1>3, <1>7, <4>2, <4>3 DEF PlanCallOK
      <4> QED
        BY <1>8, <4>1, <4>4 DEF PlanCallOK, NeedOf, Want
    <3>2. CASE i # 1
      <4> DEFINE j == i - 1
      <4>1. j \in DOMAIN calls /\ calls'[i] = calls[j]
        BY <1>5, <3>2, Zenon
      <4> HIDE DEF j
      <4>2. PlanCallOK(calls[j])
        BY <1>1, <4>1 DEF StackInv
      <4> QED
        BY <1>8, <4>1, <4>2 DEF PlanCallOK, NeedOf, Want
    <3> QED
      BY <3>1, <3>2
  <2>2. CallsLinked'
    <3> SUFFICES ASSUME NEW i \in DOMAIN calls', i # Len(calls')
                 PROVE  /\ Len(calls'[i + 1].got) < NeedOf(calls'[i + 1].op)
                        /\ calls'[i].op = Want(calls'[i + 1].op, Len(calls'[i + 1].got) + 1)
                        /\ calls'[i].fn = "CreatePlan" <=>
                             Len(calls'[i + 1].got) < Len(logical[calls'[i + 1].op].child)
      BY <1>8, ZenonT(30) DEF CallsLinked, NeedOf, Want
    <3>1. i \in DOMAIN calls
      BY <1>5
    <3>2. calls'[i + 1] = calls[i]
      BY <1>5, <3>1, Zenon
    <3>3. CASE i = 1
      <4>1. calls'[i] = c /\ calls'[i + 1] = calls[1]
        BY <1>5, <3>2, <3>3
      <4>2. /\ Len(calls[1].got) < NeedOf(calls[1].op)
            /\ c.op = Want(calls[1].op, Len(calls[1].got) + 1)
            /\ c.fn = "CreatePlan" <=> Len(calls[1].got) < Len(logical[calls[1].op].child)
        BY <1>3, <1>7 DEF k
      <4> QED
        BY <4>1, <4>2, Zenon
    <3>4. CASE i # 1
      <4> DEFINE j == i - 1
      <4>1. j \in DOMAIN calls /\ j # Len(calls) /\ j + 1 = i
        BY <1>5, <3>1, <3>4 DEF N
      <4>2. calls'[i] = calls[j]
        BY <1>5, <3>4, Zenon
      <4> HIDE DEF j
      <4>3. /\ Len(calls[i].got) < NeedOf(calls[i].op)
            /\ calls[j].op = Want(calls[i].op, Len(calls[i].got) + 1)
            /\ calls[j].fn = "CreatePlan" <=> Len(calls[i].got) < Len(logical[calls[i].op].child)
        BY <1>1, <4>1 DEF StackInv, CallsLinked
      <4> QED
        BY <3>2, <4>2, <4>3, Zenon
    <3> QED
      BY <3>3, <3>4, SMTT(30)
  <2>3. calls'[Len(calls')].op = 1 /\ calls'[Len(calls')].fn = "CreatePlan"
    <3>1. N \in DOMAIN calls
      BY <1>2, <1>5
    <3>2. calls'[Len(calls')] = calls[N]
      BY <1>5, <3>1
    <3> QED
      BY <1>1, <3>2 DEF StackInv, N
  <2>4. Descending'
    <3>1. \A i, j \in DOMAIN calls : i < j => Rank(logical)[calls[i].op] < Rank(logical)[calls[j].op]
      BY <1>1 DEF StackInv, Descending
    <3> DEFINE R(z) == Rank(logical)[z]
    <3>2. \A j \in DOMAIN calls : R(calls[j].op) \in Nat
      BY <1>1, RankExists DEF Ranked, StackInv, PlanCallOK
    <3>3. R(y) < R(x) /\ R(y) \in Nat
      BY <1>1, <1>2, <1>7, RankExists DEF Ranked
    <3> HIDE DEF R
    <3>a. \A i, j \in DOMAIN calls : i < j => R(calls[i].op) < R(calls[j].op)
      BY <3>1 DEF R
    <3>4. \A j \in DOMAIN calls : R(y) < R(calls[j].op)
      <4> SUFFICES ASSUME NEW j \in DOMAIN calls PROVE R(y) < R(calls[j].op)
        OBVIOUS
      <4>1. CASE j = 1
        BY <3>3, <4>1
      <4>2. CASE j # 1
        <5>1. 1 < j
          BY <1>5, <4>2
        <5>2. R(calls[1].op) < R(calls[j].op)
          BY <1>2, <3>a, <5>1
        <5> QED
          BY <1>2, <3>2, <3>3, <5>2
      <4> QED
        BY <4>1, <4>2
    <3> SUFFICES ASSUME NEW i \in DOMAIN calls', NEW j \in DOMAIN calls', i < j
                 PROVE  R(calls'[i].op) < R(calls'[j].op)
      BY <1>8 DEF Descending, R
    <3>5. j # 1
      BY <1>5
    <3>6. j - 1 \in DOMAIN calls /\ calls'[j] = calls[j - 1]
      BY <1>5, <3>5, Zenon
    <3>7. CASE i = 1
      BY <1>3, <1>5, <3>4, <3>6, <3>7
    <3>8. CASE i # 1
      <4>1. i - 1 \in DOMAIN calls /\ calls'[i] = calls[i - 1]
        BY <1>5, <3>8, Zenon
      <4>2. i - 1 < j - 1
        BY <1>5
      <4>3. R(calls[i - 1].op) < R(calls[j - 1].op)
        BY <3>a, <3>6, <4>1, <4>2, Zenon
      <4> QED
        BY <3>6, <4>1, <4>3, Zenon
    <3> QED
      BY <3>7, <3>8
  <2> QED
    BY <1>5, <2>1, <2>2, <2>3, <2>4, Zenon DEF StackInv
<1>11. ASSUME physical[y] = NotPlanned
       PROVE  ~IsMade(y)
  <2> SUFFICES ASSUME NEW h \in DOMAIN heap, heap[h].op = y PROVE FALSE
    BY DEF IsMade, MadeIn
  <2>1. logical[y].kind # "create_bf"
    BY <1>1, <1>11 DEF PhysicalInv
  <2>2. fn = "CreatePlan"
    BY <1>7, <2>1
  <2>3. k \in DOMAIN logical[x].child /\ logical[x].child[k] = y
    <3>1. k \in DOMAIN logical[x].child
      BY <1>6, <1>7, <2>2 DEF k
    <3> QED
      BY <1>1, <1>2, <1>7, <3>1, WantIs
  <2>4. IsOwned(y)
    BY <1>1, <2>1 DEF OwnersInv
  <2>5. y # 1
    BY <1>1, <1>2, <2>3 DEF IsLogicalPlan, OneParent
  <2>a. PICK a \in DOMAIN logical : \E j \in DOMAIN logical[a].child :
          /\ logical[a].child[j] = y
          /\ IsMade(a) \/ \E i \in DOMAIN calls : calls[i].op = a /\ j \in DOMAIN calls[i].got
    BY <2>4, <2>5 DEF IsOwned, OwnedIn, IsMade
  <2>6. PICK j \in DOMAIN logical[a].child :
          /\ logical[a].child[j] = y
          /\ IsMade(a) \/ \E i \in DOMAIN calls : calls[i].op = a /\ j \in DOMAIN calls[i].got
    BY <2>a
  <2>7. a = x /\ j = k
    <3>1. x \in DOMAIN logical /\ logical[a].child[j] = logical[x].child[k]
      BY <1>2, <2>3, <2>6
    <3> HIDE DEF x
    <3> QED
      BY <1>1, <2>3, <3>1, OnlyParent
  <2>8. PICK i \in DOMAIN calls : calls[i].op = x /\ k \in DOMAIN calls[i].got
    BY <1>9, <2>6, <2>7
  <2>9. i = 1
    BY <1>1, <1>2, <2>8, Apart
  <2> QED
    BY <1>6, <2>8, <2>9 DEF k
<1>12. UnderWay'
  <2> SUFFICES ASSUME NEW i \in DOMAIN calls',
                      i # 1 \/ i = Len(calls') \/ calls'[i].got # <<>> \/ physical[calls'[i].op] = NotPlanned
               PROVE  ~MadeIn(heap, calls'[i].op)
    BY <1>8 DEF UnderWay, IsMade
  <2>1. CASE i = 1
    <3>1. calls'[i].op = y /\ calls'[i].got = <<>> /\ Len(calls') # 1
      BY <1>2, <1>3, <1>5, <2>1
    <3> QED
      BY <1>11, <2>1, <3>1 DEF IsMade
  <2>2. CASE i # 1
    <3> DEFINE j == i - 1
    <3>1. j \in DOMAIN calls /\ calls'[i] = calls[j]
      BY <1>5, <2>2, Zenon
    <3> HIDE DEF j
    <3>2. CASE j = 1
      BY <1>9, <3>1, <3>2 DEF IsMade
    <3>3. CASE j # 1
      BY <1>1, <3>1, <3>3 DEF UnderWay, IsMade
    <3> QED
      BY <3>2, <3>3
  <2> QED
    BY <2>1, <2>2
<1>13. PhysicalInv'
  BY <1>1, <1>8 DEF PhysicalInv
<1>14. HeapInv'
  <2>1. calls' # <<>>
    <3>1. Len(calls') # 0
      BY <1>5
    <3> QED
      BY <3>1
  <2> QED
    BY <1>1, <1>8, <2>1 DEF HeapInv, OperatorOK
<1>15. OwnersInv'
  <2>1. ASSUME NEW z PROVE OwnedIn(logical', heap', calls', z) <=> IsOwned(z)
    <3> DEFINE Has(a, m) == \E i \in DOMAIN calls : calls[i].op = a /\ m \in DOMAIN calls[i].got
               Then(a, m) == \E i \in DOMAIN calls' : calls'[i].op = a /\ m \in DOMAIN calls'[i].got
    <3>1. ASSUME NEW a, NEW m, Has(a, m) PROVE Then(a, m)
      <4>1. PICK i \in DOMAIN calls : calls[i].op = a /\ m \in DOMAIN calls[i].got
        BY <3>1
      <4>2. i + 1 \in DOMAIN calls' /\ calls'[i + 1] = calls[i]
        BY <1>5
      <4> QED
        BY <4>1, <4>2
    <3>2. ASSUME NEW a, NEW m, Then(a, m) PROVE Has(a, m)
      <4>1. PICK i \in DOMAIN calls' : calls'[i].op = a /\ m \in DOMAIN calls'[i].got
        BY <3>2
      <4>2. i # 1
        BY <1>3, <1>5, <4>1
      <4>3. i - 1 \in DOMAIN calls /\ calls'[i] = calls[i - 1]
        BY <1>5, <4>2, Zenon
      <4> QED
        BY <4>1, <4>3
    <3>3. \A a, m : Then(a, m) <=> Has(a, m)
      BY <3>1, <3>2
    <3>4. IsOwned(z) <=> z = 1 \/ \E a \in DOMAIN logical : \E m \in DOMAIN logical[a].child :
            logical[a].child[m] = z /\ (MadeIn(heap, a) \/ Has(a, m))
      BY DEF IsOwned, OwnedIn
    <3>5. OwnedIn(logical', heap', calls', z) <=>
            z = 1 \/ \E a \in DOMAIN logical : \E m \in DOMAIN logical[a].child :
              logical[a].child[m] = z /\ (MadeIn(heap, a) \/ Then(a, m))
      BY <1>8 DEF OwnedIn
    <3> HIDE DEF Has, Then
    <3> QED
      BY <3>3, <3>4, <3>5
  <2>2. ASSUME NEW h \in DOMAIN heap
        PROVE  /\ heap[h].owners = IF OwnedIn(logical', heap', calls', heap[h].op) THEN 1 ELSE 0
               /\ logical[heap[h].op].kind # "create_bf" => OwnedIn(logical', heap', calls', heap[h].op)
    BY <1>1, <2>1 DEF OwnersInv
  <2> QED
    BY <1>8, <2>2 DEF OwnersInv, IsOwned
<1> QED
  BY <1>1, <1>8, <1>10, <1>12, <1>13, <1>14, <1>15 DEF PInv

\* Planning keeps the invariant.
LEMMA PlanStepKeeps ==
  ASSUME PInv, PlanStep
  PROVE  PInv'
<1> DEFINE x == calls[1].op
           k == Len(calls[1].got)
           C == Len(logical[x].child)
           R == Len(logical[x].related)
<1>1. StackInv /\ IsLogicalPlan(logical) /\ PhysicalInv
  BY DEF PInv
<1>2. ASSUME calls # <<>>
      PROVE  /\ TopCall = calls[1] /\ TopOp = logical[x] /\ x \in DOMAIN logical
             /\ Needed = C + R /\ NeedOf(x) = C + R /\ k \in Nat /\ C \in Nat /\ R \in Nat
             /\ IsSeq(calls[1].got)
  <2>1. 1 \in DOMAIN calls /\ TopCall = calls[1] /\ TopOp = logical[x] /\ x \in DOMAIN logical /\ Needed = NeedOf(x)
    BY <1>1, <1>2, TopIs
  <2>2. C \in Nat /\ R \in Nat /\ NeedOf(x) = C + R
    BY <1>1, <2>1, WantIs DEF NeedOf
  <2>3. IsSeq(calls[1].got)
    BY <1>1, <2>1 DEF StackInv, PlanCallOK
  <2>4. k \in Nat
    BY <2>3, SeqIsSeq DEF IsSeq
  <2> QED
    BY <2>1, <2>2, <2>3, <2>4
<1>3. CASE PlanChild
  <2> DEFINE y == logical[x].child[k + 1]
  <2>1. calls # <<>> /\ ~AlreadyPlanned /\ k < C /\ Push(PlanCall("CreatePlan", y)) /\ UNCHANGED <<logical, physical, heap>>
    BY <1>2, <1>3 DEF PlanChild
  <2>a. k + 1 <= C /\ k < C + R
    <3> HIDE DEF k, C, R
    <3> QED
      BY <1>2, <2>1
  <2>2. TopCall = calls[1] /\ TopOp = logical[x] /\ Len(TopCall.got) < Needed /\ Len(TopCall.got) < Len(TopOp.child)
    BY <1>2, <2>1, <2>a, Zenon
  <2>3. y = Want(TopCall.op, Len(TopCall.got) + 1)
    <3>1. y = Want(x, k + 1)
      BY <2>a, Zenon DEF Want
    <3> HIDE DEF y
    <3> QED
      BY <2>2, <3>1, Zenon
  <2>4. "CreatePlan" = IF Len(TopCall.got) < Len(TopOp.child) THEN "CreatePlan" ELSE "CreatePlanfromRelated"
    BY <2>2
  <2> HIDE DEF y
  <2> QED
    BY <2>1, <2>2, <2>3, <2>4, PushKeeps
<1>4. CASE PlanRelated
  <2> DEFINE y == logical[x].related[k - C + 1]
  <2>1. calls # <<>> /\ Len(TopCall.got) >= Len(TopOp.child) /\ Len(TopCall.got) < Needed
    BY <1>4 DEF PlanRelated
  <2>2. TopCall = calls[1] /\ TopOp = logical[x] /\ k >= C /\ k < C + R
    BY <1>2, <2>1
  <2>3. Push(PlanCall("CreatePlanfromRelated", y)) /\ UNCHANGED <<logical, physical, heap>>
    BY <1>4, <2>2 DEF PlanRelated
  <2>4. y = Want(TopCall.op, Len(TopCall.got) + 1)
    <3>1. ~(k + 1 <= C) /\ (k + 1) - C = k - C + 1
      BY <1>2, <2>1, <2>2
    <3> QED
      BY <2>2, <3>1 DEF Want
  <2>5. "CreatePlanfromRelated" = IF Len(TopCall.got) < Len(TopOp.child) THEN "CreatePlan" ELSE "CreatePlanfromRelated"
    <3>1. ~(k < C)
      BY <1>2, <2>1, <2>2
    <3> QED
      BY <2>2, <3>1
  <2>6. ~AlreadyPlanned
    <3>1. logical[x].kind # "create_bf"
      <4>1. logical[x].related # <<>>
        <5>1. R > 0
          <6>1. k >= C /\ k < C + R /\ k \in Nat /\ C \in Nat /\ R \in Nat
            BY <1>2, <2>1, <2>2
          <6> HIDE DEF k, C, R
          <6> QED
            BY <6>1
        <5> QED
          BY <5>1
      <4>2. logical[x].kind = "use_bf"
        BY <1>1, <1>2, <2>1, <4>1 DEF IsLogicalPlan
      <4> QED
        BY <4>2
    <3>2. physical[x] = NotPlanned
      BY <1>1, <1>2, <2>1, <3>1 DEF PhysicalInv
    <3> QED
      BY <2>2, <3>2 DEF AlreadyPlanned
  <2> HIDE DEF y
  <2> QED
    BY <2>1, <2>3, <2>4, <2>5, <2>6, PushKeeps
<1> QED
  BY <1>3, <1>4, MakeCreateBFKeeps, MakeOperatorKeeps, ReuseKeeps DEF PlanStep

\* The first call is for the root.
LEMMA PlanInitInv ==
  ASSUME PlanInit
  PROVE  PInv
<1> DEFINE c == PlanCall("CreatePlan", 1)
<1>1. /\ logical \in LogicalPlans /\ physical = [op \in DOMAIN logical |-> NotPlanned]
      /\ heap = <<>> /\ calls = <<c>>
  BY DEF PlanInit
<1>2. IsLogicalPlan(logical) /\ 1 \in DOMAIN logical
  BY <1>1, PlanGeneratorAssumption DEF IsLogicalPlan
<1>3. IsSeq(<<>>) /\ Len(<<>>) = 0 /\ DOMAIN <<>> = {}
  BY DEF IsSeq
<1>4. DOMAIN c = {"fn", "op", "got"} /\ c.fn = "CreatePlan" /\ c.op = 1 /\ c.got = <<>>
  BY DEF PlanCall
<1> HIDE DEF c
<1>5. IsSeq(calls) /\ Len(calls) = 1 /\ DOMAIN calls = {1} /\ calls[1] = c
  BY <1>1 DEF IsSeq
<1>6. PlanCallOK(c)
  <2>1. NeedOf(1) \in Nat
    BY <1>2, WantIs
  <2> QED
    BY <1>2, <1>3, <1>4, <2>1 DEF PlanCallOK
<1>7. StackInv
  BY <1>4, <1>5, <1>6 DEF StackInv, CallsLinked, Descending
<1>8. DOMAIN heap = {} /\ IsSeq(heap)
  BY <1>1, <1>3
<1>9. UnderWay
  BY <1>8 DEF UnderWay, IsMade, MadeIn
<1>10. PhysicalInv /\ OwnersInv
  BY <1>1, <1>8 DEF PhysicalInv, OwnersInv
<1>11. HeapInv
  <2>1. calls # <<>>
    BY <1>5
  <2> QED
    BY <1>8, <2>1 DEF HeapInv
<1> QED
  BY <1>2, <1>7, <1>9, <1>10, <1>11 DEF PInv

-----------------------------------------------------------------------------
(* When planning is over *)

\* Every operator of the logical plan has been planned.
LEMMA AllMade ==
  ASSUME PInv, Planned, NEW x \in DOMAIN logical
  PROVE  IsMade(x)
<1> DEFINE Z == {y \in DOMAIN logical : IsMade(y)}
<1>1. IsLogicalPlan(logical) /\ HeapInv
  BY DEF PInv
<1>2. 1 \in Z
  <2>1. heap # <<>> /\ heap[Len(heap)].op = 1 /\ IsSeq(heap)
    BY <1>1 DEF HeapInv, Planned
  <2>2. Len(heap) \in DOMAIN heap
    <3>1. Len(heap) \in Nat /\ DOMAIN heap = 1..Len(heap)
      BY <2>1, SeqIsSeq DEF IsSeq
    <3>2. Len(heap) # 0
      BY <2>1, EmptySeq DEF IsSeq
    <3> QED
      BY <3>1, <3>2
  <2> QED
    BY <1>1, <2>1, <2>2 DEF IsMade, MadeIn, IsLogicalPlan
<1>3. ASSUME NEW y \in Z, NEW k \in DOMAIN logical[y].child
      PROVE  logical[y].child[k] \in Z
  <2>1. PICK o \in DOMAIN heap : heap[o].op = y
    BY DEF IsMade, MadeIn
  <2>2. /\ IsSeq(heap[o].child) /\ Len(heap[o].child) = Len(logical[y].child)
        /\ \A j \in DOMAIN heap[o].child :
             heap[o].child[j] \in DOMAIN heap /\ heap[heap[o].child[j]].op = logical[y].child[j]
    BY <1>1, <2>1 DEF HeapInv, OperatorOK, OperatorIn
  <2>3. DOMAIN heap[o].child = 1..Len(heap[o].child)
    BY <2>2, SeqIsSeq DEF IsSeq
  <2>4. DOMAIN logical[y].child = 1..Len(logical[y].child)
    BY <1>1, WantIs
  <2>5. k \in DOMAIN heap[o].child
    BY <2>2, <2>3, <2>4
  <2>6. logical[y].child[k] \in DOMAIN logical
    BY <1>1 DEF IsLogicalPlan
  <2> QED
    BY <2>2, <2>5, <2>6 DEF IsMade, MadeIn
<1> HIDE DEF Z
<1>4. DOMAIN logical \subseteq Z
  BY <1>1, <1>2, <1>3, RootOwnsAll
<1> QED
  BY <1>4 DEF Z

\* Every operator but the root is a child.
LEMMA HasParent ==
  ASSUME NEW p, IsLogicalPlan(p), NEW x \in DOMAIN p, x # 1
  PROVE  \E a \in DOMAIN p : \E k \in DOMAIN p[a].child : p[a].child[k] = x
<1> DEFINE Z == {y \in DOMAIN p : y = 1 \/ \E a \in DOMAIN p : \E k \in DOMAIN p[a].child : p[a].child[k] = y}
<1>1. 1 \in Z
  BY DEF IsLogicalPlan
<1>2. ASSUME NEW y \in Z, NEW k \in DOMAIN p[y].child
      PROVE  p[y].child[k] \in Z
  <2>1. p[y].child[k] \in DOMAIN p
    BY DEF IsLogicalPlan
  <2> QED
    BY <2>1
<1> HIDE DEF Z
<1>3. DOMAIN p \subseteq Z
  BY <1>1, <1>2, RootOwnsAll
<1> QED
  BY <1>3 DEF Z

\* Every operator that was made, but the last, is a child of a later one.
LEMMA MadeForParent ==
  ASSUME PInv, Planned, NEW o \in DOMAIN heap
  PROVE  /\ IsOwned(heap[o].op)
         /\ o # Len(heap) => \E h \in DOMAIN heap : h > o /\ \E k \in DOMAIN heap[h].child : heap[h].child[k] = o
<1> DEFINE y == heap[o].op
<1>1. IsLogicalPlan(logical) /\ HeapInv
  BY DEF PInv
<1>2. y \in DOMAIN logical
  BY <1>1 DEF HeapInv, OperatorOK, OperatorIn
<1>3. CASE y = 1
  <2>1. IsOwned(y)
    BY <1>3 DEF IsOwned, OwnedIn
  <2>2. o = Len(heap)
    <3>1. heap[Len(heap)].op = 1 /\ Len(heap) \in DOMAIN heap
      <4>1. heap[Len(heap)].op = 1 /\ IsSeq(heap)
        BY <1>1 DEF HeapInv, Planned
      <4>2. Len(heap) \in Nat /\ DOMAIN heap = 1..Len(heap)
        BY <4>1, SeqIsSeq DEF IsSeq
      <4> QED
        BY <4>1, <4>2
    <3> QED
      BY <1>1, <1>3, <3>1 DEF HeapInv
  <2> QED
    BY <2>1, <2>2
<1>4. CASE y # 1
  <2>a. PICK a \in DOMAIN logical : \E k \in DOMAIN logical[a].child : logical[a].child[k] = y
    BY <1>1, <1>2, <1>4, HasParent
  <2>1. PICK k \in DOMAIN logical[a].child : logical[a].child[k] = y
    BY <2>a
  <2>2. IsMade(a)
    BY AllMade
  <2>3. IsOwned(y)
    BY <2>1, <2>2 DEF IsOwned, OwnedIn, IsMade
  <2>4. PICK h \in DOMAIN heap : heap[h].op = a
    BY <2>2 DEF IsMade, MadeIn
  <2>5. /\ IsSeq(heap[h].child) /\ Len(heap[h].child) = Len(logical[a].child)
        /\ \A j \in DOMAIN heap[h].child :
             /\ heap[h].child[j] \in DOMAIN heap /\ heap[h].child[j] < h
             /\ heap[heap[h].child[j]].op = logical[a].child[j]
    BY <1>1, <2>4 DEF HeapInv, OperatorOK, OperatorIn
  <2>6. DOMAIN heap[h].child = 1..Len(heap[h].child)
    BY <2>5, SeqIsSeq DEF IsSeq
  <2>7. DOMAIN logical[a].child = 1..Len(logical[a].child)
    BY <1>1, WantIs
  <2>8. k \in DOMAIN heap[h].child
    BY <2>5, <2>6, <2>7
  <2>9. heap[h].child[k] = o
    <3>1. heap[h].child[k] \in DOMAIN heap /\ heap[heap[h].child[k]].op = heap[o].op
      BY <2>1, <2>5, <2>8
    <3> QED
      BY <1>1, <3>1 DEF HeapInv
  <2>10. h > o
    <3>1. Len(heap) \in Nat /\ DOMAIN heap = 1..Len(heap)
      BY <1>1, SeqIsSeq DEF HeapInv, IsSeq
    <3> QED
      BY <2>5, <2>8, <2>9, <3>1
  <2> QED
    BY <2>3, <2>8, <2>9, <2>10
<1> QED
  BY <1>3, <1>4

\* The tree below an operator is computed in rounds.
TreeRounds(o, g) ==
  /\ Tree(o) = g[Len(heap)] /\ g[0] = {o}
  /\ \A n \in 1..Len(heap) : g[n] = g[n - 1] \cup ChildrenOf(heap, g[n - 1])

\* They are what the recursive function of Tree has.
LEMMA TreeRoundsExist ==
  ASSUME HeapInv, NEW o \in DOMAIN heap
  PROVE  \E g : TreeRounds(o, g)
<1> DEFINE N == Len(heap)
           V == SUBSET DOMAIN heap
           a == {o}
           G == [v \in V |-> v \cup ChildrenOf(heap, v)]
           Loop(f) == f = [n \in 0..N |-> IF n = 0 THEN a ELSE f[n - 1] \cup ChildrenOf(heap, f[n - 1])]
<1>1. N \in Nat
  BY SeqIsSeq DEF HeapInv, IsSeq
<1>2. a \in V /\ G \in [V -> V] /\ \A v \in V : G[v] = v \cup ChildrenOf(heap, v)
  <2>1. \A h \in DOMAIN heap : ToSet(heap[h].child) \subseteq DOMAIN heap
    <3>1. \A h \in DOMAIN heap : \A k \in DOMAIN heap[h].child : heap[h].child[k] \in DOMAIN heap
      BY DEF HeapInv, OperatorOK, OperatorIn
    <3> QED
      BY <3>1 DEF ToSet
  <2>2. \A v \in V : v \cup ChildrenOf(heap, v) \in V
    BY <2>1 DEF ChildrenOf
  <2> QED
    BY <2>2
<1>3. Tree(o) = (CHOOSE f : Loop(f))[N]
  BY DEF Tree, ChildrenOf
<1> HIDE DEF N, V, a, G
<1>4. PICK f : Rounds(N, V, a, G, f)
  BY <1>1, <1>2, RoundsExist
<1>5. Loop(f)
  <2>1. \A n \in 1..N : f[n - 1] \in V
    BY <1>1, <1>4 DEF Rounds
  <2>2. \A n \in 1..N : f[n] = f[n - 1] \cup ChildrenOf(heap, f[n - 1])
    BY <1>2, <1>4, <2>1 DEF Rounds
  <2> QED
    BY <1>4, <2>2 DEF Rounds
<1> DEFINE g == CHOOSE h : Loop(h)
<1>6. g = [n \in 0..N |-> IF n = 0 THEN a ELSE g[n - 1] \cup ChildrenOf(heap, g[n - 1])]
  BY <1>5
<1> HIDE DEF g, Loop
<1>7. g[0] = a /\ \A n \in 1..N : g[n] = g[n - 1] \cup ChildrenOf(heap, g[n - 1])
  <2> DEFINE Q(n) == g[n - 1] \cup ChildrenOf(heap, g[n - 1])
  <2>1. g = [n \in 0..N |-> IF n = 0 THEN a ELSE Q(n)]
    BY <1>6
  <2> HIDE DEF Q
  <2>2. 0 \in 0..N /\ \A n \in 1..N : n \in 0..N /\ n # 0
    BY <1>1
  <2>3. g[0] = a /\ \A n \in 1..N : g[n] = Q(n)
    BY <2>1, <2>2, Zenon
  <2> QED
    BY <2>3 DEF Q
<1>8. Tree(o) = g[N]
  BY <1>3 DEF g
<1>9. TreeRounds(o, g)
  BY <1>7, <1>8, Zenon DEF N, a, TreeRounds
<1> QED
  BY <1>9

\* All that was made is below the last.
LEMMA TreeHasAll ==
  ASSUME PInv, Planned
  PROVE  Tree(Len(heap)) = DOMAIN heap
<1> DEFINE N == Len(heap)
<1>1. HeapInv /\ N \in Nat \ {0} /\ DOMAIN heap = 1..N
  <2>1. HeapInv /\ IsSeq(heap) /\ heap # <<>>
    BY DEF PInv, HeapInv, Planned
  <2>2. Len(heap) \in Nat /\ DOMAIN heap = 1..Len(heap)
    BY <2>1, SeqIsSeq DEF IsSeq
  <2>3. Len(heap) # 0
    BY <2>1, EmptySeq DEF IsSeq
  <2> QED
    BY <2>1, <2>2, <2>3
<1>2. N \in DOMAIN heap
  BY <1>1
<1>a. PICK g : TreeRounds(N, g)
  BY <1>1, <1>2, TreeRoundsExist
<1>3. /\ Tree(N) = g[N] /\ g[0] = {N}
      /\ \A n \in 1..N : g[n] = g[n - 1] \cup ChildrenOf(heap, g[n - 1])
  BY <1>a, Zenon DEF TreeRounds
<1>4. \A o \in DOMAIN heap : o # N =>
        \E h \in DOMAIN heap : h > o /\ \E k \in DOMAIN heap[h].child : heap[h].child[k] = o
  BY MadeForParent
<1> HIDE DEF N
<1> DEFINE T == {n \in 0..N : g[n] \subseteq DOMAIN heap /\ \A o \in DOMAIN heap : o + n >= N => o \in g[n]}
<1>5. 0 \in T
  BY <1>1, <1>2, <1>3
<1>6. ASSUME NEW n \in 1..N, n - 1 \in T
      PROVE  n \in T
  <2>1. /\ g[n - 1] \subseteq DOMAIN heap /\ \A o \in DOMAIN heap : o + (n - 1) >= N => o \in g[n - 1]
        /\ g[n] = g[n - 1] \cup ChildrenOf(heap, g[n - 1])
    BY <1>3, <1>6
  <2>2. g[n] \subseteq DOMAIN heap
    <3>1. \A h \in DOMAIN heap : \A k \in DOMAIN heap[h].child : heap[h].child[k] \in DOMAIN heap
      BY <1>1 DEF HeapInv, OperatorOK, OperatorIn
    <3>2. \A h \in DOMAIN heap : ToSet(heap[h].child) \subseteq DOMAIN heap
      BY <3>1 DEF ToSet
    <3> QED
      BY <2>1, <3>2 DEF ChildrenOf
  <2>3. ASSUME NEW o \in DOMAIN heap, o + n >= N
        PROVE  o \in g[n]
    <3>1. CASE o = N
      <4>1. o + (n - 1) >= N
        BY <1>1, <3>1
      <4> QED
        BY <2>1, <4>1
    <3>2. CASE o # N
      <4>1. PICK h \in DOMAIN heap : h > o /\ \E k \in DOMAIN heap[h].child : heap[h].child[k] = o
        BY <1>4, <3>2
      <4>2. h + (n - 1) >= N
        BY <1>1, <2>3, <4>1
      <4>3. h \in g[n - 1] /\ o \in ToSet(heap[h].child)
        BY <2>1, <4>1, <4>2 DEF ToSet
      <4> QED
        BY <2>1, <4>3 DEF ChildrenOf
    <3> QED
      BY <3>1, <3>2
  <2>4. n \in 0..N
    BY <1>1
  <2> QED
    BY <2>2, <2>3, <2>4
<1> HIDE DEF T
<1>7. N \in T
  <2>1. 0..N \subseteq T
    BY <1>1, <1>5, <1>6, UpTo
  <2> QED
    BY <1>1, <2>1
<1>8. g[N] = DOMAIN heap
  <2>1. \A o \in DOMAIN heap : o + N >= N
    BY <1>1
  <2> QED
    BY <1>7, <2>1 DEF T
<1> QED
  BY <1>3, <1>8 DEF N

\* The plan has every operator once, with one owner.
LEMMA PlanComplete ==
  ASSUME PInv
  PROVE  OwnedOnce /\ OneOperatorInTree
<1> SUFFICES ASSUME Planned
             PROVE  /\ \A o \in DOMAIN heap : heap[o].owners = 1
                    /\ Tree(Len(heap)) = DOMAIN heap
                    /\ \A o, x \in DOMAIN heap : heap[o].op = heap[x].op => o = x
  BY DEF OwnedOnce, OneOperatorInTree
<1>1. \A o \in DOMAIN heap : heap[o].owners = 1
  BY MadeForParent DEF PInv, OwnersInv
<1> QED
  BY <1>1, TreeHasAll DEF PInv, HeapInv

\* The number of an operator of the physical plan.
Number(o) == Len(heap) + 1 - o

\* An operator of the physical plan is one that was made.
PhysicalIs(i) ==
  /\ Number(i) \in DOMAIN heap /\ Number(Number(i)) = i
  /\ PhysicalPlan[i].kind = logical[heap[Number(i)].op].kind
  /\ PhysicalPlan[i].child =
       [k \in DOMAIN heap[Number(i)].child |-> Number(heap[Number(i)].child[k])]
  /\ PhysicalPlan[i].related =
       [k \in DOMAIN heap[Number(i)].related |-> Number(heap[Number(i)].related[k])]

\* That is what PhysicalPlan says.
LEMMA PhysicalPlanIs ==
  ASSUME HeapInv
  PROVE  /\ Len(heap) \in Nat /\ DOMAIN heap = 1..Len(heap) /\ DOMAIN PhysicalPlan = 1..Len(heap)
         /\ \A i \in 1..Len(heap) : PhysicalIs(i)
<1> DEFINE N == Len(heap)
           R(i) == [kind    |-> logical[heap[Number(i)].op].kind,
                    child   |-> [k \in DOMAIN heap[Number(i)].child |-> Number(heap[Number(i)].child[k])],
                    related |-> [k \in DOMAIN heap[Number(i)].related |-> Number(heap[Number(i)].related[k])],
                    flag    |-> logical[heap[Number(i)].op].flag]
<1>1. N \in Nat /\ DOMAIN heap = 1..N
  BY SeqIsSeq DEF HeapInv, IsSeq
<1>2. PhysicalPlan = [i \in DOMAIN heap |-> R(i)]
  BY DEF PhysicalPlan, Number
<1>3. ASSUME NEW i \in 1..N
      PROVE  Number(i) \in DOMAIN heap /\ Number(Number(i)) = i
  BY <1>1 DEF Number
<1>4. ASSUME NEW i \in 1..N
      PROVE  PhysicalIs(i)
  <2>1. PhysicalPlan[i] = R(i)
    <3> HIDE DEF R
    <3> QED
      BY <1>1, <1>2
  <2>2. /\ PhysicalPlan[i].kind = logical[heap[Number(i)].op].kind
        /\ PhysicalPlan[i].child = [k \in DOMAIN heap[Number(i)].child |-> Number(heap[Number(i)].child[k])]
        /\ PhysicalPlan[i].related = [k \in DOMAIN heap[Number(i)].related |-> Number(heap[Number(i)].related[k])]
    BY <2>1
  <2> QED
    BY <1>3, <2>2, Zenon DEF PhysicalIs
<1> HIDE DEF R
<1> QED
  BY <1>1, <1>2, <1>4

\* A sequence of operators that were made, by their numbers.
LEMMA NumbersOf ==
  ASSUME NEW s, IsSeq(s), NEW N \in Nat, \A k \in DOMAIN s : s[k] \in 1..N,
         NEW t, t = [k \in DOMAIN s |-> N + 1 - s[k]]
  PROVE  t \in Seq(1..N) /\ Len(t) = Len(s) /\ DOMAIN t = DOMAIN s
<1>1. Len(s) \in Nat /\ DOMAIN s = 1..Len(s)
  BY SeqIsSeq DEF IsSeq
<1>2. t \in [1..Len(s) -> 1..N]
  BY <1>1
<1> QED
  BY <1>1, <1>2

\* The physical plan is one that pipelines can be built for.
LEMMA PhysicalPlanIsPlan ==
  ASSUME PInv, Planned, logical \in LogicalPlans
  PROVE  IsPlan(PhysicalPlan)
<1> DEFINE N == Len(heap)
           P == PhysicalPlan
           at(i) == heap[Number(i)]
           x(i) == heap[Number(i)].op
<1>1. IsLogicalPlan(logical) /\ HeapInv
  BY DEF PInv
<1>2. N \in Nat /\ DOMAIN heap = 1..N /\ DOMAIN P = 1..N /\ \A i \in 1..N : PhysicalIs(i)
  BY <1>1, PhysicalPlanIs
<1>3. N # 0
  <2>1. heap # <<>> /\ IsSeq(heap)
    BY <1>1 DEF HeapInv, Planned
  <2> QED
    BY <2>1, EmptySeq DEF IsSeq
<1>4. ASSUME NEW i \in 1..N
      PROVE  /\ Number(i) \in 1..N /\ Number(Number(i)) = i /\ x(i) \in DOMAIN logical
             /\ P[i].kind = logical[x(i)].kind
             /\ P[i].child \in Seq(1..N) /\ Len(P[i].child) = Len(logical[x(i)].child)
             /\ P[i].related \in Seq(1..N) /\ Len(P[i].related) = Len(logical[x(i)].related)
             /\ \A k \in DOMAIN P[i].child :
                  /\ k \in DOMAIN at(i).child /\ k \in DOMAIN logical[x(i)].child
                  /\ P[i].child[k] = Number(at(i).child[k]) /\ at(i).child[k] \in 1..N
                  /\ at(i).child[k] < Number(i) /\ heap[at(i).child[k]].op = logical[x(i)].child[k]
             /\ \A k \in DOMAIN P[i].related :
                  /\ k \in DOMAIN logical[x(i)].related
                  /\ P[i].related[k] = Number(at(i).related[k]) /\ at(i).related[k] \in 1..N
                  /\ heap[at(i).related[k]].op = logical[x(i)].related[k]
  <2> DEFINE o == Number(i)
             c == heap[o].child
             r == heap[o].related
             y == heap[o].op
  <2>1. /\ o \in 1..N /\ Number(o) = i /\ P[i].kind = logical[y].kind
        /\ P[i].child = [k \in DOMAIN c |-> Number(c[k])]
        /\ P[i].related = [k \in DOMAIN r |-> Number(r[k])]
    BY <1>2 DEF PhysicalIs
  <2>2. /\ y \in DOMAIN logical /\ IsSeq(c) /\ Len(c) = Len(logical[y].child)
        /\ \A k \in DOMAIN c : c[k] \in 1..N /\ c[k] < o /\ heap[c[k]].op = logical[y].child[k]
        /\ IsSeq(r) /\ Len(r) = Len(logical[y].related)
        /\ \A k \in DOMAIN r : r[k] \in 1..N /\ heap[r[k]].op = logical[y].related[k]
    <3>1. OperatorIn(logical, heap, o)
      BY <1>1, <1>2, <2>1 DEF HeapInv, OperatorOK
    <3> HIDE DEF o
    <3> QED
      BY <1>2, <3>1 DEF OperatorIn
  <2>3. /\ DOMAIN c = 1..Len(c) /\ DOMAIN r = 1..Len(r)
        /\ DOMAIN logical[y].child = 1..Len(logical[y].child)
        /\ DOMAIN logical[y].related = 1..Len(logical[y].related)
    <3>1. DOMAIN c = 1..Len(c) /\ DOMAIN r = 1..Len(r)
      BY <2>2, SeqIsSeq DEF IsSeq
    <3> QED
      BY <1>1, <2>2, <3>1, WantIs
  <2> HIDE DEF o, c, r, y
  <2>4. P[i].child \in Seq(1..N) /\ Len(P[i].child) = Len(c) /\ DOMAIN P[i].child = DOMAIN c
    <3>1. P[i].child = [k \in DOMAIN c |-> N + 1 - c[k]]
      BY <2>1 DEF Number
    <3>2. \A k \in DOMAIN c : c[k] \in 1..N
      BY <2>2
    <3> HIDE DEF P, N
    <3> QED
      BY <1>2, <2>2, <3>1, <3>2, NumbersOf
  <2>5. P[i].related \in Seq(1..N) /\ Len(P[i].related) = Len(r) /\ DOMAIN P[i].related = DOMAIN r
    <3>1. P[i].related = [k \in DOMAIN r |-> N + 1 - r[k]]
      BY <2>1 DEF Number
    <3>2. \A k \in DOMAIN r : r[k] \in 1..N
      BY <2>2
    <3> HIDE DEF P, N
    <3> QED
      BY <1>2, <2>2, <3>1, <3>2, NumbersOf
  <2>6. \A k \in DOMAIN P[i].child :
          /\ k \in DOMAIN c /\ k \in DOMAIN logical[y].child
          /\ P[i].child[k] = Number(c[k]) /\ c[k] \in 1..N
          /\ c[k] < o /\ heap[c[k]].op = logical[y].child[k]
    <3> HIDE DEF P, N
    <3> QED
      BY <2>1, <2>2, <2>3, <2>4
  <2>7. \A k \in DOMAIN P[i].related :
          /\ k \in DOMAIN logical[y].related
          /\ P[i].related[k] = Number(r[k]) /\ r[k] \in 1..N
          /\ heap[r[k]].op = logical[y].related[k]
    <3> HIDE DEF P, N
    <3> QED
      BY <2>1, <2>2, <2>3, <2>5
  <2>8. /\ Number(i) = o /\ at(i).child = c /\ at(i).related = r /\ x(i) = y
    BY DEF o, c, r, y
  <2> HIDE DEF P, N, at, x
  <2> QED
    BY <2>1, <2>2, <2>4, <2>5, <2>6, <2>7, <2>8
<1> HIDE DEF P, at, x
<1>5. ASSUME NEW o \in 1..N
      PROVE  Number(o) \in 1..N /\ Number(Number(o)) = o /\ x(Number(o)) = heap[o].op
  BY <1>2 DEF Number, x
<1>6. \A o, h \in 1..N : heap[o].op = heap[h].op => o = h
  BY <1>1, <1>2 DEF HeapInv
<1>7. IsTree(P)
  <2> SUFFICES ASSUME NEW i \in 1..N, NEW k \in DOMAIN P[i].child
               PROVE  /\ P[i].child[k] # 1
                      /\ \A j \in 1..N : \A l \in DOMAIN P[j].child : P[i].child[k] = P[j].child[l] => i = j /\ k = l
    BY <1>2 DEF IsTree
  <2>1. P[i].child[k] # 1
    <3>1. P[i].child[k] = Number(at(i).child[k]) /\ at(i).child[k] \in 1..N /\ at(i).child[k] < Number(i) /\ Number(i) \in 1..N
      BY <1>4
    <3> QED
      BY <1>2, <3>1 DEF Number
  <2>2. ASSUME NEW j \in 1..N, NEW l \in DOMAIN P[j].child, P[i].child[k] = P[j].child[l]
        PROVE  i = j /\ k = l
    <3> DEFINE a == at(i).child[k]
               b == at(j).child[l]
    <3>1. /\ P[i].child[k] = Number(a) /\ a \in 1..N /\ heap[a].op = logical[x(i)].child[k]
          /\ k \in DOMAIN logical[x(i)].child /\ x(i) \in DOMAIN logical
      BY <1>4
    <3>2. /\ P[j].child[l] = Number(b) /\ b \in 1..N /\ heap[b].op = logical[x(j)].child[l]
          /\ l \in DOMAIN logical[x(j)].child /\ x(j) \in DOMAIN logical
      BY <1>4
    <3> HIDE DEF a, b
    <3>3. a = b
      <4>1. Number(a) = Number(b)
        BY <2>2, <3>1, <3>2, Zenon
      <4>2. a \in Int /\ b \in Int /\ Len(heap) \in Int
        BY <1>2, <3>1, <3>2
      <4> QED
        BY <4>1, <4>2 DEF Number
    <3>4. x(i) = x(j) /\ k = l
      BY <1>1, <3>1, <3>2, <3>3, OnlyParent
    <3>5. Number(i) = Number(j)
      BY <1>4, <1>6, <3>4 DEF x
    <3> QED
      BY <1>2, <3>4, <3>5 DEF Number
  <2> QED
    BY <2>1, <2>2
<1>8. ASSUME NEW i \in 1..N
      PROVE  /\ P[i].kind \in Kinds
             /\ P[i].child \in Seq(DOMAIN P) /\ Len(P[i].child) >= Arity(P[i].kind)
             /\ P[i].related \in Seq(DOMAIN P)
             /\ \A c \in ToSet(P[i].related) : P[c].kind = "create_bf"
             /\ P[i].kind # "use_bf" => P[i].related = <<>>
  <2>1. /\ x(i) \in DOMAIN logical /\ P[i].kind = logical[x(i)].kind
        /\ P[i].child \in Seq(1..N) /\ Len(P[i].child) = Len(logical[x(i)].child)
        /\ P[i].related \in Seq(1..N) /\ Len(P[i].related) = Len(logical[x(i)].related)
    BY <1>4
  <2>2. P[i].kind \in Kinds /\ Len(P[i].child) >= Arity(P[i].kind)
    BY <2>1, QueryPlanningAssumption
  <2>3. ASSUME NEW c \in ToSet(P[i].related)
        PROVE  P[c].kind = "create_bf"
    <3>1. PICK k \in DOMAIN P[i].related : c = P[i].related[k]
      BY <2>1 DEF ToSet
    <3>2. /\ k \in DOMAIN logical[x(i)].related /\ c = Number(at(i).related[k]) /\ at(i).related[k] \in 1..N
          /\ heap[at(i).related[k]].op = logical[x(i)].related[k]
      BY <1>4, <3>1
    <3>3. c \in 1..N /\ x(c) = logical[x(i)].related[k]
      BY <1>5, <3>2
    <3>4. logical[x(c)].kind = "create_bf"
      BY <1>1, <2>1, <3>2, <3>3 DEF IsLogicalPlan, ToSet
    <3> QED
      BY <1>4, <3>3, <3>4
  <2>4. P[i].kind # "use_bf" => P[i].related = <<>>
    <3> SUFFICES ASSUME P[i].kind # "use_bf" PROVE P[i].related = <<>>
      OBVIOUS
    <3>1. logical[x(i)].related = <<>>
      BY <1>1, <2>1 DEF IsLogicalPlan
    <3>2. Len(P[i].related) = 0
      BY <2>1, <3>1
    <3> QED
      BY <2>1, <3>2, EmptySeq
  <2> QED
    BY <1>2, <2>1, <2>2, <2>3, <2>4
<1>9. 1 \in DOMAIN P /\ NoOperator \notin DOMAIN P
  BY <1>2, <1>3 DEF NoOperator
<1>10. IsPlan(P)
  BY <1>2, <1>7, <1>8, <1>9 DEF IsPlan
<1> QED
  BY <1>10 DEF P

-----------------------------------------------------------------------------
(* From planning to building *)

\* The plan is being made or has been taken.
PlanningInv ==
  \/ PInv /\ logical \in LogicalPlans /\ plan = <<>> /\ phase = "idle" /\ execution = 0
  \/ calls = <<>> /\ heap = <<>>

\* Nothing is planned after that.
LEMMA PlanStepCalls ==
  ASSUME PlanStep
  PROVE  calls # <<>> /\ logical' = logical
BY Zenon DEF PlanStep, PlanChild, PlanRelated, MakeCreateBF, MakeOperator, Reuse, Made

\* No step of another part changes what is planned.
LEMMA PlanUnchanged ==
  ASSUME PInv, UNCHANGED planVars
  PROVE  PInv'
<1>1. logical' = logical /\ physical' = physical /\ heap' = heap /\ calls' = calls
  BY DEF planVars
<1>2. StackInv'
  BY <1>1, ZenonT(30) DEF PInv, StackInv, PlanCallOK, CallsLinked, Descending, NeedOf, Want
<1>3. UnderWay' /\ PhysicalInv' /\ HeapInv' /\ OwnersInv'
  BY <1>1 DEF PInv, UnderWay, PhysicalInv, HeapInv, OwnersInv, IsMade, IsOwned, OperatorOK
<1> QED
  BY <1>1, <1>2, <1>3 DEF PInv

\* Nothing is built before that.
LEMMA PlanningKeeps ==
  ASSUME PlanningInv, [PlanningNext]_planningVars
  PROVE  PlanningInv'
<1>1. CASE calls = <<>> /\ heap = <<>>
  <2>1. UNCHANGED planVars \/ TakePlan
    BY <1>1, PlanStepCalls DEF PlanningNext, planningVars
  <2>2. calls' = <<>> /\ heap' = <<>>
    BY <1>1, <2>1 DEF planVars, TakePlan
  <2> QED
    BY <2>2 DEF PlanningInv
<1>2. CASE PInv /\ logical \in LogicalPlans /\ plan = <<>> /\ phase = "idle" /\ execution = 0
  <2>1. CASE PlanStep /\ UNCHANGED buildVars
    BY <1>2, <2>1, PlanStepKeeps, PlanStepCalls DEF PlanningInv, buildVars
  <2>2. CASE TakePlan
    <3>1. calls' = <<>> /\ heap' = <<>>
      BY <2>2 DEF TakePlan, Planned
    <3> QED
      BY <3>1 DEF PlanningInv
  <2>3. CASE UNCHANGED planningVars
    <3>1. UNCHANGED planVars /\ UNCHANGED buildVars
      BY <2>3 DEF planningVars
    <3> QED
      BY <1>2, <3>1, PlanUnchanged DEF PlanningInv, buildVars, planVars
  <2>4. CASE EndExecution
    BY <1>2, <2>4 DEF EndExecution
  <2> QED
    BY <1>2, <2>1, <2>2, <2>3, <2>4 DEF PlanningNext
<1> QED
  BY <1>1, <1>2 DEF PlanningInv

\* While a plan is made, every operator has its owner at the end and is in the tree.
LEMMA PlanningSuffices ==
  ASSUME PlanningInv
  PROVE  OwnedOnce /\ OneOperatorInTree
<1>1. CASE calls = <<>> /\ heap = <<>>
  BY <1>1 DEF OwnedOnce, OneOperatorInTree, Planned
<1> QED
  BY <1>1, PlanComplete DEF PlanningInv

\* Planning starts with the root.
LEMMA PlanningStarts ==
  ASSUME PlanningInit
  PROVE  PlanningInv
BY PlanInitInv DEF PlanningInit, PlanInit, PlanningInv

\* Whatever logical plan CreatePlan gets, and whether a CreateBF is planned first by
\* its parent or from the side by a UseBF, every physical operator ends up with one
\* owner.
THEOREM PlanOwnedOnce == PlanningSpec => []OwnedOnce
<1>1. PlanningInit => PlanningInv
  BY PlanningStarts
<1>2. PlanningInv /\ [PlanningNext]_planningVars => PlanningInv'
  BY PlanningKeeps
<1>3. PlanningInv => OwnedOnce
  BY PlanningSuffices
<1> QED
  BY <1>1, <1>2, <1>3, PTL DEF PlanningSpec

\* The operators that CreatePlan and CreatePlanfromRelated make are those of the tree
\* that planning returns, one for each logical operator.
THEOREM PlanInOneTree == PlanningSpec => []OneOperatorInTree
<1>1. PlanningInit => PlanningInv
  BY PlanningStarts
<1>2. PlanningInv /\ [PlanningNext]_planningVars => PlanningInv'
  BY PlanningKeeps
<1>3. PlanningInv => OneOperatorInTree
  BY PlanningSuffices
<1> QED
  BY <1>1, <1>2, <1>3, PTL DEF PlanningSpec

\* The plan that is executed once: being made, being built for or used up.
ExecutedOnce ==
  \/ plan = <<>> /\ phase = "idle" /\ execution = 0 /\ PInv /\ logical \in LogicalPlans
  \/ /\ calls = <<>> /\ heap = <<>> /\ SInv
     /\ phase = "idle" => execution = 0
     /\ phase # "idle" => execution = 1
  \/ calls = <<>> /\ heap = <<>> /\ phase = "idle" /\ execution = 1

\* A step of building counts the execution when it starts.
LEMMA BuildStepCounts ==
  ASSUME BuildStep
  PROVE  \/ phase = "idle" /\ execution < MaxExecutions /\ phase' = "building" /\ execution' = execution + 1
         \/ phase = "building" /\ phase' \in {"building", "scheduled"} /\ execution' = execution
<1>1. CASE InitializeInternal
  BY <1>1 DEF InitializeInternal
<1>2. CASE Ready
  BY <1>2 DEF Ready
<1>3. ASSUME \/ BuildSource \/ BuildStreaming \/ BuildSink \/ BuildCreateBF \/ BuildPipelinesFromRelated
             \/ BuildUseBF \/ BuildJoin \/ BuildJoinSource \/ BuildUnion \/ BuildUnionOrder
             \/ BuildIEJoin \/ BuildIEJoinRight \/ BuildIEJoinFinish
      PROVE  phase = "building" /\ phase' = phase /\ execution' = execution
  BY <1>3, Zenon DEF BuildSource, BuildStreaming, BuildSink, BuildCreateBF,
       BuildPipelinesFromRelated, BuildUseBF, BuildJoin, BuildJoinSource, BuildUnion,
       BuildUnionOrder, BuildIEJoin, BuildIEJoinRight, BuildIEJoinFinish, Build, Calling
<1> QED
  BY <1>1, <1>2, <1>3 DEF BuildStep

\* The plan that is taken has no pipelines.
LEMMA TakenPlan ==
  ASSUME PInv, logical \in LogicalPlans, phase = "idle", TakePlan
  PROVE  SInv'
<1> DEFINE P == PhysicalPlan
<1>1. IsPlan(P)
  BY PhysicalPlanIsPlan DEF TakePlan
<1>2. /\ plan' = P /\ phase' = "idle"
      /\ build' = [NoPipelines EXCEPT !.this_pipeline = [op \in DOMAIN P |-> NoPipeline]]
  BY DEF TakePlan
<1> HIDE DEF P
<1>3. /\ DOMAIN build' = BuildFields
      /\ build'.pipelines = <<>> /\ build'.metas = <<>> /\ build'.calls = <<>> /\ build'.root = 0
      /\ build'.this_pipeline = [op \in DOMAIN plan' |-> NoPipeline]
  BY <1>2 DEF NoPipelines, BuildFields
<1>4. Shape(build)'
  BY <1>3 DEF Shape, IsSeq, Op
<1> QED
  BY <1>1, <1>2, <1>3, <1>4 DEF SInv, WInv, Op

\* A plan that is executed once is built for once.
LEMMA ExecutedOnceKeeps ==
  ASSUME MaxExecutions = 1, ExecutedOnce, [PlanningNext]_planningVars
  PROVE  ExecutedOnce'
<1>1. CASE plan = <<>> /\ phase = "idle" /\ execution = 0 /\ PInv /\ logical \in LogicalPlans
  <2>1. CASE PlanStep /\ UNCHANGED buildVars
    BY <1>1, <2>1, PlanStepKeeps, PlanStepCalls DEF ExecutedOnce, buildVars
  <2>2. CASE TakePlan
    <3>1. calls' = <<>> /\ heap' = <<>> /\ phase' = "idle" /\ execution' = 0
      BY <1>1, <2>2 DEF TakePlan, Planned
    <3>2. SInv'
      BY <1>1, <2>2, TakenPlan
    <3> QED
      BY <3>1, <3>2 DEF ExecutedOnce
  <2>3. CASE UNCHANGED planningVars
    <3>1. UNCHANGED planVars /\ UNCHANGED buildVars
      BY <2>3 DEF planningVars
    <3> QED
      BY <1>1, <3>1, PlanUnchanged DEF ExecutedOnce, buildVars, planVars
  <2>4. CASE EndExecution
    BY <1>1, <2>4 DEF EndExecution
  <2> QED
    BY <1>1, <2>1, <2>2, <2>3, <2>4 DEF PlanningNext
<1>2. CASE calls = <<>> /\ heap = <<>> /\ SInv /\ (phase = "idle" => execution = 0) /\ (phase # "idle" => execution = 1)
  <2>1. CASE BuildStep /\ UNCHANGED planVars
    <3>1. SInv' /\ calls' = <<>> /\ heap' = <<>>
      BY <1>2, <2>1, BuildStepOnce DEF planVars
    <3>2. phase' # "idle" /\ execution' = 1
      BY <1>2, <2>1, BuildStepCounts
    <3> QED
      BY <3>1, <3>2 DEF ExecutedOnce
  <2>2. CASE EndExecution /\ UNCHANGED planVars
    BY <1>2, <2>2 DEF EndExecution, ExecutedOnce, planVars
  <2>3. CASE UNCHANGED planningVars
    <3>1. UNCHANGED planVars /\ UNCHANGED buildVars
      BY <2>3 DEF planningVars
    <3>2. SInv'
      BY <1>2, <3>1, SinksStutter
    <3> QED
      BY <1>2, <3>1, <3>2 DEF ExecutedOnce, buildVars, planVars
  <2>4. ~PlanStep /\ ~TakePlan
    BY <1>2, PlanStepCalls DEF TakePlan, Planned
  <2> QED
    BY <2>1, <2>2, <2>3, <2>4 DEF PlanningNext
<1>3. CASE calls = <<>> /\ heap = <<>> /\ phase = "idle" /\ execution = 1
  <2>1. ~PlanStep /\ ~TakePlan
    BY <1>3, PlanStepCalls DEF TakePlan, Planned
  <2>2. ~BuildStep
    BY <1>3, BuildStepCounts
  <2>3. ~EndExecution
    BY <1>3 DEF EndExecution
  <2>4. UNCHANGED planningVars
    BY <2>1, <2>2, <2>3 DEF PlanningNext
  <2> QED
    BY <1>3, <2>4 DEF ExecutedOnce, planningVars, planVars, buildVars
<1> QED
  BY <1>1, <1>2, <1>3 DEF ExecutedOnce

\* What has been built for it is right.
LEMMA ExecutedOnceSuffices ==
  ASSUME ExecutedOnce
  PROVE  OneSinkPerOperator /\ FiltersBuiltBeforeUse
<1>1. CASE phase = "idle"
  BY <1>1 DEF OneSinkPerOperator, FiltersBuiltBeforeUse
<1>2. CASE phase # "idle"
  <2>1. SInv
    BY <1>2 DEF ExecutedOnce
  <2> QED
    BY <2>1, SinksSuffice
<1> QED
  BY <1>1, <1>2

\* Planning has not begun.
LEMMA ExecutedOnceStarts ==
  ASSUME PlanningInit
  PROVE  ExecutedOnce
BY PlanInitInv DEF PlanningInit, PlanInit, ExecutedOnce

\* From any logical plan to the pipelines of its execution: the links that planning
\* makes from the side lead BuildPipelines to every operator, and to none twice.
THEOREM PlannedOneSink ==
  ASSUME MaxExecutions = 1
  PROVE  PlanningSpec => []OneSinkPerOperator
<1>1. PlanningInit => ExecutedOnce
  BY ExecutedOnceStarts
<1>2. ExecutedOnce /\ [PlanningNext]_planningVars => ExecutedOnce'
  BY ExecutedOnceKeeps
<1>3. ExecutedOnce => OneSinkPerOperator
  BY ExecutedOnceSuffices
<1> QED
  BY <1>1, <1>2, <1>3, PTL DEF PlanningSpec

\* From any logical plan to the events of its execution: a pipeline that probes a
\* filter waits for the physical CreateBF that planning linked its UseBF to.
THEOREM PlannedWaits ==
  ASSUME MaxExecutions = 1
  PROVE  PlanningSpec => []FiltersBuiltBeforeUse
<1>1. PlanningInit => ExecutedOnce
  BY ExecutedOnceStarts
<1>2. ExecutedOnce /\ [PlanningNext]_planningVars => ExecutedOnce'
  BY ExecutedOnceKeeps
<1>3. ExecutedOnce => FiltersBuiltBeforeUse
  BY ExecutedOnceSuffices
<1> QED
  BY <1>1, <1>2, <1>3, PTL DEF PlanningSpec

=============================================================================
