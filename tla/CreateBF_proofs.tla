--------------------------- MODULE CreateBF_proofs ---------------------------
(***************************************************************************)
(* The filters of a CreateBF hold every chunk of its input once, and its   *)
(* scan hands every chunk on once, for any number of threads and chunks.   *)
(***************************************************************************)
EXTENDS CreateBF, FiniteSetTheorems, TLAPS

-----------------------------------------------------------------------------
(* How the chunks are cut into ranges *)

\* R cuts 0..(n - 1) into consecutive ranges.
IsCut(R, n) ==
  /\ \A i \in DOMAIN R : /\ R[i].from \in Nat /\ R[i].to \in Nat
                         /\ R[i].from <= R[i].to /\ R[i].to <= n
  /\ \A i, j \in DOMAIN R : i < j => R[i].to <= R[j].from
  /\ \A p \in 0..(n - 1) : \E i \in DOMAIN R : R[i].from <= p /\ p < R[i].to

\* Division rounds down.
LEMMA DivBounds ==
  ASSUME NEW a \in Nat, NEW b \in Nat \ {0}
  PROVE  a \div b \in Nat /\ b * (a \div b) <= a /\ a < b * (a \div b) + b
OBVIOUS

\* Multiples of k are k apart.
LEMMA MultiplesApart ==
  ASSUME NEW a \in Nat, NEW b \in Nat, NEW k \in Nat, a < b
  PROVE  a * k + k <= b * k
<1>1. PICK d \in Nat : b = a + 1 + d
  <2>1. b - a - 1 \in Nat /\ b = a + 1 + (b - a - 1)
    OBVIOUS
  <2> QED
    BY <2>1
<1>2. b * k = a * k + k + d * k
  BY <1>1
<1>3. d * k \in Nat
  OBVIOUS
<1> QED
  BY <1>2, <1>3

\* One range per thread is enough: the ranges are long enough for all chunks.
LEMMA RangesSuffice ==
  ASSUME NEW n \in Nat, num_threads \in Nat \ {0}
  PROVE  /\ ChunksPerThread(n) \in Nat \ {0}
         /\ n <= num_threads * ChunksPerThread(n)
<1> DEFINE q == (n + num_threads - 1) \div num_threads
<1>1. n + num_threads - 1 \in Nat
  OBVIOUS
<1>2. q \in Nat /\ n + num_threads - 1 < num_threads * q + num_threads
  BY <1>1, DivBounds
<1>3. num_threads * q \in Nat
  BY <1>2
<1>4. n <= num_threads * q
  BY <1>2, <1>3
<1>5. CASE q > 1
  BY <1>2, <1>4, <1>5 DEF ChunksPerThread, Greatest
<1>6. CASE ~(q > 1)
  <2>1. ChunksPerThread(n) = 1
    BY <1>6 DEF ChunksPerThread, Greatest
  <2>2. q = 0 \/ q = 1
    BY <1>2, <1>6
  <2>3. n <= num_threads
    BY <1>4, <2>2
  <2> QED
    BY <2>1, <2>3
<1> QED
  BY <1>5, <1>6

\* The ranges of both loops are a cut into at most one range per thread, none
\* of them empty.
LEMMA RangesCut ==
  ASSUME NEW n \in Nat, num_threads \in Nat \ {0}
  PROVE  /\ IsCut(Ranges(n), n)
         /\ \E m \in 0..num_threads : DOMAIN Ranges(n) = 1..m /\ Len(Ranges(n)) = m
         /\ \A i \in DOMAIN Ranges(n) : Ranges(n)[i].from < Ranges(n)[i].to
<1> DEFINE k == ChunksPerThread(n)
           c == (n + k - 1) \div k
           m == Least(num_threads, c)
           R == Ranges(n)
<1>1. k \in Nat \ {0} /\ n <= num_threads * k
  BY RangesSuffice
<1>2. n + k - 1 \in Nat
  BY <1>1
<1>3. c \in Nat /\ k * c <= n + k - 1 /\ n + k - 1 < k * c + k
  BY <1>1, <1>2, DivBounds
<1> HIDE DEF k, c
<1>4. m \in 0..num_threads /\ m <= c
  BY <1>3 DEF Least
<1>5. R = [i \in 1..m |-> [from |-> (i - 1) * k, to |-> Least(i * k, n)]]
  BY DEF Ranges, k, c
<1> HIDE DEF m, R
<1>6. ASSUME NEW i \in 1..m
      PROVE  /\ R[i].from = (i - 1) * k /\ R[i].to = Least(i * k, n)
             /\ R[i].from \in Nat /\ R[i].to \in Nat
             /\ R[i].from < R[i].to /\ R[i].to <= n
  <2>1. i \in Nat /\ i - 1 \in Nat /\ i <= c
    BY <1>3, <1>4
  <2>2. R[i].from = (i - 1) * k /\ R[i].to = Least(i * k, n)
    BY <1>5
  <2>3. (i - 1) * k + k <= c * k
    BY <1>1, <1>3, <2>1, MultiplesApart
  <2>4. c * k = k * c /\ (i - 1) * k \in Nat /\ i * k = (i - 1) * k + k
    BY <1>1, <1>3, <2>1
  <2>5. (i - 1) * k < n /\ (i - 1) * k < i * k
    BY <1>1, <1>3, <2>3, <2>4
  <2> QED
    BY <1>1, <2>2, <2>4, <2>5 DEF Least
<1>7. DOMAIN R = 1..m /\ Len(R) = m
  BY <1>4, <1>5
<1>8. ASSUME NEW i \in 1..m, NEW j \in 1..m, i < j
      PROVE  R[i].to <= R[j].from
  <2>1. (i - 1) * k + k <= (j - 1) * k
    BY <1>1, <1>4, <1>8, MultiplesApart
  <2>2. i * k = (i - 1) * k + k /\ i * k \in Int /\ (j - 1) * k \in Int
    BY <1>1
  <2>3. R[i].to = Least(i * k, n) /\ R[j].from = (j - 1) * k
    BY <1>6
  <2>4. Least(i * k, n) <= i * k /\ Least(i * k, n) \in Int
    BY <2>2 DEF Least
  <2> QED
    BY <2>1, <2>2, <2>3, <2>4
<1>9. ASSUME NEW p \in 0..(n - 1)
      PROVE  \E i \in 1..m : R[i].from <= p /\ p < R[i].to
  <2> DEFINE q == p \div k
  <2>1. q \in Nat /\ k * q <= p /\ p < k * q + k
    BY <1>1, DivBounds
  <2> HIDE DEF q
  <2>2. q < num_threads
    <3>1. SUFFICES ASSUME num_threads <= q PROVE FALSE
      BY <2>1
    <3>2. num_threads * k <= q * k
      <4>1. num_threads = q \/ num_threads < q
        BY <2>1, <3>1
      <4>2. num_threads < q => num_threads * k + k <= q * k
        BY <1>1, <2>1, MultiplesApart
      <4> QED
        BY <1>1, <2>1, <4>1, <4>2
    <3>3. q * k = k * q /\ q * k \in Nat /\ num_threads * k \in Nat
      BY <1>1, <2>1
    <3> QED
      BY <1>1, <2>1, <3>2, <3>3
  <2>3. q < c
    <3>1. SUFFICES ASSUME c <= q PROVE FALSE
      BY <1>3, <2>1
    <3>2. c * k <= q * k
      <4>1. c = q \/ c < q
        BY <1>3, <2>1, <3>1
      <4>2. c < q => c * k + k <= q * k
        BY <1>1, <1>3, <2>1, MultiplesApart
      <4>3. c * k \in Nat /\ q * k \in Nat
        BY <1>1, <1>3, <2>1
      <4> QED
        BY <1>1, <4>1, <4>2, <4>3
    <3>3. q * k = k * q /\ c * k = k * c /\ q * k \in Nat /\ c * k \in Nat
      BY <1>1, <1>3, <2>1
    <3> QED
      BY <1>1, <1>3, <2>1, <3>2, <3>3
  <2>4. q + 1 \in 1..m
    BY <1>3, <2>1, <2>2, <2>3 DEF m, Least
  <2>5. R[q + 1].from = q * k /\ R[q + 1].to = Least((q + 1) * k, n)
    <3>1. (q + 1) - 1 = q
      BY <2>1
    <3> QED
      BY <1>6, <2>4, <3>1
  <2>6. q * k = k * q /\ (q + 1) * k = k * q + k /\ k * q \in Nat
    BY <1>1, <2>1
  <2>7. R[q + 1].from <= p /\ p < R[q + 1].to
    BY <1>1, <2>1, <2>5, <2>6 DEF Least
  <2> QED
    BY <2>4, <2>7
<1>10. IsCut(R, n)
  <2>1. \A i \in DOMAIN R : /\ R[i].from \in Nat /\ R[i].to \in Nat
                            /\ R[i].from <= R[i].to /\ R[i].to <= n
    BY <1>6, <1>7
  <2>2. \A i, j \in DOMAIN R : i < j => R[i].to <= R[j].from
    BY <1>7, <1>8
  <2>3. \A p \in 0..(n - 1) : \E i \in DOMAIN R : R[i].from <= p /\ p < R[i].to
    BY <1>7, <1>9
  <2> QED
    BY <2>1, <2>2, <2>3 DEF IsCut
<1> QED
  BY <1>4, <1>6, <1>7, <1>10 DEF R

\* The tasks of the finalize event cut the chunks too.
LEMMA FinalizeRangesCut ==
  ASSUME NEW n \in Nat, num_threads \in Nat \ {0}
  PROVE  /\ IsCut(FinalizeRanges(n), n)
         /\ \E m \in 1..num_threads : DOMAIN FinalizeRanges(n) = 1..m
<1> DEFINE single == <<[from |-> 0, to |-> n]>>
<1>1. DOMAIN single = 1..1 /\ single[1].from = 0 /\ single[1].to = n
  OBVIOUS
<1>2. IsCut(single, n)
  BY <1>1 DEF IsCut
<1>3. CASE FinalizeRanges(n) = single
  BY <1>1, <1>2, <1>3
<1>4. CASE FinalizeRanges(n) = Ranges(n) /\ n > 0
  <2>1. PICK m \in 0..num_threads : DOMAIN Ranges(n) = 1..m
    BY RangesCut
  <2>2. IsCut(Ranges(n), n)
    BY RangesCut
  <2>3. m # 0
    <3>1. \E i \in DOMAIN Ranges(n) : Ranges(n)[i].from <= 0
      BY <1>4, <2>2 DEF IsCut
    <3> QED
      BY <2>1, <3>1
  <2> QED
    BY <1>4, <2>1, <2>2, <2>3
<1> QED
  BY <1>3, <1>4 DEF FinalizeRanges

-----------------------------------------------------------------------------
(* The inductive invariant *)

\* The chunks are 1..num_chunks, in a pipeline of num_threads tasks.
SettingsInv ==
  /\ num_threads \in ThreadCounts /\ num_threads \in Nat \ {0}
  /\ num_chunks \in 0..MaxChunks /\ num_chunks \in Nat
  /\ parallel \in Consumers
  /\ phase \in {"sink", "build", "built", "scan", "done"}
  /\ inserted \in [Chunk -> Nat]
  /\ emitted \in [Chunk -> Nat]

Input == 1..num_chunks

\* The collections of the tasks, and the tasks that have combined theirs.
SinkTypes ==
  /\ input \subseteq Input
  /\ combined \subseteq SinkTask
  /\ local_data \in [SinkTask -> Seq(Input)]
  /\ local_data_collections \in Seq(Input)
  /\ \A t \in combined : local_data[t] = <<>>
  /\ combined = SinkTask => input = {}

\* A chunk in the collection of a task is nowhere else.
LocalOnce ==
  \A t \in SinkTask : \A i \in DOMAIN local_data[t] :
    /\ local_data[t][i] \notin input
    /\ \A j \in DOMAIN local_data_collections : local_data[t][i] # local_data_collections[j]
    /\ \A u \in SinkTask : \A j \in DOMAIN local_data[u] :
         local_data[t][i] = local_data[u][j] => t = u /\ i = j

\* Nor is one that has been combined.
CombinedOnce ==
  \A i \in DOMAIN local_data_collections :
    /\ local_data_collections[i] \notin input
    /\ \A j \in DOMAIN local_data_collections :
         local_data_collections[i] = local_data_collections[j] => i = j

\* Every chunk is somewhere.
NoneLost ==
  \A c \in Input :
    \/ c \in input
    \/ \E t \in SinkTask : \E i \in DOMAIN local_data[t] : local_data[t][i] = c
    \/ \E i \in DOMAIN local_data_collections : local_data_collections[i] = c

SinkInv == SinkTypes /\ LocalOnce /\ CombinedOnce /\ NoneLost

\* total_data is the input in some order.
DataInv ==
  /\ total_data \in Seq(Input)
  /\ \A i, j \in DOMAIN total_data : total_data[i] = total_data[j] => i = j
  /\ \A c \in Input : \E i \in DOMAIN total_data : total_data[i] = c

NumChunks == Len(total_data)
BuildRange == FinalizeRanges(NumChunks)

\* A finalize task has inserted the part of its range that it has passed.
BuildInv ==
  /\ DOMAIN finalize_tasks = DOMAIN BuildRange
  /\ \A k \in DOMAIN BuildRange :
       /\ finalize_tasks[k] \in [pos : Nat, to : Nat, finished : BOOLEAN]
       /\ finalize_tasks[k].to = BuildRange[k].to
       /\ BuildRange[k].from <= finalize_tasks[k].pos
       /\ finalize_tasks[k].pos <= finalize_tasks[k].to
       /\ finalize_tasks[k].finished => finalize_tasks[k].pos = finalize_tasks[k].to
       /\ \A p \in BuildRange[k].from..(BuildRange[k].to - 1) :
            inserted[total_data[p + 1]] = IF p < finalize_tasks[k].pos THEN 1 ELSE 0
  /\ \A c \in Chunk \ Input : inserted[c] = 0
  /\ phase # "build" => \A k \in DOMAIN BuildRange : finalize_tasks[k].finished

ScanRange == Ranges(NumChunks)

\* Task s has claimed range k and returned its chunks up to its position.
Owns(s, k) ==
  /\ ~scan_tasks[s].initial
  /\ scan_tasks[s].to = ScanRange[k].to
  /\ ScanRange[k].from < scan_tasks[s].chunk
  /\ scan_tasks[s].chunk <= ScanRange[k].to

ScanTask == 1..NumScanTasks

Claimants == {s \in ScanTask : ~scan_tasks[s].initial}

\* Tasks claim ranges in order, and partition_id counts the tasks that have.
ClaimInv ==
  /\ chunks_todo = ScanRange
  /\ scan_tasks \in [ScanTask -> [initial : BOOLEAN, chunk : Nat, to : Nat, finished : BOOLEAN]]
  /\ partition_id = Cardinality(Claimants)

\* A task is new, owns a claimed range, or has finished at the end of one.
TaskInv(s) ==
  /\ scan_tasks[s].chunk <= NumChunks
  /\ scan_tasks[s].initial => scan_tasks[s] = NewScan
  /\ scan_tasks[s].initial \/ scan_tasks[s].finished \/ \E k \in DOMAIN ScanRange : Owns(s, k)
  /\ scan_tasks[s].finished => scan_tasks[s].chunk = scan_tasks[s].to
  /\ \A k \in DOMAIN ScanRange : Owns(s, k) => k <= partition_id

\* The first n chunks of a range have been handed on once, the others not yet.
Passed(k, n) ==
  \A p \in ScanRange[k].from..(ScanRange[k].to - 1) :
    emitted[total_data[p + 1]] = IF p < n THEN 1 ELSE 0

\* A claimed range has one owner, which has handed on what it has passed; of
\* the other ranges nothing has been handed on.
RangeInv(k) ==
  /\ \A s, r \in ScanTask : Owns(s, k) /\ Owns(r, k) => s = r
  /\ k <= partition_id => \E s \in ScanTask : Owns(s, k) /\ Passed(k, scan_tasks[s].chunk)
  /\ ~(k <= partition_id) => Passed(k, 0)

ScanInv ==
  /\ ClaimInv
  /\ \A s \in ScanTask : TaskInv(s)
  /\ \A k \in DOMAIN ScanRange : RangeInv(k)
  /\ \A c \in Chunk \ Input : emitted[c] = 0
  /\ phase = "done" => \A s \in ScanTask : scan_tasks[s].finished

NothingScanned ==
  /\ emitted = [c \in Chunk |-> 0] /\ partition_id = 0
  /\ chunks_todo = <<>> /\ scan_tasks = <<>>

IInv ==
  /\ SettingsInv
  /\ SinkInv
  /\ phase = "sink" =>
       total_data = <<>> /\ finalize_tasks = <<>> /\ inserted = [c \in Chunk |-> 0]
  /\ phase # "sink" => DataInv /\ BuildInv
  /\ phase \in {"sink", "build", "built"} => NothingScanned
  /\ phase \in {"scan", "done"} => ScanInv

-----------------------------------------------------------------------------
(* The sink *)

\* Nothing has been received yet.
LEMMA InitIInv == Init => IInv
<1> SUFFICES ASSUME Init PROVE IInv
  OBVIOUS
<1>1. SettingsInv
  BY CreateBFAssumption DEF Init, SettingsInv
<1>2. SinkTask # {}
  BY <1>1 DEF SettingsInv, SinkTask
<1>3. SinkInv
  BY <1>2 DEF Init, SinkInv, SinkTypes, LocalOnce, CombinedOnce, NoneLost, Input
<1> QED
  BY <1>1, <1>3 DEF Init, IInv, NothingScanned

\* A sink task takes a chunk from the child into its own collection.
LEMMA SinkKeepsInv ==
  ASSUME IInv, NEW t \in SinkTask, NEW c \in Chunk, Sink(t, c)
  PROVE  IInv'
<1>1. /\ phase = "sink" /\ t \notin combined /\ c \in input
      /\ input' = input \ {c}
      /\ local_data' = [local_data EXCEPT ![t] = Append(@, c)]
      /\ UNCHANGED <<settings, combined, local_data_collections, phase, buildVars, scanVars>>
  BY DEF Sink
<1>2. /\ SettingsInv /\ SinkInv /\ NothingScanned
      /\ total_data = <<>> /\ finalize_tasks = <<>> /\ inserted = [d \in Chunk |-> 0]
  BY <1>1 DEF IInv
<1>3. SinkTask' = SinkTask /\ Input' = Input
  BY <1>1 DEF SinkTask, Input, settings
<1>4. c \in Input /\ local_data \in [SinkTask -> Seq(Input)]
  BY <1>1, <1>2 DEF SinkInv, SinkTypes
<1> DEFINE n == Len(local_data[t])
<1>5. /\ local_data' \in [SinkTask -> Seq(Input)]
      /\ \A u \in SinkTask : u # t => local_data'[u] = local_data[u]
      /\ local_data'[t] = Append(local_data[t], c)
  BY <1>1, <1>4
<1>6. /\ n \in Nat
      /\ DOMAIN local_data[t] = 1..n /\ DOMAIN local_data'[t] = 1..(n + 1)
      /\ \A i \in 1..n : local_data'[t][i] = local_data[t][i]
      /\ local_data'[t][n + 1] = c
  BY <1>4, <1>5
<1> HIDE DEF n
<1>7. \A u \in SinkTask : \A i \in DOMAIN local_data'[u] :
        \/ i \in DOMAIN local_data[u] /\ local_data'[u][i] = local_data[u][i]
        \/ u = t /\ i = n + 1 /\ local_data'[u][i] = c
  BY <1>5, <1>6
<1>8. \A u \in SinkTask : \A i \in DOMAIN local_data[u] :
        i \in DOMAIN local_data'[u] /\ local_data'[u][i] = local_data[u][i]
  BY <1>5, <1>6
<1>9. SinkInv'
  <2>1. \A u \in SinkTask : \A i \in DOMAIN local_data'[u] :
          /\ local_data'[u][i] \notin input'
          /\ \A j \in DOMAIN local_data_collections : local_data'[u][i] # local_data_collections[j]
    BY <1>1, <1>2, <1>7 DEF SinkInv, LocalOnce, CombinedOnce
  <2>2. \A u \in SinkTask : \A i \in DOMAIN local_data[u] : local_data[u][i] # c
    BY <1>1, <1>2 DEF SinkInv, LocalOnce
  <2>3. \A u, v \in SinkTask : \A i \in DOMAIN local_data'[u] : \A j \in DOMAIN local_data'[v] :
          local_data'[u][i] = local_data'[v][j] => u = v /\ i = j
    <3>1. SUFFICES ASSUME NEW u \in SinkTask, NEW v \in SinkTask,
                          NEW i \in DOMAIN local_data'[u], NEW j \in DOMAIN local_data'[v],
                          local_data'[u][i] = local_data'[v][j]
                   PROVE  u = v /\ i = j
      OBVIOUS
    <3>2. CASE local_data'[u][i] = c
      <4>1. u = t /\ i = n + 1
        BY <1>7, <2>2, <3>2
      <4>2. v = t /\ j = n + 1
        BY <1>7, <2>2, <3>1, <3>2
      <4> QED
        BY <4>1, <4>2
    <3>3. CASE local_data'[u][i] # c
      <4>1. /\ i \in DOMAIN local_data[u] /\ j \in DOMAIN local_data[v]
            /\ local_data[u][i] = local_data[v][j]
        BY <1>7, <3>1, <3>3
      <4> QED
        BY <1>2, <4>1 DEF SinkInv, LocalOnce
    <3> QED
      BY <3>2, <3>3
  <2>4. \A d \in Input :
          \/ d \in input'
          \/ \E u \in SinkTask : \E i \in DOMAIN local_data'[u] : local_data'[u][i] = d
          \/ \E i \in DOMAIN local_data_collections : local_data_collections[i] = d
    <3>1. SUFFICES ASSUME NEW d \in Input, d \notin input',
                          ~\E i \in DOMAIN local_data_collections : local_data_collections[i] = d
                   PROVE  \E u \in SinkTask : \E i \in DOMAIN local_data'[u] : local_data'[u][i] = d
      OBVIOUS
    <3>2. CASE d = c
      BY <1>6, <3>2
    <3>3. CASE d # c
      <4>1. PICK u \in SinkTask : \E i \in DOMAIN local_data[u] : local_data[u][i] = d
        BY <1>1, <1>2, <3>1, <3>3 DEF SinkInv, NoneLost
      <4> QED
        BY <1>8, <4>1
    <3> QED
      BY <3>2, <3>3
  <2>5. /\ input' \subseteq Input /\ combined' \subseteq SinkTask
        /\ local_data_collections' \in Seq(Input)
        /\ \A u \in combined' : local_data'[u] = <<>>
        /\ combined' = SinkTask => input' = {}
    BY <1>1, <1>2, <1>5 DEF SinkInv, SinkTypes
  <2>6. \A i \in DOMAIN local_data_collections :
          /\ local_data_collections[i] \notin input'
          /\ \A j \in DOMAIN local_data_collections :
               local_data_collections[i] = local_data_collections[j] => i = j
    BY <1>1, <1>2 DEF SinkInv, CombinedOnce
  <2>7. SinkTypes'
    BY <1>3, <1>5, <2>5 DEF SinkTypes
  <2>8. LocalOnce'
    BY <1>1, <1>3, <2>1, <2>3 DEF LocalOnce
  <2>9. CombinedOnce' /\ NoneLost'
    BY <1>1, <1>3, <2>4, <2>6 DEF CombinedOnce, NoneLost
  <2> QED
    BY <2>7, <2>8, <2>9 DEF SinkInv
<1> QED
  BY <1>1, <1>2, <1>9 DEF IInv, SettingsInv, NothingScanned, settings, buildVars, scanVars

\* A collection joins the others.
LEMMA CombineKeepsInv ==
  ASSUME IInv, NEW t \in SinkTask, Combine(t)
  PROVE  IInv'
<1>1. /\ phase = "sink" /\ t \notin combined
      /\ input = {} \/ combined \cup {t} # SinkTask
      /\ combined' = combined \cup {t}
      /\ local_data_collections' = local_data_collections \o local_data[t]
      /\ local_data' = [local_data EXCEPT ![t] = <<>>]
      /\ UNCHANGED <<settings, input, phase, buildVars, scanVars>>
  BY DEF Combine
<1>2. /\ SettingsInv /\ SinkInv /\ NothingScanned
      /\ total_data = <<>> /\ finalize_tasks = <<>> /\ inserted = [d \in Chunk |-> 0]
  BY <1>1 DEF IInv
<1>3. SinkTask' = SinkTask /\ Input' = Input
  BY <1>1 DEF SinkTask, Input, settings
<1>4. /\ local_data \in [SinkTask -> Seq(Input)] /\ local_data_collections \in Seq(Input)
      /\ local_data[t] \in Seq(Input)
  BY <1>2 DEF SinkInv, SinkTypes
<1> DEFINE C == local_data_collections
           m == Len(C)
           n == Len(local_data[t])
<1>5. /\ local_data' \in [SinkTask -> Seq(Input)]
      /\ \A u \in SinkTask : u # t => local_data'[u] = local_data[u]
      /\ local_data'[t] = <<>>
  BY <1>1, <1>4
<1>6. /\ m \in Nat /\ n \in Nat /\ C' \in Seq(Input)
      /\ DOMAIN C = 1..m /\ DOMAIN local_data[t] = 1..n /\ DOMAIN C' = 1..(m + n)
      /\ \A i \in 1..m : C'[i] = C[i]
      /\ \A i \in 1..n : C'[m + i] = local_data[t][i]
      /\ \A i \in (m + 1)..(m + n) : i - m \in 1..n /\ C'[i] = local_data[t][i - m]
  BY <1>1, <1>4
<1>7. \A i \in DOMAIN C' :
        \/ i \in DOMAIN C /\ C'[i] = C[i]
        \/ i \notin DOMAIN C /\ i - m \in DOMAIN local_data[t] /\ C'[i] = local_data[t][i - m]
  BY <1>6
<1>8. \A u \in SinkTask : \A i \in DOMAIN local_data'[u] :
        u # t /\ i \in DOMAIN local_data[u] /\ local_data'[u][i] = local_data[u][i]
  BY <1>5
<1>9. \A i, j \in DOMAIN C' : C'[i] = C'[j] => i = j
  <2>1. SUFFICES ASSUME NEW i \in DOMAIN C', NEW j \in DOMAIN C', C'[i] = C'[j] PROVE i = j
    OBVIOUS
  <2>2. CASE i \in DOMAIN C /\ j \in DOMAIN C
    BY <1>2, <1>7, <2>1, <2>2 DEF SinkInv, CombinedOnce
  <2>3. CASE i \notin DOMAIN C /\ j \notin DOMAIN C
    <3>1. i - m = j - m
      BY <1>2, <1>7, <2>1, <2>3 DEF SinkInv, LocalOnce
    <3> QED
      BY <1>6, <3>1
  <2>4. CASE i \in DOMAIN C /\ j \notin DOMAIN C
    BY <1>2, <1>7, <2>1, <2>4 DEF SinkInv, LocalOnce
  <2>5. CASE i \notin DOMAIN C /\ j \in DOMAIN C
    BY <1>2, <1>7, <2>1, <2>5 DEF SinkInv, LocalOnce
  <2> QED
    BY <2>2, <2>3, <2>4, <2>5
<1>10. /\ \A i \in DOMAIN C : i \in DOMAIN C' /\ C'[i] = C[i]
       /\ \A i \in DOMAIN local_data[t] : m + i \in DOMAIN C' /\ C'[m + i] = local_data[t][i]
  BY <1>6
<1> HIDE DEF m, n
<1>11. SinkInv'
  <2>1. \A u \in SinkTask : \A i \in DOMAIN local_data'[u] :
          /\ local_data'[u][i] \notin input
          /\ \A j \in DOMAIN C' : local_data'[u][i] # C'[j]
    BY <1>2, <1>7, <1>8 DEF SinkInv, LocalOnce
  <2>2. \A u, v \in SinkTask : \A i \in DOMAIN local_data'[u] : \A j \in DOMAIN local_data'[v] :
          local_data'[u][i] = local_data'[v][j] => u = v /\ i = j
    BY <1>2, <1>8 DEF SinkInv, LocalOnce
  <2>3. \A i \in DOMAIN C' : C'[i] \notin input
    BY <1>2, <1>7 DEF SinkInv, LocalOnce, CombinedOnce
  <2>4. \A c \in Input :
          \/ c \in input
          \/ \E u \in SinkTask : \E i \in DOMAIN local_data'[u] : local_data'[u][i] = c
          \/ \E i \in DOMAIN C' : C'[i] = c
    <3>1. SUFFICES ASSUME NEW c \in Input, c \notin input, ~\E i \in DOMAIN C' : C'[i] = c
                   PROVE  \E u \in SinkTask : \E i \in DOMAIN local_data'[u] : local_data'[u][i] = c
      OBVIOUS
    <3>2. ~\E i \in DOMAIN C : C[i] = c
      BY <1>10, <3>1
    <3>3. PICK u \in SinkTask : \E i \in DOMAIN local_data[u] : local_data[u][i] = c
      BY <1>2, <3>1, <3>2 DEF SinkInv, NoneLost
    <3>4. u # t
      BY <1>10, <3>1, <3>3
    <3> QED
      BY <1>5, <3>3, <3>4
  <2>5. /\ input' \subseteq Input /\ combined' \subseteq SinkTask
        /\ \A u \in combined' : local_data'[u] = <<>>
        /\ combined' = SinkTask => input' = {}
    BY <1>1, <1>2, <1>5 DEF SinkInv, SinkTypes
  <2>6. SinkTypes'
    BY <1>3, <1>5, <1>6, <2>5 DEF SinkTypes
  <2>7. LocalOnce'
    BY <1>1, <1>3, <2>1, <2>2 DEF LocalOnce
  <2>8. CombinedOnce' /\ NoneLost'
    BY <1>1, <1>3, <1>9, <2>3, <2>4 DEF CombinedOnce, NoneLost
  <2> QED
    BY <2>6, <2>7, <2>8 DEF SinkInv
<1> QED
  BY <1>1, <1>2, <1>11 DEF IInv, SettingsInv, NothingScanned, settings, buildVars, scanVars

-----------------------------------------------------------------------------
(* Building the filters *)

\* The delivered chunks are some of all chunks.
LEMMA InputIsChunks ==
  ASSUME SettingsInv
  PROVE  Input \subseteq Chunk
BY CreateBFAssumption DEF Input, Chunk, SettingsInv

\* When all tasks have combined, the collections are the whole input.
LEMMA AllCombined ==
  ASSUME IInv, combined = SinkTask
  PROVE  /\ local_data_collections \in Seq(Input)
         /\ \A i, j \in DOMAIN local_data_collections :
              local_data_collections[i] = local_data_collections[j] => i = j
         /\ \A c \in Input : \E i \in DOMAIN local_data_collections : local_data_collections[i] = c
<1>1. input = {} /\ local_data_collections \in Seq(Input)
      /\ \A t \in SinkTask : DOMAIN local_data[t] = {}
  BY DEF IInv, SinkInv, SinkTypes
<1> QED
  BY <1>1 DEF IInv, SinkInv, CombinedOnce, NoneLost

\* A position lies in one range of a cut only.
LEMMA CutDisjoint ==
  ASSUME NEW n \in Nat, NEW R, IsCut(R, n), DOMAIN R \subseteq Nat,
         NEW i \in DOMAIN R, NEW j \in DOMAIN R, NEW p \in Int,
         R[i].from <= p, p < R[i].to, R[j].from <= p, p < R[j].to
  PROVE  i = j
<1>1. /\ R[i].from \in Nat /\ R[i].to \in Nat /\ R[j].from \in Nat /\ R[j].to \in Nat
      /\ i < j => R[i].to <= R[j].from
      /\ j < i => R[j].to <= R[i].from
  BY DEF IsCut
<1>2. i \in Nat /\ j \in Nat
  OBVIOUS
<1>3. ~(i < j) /\ ~(j < i)
  BY <1>1
<1> QED
  BY <1>2, <1>3

\* Finalize puts the chunks into their order and starts with none inserted.
LEMMA FinalizeKeepsInv ==
  ASSUME IInv, Finalize
  PROVE  IInv'
<1>1. /\ phase = "sink" /\ combined = SinkTask /\ phase' = "build"
      /\ total_data' = local_data_collections
      /\ UNCHANGED <<settings, sinkVars, inserted, scanVars>>
  BY DEF Finalize
<1>2. /\ SettingsInv /\ SinkInv /\ NothingScanned /\ inserted = [d \in Chunk |-> 0]
  BY <1>1 DEF IInv
<1>3. SettingsInv' /\ NothingScanned'
  BY <1>1, <1>2 DEF SettingsInv, NothingScanned, settings, scanVars
<1>4. SinkInv'
  BY <1>1, <1>2 DEF SinkInv, SinkTypes, LocalOnce, CombinedOnce, NoneLost, Input, SinkTask,
     settings, sinkVars
<1>5. Input' = Input /\ num_threads' = num_threads /\ num_threads \in Nat \ {0}
  BY <1>1, <1>2 DEF Input, settings, SettingsInv
<1>6. DataInv'
  BY <1>1, <1>5, AllCombined DEF DataInv
<1> DEFINE n == Len(local_data_collections)
           F == FinalizeRanges(n)
<1>7. n \in Nat
  BY <1>1, AllCombined
<1>8. BuildRange' = F
  BY <1>1 DEF BuildRange, NumChunks, FinalizeRanges, Ranges, ChunksPerThread, settings
<1>9. IsCut(F, n)
  BY <1>5, <1>7, FinalizeRangesCut
<1>10. finalize_tasks' = [k \in DOMAIN F |-> Task(F[k])]
  BY DEF Finalize
<1> HIDE DEF F
<1>11. ASSUME NEW k \in DOMAIN F
       PROVE  /\ finalize_tasks'[k] \in [pos : Nat, to : Nat, finished : BOOLEAN]
              /\ finalize_tasks'[k].to = F[k].to /\ finalize_tasks'[k].pos = F[k].from
              /\ F[k].from <= F[k].to /\ F[k].from \in Nat /\ F[k].to \in Nat /\ F[k].to <= n
              /\ ~finalize_tasks'[k].finished
  BY <1>9, <1>10 DEF Task, IsCut
<1>12. ASSUME NEW k \in DOMAIN F, NEW p \in F[k].from..(F[k].to - 1)
       PROVE  inserted'[total_data'[p + 1]] = IF p < finalize_tasks'[k].pos THEN 1 ELSE 0
  <2>1. /\ F[k].from \in Nat /\ F[k].to \in Nat /\ F[k].to <= n
        /\ finalize_tasks'[k].pos = F[k].from
    BY <1>11
  <2>2. p + 1 \in 1..n /\ ~(p < finalize_tasks'[k].pos)
    BY <1>7, <2>1
  <2>3. total_data'[p + 1] \in Input'
    BY <1>1, <1>5, <1>7, <2>2, AllCombined
  <2>4. Input' \subseteq Chunk
    BY <1>2, <1>5, InputIsChunks
  <2>5. inserted' = [d \in Chunk |-> 0]
    BY <1>1, <1>2
  <2> QED
    BY <2>2, <2>3, <2>4, <2>5
<1>13. \A c \in Chunk : inserted'[c] = 0
  BY <1>1, <1>2
<1>14. BuildInv'
  BY <1>1, <1>8, <1>10, <1>11, <1>12, <1>13 DEF BuildInv
<1> QED
  BY <1>1, <1>3, <1>4, <1>6, <1>14 DEF IInv

\* After Finalize the order of the chunks is fixed.
LEMMA DataStays ==
  ASSUME IInv, phase # "sink", UNCHANGED <<settings, sinkVars, total_data>>
  PROVE  /\ SinkInv' /\ DataInv'
         /\ Input' = Input /\ NumChunks' = NumChunks /\ BuildRange' = BuildRange
         /\ ScanRange' = ScanRange /\ ScanTask' = ScanTask
<1>1. SinkInv /\ DataInv
  BY DEF IInv
<1>2. Input' = Input /\ SinkTask' = SinkTask
  BY DEF Input, SinkTask, settings
<1>3. SinkInv'
  BY <1>1, <1>2 DEF SinkInv, SinkTypes, LocalOnce, CombinedOnce, NoneLost, sinkVars
<1>4. DataInv'
  BY <1>1, <1>2 DEF DataInv
<1>5. NumChunks' = NumChunks /\ BuildRange' = BuildRange /\ ScanRange' = ScanRange
  BY DEF NumChunks, BuildRange, ScanRange, FinalizeRanges, Ranges, ChunksPerThread, settings
<1>6. ScanTask' = ScanTask
  BY DEF ScanTask, NumScanTasks, settings
<1> QED
  BY <1>2, <1>3, <1>4, <1>5, <1>6

\* The positions 0..(NumChunks - 1) and the chunks correspond, and both lists
\* of ranges cut these positions.
LEMMA Positions ==
  ASSUME IInv, phase # "sink"
  PROVE  /\ NumChunks \in Nat
         /\ \A p \in 0..(NumChunks - 1) : total_data[p + 1] \in Input /\ total_data[p + 1] \in Chunk
         /\ \A p, q \in 0..(NumChunks - 1) : total_data[p + 1] = total_data[q + 1] => p = q
         /\ \A c \in Input : \E p \in 0..(NumChunks - 1) : total_data[p + 1] = c
         /\ IsCut(BuildRange, NumChunks) /\ DOMAIN BuildRange \subseteq Nat
         /\ IsCut(ScanRange, NumChunks) /\ DOMAIN ScanRange \subseteq Nat \ {0}
<1>1. DataInv /\ SettingsInv /\ num_threads \in Nat \ {0} /\ Input \subseteq Chunk
  BY InputIsChunks DEF IInv, SettingsInv
<1>2. NumChunks \in Nat /\ DOMAIN total_data = 1..NumChunks
  BY <1>1 DEF DataInv, NumChunks
<1>3. \A p \in 0..(NumChunks - 1) : p + 1 \in DOMAIN total_data
  BY <1>2
<1>4. \A p \in 0..(NumChunks - 1) : total_data[p + 1] \in Input /\ total_data[p + 1] \in Chunk
  BY <1>1, <1>3 DEF DataInv
<1>5. ASSUME NEW p \in 0..(NumChunks - 1), NEW q \in 0..(NumChunks - 1),
             total_data[p + 1] = total_data[q + 1]
      PROVE  p = q
  <2>1. p + 1 = q + 1
    BY <1>1, <1>3, <1>5 DEF DataInv
  <2> QED
    BY <1>2, <2>1
<1>6. ASSUME NEW c \in Input
      PROVE  \E p \in 0..(NumChunks - 1) : total_data[p + 1] = c
  <2>1. PICK i \in DOMAIN total_data : total_data[i] = c
    BY <1>1 DEF DataInv
  <2>2. i - 1 \in 0..(NumChunks - 1) /\ (i - 1) + 1 = i
    BY <1>2
  <2> QED
    BY <2>1, <2>2
<1>7. IsCut(BuildRange, NumChunks) /\ DOMAIN BuildRange \subseteq Nat
  <2>1. PICK m \in 1..num_threads : DOMAIN FinalizeRanges(NumChunks) = 1..m
    BY <1>1, <1>2, FinalizeRangesCut
  <2> QED
    BY <1>1, <1>2, <2>1, FinalizeRangesCut DEF BuildRange
<1>8. IsCut(ScanRange, NumChunks) /\ DOMAIN ScanRange \subseteq Nat \ {0}
  <2>1. PICK m \in 0..num_threads : DOMAIN Ranges(NumChunks) = 1..m
    BY <1>1, <1>2, RangesCut
  <2> QED
    BY <1>1, <1>2, <2>1, RangesCut DEF ScanRange
<1> QED
  BY <1>2, <1>4, <1>5, <1>6, <1>7, <1>8

\* One more chunk of a task's range is in the filters.
LEMMA InsertChunkKeepsInv ==
  ASSUME IInv, NEW k \in DOMAIN finalize_tasks, InsertChunk(k)
  PROVE  IInv'
<1> DEFINE pos == finalize_tasks[k].pos
           B == BuildRange
<1>1. /\ phase = "build" /\ pos < finalize_tasks[k].to
      /\ inserted' = [inserted EXCEPT ![total_data[pos + 1]] = @ + 1]
      /\ finalize_tasks' = [finalize_tasks EXCEPT ![k].pos = @ + 1]
      /\ UNCHANGED <<settings, sinkVars, phase, total_data, scanVars>>
  BY DEF InsertChunk
<1>2. SettingsInv /\ BuildInv /\ NothingScanned
  BY <1>1 DEF IInv
<1>3. /\ SinkInv' /\ DataInv' /\ Input' = Input /\ B' = B
  BY <1>1, DataStays
<1>4. /\ NumChunks \in Nat /\ IsCut(B, NumChunks) /\ DOMAIN B \subseteq Nat
      /\ \A p \in 0..(NumChunks - 1) : total_data[p + 1] \in Input /\ total_data[p + 1] \in Chunk
      /\ \A p, q \in 0..(NumChunks - 1) : total_data[p + 1] = total_data[q + 1] => p = q
  BY <1>1, Positions
<1>5. DOMAIN finalize_tasks = DOMAIN B
  BY <1>2 DEF BuildInv
<1>6. \A j \in DOMAIN B : /\ B[j].from \in Nat /\ B[j].to \in Nat
                          /\ B[j].from <= B[j].to /\ B[j].to <= NumChunks
  BY <1>4 DEF IsCut
<1>7. \A j \in DOMAIN B :
        /\ finalize_tasks[j] \in [pos : Nat, to : Nat, finished : BOOLEAN]
        /\ finalize_tasks[j].to = B[j].to
        /\ B[j].from <= finalize_tasks[j].pos
        /\ finalize_tasks[j].pos <= finalize_tasks[j].to
        /\ finalize_tasks[j].finished => finalize_tasks[j].pos = finalize_tasks[j].to
        /\ \A p \in B[j].from..(B[j].to - 1) :
             inserted[total_data[p + 1]] = IF p < finalize_tasks[j].pos THEN 1 ELSE 0
  BY <1>2 DEF BuildInv
<1> HIDE DEF B
<1>8. /\ pos \in Nat /\ B[k].from <= pos /\ pos < B[k].to /\ pos \in 0..(NumChunks - 1)
      /\ pos + 1 \in Nat /\ pos + 1 <= B[k].to
  BY <1>1, <1>4, <1>5, <1>6, <1>7
<1>9. /\ finalize_tasks'[k] = [finalize_tasks[k] EXCEPT !.pos = pos + 1]
      /\ \A j \in DOMAIN B : j # k => finalize_tasks'[j] = finalize_tasks[j]
      /\ DOMAIN finalize_tasks' = DOMAIN B
  BY <1>1, <1>5
<1>10. /\ finalize_tasks'[k] \in [pos : Nat, to : Nat, finished : BOOLEAN]
       /\ finalize_tasks'[k].pos = pos + 1
       /\ finalize_tasks'[k].to = finalize_tasks[k].to
       /\ finalize_tasks'[k].finished = finalize_tasks[k].finished
  BY <1>5, <1>7, <1>8, <1>9
<1>11. ~finalize_tasks[k].finished
  BY <1>1, <1>5, <1>7
<1> HIDE DEF pos
<1>12. /\ inserted \in [Chunk -> Nat] /\ inserted' \in [Chunk -> Nat]
       /\ total_data[pos + 1] \in Chunk /\ total_data[pos + 1] \in Input
       /\ inserted'[total_data[pos + 1]] = inserted[total_data[pos + 1]] + 1
       /\ \A c \in Chunk : c # total_data[pos + 1] => inserted'[c] = inserted[c]
  <2>1. /\ inserted \in [Chunk -> Nat]
        /\ total_data[pos + 1] \in Chunk /\ total_data[pos + 1] \in Input
    BY <1>2, <1>4, <1>8 DEF SettingsInv
  <2>2. inserted' = [inserted EXCEPT ![total_data[pos + 1]] = inserted[total_data[pos + 1]] + 1]
    BY <1>1 DEF pos
  <2> QED
    BY <2>1, <2>2
<1>13. ASSUME NEW j \in DOMAIN B, NEW p \in B[j].from..(B[j].to - 1)
       PROVE  inserted'[total_data[p + 1]] = IF p < finalize_tasks'[j].pos THEN 1 ELSE 0
  <2>1. p \in Int /\ p \in 0..(NumChunks - 1) /\ B[j].from <= p /\ p < B[j].to
    BY <1>4, <1>6
  <2>2. inserted[total_data[p + 1]] = IF p < finalize_tasks[j].pos THEN 1 ELSE 0
    BY <1>7
  <2>3. CASE p = pos
    <3>1. j = k
      BY <1>4, <1>5, <1>8, <2>1, <2>3, CutDisjoint
    <3>2. inserted[total_data[p + 1]] = 0
      BY <1>8, <2>2, <2>3, <3>1 DEF pos
    <3> QED
      BY <1>8, <1>10, <1>12, <2>3, <3>1, <3>2
  <2>4. CASE p # pos
    <3>1. inserted'[total_data[p + 1]] = inserted[total_data[p + 1]]
      BY <1>4, <1>8, <1>12, <2>1, <2>4
    <3>2. p < finalize_tasks'[j].pos <=> p < finalize_tasks[j].pos
      <4>1. CASE j = k
        <5>1. p < pos + 1 <=> p < pos
          BY <1>8, <2>1, <2>4
        <5> QED
          BY <1>10, <4>1, <5>1 DEF pos
      <4>2. CASE j # k
        BY <1>9, <4>2
      <4> QED
        BY <4>1, <4>2
    <3> QED
      BY <2>2, <3>1, <3>2
  <2> QED
    BY <2>3, <2>4
<1>14. ASSUME NEW j \in DOMAIN B
       PROVE  /\ finalize_tasks'[j] \in [pos : Nat, to : Nat, finished : BOOLEAN]
              /\ finalize_tasks'[j].to = B[j].to
              /\ B[j].from <= finalize_tasks'[j].pos
              /\ finalize_tasks'[j].pos <= finalize_tasks'[j].to
              /\ finalize_tasks'[j].finished => finalize_tasks'[j].pos = finalize_tasks'[j].to
  <2>1. CASE j = k
    BY <1>5, <1>6, <1>7, <1>8, <1>10, <1>11, <2>1
  <2>2. CASE j # k
    BY <1>7, <1>9, <2>2
  <2> QED
    BY <2>1, <2>2
<1>15. \A c \in Chunk \ Input : inserted'[c] = 0
  BY <1>2, <1>12 DEF BuildInv
<1>16. BuildInv'
  BY <1>1, <1>3, <1>9, <1>13, <1>14, <1>15 DEF BuildInv, B
<1>17. SettingsInv' /\ NothingScanned'
  BY <1>1, <1>2, <1>12 DEF SettingsInv, NothingScanned, settings, scanVars
<1> QED
  BY <1>1, <1>3, <1>16, <1>17 DEF IInv

\* A task has finished only with its whole range inserted, and the event is
\* complete only when all tasks have finished.
LEMMA FinishTaskKeepsInv ==
  ASSUME IInv, NEW k \in DOMAIN finalize_tasks, FinishTask(k)
  PROVE  IInv'
<1> DEFINE B == BuildRange
<1>1. /\ phase = "build" /\ finalize_tasks[k].pos = finalize_tasks[k].to
      /\ finalize_tasks' = [finalize_tasks EXCEPT ![k].finished = TRUE]
      /\ phase' = IF \A j \in DOMAIN finalize_tasks : j = k \/ finalize_tasks[j].finished
                  THEN "built" ELSE "build"
      /\ UNCHANGED <<settings, sinkVars, total_data, inserted, scanVars>>
  BY DEF FinishTask
<1>2. SettingsInv /\ BuildInv /\ NothingScanned
  BY <1>1 DEF IInv
<1>3. /\ SinkInv' /\ DataInv' /\ Input' = Input /\ B' = B
  BY <1>1, DataStays
<1>4. DOMAIN finalize_tasks = DOMAIN B
  BY <1>2 DEF BuildInv
<1>5. finalize_tasks[k] \in [pos : Nat, to : Nat, finished : BOOLEAN]
  BY <1>2, <1>4 DEF BuildInv
<1>6. /\ finalize_tasks'[k] = [finalize_tasks[k] EXCEPT !.finished = TRUE]
      /\ \A j \in DOMAIN B : j # k => finalize_tasks'[j] = finalize_tasks[j]
      /\ DOMAIN finalize_tasks' = DOMAIN B
  BY <1>1, <1>4
<1>7. /\ finalize_tasks'[k] \in [pos : Nat, to : Nat, finished : BOOLEAN]
      /\ finalize_tasks'[k].pos = finalize_tasks[k].pos
      /\ finalize_tasks'[k].to = finalize_tasks[k].to
      /\ finalize_tasks'[k].finished
  BY <1>5, <1>6
<1>8. phase' \in {"build", "built"}
      /\ (phase' # "build" => \A j \in DOMAIN B : finalize_tasks'[j].finished)
  BY <1>1, <1>4, <1>6, <1>7
<1> HIDE DEF B
<1>9. ASSUME NEW j \in DOMAIN B
      PROVE  /\ finalize_tasks'[j] \in [pos : Nat, to : Nat, finished : BOOLEAN]
             /\ finalize_tasks'[j].to = B[j].to
             /\ B[j].from <= finalize_tasks'[j].pos
             /\ finalize_tasks'[j].pos <= finalize_tasks'[j].to
             /\ finalize_tasks'[j].finished => finalize_tasks'[j].pos = finalize_tasks'[j].to
             /\ finalize_tasks'[j].pos = finalize_tasks[j].pos
  <2>1. CASE j = k
    BY <1>1, <1>2, <1>7, <2>1 DEF BuildInv, B
  <2>2. CASE j # k
    BY <1>2, <1>6, <2>2 DEF BuildInv, B
  <2> QED
    BY <2>1, <2>2
<1>10. /\ \A j \in DOMAIN B : \A p \in B[j].from..(B[j].to - 1) :
            inserted'[total_data'[p + 1]] = IF p < finalize_tasks'[j].pos THEN 1 ELSE 0
       /\ \A c \in Chunk \ Input : inserted'[c] = 0
  BY <1>1, <1>2, <1>9 DEF BuildInv, B
<1>11. BuildInv'
  BY <1>3, <1>6, <1>8, <1>9, <1>10 DEF BuildInv, B
<1>12. SettingsInv' /\ NothingScanned'
  BY <1>1, <1>2, <1>8 DEF SettingsInv, NothingScanned, settings, scanVars
<1> QED
  BY <1>3, <1>8, <1>11, <1>12 DEF IInv

-----------------------------------------------------------------------------
(* The scan *)

\* Counting the tasks that have claimed a range.
LEMMA ClaimantsFinite ==
  ASSUME SettingsInv
  PROVE  /\ NumScanTasks \in Nat \ {0} /\ NumScanTasks <= num_threads
         /\ IsFiniteSet(ScanTask) /\ Cardinality(ScanTask) = NumScanTasks
         /\ IsFiniteSet(Claimants) /\ Cardinality(Claimants) \in Nat
         /\ Cardinality(Claimants) <= NumScanTasks
<1>1. NumScanTasks \in Nat \ {0} /\ NumScanTasks <= num_threads
  BY DEF SettingsInv, NumScanTasks
<1>2. IsFiniteSet(ScanTask) /\ Cardinality(ScanTask) = NumScanTasks
  BY <1>1, FS_Interval DEF ScanTask
<1>3. Claimants \subseteq ScanTask
  BY DEF Claimants
<1>4. /\ IsFiniteSet(Claimants) /\ Cardinality(Claimants) <= NumScanTasks
      /\ Cardinality(Claimants) \in Nat
  BY <1>2, <1>3, FS_Subset, FS_CardinalityType
<1> QED
  BY <1>1, <1>2, <1>4

\* The scan starts with no range claimed.
LEMMA ScheduleScanKeepsInv ==
  ASSUME IInv, ScheduleScan
  PROVE  IInv'
<1>1. /\ phase = "built" /\ phase' = "scan"
      /\ chunks_todo' = ScanRange
      /\ scan_tasks' = [s \in ScanTask |-> NewScan]
      /\ UNCHANGED <<settings, sinkVars, buildVars, partition_id, emitted>>
  BY DEF ScheduleScan, ScanRange, NumChunks, ScanTask
<1>2. SettingsInv /\ BuildInv /\ NothingScanned
  BY <1>1 DEF IInv
<1>3. /\ SinkInv' /\ DataInv' /\ Input' = Input /\ NumChunks' = NumChunks
      /\ BuildRange' = BuildRange /\ ScanRange' = ScanRange /\ ScanTask' = ScanTask
  BY <1>1, DataStays DEF buildVars
<1>4. SettingsInv'
  BY <1>1, <1>2 DEF SettingsInv, settings, buildVars
<1>5. BuildInv'
  BY <1>1, <1>2, <1>3 DEF BuildInv, buildVars
<1>6. /\ NumChunks \in Nat /\ DOMAIN ScanRange \subseteq Nat \ {0} /\ IsCut(ScanRange, NumChunks)
      /\ \A p \in 0..(NumChunks - 1) : total_data[p + 1] \in Chunk
  BY <1>1, Positions
<1>7. partition_id' = 0 /\ emitted' = [c \in Chunk |-> 0]
  BY <1>1, <1>2 DEF NothingScanned
<1>8. \A s \in ScanTask : scan_tasks'[s] = NewScan
  BY <1>1
<1>9. ClaimInv'
  <2>1. Claimants' = {}
    BY <1>3, <1>8 DEF Claimants, NewScan
  <2>2. Cardinality(Claimants') = 0
    BY <2>1, FS_EmptySet
  <2> QED
    BY <1>1, <1>3, <1>7, <2>2 DEF ClaimInv, NewScan
<1>10. \A s \in ScanTask : \A k \in DOMAIN ScanRange : ~Owns(s, k)'
  BY <1>3, <1>8 DEF Owns, NewScan
<1>11. \A s \in ScanTask : TaskInv(s)'
  BY <1>3, <1>6, <1>8, <1>10 DEF TaskInv, NewScan
<1>12. ASSUME NEW k \in DOMAIN ScanRange
       PROVE  RangeInv(k)'
  <2>1. k \in Nat \ {0} /\ ~(k <= partition_id')
    BY <1>6, <1>7
  <2>2. ASSUME NEW p \in ScanRange[k].from..(ScanRange[k].to - 1)
        PROVE  emitted'[total_data'[p + 1]] = 0 /\ ~(p < 0)
    <3>1. p \in 0..(NumChunks - 1) /\ ~(p < 0)
      BY <1>6 DEF IsCut
    <3> QED
      BY <1>1, <1>6, <1>7, <3>1 DEF buildVars
  <2>3. Passed(k, 0)'
    BY <1>3, <2>2 DEF Passed
  <2> QED
    BY <1>3, <1>10, <2>1, <2>3 DEF RangeInv
<1>13. ScanInv'
  BY <1>1, <1>3, <1>7, <1>9, <1>11, <1>12 DEF ScanInv
<1> QED
  BY <1>1, <1>3, <1>4, <1>5, <1>13 DEF IInv

\* What a step of the scan leaves alone.
LEMMA ScanFrame ==
  ASSUME IInv, phase \in {"scan", "done"}, phase' \in {"scan", "done"},
         emitted' \in [Chunk -> Nat],
         UNCHANGED <<settings, sinkVars, buildVars, chunks_todo>>, ScanInv'
  PROVE  IInv'
<1>1. SettingsInv' /\ BuildInv
  BY DEF IInv, SettingsInv, settings, buildVars
<1>2. SinkInv' /\ DataInv' /\ Input' = Input /\ BuildRange' = BuildRange
  BY DataStays DEF buildVars
<1>3. BuildInv'
  BY <1>1, <1>2 DEF BuildInv, buildVars
<1> QED
  BY <1>1, <1>2, <1>3 DEF IInv

\* Owning a range is a matter of the task's own state.
LEMMA OwnsFrame ==
  ASSUME NEW r, NEW k, ScanRange' = ScanRange, scan_tasks'[r] = scan_tasks[r]
  PROVE  Owns(r, k)' <=> Owns(r, k)
BY DEF Owns

\* A task hands on the chunk at position i of a range k that is its own, or
\* that it is claiming with this step.
LEMMA EmitKeepsInv ==
  ASSUME IInv, phase = "scan", NEW s \in ScanTask, NEW k \in DOMAIN ScanRange, NEW i \in Nat,
         ScanRange[k].from <= i, i < ScanRange[k].to,
         Emit(s, i, ScanRange[k].to),
         UNCHANGED <<settings, sinkVars, buildVars, chunks_todo>>,
         \A r \in ScanTask : r # s => ~Owns(r, k),
         Passed(k, i),
         partition_id' = Cardinality(Claimants'),
         \A j \in DOMAIN ScanRange : j <= partition_id' <=> j <= partition_id \/ j = k,
         \A j \in DOMAIN ScanRange : Owns(s, j) => j = k
  PROVE  IInv'
<1> DEFINE R == ScanRange
<1>1. /\ scan_tasks' = [scan_tasks EXCEPT ![s] = [initial |-> FALSE, chunk |-> i + 1,
                                                  to |-> R[k].to, finished |-> FALSE]]
      /\ emitted' = [emitted EXCEPT ![total_data[i + 1]] = @ + 1]
      /\ phase' = phase
  BY DEF Emit
<1>2. SettingsInv /\ ScanInv /\ ClaimInv
  BY DEF IInv, ScanInv
<1>3. /\ Input' = Input /\ NumChunks' = NumChunks /\ R' = R /\ ScanTask' = ScanTask
      /\ total_data' = total_data
  BY DataStays DEF buildVars
<1>4. /\ NumChunks \in Nat /\ DOMAIN R \subseteq Nat \ {0} /\ IsCut(R, NumChunks)
      /\ \A p \in 0..(NumChunks - 1) : total_data[p + 1] \in Chunk /\ total_data[p + 1] \in Input
      /\ \A p, q \in 0..(NumChunks - 1) : total_data[p + 1] = total_data[q + 1] => p = q
  BY Positions
<1>5. \A j \in DOMAIN R : /\ R[j].from \in Nat /\ R[j].to \in Nat
                          /\ R[j].from <= R[j].to /\ R[j].to <= NumChunks
  BY <1>4 DEF IsCut
<1> HIDE DEF R
<1>6. i \in 0..(NumChunks - 1) /\ i + 1 \in Nat /\ i + 1 <= R[k].to /\ R[k].from < i + 1
  BY <1>4, <1>5 DEF R
<1>7. /\ scan_tasks'[s] = [initial |-> FALSE, chunk |-> i + 1, to |-> R[k].to, finished |-> FALSE]
      /\ \A r \in ScanTask : r # s => scan_tasks'[r] = scan_tasks[r]
      /\ scan_tasks' \in [ScanTask -> [initial : BOOLEAN, chunk : Nat, to : Nat, finished : BOOLEAN]]
  <2>1. [initial |-> FALSE, chunk |-> i + 1, to |-> R[k].to, finished |-> FALSE]
          \in [initial : BOOLEAN, chunk : Nat, to : Nat, finished : BOOLEAN]
    BY <1>5, <1>6 DEF R
  <2>2. scan_tasks \in [ScanTask -> [initial : BOOLEAN, chunk : Nat, to : Nat, finished : BOOLEAN]]
    BY <1>2 DEF ClaimInv
  <2> QED
    BY <1>1, <2>1, <2>2
<1>8. /\ emitted \in [Chunk -> Nat] /\ emitted' \in [Chunk -> Nat]
      /\ total_data[i + 1] \in Chunk /\ total_data[i + 1] \in Input
      /\ emitted'[total_data[i + 1]] = emitted[total_data[i + 1]] + 1
      /\ \A c \in Chunk : c # total_data[i + 1] => emitted'[c] = emitted[c]
  <2>1. /\ emitted \in [Chunk -> Nat]
        /\ total_data[i + 1] \in Chunk /\ total_data[i + 1] \in Input
    BY <1>2, <1>4, <1>6 DEF SettingsInv
  <2>2. emitted' = [emitted EXCEPT ![total_data[i + 1]] = emitted[total_data[i + 1]] + 1]
    BY <1>1
  <2> QED
    BY <2>1, <2>2
<1>9. \A r \in ScanTask : \A j \in DOMAIN R : r # s => (Owns(r, j)' <=> Owns(r, j))
  BY <1>3, <1>7, OwnsFrame DEF R
<1>10. \A j \in DOMAIN R : Owns(s, j)' <=> j = k
  <2>1. Owns(s, k)'
    BY <1>3, <1>6, <1>7 DEF Owns, R
  <2>2. ASSUME NEW j \in DOMAIN R, Owns(s, j)'
        PROVE  j = k
    <3>1. R[j].from < i + 1 /\ i + 1 <= R[j].to
      BY <1>3, <1>7, <2>2 DEF Owns, R
    <3>2. R[j].from <= i /\ i < R[j].to
      BY <1>5, <3>1
    <3> QED
      BY <1>4, <3>2, CutDisjoint DEF R
  <2> QED
    BY <2>1, <2>2
<1>11. ClaimInv'
  BY <1>2, <1>3, <1>7 DEF ClaimInv, R
<1>12. ASSUME NEW r \in ScanTask
       PROVE  TaskInv(r)'
  <2>1. CASE r = s
    <3>1. /\ scan_tasks'[s].chunk = i + 1 /\ ~scan_tasks'[s].initial /\ ~scan_tasks'[s].finished
      BY <1>7
    <3>2. i + 1 <= NumChunks
      BY <1>4, <1>6
    <3>3. \A j \in DOMAIN R : Owns(s, j)' => j <= partition_id'
      BY <1>10 DEF R
    <3>4. \E j \in DOMAIN R : Owns(s, j)'
      BY <1>10 DEF R
    <3> QED
      BY <1>3, <2>1, <3>1, <3>2, <3>3, <3>4 DEF TaskInv, R
  <2>2. CASE r # s
    <3>1. TaskInv(r) /\ scan_tasks'[r] = scan_tasks[r]
      BY <1>2, <1>7, <2>2 DEF ScanInv
    <3>2. \A j \in DOMAIN R : Owns(r, j)' => j <= partition_id'
      BY <1>9, <2>2, <3>1 DEF TaskInv, R
    <3>3. (\E j \in DOMAIN R : Owns(r, j)) => \E j \in DOMAIN R : Owns(r, j)'
      BY <1>9, <2>2
    <3> QED
      BY <1>3, <3>1, <3>2, <3>3 DEF TaskInv, R, NewScan
  <2> QED
    BY <2>1, <2>2
<1>13. ASSUME NEW j \in DOMAIN R, NEW n, NEW p \in R[j].from..(R[j].to - 1), p # i,
              emitted[total_data[p + 1]] = n
       PROVE  emitted'[total_data[p + 1]] = n
  <2>1. p \in 0..(NumChunks - 1)
    BY <1>4, <1>5
  <2> QED
    BY <1>4, <1>6, <1>8, <1>13, <2>1
<1>14. ASSUME NEW j \in DOMAIN R, j # k, NEW n, Passed(j, n)
       PROVE  \A p \in R[j].from..(R[j].to - 1) :
                emitted'[total_data[p + 1]] = IF p < n THEN 1 ELSE 0
  <2>1. SUFFICES ASSUME NEW p \in R[j].from..(R[j].to - 1)
                 PROVE  emitted'[total_data[p + 1]] = IF p < n THEN 1 ELSE 0
    OBVIOUS
  <2>2. p \in Int /\ R[j].from <= p /\ p < R[j].to
    BY <1>5
  <2>3. p # i
    BY <1>4, <1>14, <2>2, CutDisjoint DEF R
  <2> QED
    BY <1>13, <1>14, <2>3 DEF Passed, R
<1>15. Passed(k, i + 1)'
  <2>1. SUFFICES ASSUME NEW p \in R[k].from..(R[k].to - 1)
                 PROVE  emitted'[total_data[p + 1]] = IF p < i + 1 THEN 1 ELSE 0
    BY <1>3 DEF Passed, R
  <2>2. emitted[total_data[p + 1]] = IF p < i THEN 1 ELSE 0
    BY DEF Passed, R
  <2>3. p \in Int
    BY <1>5 DEF R
  <2>4. CASE p = i
    BY <1>8, <2>2, <2>4
  <2>5. CASE p # i
    <3>1. emitted'[total_data[p + 1]] = emitted[total_data[p + 1]]
      BY <1>13, <2>5 DEF R
    <3> QED
      BY <2>2, <2>3, <2>5, <3>1
  <2> QED
    BY <2>4, <2>5
<1>16. ASSUME NEW j \in DOMAIN R
       PROVE  RangeInv(j)'
  <2>1. RangeInv(j)
    BY <1>2 DEF ScanInv, R
  <2>2. CASE j = k
    <3>1. \A q, r \in ScanTask : Owns(q, j)' /\ Owns(r, j)' => q = r
      BY <1>9, <2>2
    <3>2. Owns(s, j)' /\ Passed(j, scan_tasks[s].chunk)'
      BY <1>7, <1>10, <1>15, <2>2
    <3>3. j <= partition_id'
      BY <2>2
    <3> QED
      BY <1>3, <3>1, <3>2, <3>3 DEF RangeInv
  <2>3. CASE j # k
    <3>1. j <= partition_id' <=> j <= partition_id
      BY <2>3 DEF R
    <3>2. \A r \in ScanTask : Owns(r, j)' => r # s /\ Owns(r, j)
      BY <1>9, <1>10, <2>3
    <3>3. \A q, r \in ScanTask : Owns(q, j)' /\ Owns(r, j)' => q = r
      BY <2>1, <3>2 DEF RangeInv
    <3>4. ASSUME j <= partition_id
          PROVE  \E r \in ScanTask : Owns(r, j)' /\ Passed(j, scan_tasks[r].chunk)'
      <4>1. PICK r \in ScanTask : Owns(r, j) /\ Passed(j, scan_tasks[r].chunk)
        BY <2>1, <3>4 DEF RangeInv
      <4>2. r # s
        BY <2>3, <4>1 DEF R
      <4>3. Owns(r, j)' /\ scan_tasks'[r] = scan_tasks[r]
        BY <1>7, <1>9, <4>1, <4>2
      <4>4. Passed(j, scan_tasks[r].chunk)'
        BY <1>3, <1>14, <2>3, <4>1, <4>3 DEF Passed, R
      <4> QED
        BY <4>3, <4>4
    <3>5. ASSUME ~(j <= partition_id)
          PROVE  Passed(j, 0)'
      <4>1. Passed(j, 0)
        BY <2>1, <3>5 DEF RangeInv
      <4> QED
        BY <1>3, <1>14, <2>3, <4>1 DEF Passed, R
    <3> QED
      BY <1>3, <3>1, <3>3, <3>4, <3>5 DEF RangeInv
  <2> QED
    BY <2>2, <2>3
<1>17. \A c \in Chunk \ Input : emitted'[c] = 0
  BY <1>2, <1>8 DEF ScanInv
<1>18. ScanInv'
  BY <1>1, <1>3, <1>11, <1>12, <1>16, <1>17 DEF ScanInv, R
<1> QED
  BY <1>1, <1>8, <1>18, ScanFrame

\* A task ends: it is at the end of its range, or found none to claim.
LEMMA EndKeepsInv ==
  ASSUME IInv, phase = "scan", NEW s \in ScanTask, EndScan(s),
         scan_tasks[s].chunk = scan_tasks[s].to,
         UNCHANGED <<settings, sinkVars, buildVars, chunks_todo>>,
         partition_id' = Cardinality(Claimants'),
         \A j \in DOMAIN ScanRange : j <= partition_id' <=> j <= partition_id
  PROVE  IInv'
<1> DEFINE T == [initial : BOOLEAN, chunk : Nat, to : Nat, finished : BOOLEAN]
<1>1. /\ scan_tasks' = [scan_tasks EXCEPT ![s].initial = FALSE, ![s].finished = TRUE]
      /\ phase' = IF \A r \in DOMAIN scan_tasks : r = s \/ scan_tasks[r].finished
                  THEN "done" ELSE phase
      /\ emitted' = emitted
  BY DEF EndScan
<1>2. SettingsInv /\ ScanInv /\ ClaimInv
  BY DEF IInv, ScanInv
<1>3. /\ Input' = Input /\ NumChunks' = NumChunks /\ ScanRange' = ScanRange
      /\ ScanTask' = ScanTask /\ total_data' = total_data
  BY DataStays DEF buildVars
<1>4. /\ NumChunks \in Nat /\ IsCut(ScanRange, NumChunks)
  BY Positions
<1>5. scan_tasks \in [ScanTask -> T] /\ DOMAIN scan_tasks = ScanTask
  BY <1>2 DEF ClaimInv
<1>6. /\ scan_tasks'[s] = [scan_tasks[s] EXCEPT !.initial = FALSE, !.finished = TRUE]
      /\ \A r \in ScanTask : r # s => scan_tasks'[r] = scan_tasks[r]
      /\ scan_tasks' \in [ScanTask -> T]
  BY <1>1, <1>5
<1>7. /\ scan_tasks'[s].chunk = scan_tasks[s].chunk /\ scan_tasks'[s].to = scan_tasks[s].to
      /\ ~scan_tasks'[s].initial /\ scan_tasks'[s].finished
  BY <1>5, <1>6
<1>8. \A r \in ScanTask : scan_tasks'[r].chunk = scan_tasks[r].chunk
  BY <1>6, <1>7
<1>9. ASSUME NEW r \in ScanTask, NEW j \in DOMAIN ScanRange
      PROVE  Owns(r, j)' <=> Owns(r, j)
  <2>1. CASE r # s
    BY <1>3, <1>6, <2>1, OwnsFrame
  <2>2. CASE r = s /\ ~scan_tasks[s].initial
    BY <1>3, <1>7, <2>2 DEF Owns
  <2>3. CASE r = s /\ scan_tasks[s].initial
    <3>1. scan_tasks[s].chunk = 0 /\ scan_tasks[s].initial
      BY <1>2, <2>3 DEF ScanInv, TaskInv, NewScan
    <3>2. ~(ScanRange[j].from < 0)
      BY <1>4 DEF IsCut
    <3> QED
      BY <1>3, <1>7, <2>3, <3>1, <3>2 DEF Owns
  <2> QED
    BY <2>1, <2>2, <2>3
<1>10. ClaimInv'
  BY <1>2, <1>3, <1>6 DEF ClaimInv
<1>11. ASSUME NEW r \in ScanTask
       PROVE  TaskInv(r)'
  <2>1. TaskInv(r)
    BY <1>2 DEF ScanInv
  <2>2. \A j \in DOMAIN ScanRange : Owns(r, j)' => j <= partition_id'
    BY <1>9, <2>1 DEF TaskInv
  <2>3. CASE r = s
    BY <1>3, <1>7, <2>1, <2>2, <2>3 DEF TaskInv
  <2>4. CASE r # s
    <3>1. scan_tasks'[r] = scan_tasks[r]
      BY <1>6, <2>4
    <3>2. (\E j \in DOMAIN ScanRange : Owns(r, j)) => \E j \in DOMAIN ScanRange : Owns(r, j)'
      BY <1>9
    <3> QED
      BY <1>3, <2>1, <2>2, <3>1, <3>2 DEF TaskInv, NewScan
  <2> QED
    BY <2>3, <2>4
<1>12. ASSUME NEW j \in DOMAIN ScanRange
       PROVE  RangeInv(j)'
  <2>1. RangeInv(j)
    BY <1>2 DEF ScanInv
  <2>2. \A n : Passed(j, n)' <=> Passed(j, n)
    BY <1>1, <1>3 DEF Passed
  <2>3. ASSUME NEW r \in ScanTask
        PROVE  Passed(j, scan_tasks[r].chunk)' <=> Passed(j, scan_tasks[r].chunk)
    BY <1>1, <1>3, <1>8 DEF Passed
  <2> QED
    BY <1>3, <1>9, <2>1, <2>2, <2>3 DEF RangeInv
<1>13. phase' = "done" => \A r \in ScanTask : scan_tasks'[r].finished
  BY <1>1, <1>5, <1>6, <1>7
<1>14. ScanInv'
  BY <1>1, <1>2, <1>3, <1>10, <1>11, <1>12, <1>13 DEF ScanInv
<1> QED
  BY <1>1, <1>2, <1>14, ScanFrame DEF SettingsInv

\* A task claims the next range: nobody owns it yet, and nothing of it has
\* been handed on.
LEMMA ClaimRangeKeepsInv ==
  ASSUME IInv, NEW s \in DOMAIN scan_tasks, ClaimRange(s)
  PROVE  IInv'
<1>1. /\ phase = "scan" /\ scan_tasks[s].initial
      /\ partition_id' = partition_id + 1
      /\ UNCHANGED <<settings, sinkVars, buildVars, chunks_todo>>
  BY DEF ClaimRange
<1>2. /\ SettingsInv /\ ScanInv /\ ClaimInv
      /\ chunks_todo = ScanRange /\ DOMAIN scan_tasks = ScanTask /\ s \in ScanTask
  BY <1>1 DEF IInv, ScanInv, ClaimInv
<1>3. /\ IsFiniteSet(Claimants) /\ partition_id \in Nat /\ partition_id = Cardinality(Claimants)
  BY <1>2, ClaimantsFinite DEF ClaimInv
<1>4. /\ NumChunks \in Nat /\ DOMAIN ScanRange \subseteq Nat \ {0} /\ IsCut(ScanRange, NumChunks)
  BY <1>1, Positions
<1>5. PICK m \in 0..num_threads : DOMAIN ScanRange = 1..m /\ Len(ScanRange) = m
  BY <1>2, <1>4, RangesCut DEF ScanRange, SettingsInv
<1>6. Len(ScanRange) = m
  BY <1>5
<1>7. \A j \in DOMAIN ScanRange : ScanRange[j].from < ScanRange[j].to
  BY <1>2, <1>4, RangesCut DEF ScanRange, SettingsInv
<1>8. scan_tasks[s] = NewScan
  BY <1>1, <1>2 DEF ScanInv, TaskInv
<1>9. \A j \in DOMAIN ScanRange : ~Owns(s, j)
  BY <1>1 DEF Owns
<1>10. ASSUME \A r \in ScanTask : scan_tasks'[r].initial <=> r # s /\ scan_tasks[r].initial
       PROVE  partition_id' = Cardinality(Claimants')
  <2>1. ScanTask' = ScanTask
    BY <1>1, DataStays DEF buildVars
  <2>2. Claimants' = Claimants \cup {s} /\ s \notin Claimants
    BY <1>1, <1>2, <1>10, <2>1 DEF Claimants
  <2>3. Cardinality(Claimants \cup {s}) = Cardinality(Claimants) + 1
    BY <1>3, <2>2, FS_AddElement
  <2> QED
    BY <1>1, <1>3, <2>2, <2>3
<1>11. CASE partition_id < Len(chunks_todo)
  <2> DEFINE k == partition_id + 1
  <2>1. k \in DOMAIN ScanRange /\ k \in Nat /\ ~(k <= partition_id)
    BY <1>2, <1>3, <1>5, <1>6, <1>11
  <2>2. Emit(s, ScanRange[k].from, ScanRange[k].to)
    BY <1>2, <1>11 DEF ClaimRange
  <2> HIDE DEF k
  <2>3. /\ ScanRange[k].from \in Nat /\ ScanRange[k].from <= ScanRange[k].from
        /\ ScanRange[k].from < ScanRange[k].to /\ ScanRange[k].to \in Nat
    BY <1>4, <1>7, <2>1 DEF IsCut
  <2>4. \A r \in ScanTask : r # s => ~Owns(r, k)
    BY <1>2, <2>1 DEF ScanInv, TaskInv
  <2>5. Passed(k, ScanRange[k].from)
    <3>1. Passed(k, 0)
      BY <1>2, <2>1 DEF ScanInv, RangeInv
    <3> QED
      BY <2>3, <3>1 DEF Passed
  <2>6. \A j \in DOMAIN ScanRange : j <= partition_id' <=> j <= partition_id \/ j = k
    BY <1>1, <1>3, <1>4 DEF k
  <2>7. partition_id' = Cardinality(Claimants')
    BY <1>2, <1>10, <2>2 DEF Emit, ClaimInv
  <2> QED
    BY <1>1, <1>2, <1>9, <2>1, <2>2, <2>3, <2>4, <2>5, <2>6, <2>7, EmitKeepsInv
<1>12. CASE ~(partition_id < Len(chunks_todo))
  <2>1. EndScan(s)
    BY <1>12 DEF ClaimRange
  <2>2. scan_tasks[s].chunk = scan_tasks[s].to
    BY <1>8 DEF NewScan
  <2>3. \A j \in DOMAIN ScanRange : j <= partition_id' <=> j <= partition_id
    BY <1>1, <1>2, <1>3, <1>5, <1>6, <1>12
  <2>4. partition_id' = Cardinality(Claimants')
    BY <1>2, <1>10, <2>1 DEF EndScan, ClaimInv
  <2> QED
    BY <1>1, <1>2, <2>1, <2>2, <2>3, <2>4, EndKeepsInv
<1> QED
  BY <1>11, <1>12

\* A task hands on the next chunk of its range, or ends behind the last one.
LEMMA GetDataKeepsInv ==
  ASSUME IInv, NEW s \in DOMAIN scan_tasks, GetData(s)
  PROVE  IInv'
<1>1. /\ phase = "scan" /\ ~scan_tasks[s].initial /\ ~scan_tasks[s].finished
      /\ UNCHANGED <<settings, sinkVars, buildVars, chunks_todo>>
      /\ partition_id' = partition_id
  BY DEF GetData
<1>2. /\ SettingsInv /\ ScanInv /\ ClaimInv
      /\ DOMAIN scan_tasks = ScanTask /\ s \in ScanTask
  BY <1>1 DEF IInv, ScanInv, ClaimInv
<1>3. /\ NumChunks \in Nat /\ DOMAIN ScanRange \subseteq Nat \ {0} /\ IsCut(ScanRange, NumChunks)
  BY <1>1, Positions
<1>4. PICK k \in DOMAIN ScanRange : Owns(s, k)
  BY <1>1, <1>2 DEF ScanInv, TaskInv
<1>5. /\ ScanRange[k].from \in Nat /\ ScanRange[k].to \in Nat
      /\ scan_tasks[s].chunk \in Nat /\ scan_tasks[s].to = ScanRange[k].to
      /\ ScanRange[k].from < scan_tasks[s].chunk
      /\ scan_tasks[s].chunk <= ScanRange[k].to
  BY <1>2, <1>3, <1>4 DEF IsCut, Owns, ClaimInv
<1>6. ASSUME \A r \in ScanTask : scan_tasks'[r].initial = scan_tasks[r].initial
      PROVE  partition_id' = Cardinality(Claimants')
  <2>1. ScanTask' = ScanTask
    BY <1>1, DataStays DEF buildVars
  <2>2. Claimants' = Claimants
    BY <1>6, <2>1 DEF Claimants
  <2> QED
    BY <1>1, <1>2, <2>2 DEF ClaimInv
<1>7. CASE scan_tasks[s].chunk < scan_tasks[s].to
  <2> DEFINE i == scan_tasks[s].chunk
  <2>1. Emit(s, i, ScanRange[k].to)
    BY <1>5, <1>7 DEF GetData
  <2>2. i \in Nat /\ ScanRange[k].from <= i /\ i < ScanRange[k].to
    BY <1>5, <1>7
  <2>3. \A r \in ScanTask : r # s => ~Owns(r, k)
    BY <1>2, <1>4 DEF ScanInv, RangeInv
  <2>4. k <= partition_id
    BY <1>2, <1>4 DEF ScanInv, TaskInv
  <2>5. Passed(k, i)
    <3>1. PICK r \in ScanTask : Owns(r, k) /\ Passed(k, scan_tasks[r].chunk)
      BY <1>2, <2>4 DEF ScanInv, RangeInv
    <3>2. r = s
      BY <2>3, <3>1
    <3> QED
      BY <3>1, <3>2
  <2>6. \A j \in DOMAIN ScanRange : j <= partition_id' <=> j <= partition_id \/ j = k
    BY <1>1, <2>4
  <2>7. ASSUME NEW j \in DOMAIN ScanRange, Owns(s, j)
        PROVE  j = k
    <3>1. /\ ScanRange[j].from \in Nat /\ ScanRange[j].to \in Nat
          /\ ScanRange[j].from < scan_tasks[s].chunk
          /\ scan_tasks[s].chunk <= ScanRange[j].to
      BY <1>3, <2>7 DEF IsCut, Owns
    <3>2. /\ i - 1 \in Int
          /\ ScanRange[j].from <= i - 1 /\ i - 1 < ScanRange[j].to
          /\ ScanRange[k].from <= i - 1 /\ i - 1 < ScanRange[k].to
      BY <1>5, <3>1
    <3> QED
      BY <1>3, <3>2, CutDisjoint
  <2>8. partition_id' = Cardinality(Claimants')
    BY <1>1, <1>2, <1>6, <2>1 DEF Emit, ClaimInv
  <2> QED
    BY <1>1, <1>2, <2>1, <2>2, <2>3, <2>5, <2>6, <2>7, <2>8, EmitKeepsInv
<1>8. CASE ~(scan_tasks[s].chunk < scan_tasks[s].to)
  <2>1. EndScan(s)
    BY <1>8 DEF GetData
  <2>2. scan_tasks[s].chunk = scan_tasks[s].to
    BY <1>5, <1>8
  <2>3. partition_id' = Cardinality(Claimants')
    BY <1>1, <1>2, <1>6, <2>1 DEF EndScan, ClaimInv
  <2> QED
    BY <1>1, <1>2, <2>1, <2>2, <2>3, EndKeepsInv
<1> QED
  BY <1>7, <1>8

-----------------------------------------------------------------------------
(* The theorems *)

\* Every step keeps the invariant.
LEMMA NextKeepsInv == IInv /\ [Next]_vars => IInv'
<1> SUFFICES ASSUME IInv, [Next]_vars PROVE IInv'
  OBVIOUS
<1>1. CASE \E t \in SinkTask, c \in Chunk : Sink(t, c)
  BY <1>1, SinkKeepsInv
<1>2. CASE \E t \in SinkTask : Combine(t)
  BY <1>2, CombineKeepsInv
<1>3. CASE Finalize
  BY <1>3, FinalizeKeepsInv
<1>4. CASE \E k \in DOMAIN finalize_tasks : InsertChunk(k) \/ FinishTask(k)
  BY <1>4, InsertChunkKeepsInv, FinishTaskKeepsInv
<1>5. CASE ScheduleScan
  BY <1>5, ScheduleScanKeepsInv
<1>6. CASE \E s \in DOMAIN scan_tasks : ClaimRange(s) \/ GetData(s)
  BY <1>6, ClaimRangeKeepsInv, GetDataKeepsInv
<1>7. CASE UNCHANGED vars
  <2>1. /\ UNCHANGED <<settings, sinkVars, buildVars, scanVars>> /\ phase' = phase
    BY <1>7 DEF vars
  <2>2. SettingsInv'
    BY <2>1 DEF IInv, SettingsInv, settings, buildVars, scanVars
  <2>3. CASE phase = "sink"
    BY <2>1, <2>2, <2>3 DEF IInv, SinkInv, SinkTypes, LocalOnce, CombinedOnce, NoneLost, Input,
       SinkTask, NothingScanned, settings, sinkVars, buildVars, scanVars
  <2>4. CASE phase # "sink"
    <3>1. /\ SinkInv' /\ DataInv' /\ Input' = Input /\ BuildRange' = BuildRange
          /\ NumChunks' = NumChunks /\ ScanRange' = ScanRange /\ ScanTask' = ScanTask
      BY <2>1, <2>4, DataStays DEF buildVars
    <3>2. BuildInv'
      BY <2>1, <2>4, <3>1 DEF IInv, BuildInv, buildVars
    <3>3. NothingScanned => NothingScanned'
      BY <2>1 DEF NothingScanned, scanVars
    <3>4. ScanInv => ScanInv'
      BY <2>1, <3>1 DEF ScanInv, ClaimInv, Claimants, TaskInv, RangeInv, Owns, Passed, NewScan,
         buildVars, scanVars
    <3> QED
      BY <2>1, <2>2, <2>4, <3>1, <3>2, <3>3, <3>4 DEF IInv
  <2> QED
    BY <2>3, <2>4
<1>8. CASE Terminated
  BY <1>7, <1>8 DEF Terminated
<1> QED
  BY <1>1, <1>2, <1>3, <1>4, <1>5, <1>6, <1>7, <1>8 DEF Next

\* The invariant holds in every state of a run.
LEMMA Invariance == Spec => []IInv
BY InitIInv, NextKeepsInv, PTL DEF Spec

\* The counters, positions and collections stay in their ranges; partition_id,
\* which the tasks increment without looking, never passes the thread count.
THEOREM TypesCorrect == Spec => []TypeOK
<1>1. IInv => TypeOK
  <2> SUFFICES ASSUME IInv PROVE TypeOK
    OBVIOUS
  <2>1. SettingsInv /\ SinkInv /\ Input \subseteq Chunk
    BY InputIsChunks DEF IInv
  <2>2. \A S \in {Input} : Seq(S) \subseteq Seq(Chunk)
    BY <2>1
  <2>3. /\ input \subseteq Chunk /\ combined \subseteq SinkTask
        /\ local_data \in [SinkTask -> Seq(Chunk)] /\ local_data_collections \in Seq(Chunk)
    BY <2>1, <2>2 DEF SinkInv, SinkTypes
  <2>4. /\ num_threads \in ThreadCounts /\ num_chunks \in 0..MaxChunks
        /\ phase \in {"sink", "build", "built", "scan", "done"}
        /\ inserted \in [Chunk -> Nat] /\ emitted \in [Chunk -> Nat] /\ num_threads \in Nat
    BY <2>1 DEF SettingsInv
  <2>5. /\ total_data \in Seq(Chunk)
        /\ \A k \in DOMAIN finalize_tasks : /\ finalize_tasks[k].pos \in 0..finalize_tasks[k].to
                                            /\ finalize_tasks[k].to <= Len(total_data)
    <3>1. CASE phase = "sink"
      BY <3>1 DEF IInv
    <3>2. CASE phase # "sink"
      <4>1. DataInv /\ BuildInv /\ IsCut(BuildRange, NumChunks)
        BY <3>2, Positions DEF IInv
      <4> QED
        BY <2>2, <4>1 DEF DataInv, BuildInv, IsCut, NumChunks
    <3> QED
      BY <3>1, <3>2
  <2>6. partition_id \in 0..num_threads
    <3>1. CASE phase \in {"scan", "done"}
      BY <2>1, <2>4, <3>1, ClaimantsFinite DEF IInv, ScanInv, ClaimInv
    <3>2. CASE phase \notin {"scan", "done"}
      BY <2>4, <3>2 DEF IInv, NothingScanned
    <3> QED
      BY <3>1, <3>2
  <2>7. \A s \in DOMAIN scan_tasks : scan_tasks[s].chunk \in 0..Len(total_data)
    <3>1. CASE phase \in {"scan", "done"}
      <4>1. ScanInv /\ NumChunks \in Nat
        BY <3>1, Positions DEF IInv
      <4> QED
        BY <4>1 DEF ScanInv, ClaimInv, TaskInv, NumChunks
    <3>2. CASE phase \notin {"scan", "done"}
      BY <2>4, <3>2 DEF IInv, NothingScanned
    <3> QED
      BY <3>1, <3>2
  <2> QED
    BY <2>3, <2>4, <2>5, <2>6, <2>7 DEF TypeOK
<1> QED
  BY <1>1, Invariance, PTL

\* However the chunks were spread over sink tasks, and however many finalize
\* tasks run in which order: when the pipelines that probe the filters may
\* start, every chunk has been inserted once.
THEOREM FiltersAreComplete == Spec => []FilterComplete
<1>1. IInv => FilterComplete
  <2> SUFFICES ASSUME IInv, phase \in {"built", "scan", "done"}, NEW c \in Chunk
               PROVE  inserted[c] = IF c <= num_chunks THEN 1 ELSE 0
    BY DEF FilterComplete
  <2>1. BuildInv /\ SettingsInv
    BY DEF IInv
  <2>2. c \in Input <=> c <= num_chunks
    BY <2>1, CreateBFAssumption DEF Input, Chunk, SettingsInv
  <2>3. CASE c \notin Input
    BY <2>1, <2>2, <2>3 DEF BuildInv
  <2>4. CASE c \in Input
    <3>1. PICK p \in 0..(NumChunks - 1) : total_data[p + 1] = c
      BY <2>4, Positions
    <3>2. NumChunks \in Nat /\ IsCut(BuildRange, NumChunks)
      BY Positions
    <3>3. PICK k \in DOMAIN BuildRange : BuildRange[k].from <= p /\ p < BuildRange[k].to
      BY <3>2 DEF IsCut
    <3>4. BuildRange[k].from \in Nat /\ BuildRange[k].to \in Nat
      BY <3>2 DEF IsCut
    <3>5. p \in BuildRange[k].from..(BuildRange[k].to - 1)
      BY <3>2, <3>3, <3>4
    <3>6. finalize_tasks[k].pos = BuildRange[k].to
      BY <2>1 DEF BuildInv
    <3>7. inserted[total_data[p + 1]] = 1
      BY <2>1, <3>3, <3>5, <3>6 DEF BuildInv
    <3> QED
      BY <2>2, <2>4, <3>1, <3>7
  <2> QED
    BY <2>3, <2>4
<1> QED
  BY <1>1, Invariance, PTL

\* The range a delivered chunk lies in.
LEMMA RangeOfChunk ==
  ASSUME IInv, phase \in {"scan", "done"}, NEW c \in Input
  PROVE  \E k \in DOMAIN ScanRange : \E p \in ScanRange[k].from..(ScanRange[k].to - 1) :
           total_data[p + 1] = c
<1>1. PICK p \in 0..(NumChunks - 1) : total_data[p + 1] = c
  BY Positions
<1>2. NumChunks \in Nat /\ IsCut(ScanRange, NumChunks)
  BY Positions
<1>3. PICK k \in DOMAIN ScanRange : ScanRange[k].from <= p /\ p < ScanRange[k].to
  BY <1>2 DEF IsCut
<1>4. p \in ScanRange[k].from..(ScanRange[k].to - 1)
  BY <1>2, <1>3 DEF IsCut
<1> QED
  BY <1>1, <1>4

\* No chunk is handed on twice, whether the next pipeline runs in parallel or
\* not: the ranges do not overlap, and each is claimed by one task.
THEOREM NoChunkTwice == Spec => [](\A c \in Chunk : emitted[c] <= 1)
<1>1. IInv => \A c \in Chunk : emitted[c] <= 1
  <2> SUFFICES ASSUME IInv, NEW c \in Chunk PROVE emitted[c] <= 1
    OBVIOUS
  <2>1. CASE phase \notin {"scan", "done"}
    BY <2>1 DEF IInv, NothingScanned, SettingsInv
  <2>2. CASE phase \in {"scan", "done"} /\ c \notin Input
    BY <2>2 DEF IInv, ScanInv
  <2>3. CASE phase \in {"scan", "done"} /\ c \in Input
    <3>1. PICK k \in DOMAIN ScanRange :
            \E p \in ScanRange[k].from..(ScanRange[k].to - 1) : total_data[p + 1] = c
      BY <2>3, RangeOfChunk
    <3>2. \E n : Passed(k, n)
      BY <2>3 DEF IInv, ScanInv, RangeInv
    <3> QED
      BY <3>1, <3>2 DEF Passed
  <2> QED
    BY <2>1, <2>2, <2>3
<1> QED
  BY <1>1, Invariance, PTL

\* If the next pipeline can run in parallel, the scan hands on every chunk
\* once: it has a task for each thread, so no range stays unclaimed.  Without
\* the assumption the theorem is false (run CreateBFSequential).
THEOREM ScansAreComplete ==
  ASSUME Consumers \subseteq {TRUE}
  PROVE  Spec => []ScanIsComplete
<1>1. ASSUME IInv, phase = "done", NEW c \in Input
      PROVE  emitted[c] = 1
  <2>1. SettingsInv /\ ScanInv /\ ClaimInv
    BY <1>1 DEF IInv, ScanInv
  <2>2. NumScanTasks = num_threads /\ num_threads \in Nat \ {0}
    <3>1. parallel = TRUE /\ num_threads \in Nat \ {0}
      BY <2>1 DEF SettingsInv
    <3> QED
      BY <3>1 DEF NumScanTasks
  <2>3. \A s \in ScanTask : scan_tasks[s].finished /\ ~scan_tasks[s].initial
    BY <1>1, <2>1 DEF ScanInv, TaskInv, NewScan
  <2>4. Claimants = ScanTask
    BY <2>3 DEF Claimants
  <2>5. partition_id = num_threads
    BY <2>1, <2>2, <2>4, ClaimantsFinite DEF ClaimInv
  <2>6. NumChunks \in Nat /\ IsCut(ScanRange, NumChunks)
    BY <1>1, Positions
  <2>7. \A j \in DOMAIN ScanRange : j <= partition_id
    <3>1. PICK m \in 0..num_threads : DOMAIN ScanRange = 1..m
      BY <2>2, <2>6, RangesCut DEF ScanRange
    <3> QED
      BY <2>2, <2>5, <3>1
  <2>8. PICK k \in DOMAIN ScanRange :
          \E p \in ScanRange[k].from..(ScanRange[k].to - 1) : total_data[p + 1] = c
    BY <1>1, RangeOfChunk
  <2>9. PICK s \in ScanTask : Owns(s, k) /\ Passed(k, scan_tasks[s].chunk)
    BY <2>1, <2>7 DEF ScanInv, RangeInv
  <2>10. scan_tasks[s].chunk = ScanRange[k].to
    BY <2>1, <2>3, <2>9 DEF ScanInv, TaskInv, Owns
  <2>11. \A p \in ScanRange[k].from..(ScanRange[k].to - 1) : p < ScanRange[k].to
    BY <2>6 DEF IsCut
  <2> QED
    BY <2>8, <2>9, <2>10, <2>11 DEF Passed
<1>2. IInv /\ (\A c \in Chunk : emitted[c] <= 1) => ScanIsComplete
  BY <1>1 DEF ScanIsComplete, Input
<1> QED
  BY <1>2, Invariance, NoChunkTwice, PTL

=============================================================================
