------------------------------ MODULE CreateBF ------------------------------
(***************************************************************************)
(* PhysicalCreateBF: a sink that collects the chunks of its input, builds  *)
(* its Bloom filters from them in parallel finalize tasks, and then is the *)
(* source that hands the same chunks on to the next pipeline.              *)
(*                                                                         *)
(* The scan is split into at most one range of chunks per thread, and each *)
(* task of the next pipeline claims one range.                             *)
(***************************************************************************)
EXTENDS Integers, Sequences, FiniteSets

CONSTANTS
  ThreadCounts,       \* values of NumberOfThreads that are tried
  MaxChunks,          \* the input has 0..MaxChunks chunks
  ParallelThreshold,  \* PARALLEL_CONSTRUCT_THRESHOLD, counted in chunks
  Consumers           \* can the next pipeline run in parallel?  Subset of BOOLEAN

Chunk == 1..MaxChunks

ASSUME CreateBFAssumption ==
  /\ ThreadCounts \subseteq Nat \ {0}
  /\ MaxChunks \in Nat
  /\ ParallelThreshold \in Nat
  /\ Consumers \subseteq BOOLEAN

VARIABLES
  num_threads,             \* NumberOfThreads of the scheduler
  verify_parallelism,      \* the setting
  parallel,                \* Pipeline::ScheduleParallel can succeed for the consumer
  num_chunks,              \* chunks the child delivers in all
  input,                   \* chunks the child has not delivered yet
  local_data,              \* LocalSinkState of each sink task
  combined,                \* sink tasks that have called Combine
  local_data_collections,  \* the chunks combined so far
  phase,                   \* sink, build, scan, done
  total_data,              \* the chunks in their final order
  finalize_tasks,          \* [pos, to, finished] of each finalize task
  inserted,                \* how often each chunk went into the filters
  chunks_todo,             \* ranges of the scan
  partition_id,            \* next range to claim
  scan_tasks,              \* LocalSourceState of each task of the consumer
  emitted                  \* how often each chunk was handed on

sinkVars == <<input, local_data, combined, local_data_collections>>
buildVars == <<total_data, finalize_tasks, inserted>>
scanVars == <<chunks_todo, partition_id, scan_tasks, emitted>>
settings == <<num_threads, num_chunks, verify_parallelism, parallel>>
vars == <<settings, sinkVars, phase, buildVars, scanVars>>

SinkTask == 1..num_threads

-----------------------------------------------------------------------------
(* Sink *)

\* Sink: a task of the pipeline below appends a chunk to its own collection.
Sink(t, c) ==
  /\ phase = "sink"
  /\ t \notin combined
  /\ c \in input
  /\ input' = input \ {c}
  /\ local_data' = [local_data EXCEPT ![t] = Append(@, c)]
  /\ UNCHANGED <<settings, combined, local_data_collections, phase, buildVars, scanVars>>

\* Combine, under the lock: the collection of a task whose part of the source
\* is exhausted joins the others.
Combine(t) ==
  /\ phase = "sink"
  /\ t \notin combined
  /\ input = {} \/ combined \cup {t} # SinkTask
  /\ combined' = combined \cup {t}
  /\ local_data_collections' = local_data_collections \o local_data[t]
  /\ local_data' = [local_data EXCEPT ![t] = <<>>]
  /\ UNCHANGED <<settings, input, phase, buildVars, scanVars>>

-----------------------------------------------------------------------------
(* Building the filters *)

Least(x, y)    == IF x < y THEN x ELSE y
Greatest(x, y) == IF x > y THEN x ELSE y

ChunksPerThread(n) == Greatest((n + num_threads - 1) \div num_threads, 1)

\* The ranges both loops cut the chunks 0..(n - 1) into: as many full ranges
\* as there are, up to one per thread, the last one shorter.
Ranges(n) ==
  LET k == ChunksPerThread(n)
  IN  [i \in 1..Least(num_threads, (n + k - 1) \div k) |->
         [from |-> (i - 1) * k, to |-> Least(i * k, n)]]

Task(range) == [pos |-> range.from, to |-> range.to, finished |-> FALSE]

\* CreateBFFinalizeEvent::Schedule: its loop runs at least once.
FinalizeRanges(n) ==
  IF num_threads = 1 \/ (n < ParallelThreshold /\ ~verify_parallelism) \/ n = 0
  THEN <<[from |-> 0, to |-> n]>>
  ELSE Ranges(n)

\* Finalize merges the collections and inserts the event that schedules the tasks.
Finalize ==
  /\ phase = "sink"
  /\ combined = SinkTask
  /\ total_data' = local_data_collections
  /\ LET ranges == FinalizeRanges(Len(local_data_collections))
     IN  finalize_tasks' = [k \in DOMAIN ranges |-> Task(ranges[k])]
  /\ phase' = "build"
  /\ UNCHANGED <<settings, sinkVars, inserted, scanVars>>

\* One iteration of CreateBFFinalizeTask: a chunk is hashed and pushed into
\* every filter of the operator.
InsertChunk(k) ==
  /\ phase = "build"
  /\ finalize_tasks[k].pos < finalize_tasks[k].to
  /\ inserted' = [inserted EXCEPT ![total_data[finalize_tasks[k].pos + 1]] = @ + 1]
  /\ finalize_tasks' = [finalize_tasks EXCEPT ![k].pos = @ + 1]
  /\ UNCHANGED <<settings, sinkVars, phase, total_data, scanVars>>

\* The first finished task completes the event.
FinishTaskFirst(k) ==
  /\ phase = "build"
  /\ finalize_tasks[k].pos = finalize_tasks[k].to
  /\ ~finalize_tasks[k].finished
  /\ finalize_tasks' = [finalize_tasks EXCEPT ![k].finished = TRUE]
  /\ phase' = "built"
  /\ UNCHANGED <<settings, sinkVars, total_data, inserted, scanVars>>

\* The counter is compared before this task is counted.
FinishTaskUncounted(k) ==
  /\ phase = "build"
  /\ finalize_tasks[k].pos = finalize_tasks[k].to
  /\ ~finalize_tasks[k].finished
  /\ finalize_tasks' = [finalize_tasks EXCEPT ![k].finished = TRUE]
  /\ phase' = IF \A j \in DOMAIN finalize_tasks : finalize_tasks[j].finished
              THEN "built" ELSE "build"
  /\ UNCHANGED <<settings, sinkVars, total_data, inserted, scanVars>>

\* Event::FinishTask: the last task completes the event, and with it the
\* pipelines that wait for the filters may run.
FinishTask(k) ==
  /\ phase = "build"
  /\ finalize_tasks[k].pos = finalize_tasks[k].to
  /\ ~finalize_tasks[k].finished
  /\ finalize_tasks' = [finalize_tasks EXCEPT ![k].finished = TRUE]
  /\ phase' = IF \A j \in DOMAIN finalize_tasks : j = k \/ finalize_tasks[j].finished
              THEN "built" ELSE "build"
  /\ UNCHANGED <<settings, sinkVars, total_data, inserted, scanVars>>

-----------------------------------------------------------------------------
(* Source *)

NewScan == [initial |-> TRUE, chunk |-> 0, to |-> 0, finished |-> FALSE]

\* A task for every thread, or one task if the pipeline cannot run in parallel.
NumScanTasks == IF parallel /\ num_threads > 1 THEN num_threads ELSE 1

\* Pipeline::Schedule of the consumer: Reset creates the global source state.
ScheduleScan ==
  /\ phase = "built"
  /\ chunks_todo' = Ranges(Len(total_data))
  /\ scan_tasks' = [s \in 1..NumScanTasks |-> NewScan]
  /\ phase' = "scan"
  /\ UNCHANGED <<settings, sinkVars, buildVars, partition_id, emitted>>

Emit(s, i, to) ==
  /\ scan_tasks' = [scan_tasks EXCEPT ![s] =
                      [initial |-> FALSE, chunk |-> i + 1, to |-> to, finished |-> FALSE]]
  /\ emitted' = [emitted EXCEPT ![total_data[i + 1]] = @ + 1]
  /\ UNCHANGED phase

\* GetData returned FINISHED: the task is over, and the last one ends the scan.
EndScan(s) ==
  /\ scan_tasks' = [scan_tasks EXCEPT ![s].initial = FALSE, ![s].finished = TRUE]
  /\ phase' = IF \A r \in DOMAIN scan_tasks : r = s \/ scan_tasks[r].finished
              THEN "done" ELSE phase
  /\ UNCHANGED emitted

\* The counter is read and written back in two steps, so two tasks may read
\* the same value.
ClaimRangeTwice(s) ==
  /\ phase = "scan"
  /\ scan_tasks[s].initial
  /\ partition_id' \in {partition_id, partition_id + 1}
  /\ IF partition_id < Len(chunks_todo)
     THEN LET range == chunks_todo[partition_id + 1] IN Emit(s, range.from, range.to)
     ELSE EndScan(s)
  /\ UNCHANGED <<settings, sinkVars, buildVars, chunks_todo>>

\* The first GetData of a task claims the next range, and returns its first chunk.
ClaimRange(s) ==
  /\ phase = "scan"
  /\ scan_tasks[s].initial
  /\ partition_id' = partition_id + 1
  /\ IF partition_id < Len(chunks_todo)
     THEN LET range == chunks_todo[partition_id + 1] IN Emit(s, range.from, range.to)
     ELSE EndScan(s)
  /\ UNCHANGED <<settings, sinkVars, buildVars, chunks_todo>>

\* The other calls of GetData.
GetData(s) ==
  /\ phase = "scan"
  /\ ~scan_tasks[s].initial /\ ~scan_tasks[s].finished
  /\ IF scan_tasks[s].chunk < scan_tasks[s].to
     THEN Emit(s, scan_tasks[s].chunk, scan_tasks[s].to)
     ELSE EndScan(s)
  /\ UNCHANGED <<settings, sinkVars, buildVars, chunks_todo, partition_id>>

-----------------------------------------------------------------------------

Init ==
  /\ num_threads \in ThreadCounts
  /\ verify_parallelism \in BOOLEAN
  /\ parallel \in Consumers
  /\ num_chunks \in 0..MaxChunks
  /\ input = 1..num_chunks
  /\ local_data = [t \in SinkTask |-> <<>>]
  /\ combined = {}
  /\ local_data_collections = <<>>
  /\ phase = "sink"
  /\ total_data = <<>>
  /\ finalize_tasks = <<>>
  /\ inserted = [c \in Chunk |-> 0]
  /\ chunks_todo = <<>>
  /\ partition_id = 0
  /\ scan_tasks = <<>>
  /\ emitted = [c \in Chunk |-> 0]

Terminated == phase = "done" /\ UNCHANGED vars

Next ==
  \/ \E t \in SinkTask, c \in Chunk : Sink(t, c)
  \/ \E t \in SinkTask : Combine(t)
  \/ Finalize
  \/ \E k \in DOMAIN finalize_tasks : InsertChunk(k) \/ FinishTask(k)
  \/ ScheduleScan
  \/ \E s \in DOMAIN scan_tasks : ClaimRange(s) \/ GetData(s)
  \/ Terminated

\* A worker that has a task keeps executing it.
Spec == Init /\ [][Next]_vars /\ WF_vars(Next)

-----------------------------------------------------------------------------
(* Properties *)

\* The type invariant.
TypeOK ==
  /\ num_threads \in ThreadCounts
  /\ num_chunks \in 0..MaxChunks
  /\ input \subseteq Chunk
  /\ local_data \in [SinkTask -> Seq(Chunk)]
  /\ combined \subseteq SinkTask
  /\ local_data_collections \in Seq(Chunk)
  /\ phase \in {"sink", "build", "built", "scan", "done"}
  /\ total_data \in Seq(Chunk)
  /\ \A k \in DOMAIN finalize_tasks :
       finalize_tasks[k].pos \in 0..finalize_tasks[k].to /\ finalize_tasks[k].to <= Len(total_data)
  /\ inserted \in [Chunk -> Nat]
  /\ emitted \in [Chunk -> Nat]
  /\ partition_id \in 0..num_threads
  /\ \A s \in DOMAIN scan_tasks : scan_tasks[s].chunk \in 0..Len(total_data)

\* Every chunk the child delivered is in the filters, and only once, when the
\* pipelines that probe them may start.
FilterComplete ==
  phase \in {"built", "scan", "done"} =>
    \A c \in Chunk : inserted[c] = IF c <= num_chunks THEN 1 ELSE 0

\* The scan hands on what the sink has received: no chunk twice, and none
\* missing at its end.
ScanIsComplete ==
  /\ \A c \in Chunk : emitted[c] <= 1
  /\ phase = "done" => \A c \in 1..num_chunks : emitted[c] = 1

\* The operator completes, with no input too: the event always has a task, the
\* last one to finish completes it whatever the others' order, and the scan
\* ends however its ranges and tasks match up.
Completes == <>(phase = "done")

=============================================================================
