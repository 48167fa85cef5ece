# Predicate transfer in PredTransDuckDB: a TLA+ development

PredTransDuckDB is DuckDB with *robust predicate transfer*: before the joins of
a query run, Bloom filters built on some base relations remove rows of the
others that cannot take part in the result. Two passes over a spanning tree of
the join graph, leaves to root and root to leaves, approximate the semi-join
reduction of Yannakakis' algorithm. The modules here model that addition, from
the construction of the transfer graph down to the bits of a filter; the rest
of DuckDB appears only where predicate transfer depends on it.

All paths below are relative to the repository's `src/` directory unless they
begin with `test/`. The build defines `PredicateTransfer` only: code under
`UseHashFilter`, `External` and `SmalltoLarge` is not compiled and not modelled.

## 1. Inventory

| Component | State | Operations | Interacts with |
|---|---|---|---|
| `NodesManager` (`optimizer/predicate_transfer/nodes_manager.cpp`) | map of nodes by table index, its copy, the sorted nodes, renamed columns, the global `can_add_mark` | `ExtractNodes`, `AddNode`, `SortNodes`, `ReSortNodes`, `EraseNode`, `FindRename` | reads the logical plan, is owned by `DAGManager` |
| `DAGManager`, `DAGNode` (`dag_manager.cpp`, `dag.cpp`) | edges by pair of tables, selected edges, priorities, `ExecOrder`, four edge lists per node | `Build`, `ExtractEdges`, `LargestRoot`, `FindEdge`, `CreateDAG`, `Add` | called by the optimizer before and after join ordering |
| `PredicateTransferOptimizer` (`predicate_transfer_optimizer.cpp`) | `replace_map_forward`, `replace_map_backward` | `PreOptimize`, `Optimize`, `CreateBloomFilter`, `InsertCreateBFOperator_d` | puts `CreateBF` and `UseBF` operators on top of the nodes and links each `UseBF` to a `CreateBF` |
| `BlockedBloomFilter`, `BloomFilterBuilder_Parallel` (`bloom_filter/`) | blocks of 64 bits, one `ThreadLocalState` per thread | `Begin`, `PushNextBatch`, `Insert`, `Find`, the probing kernel | finalize tasks insert, `UseBF` probes |
| `PartitionSort` (`bloom_filter/partition_util.hpp`) | `prtn_ranges`, 16-bit | `Eval` | called for each batch |
| `PhysicalCreateBF` (`execution/operator/persistent/physical_create_bf.cpp`) | collections of chunks, builders, ranges of the scan, `this_pipeline` | `Sink`, `Combine`, `Finalize`, finalize tasks, `GetData`, `BuildPipelines` | sink of one pipeline, source of the next, filters for others |
| `PhysicalUseBF` (`execution/operator/filter/physical_use_bf.cpp`) | none | `ExecuteInternal`, `BuildPipelines` | makes its pipeline depend on the linked `CreateBF` |
| Plan generation (`execution/physical_plan/plan_create_bf.cpp`, `plan_use_bf.cpp`) | `LogicalCreateBF::physical`, the physical operators | `CreatePlan`, `CreatePlanfromRelated` | logical to physical plan, links every `UseBF` to its `CreateBF` operators |
| Pipeline construction (`parallel/meta_pipeline.cpp`, `BuildPipelines` of the operators) | MetaPipelines, pipelines, their dependencies, `this_pipeline` | `CreateChildMetaPipeline`, `CreateUnionPipeline`, `CreateChildPipeline`, `AddFinishEvent`, `BuildPipelinesFromRelated` | called by `Executor::InitializeInternal` |
| Events and executor (`parallel/event.cpp`, `pipeline*_event.cpp`, `executor.cpp`, `executor_task.cpp`) | counters of tasks and dependencies, parents, the task the client keeps, descheduled tasks, errors | `Schedule`, `FinishTask`, `InsertEvent`, `ExecuteTask`, `RescheduleTask`, `CancelTasks` | tasks of all operators, the client context |
| `TaskScheduler` (`parallel/task_scheduler.cpp`, `main/capi/threading-c.cpp`) | queue, semaphore, threads, markers | `Enqueue`, `ExecuteForever`, `SetThreads`, `Signal` | runs the tasks; `CreateBF` reads its vector of threads |

Hard behaviours and what makes each component right:

* **Transfer graph.** Three orders meet in one edge: the side of the join, the
  order by cardinality, and the order in which Prim's algorithm placed the ends.
  Ties are broken by hash sets and by an unstable sort. Right means: a forest of
  maximum weight, directed along `ExecOrder`, that never filters the preserved
  side of an outer join.
* **Insertion of operators.** A filter must be created before the node that uses
  it is visited, in the map of the same pass, and the links must be acyclic.
  Right means: the query's result is unchanged and, for acyclic queries, every
  row left takes part in it.
* **Bloom filter.** Threads write to the same blocks without locks; buffers are
  private only if thread ids are. Right means: no false negatives, and exactly
  the rows that pass are selected.
* **CreateBF.** Rounding in the split into ranges, empty inputs, tasks that
  finish in any order, a shared counter. Right means: each chunk is in the
  filter once before anyone probes it, and is handed on once.
* **Walk over the plan.** Operators between a table and a join may depend on the
  rows a filter removes; a global flag decides about MARK joins. Right means:
  every edge may be applied early, nothing is overlooked, no query leaves the
  flag changed.
* **Plan generation.** A `CreateBF` is planned from the side before the tree
  reaches it. Right means: one physical operator, one owner.
* **Pipelines.** A `CreateBF` is reached by several routes, and pipelines are
  copied for unions and split at joins. Right means: every probe waits for the
  filter, every input runs once, nothing waits for itself.
* **Events and executor.** Dependencies that must complete exactly once, an event
  inserted while others run, tasks that block, cancellation and errors while
  tasks run. Right means: no task is lost, inputs are complete, a query ends and
  its tasks end before it.
* **Task scheduler.** One semaphore for tasks and for threads that are to stop,
  threads that come and go while a query runs. Right means: no lost wakeup, calls
  return, each thread has its own buffers.

`PROJECT.json` lists the hazards with their lines.

## 2. Plan

In place, from the optimizer to the threads:

1. `NodeExtraction` (walk over the plan), `TransferGraph` (which extends nothing,
   but assumes what `NodeExtraction` shows: the ends of an edge differ),
   `PredicateTransfer` with the abstract `SemiJoinReduction`;
2. `PlanGenerator` and `Pipelines`, composed by `QueryPlanning`; `Executor`, which
   extends `Pipelines`;
3. `CreateBF` and `BloomFilter`, which extends `PartitionSort`: the operator and its
   filter;
4. `TaskScheduler`: the threads;
5. theorems about each part, in the module of the same name with `_proofs`:
   `PredicateTransfer` (with `TransferGraph`), `SemiJoinReduction`, `NodeExtraction`,
   `BloomFilter` (with `PartitionSort`), `CreateBF`, `Pipelines` (with
   `PlanGenerator` and `QueryPlanning`), `Executor`, `TaskScheduler`.

Left: `NoCircularWait` of `Pipelines`, with a rank of the operators;
`MaximumSpanningForest`, an exchange argument with the induction of
`BloomFilter_proofs`. Recursive and materialized CTEs in `Pipelines`.

## 3. Modules

### TransferGraph
`DAGManager::Build`. A query is what `ExtractNodes` delivers: nodes, their
estimated cardinalities and the equality conditions with the type of their join.
`Build` sorts the nodes and extracts the edges (`EdgeInfo` is `DAGEdgeInfo` with
its two protection flags), `PickRoot` and `GrowTree` are `LargestRoot` before and
in its loop, `EndTree` is the end of that loop followed by `ReSortNodes`,
`Direct` is `RecoverNodes` and the second half of `CreateDAG`. `FindEdge` and `Sorted` are sets:
what the code may return for some iteration order of its hash sets, and every
result of a sort that is not stable. `priority`, `ExecOrder`, `selected` and
`dag` are the fields of the same name.

Simplifications: conditions form a set (the code removes duplicates with
`filter_set`; two conditions that only a rename makes equal count once); the two
sides of a condition are different tables (an assumption on `Queries`).

### PredicateTransfer
Extends `TransferGraph` with `Optimize`: one `OptimizeNode` per iteration of
either loop, then `InsertCreateBFOperator`. A filter is identified by pass, ends
and conditions; `used` is its `isUsed` flag; `replace_map` has the stack of each
node and pass. If `BuildUseOperator` finds no `CreateBF` the phase becomes
`crashed`. Execution is one `RunStack` per stack: it waits for the stack below
and for the stacks its `UseBF` operators are linked to, as the pipeline
dependencies do, and lets through all rows that hit every filter, plus any of
`FalsePositives`. Nulls hash like values (`SameHash`), while SQL equality is in
the abstract module.

### SemiJoinReduction
The promise: a row disappears only if for some other relation no remaining row
matches it on the conditions that do not preserve its side. `JoinResult` has
outer-join semantics: a combination takes a row from each of some relations; a
condition with one end missing is satisfied if it preserves the other end; and
the result are the combinations that are not part of a larger one, the missing
relations filled with nulls. So a preserved row without a match is in the result,
and a row that lost its match would show up with nulls instead: `ResultKept` says
that neither changes. `PredicateTransfer` implements it under the mapping `Live`
(the output of the last stack of a relation that has run).

### BloomFilter
`PushNextBatchImp` is split at its shared accesses: `PushNextBatch` (sort into
the thread's buffers), `TakePartition`, one `Insert` per `fetch_or`,
`EndPartition`, `EndBatch`. `SlotOf` is the search for `thread_id` in
`CreateBFFinalizeTask`. If two threads share a slot, the buffer read by one may
have been resized by the other: then `HashAt` is any hash. `FindRows` and
`filter` are the probe: the vectorised loop over whole groups of `Unroll` rows, the
scalar rest, and, for filters above `PrefetchLimit` blocks (`UsePrefetch`), the
scalar loop that fetches blocks ahead and stops `PrefetchIterations` rows before the
end (`FindImp`). Both callers of `Find` (`bloom_filter_use_kernel.cpp:25`,
`physical_hash_join.cpp:673`) pass `enable_prefetch = false`, so `filter` does too,
while `SelectionIsExact` is about both values. A batch is shorter than the range of a counter of
`prtn_ranges` (the code asserts at most `1 << 15` rows, for 16 bits); `Listing` is
the loop that collects the numbers of partitions, or of rows, that pass a test. The rotation of masks is part of `NumMasks`, and the
number of blocks is the constant `LogNumBlocks`.

### PartitionSort
The three loops of `Eval`, each a function of the rounds it has done (`Counted`,
`Sums`, `Placed`), with arithmetic modulo `2^Width`;
`PushNextBatch` calls it. It touches nothing but its thread's buffers, so it is
one step there. `PartitionSorted` is what the callers rely on.

### CreateBF
The life of the operator: `Sink` and `Combine` by the tasks of the pipeline
below, `Finalize`, `InsertChunk` and `FinishTask` of the finalize tasks, then
`ScheduleScan` (the global source state) and the two cases of `GetData`:
`ClaimRange` for the first call of a task, `GetData` for the others. The constant
`Consumers` says whether the next pipeline can be parallel (`ScheduleParallel`).
The number of threads is fixed during a query; `PARALLEL_CONSTRUCT_THRESHOLD` is
counted in chunks; all filters of an operator are built together.

### NodeExtraction
`NodesManager::ExtractNodes` on logical plans. The pending calls of the descent
are a stack; each operator class has its action, named after the branch of the
switch or of the loop. A join is two steps, the test of `can_add_mark` and its
reset (`ResetMark`), because the flag is shared by all connections. An operator
with a table index has one column, so that a column is named by its operator;
`rename_cols` maps columns to columns. `Edges` is what `ExtractEdges` will make
of the result. `MCNodeExtraction` builds the plans: two inputs out of a list of
subqueries, joined in every way. Comparison joins and delim joins are two kinds,
because only a NOT over the former clears the flag (line 128); a delim get is a table
like any other (lines 219-227). `NodeExtractionAssumption` says what a logical
plan is: a tree of operators of these kinds, of which only a join has a join type;
operator 1 is the root, and a filter has one child.

Plans are those that filter pushdown delivers. It turns a MARK join under a
filter on the mark into a SEMI join (`pushdown_mark_join.cpp:38-43`), so a MARK
join below a filter that keeps marked rows occurs only with that rule switched
off; `NodeExtraction` has both.

Four properties share the question whether an edge may be applied early.
`TransfersCommute`: its ends are below the two sides of its join, with no total or
set operation between the join and a relation that loses rows. `WindowsSeeAllRows`
asks the same of windows and limits, where the code does not keep it.
`NotInKeepsRows`: the MARK join of a NOT IN, if it is a comparison join, is no edge.
`MarkJoinsKeepRows` asks that of every MARK join whose unmarked rows may be needed,
and the code does not keep it, for marks that are returned and for correlated NOT IN.

### PlanGenerator
`PhysicalPlanGenerator::CreatePlan` for `LogicalCreateBF`, `LogicalUseBF` and, as
one case, all others. `physical` is the raw pointer in the logical operator,
`owners` counts the `unique_ptr`s that hold an operator. Plans come from
`SamplePlans`: three relations, each with the stack of operators that
`PredicateTransfer` makes, all subsets of the forward and backward transfers, all
join orders, several shapes of the upper plan and of the third relation.
`PlanGeneratorAssumption` says what a logical plan is: a finite tree, since
`children` are `unique_ptr`s; links only from a `UseBF` to `CreateBF` operators of
the same plan; and no circle of children and links (`WithoutCircle`), which
`TransfersFollowExecOrder` of `TransferGraph` gives for the stacks that
`PredicateTransfer` makes: each pass uses filters of nodes it has passed before.
Without it the recursive `CreatePlan` of a `UseBF` would not return.

### Pipelines
`BuildPipelines` of the operators and the operations of `MetaPipeline`, one action
per call of the recursive descent, then `Ready`. `Events` and `Dependencies` are
the events and `AddDependency` calls of `SchedulePipeline` and
`ScheduleEventsInternal`, as sets; a dependency that is added several times has
several numbers. `this_pipeline` outlives an execution, and `MaxExecutions` says
how often the plan is executed. Batch indexes are left out. `PipelinesAssumption`
(`IsPlan`) says what a physical plan is: `Arity` children per kind; a tree (`IsTree`), since
`children` are `unique_ptr`s; and related operators only in a `UseBF`, which are
`CreateBF` operators of the plan.

### QueryPlanning
The composition: planning runs to its end, `TakePlan` numbers the physical
operators from the root and hands them to `Pipelines`, the logical plan is
destroyed, and the pipelines of the physical plan are built. `Plans` of
`Pipelines` is empty in its runs, since the plans come from `PlanGenerator`.
`QueryPlanningAssumption` adds that logical operators have the kinds and the
children that `Pipelines` expects.

### Executor
Extends `Pipelines` with the execution: `event` has the counters and parents of
the `Event` objects, `tasks` counts the tasks of an event that are in the queue,
descheduled, or to be called back, and each thread has a stack of calls, because
a task that finishes an event schedules the next events on the same call stack.
The finish event of a `CreateBF` inserts a finalize event; so may those of hash joins,
aggregates, sorts and windows, as their data decides, and the field `inserts` of a plan's
operator says whether it does. `InputsComplete` looks at the filters that a pipeline probes and
at the operator it reads, not at the hash table of a join it probes, whose
MetaPipeline it awaits by the same dependencies.
`Alive` and `PipelineAlive` say who holds a `shared_ptr`. The client's actions
follow `Executor::ExecuteTask`, `CancelTasks` and their callers in
`ClientContext`. `PartialTask` is the client's PROCESS_PARTIAL mode, `BlockTask`
a source or sink that blocks, `RescheduleTask` the callback. After the executor
is destroyed a thread that still uses it has undefined behaviour; its steps end
there and `ExecutorOutlivesTasks` says that there is none. `Cleanup` is the end of
a query whose result has been fetched, `CloseQuery` the same call of `CancelTasks`
by a client that gives up. What a task computes is the business of `CreateBF`.

### TaskScheduler
The queue as a number of tasks, the semaphore as a number, `looper` with the
marker of each thread and its place in `ExecuteForever`, `setter` as the call of
`SetThreads` that holds `thread_lock`, step by step, and `client` as a query that
begins a filter and enqueues one task per thread. `TasksAsk` says whether tasks
call `NumberOfThreads`. `Externals` are the threads of the setting
`external_threads`; each enters with `duckdb_execute_tasks_state`, or never does.

## 4. Runs

| Run | Checks | Instance |
|---|---|---|
| `TransferGraph` | type, `PreservedSideNotFiltered`, `TransfersFollowExecOrder`, `MaximumSpanningForest` | all graphs over 4 relations, each pair with no, one or two inner conditions or an outer join; distinct and tied cardinalities |
| `Transfer` | `EveryTransferHappens`, `FullyReduced`, `CreatorAlwaysFound`, `ResultPreserved`, `ImplementsReduction`, `ExecutionCompletes` | chain, star, composite key, triangle with a shared column on 3 relations of 1 or 2 rows with exact filters; cycle, outer joins both ways, two components, conditions on missing tables with nulls and one false-positive row |
| `BloomFilterBuild` | `NoFalseNegatives`, `SameAsSingleThreaded`, `SelectionIsExact`, `SortedByPartition` | 2 scheduler threads and the main thread, 4 batches, 4 blocks, 2 partitions; every chunk probed with and without prefetching; the sort on up to 7 rows, 4 partitions, 3-bit counters |
| `BloomFilterExternal` | `NoFalseNegatives`, **violated** | the main thread and one external thread |
| `CreateBFParallel` | `FilterComplete`, `ScanIsComplete`, `Completes` | 1 to 4 threads, 0 to 5 chunks, threshold 2 |
| `CreateBFSequential` | `ScanIsComplete`, **violated** | 2 threads, 3 chunks, a sequential consumer |
| `NodeExtraction` | `TransfersCommute`, `NotInKeepsRows`, `NothingMissed`, `FlagRestored` | 15 subqueries on either side, with windows, limits, NOT IN, correlated NOT IN and lateral joins; 8 join types; marks that are returned, kept, negated or part of another condition; two queries in a row |
| `QueryPlanning` | `OwnedOnce`, `OneOperatorInTree`, `FiltersBuiltBeforeUse`, `NoCircularWait`, `OneSinkPerOperator` | all transfers over 3 relations, all join orders, 7 shapes with unions, IE joins and joins that are sources |
| `PipelinesPrepared` | `DependenciesAreScheduled`, **violated** | two executions of a plan |
| `Executor` | type, `CountersAgree`, `NoTaskLost`, `InputsComplete`, `ReadyMeansDone`, `CloseWaitsForTasks`, `QueryEnds`, `CancelEnds` | a join with one filter, joins whose table is empty or is built by an event of its own, and a union without, client and one worker, up to 2 tasks per event, one block, failures, closed at any time |
| `ExecutorError` | `ExecutorOutlivesTasks`, **violated** | a failing task |
| `TaskScheduler` | type, `NoLostWakeup`, `NoThreadForgotten`, `SetThreadsReturns` | up to 3 threads, one external, two calls of `SetThreads`, two queries, tasks that may call `NumberOfThreads` |

The type invariants of the other modules describe their state; any of them can be
added to the `INVARIANTS` of its run, where it holds. Those of `PredicateTransfer`
and `CreateBF` are theorems.

Several properties are conditional where the code does not keep the plain promise.
`FullyReduced` is about acyclic queries with exact filters. `CloseWaitsForTasks`
is about queries closed while they have pipelines, `CancelEnds` about those whose
pipelines no `CreateBF` keeps, `SetThreadsReturns` excludes tasks that wait for
`thread_lock` and the application's threads. `ReadyMeansDone` is about events and
tasks, and does not ask whether a thread is still in the last call of one. The violated runs and the configurations in
"Further configurations" show what happens otherwise.

Why the bounds are enough. Four relations are the fewest with two non-trivial
components and with a cycle plus a chord, and all their graphs are tried. Three
relations suffice for a filter that depends on another filter in both passes,
and two rows for a row that matches in each column but in no row. Values of a
column and of those it is joined with can be renamed, so that the first relation
of an acyclic query is given the row <<0, 0>>. Two masks that
overlap in a bit, on blocks shared by the batches, make lost and missing bits
visible. 7 rows are the limit of a 3-bit counter, as 65535 is of the code's
(which passes at most 2048). 5 chunks on 4 threads give fewer ranges than
threads, short last ranges, fewer chunks than threads, and no range. Three
relations with all transfers in both directions contain every way in which two
`CreateBF` operators can be linked directly and through a third, and the shapes
put each of them below a union, on either side of a join that is a source, and
in either half of an IE join. In the executor two tasks per event are the fewest
with a last one that is not the first, and one block is enough for a callback
that comes too early or too late. Two background threads can take each other's
signals; two calls of `SetThreads` stop threads that an earlier call started.

Models that end where the code returns to its caller, with nothing left to do,
have `CHECK_DEADLOCK FALSE`: the graph, extraction, planning and building of
pipelines, a query that has ended, threads that wait for tasks after the last
query. Where not ending is the hazard, a leads-to property is checked instead
(`QueryEnds`, `CancelEnds`, `SetThreadsReturns`).

### Fairness
`PredicateTransfer` and `CreateBF` assume weak fairness of the whole next-state
relation: some enabled step is eventually taken. The optimizer is sequential
code, and the scheduler's workers, or the client's own thread, go on taking
tasks while there are any. No fairness among tasks is assumed, so that
`ExecutionCompletes` and `Completes` hold for any scheduling order.

`Executor` and `TaskScheduler` assume it for every thread separately: the
operating system runs each thread that can go on. In `Executor` the callback of a
blocked task is fair, too (an operator that blocks promises to call back), and so
is the client: it calls `ExecuteTask` again until it has a result, as
`PendingQueryResult::ExecuteInternal` does. Nobody has to close a query or to
call `SetThreads`.

### What the violated runs show
* `CreateBFSequential`: `GetData` gives each task one range of the scan and then
  reports that it is finished (`physical_create_bf.cpp:540-554`), while the
  number of ranges follows the number of threads. A pipeline that cannot be
  parallel has one task: only the first range is scanned. The streaming test at
  `test/api/test_api.cpp:557-596` requires all rows.
* `BloomFilterExternal`: all threads that are not the scheduler's get
  `thread_id` 0 (`physical_create_bf.cpp:204-212`). With one such thread, the
  default, that is harmless; with `external_threads` above one they share
  buffers and lose hashes, against the comment at `bloom_filter.hpp:88`.
* `PipelinesPrepared`: `this_pipeline` of the first execution is found by the
  second (`physical_create_bf.cpp:571`), which then depends on a pipeline without
  events; `executor.cpp:190` asserts that this does not happen.
* `ExecutorError`: the call of `CancelTasks` after an error is commented out
  (`executor.cpp:497`), and the executor is destroyed under running tasks.

### Further configurations
These configurations are kept beside the runs. TLC refutes the property of each:
they are what the conditions of the properties above exclude, and the hazards of
`PROJECT.json` refer to them.

| Configuration | Module | Property | What happens |
|---|---|---|---|
| `BloomFilterLocks` | `MCBloomFilter` | `NoConcurrentAccess` | the comment at `bloom_filter.cpp:323` promises no concurrent access to a block, but the locks (lines 372, 378) are commented out; because of `fetch_or` no bit is lost (`BloomFilterBuild`) |
| `ExtractionWindow` | `MCNodeExtraction` | `WindowsSeeAllRows` | `rank() OVER ...` in a subquery and a join on another of its columns: the walk passes the window (`nodes_manager.cpp:194-199`; the same holds for LIMIT, which the loop at line 120 passes) and the rename leads to the table below, which is filtered before rows are ranked; `test_filter_pushdown.test:169` says of such a filter that it "cannot be done because it will mess up the ordering" |
| `ExtractionMark` | `MCNodeExtraction` | `MarkJoinsKeepRows` | `SELECT a IN (SELECT ...) FROM ...` has a MARK join and no filter; its condition becomes an edge (line 158) and rows with mark FALSE disappear, which `test_grouped_correlated_subquery.test:20` requires; the MARK delim join of a correlated NOT IN (`plan_subquery.cpp:299-306`) becomes one, too, since line 128 tests for comparison joins |
| `ExtractionConcurrent` | `MCNodeExtraction` | `NotInKeepsRows` | the flag set for a NOT IN at line 129 is reset by another connection before line 158 reads it; `test_simple_not_in.test:32` requires the rows |
| `ExecutorClose` | `MCExecutor` | `CloseEnds` | `CancelTasks` waits for the destruction of all pipelines (`executor.cpp:407`), while `this_pipeline` holds one |
| `ExecutorFlush` | `MCExecutor` | `ExecutorOutlivesTasks` | `physical_create_bf.cpp:253` uses the executor after `FinishTask`; `ExecuteTask` has by then cleared the pipelines that `CancelTasks` would wait for |
| `SchedulerDeadlock` | `TaskScheduler` | `SetThreadsAlwaysReturns` | `SetThreads` joins threads with `thread_lock` held (`task_scheduler.cpp:246`, `:287`), and a task needs it for `NumberOfThreads` |
| `SchedulerExternal` | `TaskScheduler` | `ExternalThreadsReturn` | a background thread takes the signal of the application's thread, which waits on (`task_scheduler.cpp:140` has no timeout, although line 139 says so) |
| `SchedulerResize` | `TaskScheduler` | `EveryThreadHasItsState` | `thread_local_states_` is sized at `Begin` (`bloom_filter.cpp:303-304`), the thread's index is looked up when its task runs |

## 5. Proofs

| Module | Theorem | Statement |
|---|---|---|
| `PredicateTransfer_proofs` | `GraphTypeCorrect` | `GraphSpec => []GraphTypeOK` |
| | `OuterSidesProtected` | `GraphSpec => []PreservedSideNotFiltered` |
| | `TransfersOrdered` | `GraphSpec => []TransfersFollowExecOrder` |
| | `TypesCorrect` | `Spec => []TypeOK` |
| | `CreatorsAreFound` | `Spec => []CreatorAlwaysFound` |
| | `TransfersHappen` | `Spec => []EveryTransferHappens` |
| | `TransferImplementsReduction` | `Spec => ImplementsReduction`, the refinement |
| | `ResultsPreserved` | `Spec => []ResultPreserved` |
| `SemiJoinReduction_proofs` | `ReductionKeepsResult` | `Spec => []ResultKept` |
| `NodeExtraction_proofs` | `FlagIsRestored` | `Spec => []FlagRestored` |
| | `NotInIsKept` | `Spec => []NotInKeepsRows`, if there is one connection |
| | `NothingIsMissed` | `Spec => []NothingMissed`, if `TablesAreLeaves` |
| `BloomFilter_proofs` | `EvalSorts` | `PartitionSorted(id, P, Eval(id, P))` for every batch that fits the counters |
| | `SelectionsAreExact` | `Spec => []SelectionIsExact` |
| | `NoHashLost` | `Spec => []NoFalseNegatives`, if `OwnStates` |
| | `BuildersAgree` | `Spec => []SameAsSingleThreaded`, if `OwnStates` |
| `CreateBF_proofs` | `TypesCorrect` | `Spec => []TypeOK` |
| | `FiltersAreComplete` | `Spec => []FilterComplete` |
| | `NoChunkTwice` | no chunk is emitted twice, for any consumer |
| | `ScansAreComplete` | `Spec => []ScanIsComplete`, if consumers are parallel |
| `Pipelines_proofs` | `BuildOneSink` | building a plan, from any of them: `[]OneSinkPerOperator` |
| | `BuildWaits` | the same for `[]FiltersBuiltBeforeUse` |
| | `PlanOwnedOnce` | `PlanningSpec => []OwnedOnce` |
| | `PlanInOneTree` | `PlanningSpec => []OneOperatorInTree` |
| | `PlannedOneSink` | `PlanningSpec => []OneSinkPerOperator`, for one execution |
| | `PlannedWaits` | `PlanningSpec => []FiltersBuiltBeforeUse`, for one execution |
| `Executor_proofs` | `ClosingWaits` | `Spec => []CloseWaitsForTasks` |
| | `ExecutorTypes` | `Spec => []TypeOK` |
| | `CountersNeverPassTotals` | `Spec => []CountersAgree` |
| | `TasksAreConserved` | `Spec => []NoTaskLost` |
| | `ReadyResultIsComplete` | `Spec => []ReadyMeansDone` |
| | `OneSinkForEach` | `Spec => []OneSinkPerOperator` |
| | `FiltersAwaited` | `Spec => []FiltersBuiltBeforeUse` |
| | `InputsReady` | `Spec => []InputsComplete` |
| `TaskScheduler_proofs` | `TypeCorrect` | `Spec => []TypeOK` |
| | `ThreadsAgree` | `Spec => []NoThreadForgotten` |
| | `WakeupsSuffice` | `Spec => []NoLostWakeup` |

All hold for every value of the constants that satisfies the named assumptions
of the modules, which TLC evaluates in the runs. (`PowersAssumption` of
`BloomFilter` states that powers of two are positive, because the provers have no
theory of exponentiation.) The conditions in the last column
are hypotheses of the theorem and not assumptions on the code: where one fails,
the property is false, and a run or a configuration of section 4 shows it. (One
execution and `TablesAreLeaves` are the exceptions: see below.)

### Transfer graph
`PredicateTransfer_proofs` first proves, for any tables, columns and set of queries with
finitely many nodes and conditions between different tables:

* `GraphTypeCorrect`: `GraphSpec => []GraphTypeOK`;
* `OuterSidesProtected`: `GraphSpec => []PreservedSideNotFiltered`;
* `TransfersOrdered`: `GraphSpec => []TransfersFollowExecOrder`.

None is inductive alone. The invariant `GraphInv` adds: every edge is the
`EdgeInfo` of its condition, with two different ends and protection flags that
agree with the preserved side; until `RecoverNodes`, placed nodes are not in
`nodes` and have priorities not below its size; while a tree grows, `prior_flag`
is one less than the size of `nodes`; priorities fall along `ExecOrder`; the tree
and both ends of a selected edge are placed; and `dag` is empty until `Direct`. The last step then reads the two properties off
`CreateDAG`: the ends of an edge have different priorities because they are
different placed nodes, so `Upper` is above `Lower`, and `Filtering` leaves out
exactly the protected end.

### Predicate transfer and its result
`SemiJoinReduction_proofs` proves `ReductionKeepsResult`
(`Spec => []ResultKept`), for all databases and conditions of inner and outer joins.
The argument: a row that is part of a combination has, in every relation whose
conditions could remove it, the row of the same combination as a match, since a
condition with the other end missing is satisfied only if it preserves the row. So
it is never dangling, and a reduction keeps all combinations; hence also those that
are not part of a larger one. Every sequence of reductions does.

The rest of `PredicateTransfer_proofs` connects the code to that promise. Its invariant has
four parts beside the type: the graph while `Optimize` uses it (`BuiltInv`, which
takes `GraphInv` from the proof above); what the two passes have inserted
(`PassInv`: at position `pos`, every filter was made by a node the pass has seen,
goes to a node it sees later, and is used there once it is seen); that the filters
a stack probes are sound for its relation (`UseInv`: they come from conditions that
do not preserve it); and that a stack's output is part of its input (`RowsInv`). That a pass sees
the target of an edge after its source is `TransfersFollowExecOrder`, the step
where the order of priorities, of `ExecOrder` and of the loop in `Optimize` have to
agree. The refinement follows: a row that a stack drops misses a filter, so no
row of the filter's source matches it, and what the source's stack let through is
what that relation still hands on; so the row is dangling. `ResultsPreserved` is
then `ReductionKeepsResult` under the refinement mapping.

### Walk over the plan
`FlagIsRestored` needs one strengthening: whenever the shared flag is cleared, some
connection has a call pending for a join that will set it again (`FlagInv`). It
holds for any number of connections: the call that leaves a connection without
such a join is the one that sets the flag.
`NotInIsKept` adds (`NotInInv`) that when the descent is at the comparison join of a NOT
IN the flag is still clear: the call for it is pushed by the filter above, directly
before, and the plan is a tree, so no other operator leads there. It needs a
connection that optimizes alone.
`NothingIsMissed` says that the early returns of the descent skip nothing. Its
invariant `WalkInv`: there is a set of visited operators, each of which is a node or
an edge if it has to be, and whose children are visited or have a call pending. When
no call is left, that set is closed and contains the root, so all that is `Below` the
root (by induction over its rounds). `TablesAreLeaves` is needed because the descent
returns at every `LOGICAL_GET` (`nodes_manager.cpp:219`): below a table function that
reads a subquery nothing is found, which costs a transfer and no row.

### Bloom filter
`EvalSorts` is an induction over the rounds of three loops. The invariant of the
third (`IsPlaced`) says that after `n` rows the output has, for each partition `q`, the
slice from the start of `q` up to as many places as `q` has rows among the first
`n`, each holding a row of `q`, and that all `n` rows are there. Slices do not
overlap since the starts are running sums of the final counts, and no counter
wraps since a batch has fewer than `2^Width` rows (`NoWrap`).

`SelectionsAreExact` splits the listing of the rows that pass at the last whole
group of the vectorised loop, or where the prefetching loop stops.

`NoHashLost` and `BuildersAgree` share an invariant. A thread at work has its batch
in its own buffers, every partition is in the blocks or still among the first
`num_unprocessed_partitions` ids, and of the partition at hand everything up to
`pos` is in the blocks (`SlotInv`); no block has a bit that no hash of the batches
sets (`BlocksInv`); and what was pushed is found (`PushedInv`). Blocks only grow, so
one thread disturbs no other, provided that no two threads share buffers: that is
`OwnStates`, one thread besides the scheduler's.

### CreateBF
The split into ranges, with its rounding, is a cut of the chunks into at most one
range per thread, none of them empty (`IsCut`). The invariant follows a chunk:
it is in the input, in one task's collection, or in the combined ones (`SinkInv`);
after `Finalize` it is at one position of `total_data` (`DataInv`); it is inserted
once when the task of its range has passed it (`BuildInv`); and it is handed on
once when the owner of its range has passed it (`ScanInv`, where `partition_id` is
the number of tasks that have claimed, so that a claimed range has one owner).
Without a parallel consumer there are fewer tasks than ranges: then
`NoChunkTwice` still holds, and `ScanIsComplete` does not.

### Pipelines
`Pipelines_proofs` is about one execution of a plan, from `InitializeInternal` to
`Ready`, on any plan that satisfies `PipelinesAssumption`. Three invariants are
built on one another, each preserved by all fifteen actions:

* `Shape`: pipelines and MetaPipelines refer to each other consistently; the base
  pipeline, the group and the finish event of a pipeline are those of its own
  MetaPipeline.
* `WInv` (`Waits`): every pipeline has, for each filter it probes and for the
  operator it reads, a dependency on a pipeline that fills it (`Direct`), or is
  ordered after a pipeline of its own MetaPipeline that has (`Behind`: a union's
  or a join's second pipeline copies operators and is created later than the
  dependencies were). While the descent is at work a dependency may still be due,
  if a call of `BuildPipelinesFromRelated` for it is on the stack (`ToBeAdded`), and
  such calls come before anything that copies the pipeline (`Ordered`). A
  pipeline found in `this_pipeline` fills its operator (`Remembered`).
* `SInv` (`SeenOnce`): there is a set of visited operators such that only a
  `CreateBF` is visited before its parent (a `UseBF` elsewhere has reached it first),
  no operator is to be visited twice, the second child of an IE join is not visited
  before the call for it, and the sinks of the MetaPipelines are visited and
  different. This is where the tree is needed, and the test of `this_pipeline` in
  `PhysicalCreateBF::BuildPipelines`.

`OneSinkPerOperator` is then part of `SInv`. With it a dependency on some pipeline
that fills an operator is one on the only MetaPipeline that does, and the event
graph has a path of one or two edges from the pipeline's event to the completion of
that MetaPipeline: `FiltersBuiltBeforeUse`. With `EndExecution` the invariant is lost,
because `this_pipeline` is stale: that is the violated run `PipelinesPrepared`.

### Planning
The same module, which extends `QueryPlanning`, is about the descent of `CreatePlan`
on any logical plan and any order in which links and children reach a `CreateBF`.
Its invariant `PInv` has five parts:

* `StackInv`: each call on the stack waits for the next child or link of its
  operator, and the ranks of the operators fall towards the top. The rank is the
  round of `WithoutCircle` in which an operator is found; so no operator is planned
  while it is being planned.
* `UnderWay`: an operator that is being planned has not been made, except a
  `CreateBF` that the innermost call has found in `physical`.
* `PhysicalInv`: `physical` is set for the `CreateBF` operators that have been made,
  and leads to the right one.
* `HeapInv`: an operator has those made for its children and links, and no logical
  operator has two.
* `OwnersInv`: an operator has one owner if its logical operator is the root or
  its parent has taken it, and none before; only a `CreateBF` may have none.

When the stack is empty the root has been made; since every operator is owned by the
root, directly or not, all have been made and taken, by induction over the rounds of
`OwnedByRoot`: `OwnedOnce` and `OneOperatorInTree`. The plan that `TakePlan` hands on is
then an `IsPlan`, which discharges the assumption of the theorems on building, and
`SInv` holds from there on to the end of the execution (`ExecutedOnce`).
`PlannedOneSink` and `PlannedWaits` assume `MaxExecutions = 1`. A second execution
refers to pipelines that have been destroyed (`PipelinesPrepared`), after which the
code is past its own assertion. TLC finds neither of the two properties violated
there, but they say less: the filters that are awaited are those of the first
execution.

### Executor
`ClosingWaits` is about `CancelTasks`, which waits until all pipelines it has weak
references to are destroyed. It says nothing of a query that ends without any (after
an error, or after the result is ready), where `ExecutorError` and `ExecutorFlush`
show threads that use the executor after its end. The argument: whoever has a task, in the queue,
descheduled or on a call stack, holds an event other than the completion event of
a MetaPipeline, and such an event holds a pipeline of this execution. Its invariant
says that of every frame and queue (`ObjectsInv`), what the executor holds at each
place of the client (`PipelinesInv`), that cancelling drops the descheduled tasks
(`CancelledInv`), and takes `Shape` from `Pipelines_proofs`.

The other theorems need an invariant that counts, `CInv`. The call
stacks are seen as the set of their calls (`CallsIn`). `Links` says that for each event the dependencies it has
counted, together with those whose `CompleteDependency` is still to come (their event
is not finished, or the call is on some thread's stack), are all it has, so that a
dependency is counted once; an event has tasks only when none is left. `TasksInv` says
the same of tasks: those finished, queued, descheduled, kept by the client or in
some thread's hands are all of them, unless an error or a cancellation has
discarded some. `ProgressInv` counts the completed pipelines. `ClientInv` and `MainInv`
say where the client is. An event that an earlier one inserts
(`FinalizeEvent`) takes over its parents, and the invariant follows that exchange.

`CountersAgree` and `NoTaskLost` are read off. For `ReadyMeansDone` the counter of
completed pipelines has reached its total, so every completion event has finished,
and every other event is awaited by one of them. `InputsFollowGraph` shows that an
event with a task has seen everything it awaits finished, by induction over the
rounds in which `Awaits` is computed; with `FiltersAwaited` that is `InputsReady`.

### Task scheduler
`TaskScheduler_proofs` proves, for any `MaxThreads`, any finite set of external
threads and any number of queries and calls of `SetThreads`:

* `TypeCorrect`: `Spec => []TypeOK`;
* `ThreadsAgree`: `Spec => []NoThreadForgotten`;
* `WakeupsSuffice`: `Spec => []NoLostWakeup`.

`NoThreadForgotten` speaks of the moments between calls of `SetThreads`; the
invariant `IInv` adds what holds during one (`SetterInv`: the range of its index
in each phase; `ThreadsInv`: which markers are cleared, which threads have been
joined, which are launched but not yet in the vector) and that the client has
tasks left while it enqueues (`ClientInv`).
`NoLostWakeup` is about the number
of threads between `wait` and `try_dequeue`; its proof names that set and
follows its cardinality through every step, with the theorems on finite sets.

### What is not proved
Induction over data is done with sets: a set of numbers that has 0 and the
successor of each member has no least number outside (`SetInduction`, from the
well-foundedness of the natural numbers). That gives the loops of `PartitionSort`
and of the probe.

Only model-checked: liveness (`ExecutionCompletes`, `Completes`,
`QueryEnds`, `CancelEnds`, `SetThreadsReturns`), which the proof system does not
support here; `MaximumSpanningForest` and `FullyReduced`, arguments over whole
graphs; `TransfersCommute` of `NodeExtraction`, which depends on which columns are
visible where; and `NoCircularWait`.

## 6. Not modelled

* Join ordering between `PreOptimize` and `Optimize`, which is taken to keep the
  node operators.
* CTEs, delim joins and positional joins in `Pipelines`; streaming results, which
  pull from the last pipeline, in `Executor`.
* `PartitionLocks`, `Fold`, `Merge`: never called. The size of a filter and the
  mask table: they affect the rate of false positives only.
* Hash function collisions, other than as false positives.
* The hash filter variant, not compiled; everything else in DuckDB (parser,
  binder, other optimizer rules, storage, transactions, other operators and
  functions) and the vendored extensions, which predicate transfer does not
  change.
