------------------------------ MODULE Executor ------------------------------
(***************************************************************************)
(* One execution of a plan: the Executor, its events and tasks, the client *)
(* thread and the scheduler's workers.                                     *)
(*                                                                         *)
(* Pipelines builds the pipelines and says which events depend on which.   *)
(* Here the events run: a task that is the last one of its event finishes  *)
(* the event, tells the events that wait for it, and schedules their tasks *)
(* on the same call stack.  The Finalize of a sink may put one more event  *)
(* into the graph while it runs; that of a CreateBF always does.  A client *)
(* may close the query at any time, tasks may fail or block.               *)
(*                                                                         *)
(* Tasks of one event are interchangeable, so tasks are counted, not       *)
(* named.  A stack holds the pending calls of a thread; one step is one    *)
(* access to shared state.                                                 *)
(***************************************************************************)
EXTENDS Pipelines

CONSTANTS
  Workers,     \* the threads of the scheduler
  MaxTasks,    \* NumberOfThreads: most tasks of one event
  MaxBlocks,   \* how often a task may block, in total
  MayFail,     \* whether tasks and PipelineEvent::Schedule may throw
  MayClose     \* whether the client may give the query up before it is finished

Main   == "main"
Thread == {Main} \cup Workers

ASSUME ExecutorAssumption ==
  /\ Main \notin Workers
  /\ MaxTasks \in Nat \ {0}
  /\ MaxBlocks \in Nat
  /\ MayFail \in BOOLEAN
  /\ MayClose \in BOOLEAN
  /\ \A p \in Plans : \A op \in DOMAIN p : p[op].inserts \in BOOLEAN

VARIABLES
  event,      \* the Event objects: counters and parents
  tasks,      \* for each event, its tasks by where they are
  stack,      \* the calls of each thread
  executor    \* fields of the Executor and the client's place in its protocol

execVars == <<event, tasks, stack, executor>>
vars     == <<buildVars, execVars>>

NoEvent == <<"none", 0>>

FinalizeEvent(p) == <<"finalize", p>>

\* The sink of a pipeline.
SinkOf(p) == plan[build.metas[build.pipelines[p].meta].sink]

\* Finalize of a CreateBF inserts an event.  For hash joins, aggregates, sorts and
\* windows the data decides; a plan says in "inserts" what it does for its
\* data.  Rounds of events that insert each other (a sort merges in rounds)
\* count as one event.
InsertsEvent(e) ==
  /\ e[1] = "finish"
  /\ SinkOf(e[2]).kind = "create_bf" \/ SinkOf(e[2]).inserts

\* A finalize task of a CreateBF flushes its profile after FinishTask, one of a
\* hash join before it.
FlushesLast(e) == e[1] = "finalize" /\ SinkOf(e[2]).kind = "create_bf"

AllEvents == Events \cup {FinalizeEvent(e[2]) : e \in {x \in Events : InsertsEvent(x)}}

\* What a thread has to do next, the innermost call first.  n counts tasks
\* that are still to be enqueued, parents the events still to be told.
Frame(fn, e, parents, n) == [fn |-> fn, event |-> e, parents |-> parents, n |-> n]
Task(fn, e) == Frame(fn, e, {}, 0)

OnStack(e, t) == \E i \in DOMAIN stack[t] : stack[t][i].event = e

\* Who holds a shared_ptr to an event: the executor, a task, or a call.
Alive(e) ==
  \/ e \in executor.events
  \/ tasks[e].queued + tasks[e].descheduled > 0
  \/ executor.task = e
  \/ \E t \in Thread : OnStack(e, t)

\* The pipelines that a CreateBF of the plan keeps alive.
KeptPipelines == {build.this_pipeline[op] : op \in Op}

\* Who holds a pipeline: the executor, its events other than the complete
\* event, and this_pipeline of a CreateBF.
PipelineAlive(p) ==
  \/ p \in executor.pipelines
  \/ p \in KeptPipelines
  \/ \E e \in DOMAIN event :
       /\ Alive(e)
       /\ \/ e[1] \in {"event", "finish", "finalize"} /\ e[2] = p
          \/ e[1] = "initialize" /\ Base(e[2]) = p

\* executor_lock is held by InitializeInternal until all events are scheduled.
LockFree == executor.pc \notin {"building", "scheduling"}

Queued == {e \in DOMAIN event : tasks[e].queued > 0}

NoTasks == [queued |-> 0, descheduled |-> 0, callbacks |-> 0]

-----------------------------------------------------------------------------
(* Event *)

\* SetTasks with n tasks, after which a thread enqueues them one by one;
\* an event without tasks finishes at once.
ScheduleWith(ev, e, n, calls) ==
  IF n = 0
  THEN [event |-> [ev EXCEPT ![e].finished = TRUE],
        calls |-> <<Frame("Finish", e, ev[e].parents, 0)>> \o calls]
  ELSE [event |-> [ev EXCEPT ![e].total_tasks = n],
        calls |-> <<Frame("SetTasks", e, {}, n)>> \o calls]

\* Schedule of the event classes: how many tasks, and whether it throws.
\* PipelineEvent::Schedule catches what Pipeline::Schedule throws.
ScheduleOutcomes(e) ==
  CASE e[1] \in {"initialize", "finish"} -> {[n |-> 1, throws |-> FALSE]}
    [] e[1] = "complete"                 -> {[n |-> 0, throws |-> FALSE]}
    [] e[1] = "finalize"                 -> [n : 1..MaxTasks, throws : {FALSE}]
    [] e[1] = "event" ->
         [n : 1..MaxTasks, throws : {FALSE}] \cup (IF MayFail THEN {[n |-> 0, throws |-> TRUE]} ELSE {})

\* A thread schedules e and goes on with the given calls.
Schedule(t, ev, e, calls) ==
  \E o \in ScheduleOutcomes(e) :
    LET s == ScheduleWith(ev, e, o.n, calls)
    IN  /\ event' = s.event
        /\ stack' = [stack EXCEPT ![t] = s.calls]
        /\ executor' = [executor EXCEPT !.error = @ \/ o.throws]
        /\ UNCHANGED tasks

At(t, fn) == stack[t] # <<>> /\ Head(stack[t]).fn = fn

\* One iteration of the loop of SetTasks: TaskScheduler::ScheduleTask.
SetTasks(t) ==
  /\ At(t, "SetTasks")
  /\ LET f == Head(stack[t])
     IN  /\ tasks' = [tasks EXCEPT ![f.event].queued = @ + 1]
         /\ stack' = [stack EXCEPT ![t] =
              (IF f.n = 1 THEN <<>> ELSE <<[f EXCEPT !.n = f.n - 1]>>) \o Tail(@)]
  /\ UNCHANGED <<event, executor>>

\* Every task takes itself for the last one.
FinishTaskAnyIsLast(t) ==
  /\ At(t, "FinishTask")
  /\ LET e    == Head(stack[t]).event
     IN  /\ event' = [event EXCEPT ![e].finished_tasks = @ + 1, ![e].finished = TRUE]
         /\ stack' = [stack EXCEPT ![t] = <<Frame("Finish", e, event[e].parents, 0)>> \o Tail(@)]
  /\ UNCHANGED <<tasks, executor>>

\* FinishTask: whoever counts the last task finishes the event.
FinishTask(t) ==
  /\ At(t, "FinishTask")
  /\ LET e    == Head(stack[t]).event
         last == event[e].finished_tasks + 1 = event[e].total_tasks
     IN  /\ event' = [event EXCEPT ![e].finished_tasks = @ + 1, ![e].finished = last]
         /\ stack' = [stack EXCEPT ![t] =
              (IF last THEN <<Frame("Finish", e, event[e].parents, 0)>> ELSE <<>>) \o Tail(@)]
  /\ UNCHANGED <<tasks, executor>>

\* CompleteDependency counts the dependency and schedules the event with the last.
CompleteDependency(t, d, calls) ==
  LET e    == d.event
      done == [event EXCEPT ![e].finished_dependencies = @ + 1]
  IN  IF done[e].finished_dependencies = done[e].total_dependencies
      THEN Schedule(t, done, e, calls)
      ELSE /\ event' = done
           /\ stack' = [stack EXCEPT ![t] = calls]
           /\ UNCHANGED <<tasks, executor>>

\* One iteration of the loop of Finish.  A parent that is gone is skipped.
NotifyParent(t) ==
  /\ At(t, "Finish")
  /\ \E d \in Head(stack[t]).parents :
       LET calls == <<[Head(stack[t]) EXCEPT !.parents = @ \ {d}]>> \o Tail(stack[t])
       IN  IF Alive(d.event) THEN CompleteDependency(t, d, calls)
           ELSE /\ stack' = [stack EXCEPT ![t] = calls]
                /\ UNCHANGED <<event, tasks, executor>>

\* Every event counts as a MetaPipeline.
FinalizeFinishAll(t) ==
  /\ At(t, "Finish")
  /\ Head(stack[t]).parents = {}
  /\ stack' = [stack EXCEPT ![t] = Tail(@)]
  /\ executor' = [executor EXCEPT !.completed_pipelines = @ + 1]
  /\ UNCHANGED <<event, tasks>>

\* FinalizeFinish: a complete event counts its MetaPipeline.
FinalizeFinish(t) ==
  /\ At(t, "Finish")
  /\ Head(stack[t]).parents = {}
  /\ stack' = [stack EXCEPT ![t] = Tail(@)]
  /\ executor' = [executor EXCEPT !.completed_pipelines =
                    @ + (IF Head(stack[t]).event[1] = "complete" THEN 1 ELSE 0)]
  /\ UNCHANGED <<event, tasks>>

\* The new event only follows e; who waits for e does not wait for it.
InsertEventBeside(t, e) ==
  LET new == FinalizeEvent(e[2])
  IN  /\ LockFree
      /\ event' = [event EXCEPT ![new].total_dependencies = 1,
                                ![e].parents = @ \cup {Dependency(new, e, 0)}]
      /\ executor' = [executor EXCEPT !.events = IF executor.cancelled THEN @ ELSE @ \cup {new}]
      /\ stack' = [stack EXCEPT ![t] = <<Task("FinishTask", e)>> \o Tail(@)]
      /\ UNCHANGED tasks

\* InsertEvent: the new event takes over the parents of e and depends on e.
\* AddEvent needs the lock, and drops the event if the query is cancelled.
InsertEvent(t, e) ==
  LET new == FinalizeEvent(e[2])
  IN  /\ LockFree
      /\ event' = [event EXCEPT ![new].parents = event[e].parents,
                                ![new].total_dependencies = 1,
                                ![e].parents = {Dependency(new, e, 0)}]
      /\ executor' = [executor EXCEPT !.events = IF executor.cancelled THEN @ ELSE @ \cup {new}]
      /\ stack' = [stack EXCEPT ![t] = <<Task("FinishTask", e)>> \o Tail(@)]
      /\ UNCHANGED tasks

-----------------------------------------------------------------------------
(* Tasks *)

\* ExecuteTask of the task classes, when the work is done.  A finalize task of a
\* CreateBF flushes its profile to the executor after FinishTask; those of
\* other sinks flush before.
EndTask(t) ==
  /\ At(t, "Execute")
  /\ LET e == Head(stack[t]).event
     IN  IF InsertsEvent(e) THEN InsertEvent(t, e)
         ELSE /\ stack' = [stack EXCEPT ![t] =
                   <<Task("FinishTask", e)>>
                   \o (IF FlushesLast(e) THEN <<Task("Flush", e)>> ELSE <<>>) \o Tail(@)]
              /\ UNCHANGED <<event, tasks, executor>>

\* executor.Flush(tcontext), the last use of the executor by a finalize task.
Flush(t) ==
  /\ At(t, "Flush")
  /\ stack' = [stack EXCEPT ![t] = Tail(@)]
  /\ UNCHANGED <<event, tasks, executor>>

\* ExecutorTask::Execute turns an exception into PushError and TASK_ERROR.
FailTask(t) ==
  /\ MayFail
  /\ At(t, "Execute")
  /\ stack' = [stack EXCEPT ![t] = Tail(@)]
  /\ executor' = [executor EXCEPT !.error = TRUE]
  /\ UNCHANGED <<event, tasks>>

\* The client works in PROCESS_PARTIAL mode: after the first batch it keeps the
\* task, and the call of ExecuteTask returns.
PartialTask ==
  /\ executor.pc = "executing"
  /\ At(Main, "Execute")
  /\ Head(stack[Main]).event[1] = "event"
  /\ Head(stack[Main]).n = 0
  /\ stack' = [stack EXCEPT ![Main] = <<>>]
  /\ executor' = [executor EXCEPT !.task = Head(stack[Main]).event]
  /\ UNCHANGED <<event, tasks>>

\* A source or sink blocks; whoever unblocks it will call back.
BlockTask(t) ==
  /\ At(t, "Execute")
  /\ executor.blocks < MaxBlocks
  /\ LET e == Head(stack[t]).event
     IN  /\ e[1] = "event"
         /\ tasks' = [tasks EXCEPT ![e].callbacks = @ + 1]
         /\ stack' = [stack EXCEPT ![t] = <<Task("Deschedule", e)>>]
  /\ executor' = [executor EXCEPT !.blocks = @ + 1]
  /\ UNCHANGED event

\* The task is kept, whether or not the query is cancelled.
DescheduleAlways(t) ==
  /\ At(t, "Deschedule")
  /\ LockFree
  /\ tasks' = [tasks EXCEPT ![Head(stack[t]).event].descheduled = @ + 1]
  /\ stack' = [stack EXCEPT ![t] = Tail(@)]
  /\ UNCHANGED <<event, executor>>

\* AddToBeRescheduled; a cancelled query drops the task.
Deschedule(t) ==
  /\ At(t, "Deschedule")
  /\ LockFree
  /\ LET e == Head(stack[t]).event
     IN  tasks' = [tasks EXCEPT ![e].descheduled = @ + (IF executor.cancelled THEN 0 ELSE 1)]
  /\ stack' = [stack EXCEPT ![t] = Tail(@)]
  /\ UNCHANGED <<event, executor>>

\* The callback gives up when the task is not there yet.
RescheduleTaskOnce(e) ==
  /\ tasks[e].callbacks > 0
  /\ tasks' = [tasks EXCEPT ![e] = IF @.descheduled = 0 THEN [@ EXCEPT !.callbacks = @ - 1]
                 ELSE [queued |-> @.queued + 1, descheduled |-> @.descheduled - 1, callbacks |-> @.callbacks - 1]]
  /\ UNCHANGED <<event, stack, executor>>

\* InterruptState::Callback: RescheduleTask spins until the task has been
\* descheduled; if the query is cancelled, or the task gone, it gives up.
RescheduleTask(e) ==
  /\ tasks[e].callbacks > 0
  /\ LockFree
  /\ \/ /\ executor.cancelled \/ executor.pc = "ended"
        /\ tasks' = [tasks EXCEPT ![e].callbacks = @ - 1]
     \/ /\ tasks[e].descheduled > 0
        /\ tasks' = [tasks EXCEPT ![e] =
             [queued |-> @.queued + 1, descheduled |-> @.descheduled - 1, callbacks |-> @.callbacks - 1]]
  /\ UNCHANGED <<event, stack, executor>>

\* ExecuteForever takes any task of the queue.
TakeTask(w) ==
  /\ stack[w] = <<>>
  /\ \E e \in Queued :
       /\ tasks' = [tasks EXCEPT ![e].queued = @ - 1]
       /\ stack' = [stack EXCEPT ![w] = <<Task("Execute", e)>>]
  /\ UNCHANGED <<event, executor>>

-----------------------------------------------------------------------------
(* The client: Executor::ExecuteTask, CancelTasks and their callers *)

\* ScheduleEventsInternal makes all events, then schedules those without
\* dependencies: the initialize events, in the order of the MetaPipelines.
ScheduleEvents ==
  /\ executor.pc = "building"
  /\ phase = "scheduled"
  /\ LET dependencies == Dependencies
         all          == AllEvents
     IN  /\ event' = [e \in all |->
              [total_dependencies |-> Cardinality({d \in dependencies : d.event = e}),
               finished_dependencies |-> 0, total_tasks |-> 0, finished_tasks |-> 0,
               finished |-> FALSE, parents |-> {d \in dependencies : d.on = e}]]
         /\ tasks' = [e \in all |-> NoTasks]
         /\ executor' = [executor EXCEPT !.pc = "scheduling", !.events = Events,
                                         !.pipelines = Current,
                                         !.to_schedule = Scheduled]
  /\ UNCHANGED stack

ScheduleInitial ==
  /\ executor.pc = "scheduling"
  /\ stack[Main] = <<>>
  /\ \E m \in executor.to_schedule :
       /\ \A n \in executor.to_schedule : m <= n
       /\ LET s == ScheduleWith(event, InitializeEvent(m), 1, <<>>)
          IN  /\ event' = s.event
              /\ stack' = [stack EXCEPT ![Main] = s.calls]
       /\ executor' = [executor EXCEPT !.to_schedule = @ \ {m}]
  /\ UNCHANGED tasks

EndInitialize ==
  /\ executor.pc = "scheduling"
  /\ stack[Main] = <<>>
  /\ executor.to_schedule = {}
  /\ executor' = [executor EXCEPT !.pc = "client"]
  /\ UNCHANGED <<event, tasks, stack>>

Total == Cardinality(Scheduled)

\* ExecuteTask with a task: the one kept from the last call, or one of the queue.
ExecuteKeptTask ==
  /\ executor.pc = "client"
  /\ executor.completed_pipelines < Total
  /\ executor.task # NoEvent
  /\ stack' = [stack EXCEPT ![Main] = <<Frame("Execute", executor.task, {}, 1)>>]
  /\ executor' = [executor EXCEPT !.pc = "executing", !.task = NoEvent]
  /\ UNCHANGED <<event, tasks>>

ExecuteNewTask ==
  /\ executor.pc = "client"
  /\ executor.completed_pipelines < Total
  /\ executor.task = NoEvent
  /\ executor' = [executor EXCEPT !.pc = "executing"]
  /\ \E e \in Queued :
       /\ tasks' = [tasks EXCEPT ![e].queued = @ - 1]
       /\ stack' = [stack EXCEPT ![Main] = <<Task("Execute", e)>>]
  /\ UNCHANGED event

\* EndQueryInternal destroys the executor.
EndQuery(ex) == [ex EXCEPT !.pc = "ended", !.events = {}, !.pipelines = {}, !.task = NoEvent]

Forgotten == [e \in DOMAIN tasks |-> [tasks[e] EXCEPT !.descheduled = 0]]

\* ThrowException: CancelTasks is commented out, and ExecuteTaskInternal of the
\* ClientContext ends the query.
Throw ==
  /\ executor' = EndQuery(executor)
  /\ tasks' = Forgotten
  /\ UNCHANGED <<event, stack>>

EndExecuteTask ==
  /\ executor.pc = "executing"
  /\ stack[Main] = <<>>
  /\ IF executor.error THEN Throw
     ELSE /\ executor' = [executor EXCEPT !.pc = "client"]
          /\ UNCHANGED <<event, tasks, stack>>

\* There is no task, but an error.
ExecuteAfterError ==
  /\ executor.pc = "client"
  /\ executor.completed_pipelines < Total
  /\ executor.task = NoEvent
  /\ Queued = {}
  /\ executor.error
  /\ Throw

\* All MetaPipelines are complete.
ResultReady ==
  /\ executor.pc = "client"
  /\ executor.completed_pipelines = Total
  /\ IF executor.error THEN Throw
     ELSE /\ executor' = [executor EXCEPT !.pc = "ready", !.pipelines = {}]
          /\ UNCHANGED <<event, tasks, stack>>

\* The first part of CancelTasks.
CancelTasks ==
  /\ executor' = [executor EXCEPT !.pc = "cancelling", !.task = NoEvent, !.cancelled = TRUE,
                                  !.weak_references = executor.pipelines,
                                  !.pipelines = {}, !.events = {}]
  /\ tasks' = Forgotten
  /\ UNCHANGED <<event, stack>>

\* CleanupInternal, for FetchResult.
Cleanup == executor.pc = "ready" /\ CancelTasks

\* CleanupInternal, when the client closes the query or starts another one.
CloseQuery == MayClose /\ executor.pc = "client" /\ CancelTasks

\* WorkOnTasks, in PROCESS_ALL mode.
WorkOnTasks ==
  /\ executor.pc = "cancelling"
  /\ stack[Main] = <<>>
  /\ \E e \in Queued :
       /\ tasks' = [tasks EXCEPT ![e].queued = @ - 1]
       /\ stack' = [stack EXCEPT ![Main] = <<Task("Execute", e)>>]
  /\ UNCHANGED <<event, executor>>

EndWorkOnTasks ==
  /\ executor.pc = "cancelling"
  /\ stack[Main] = <<>>
  /\ Queued = {}
  /\ executor' = [executor EXCEPT !.pc = "waiting"]
  /\ UNCHANGED <<event, tasks, stack>>

\* Without waiting for the pipelines.
EndCancelTasksAtOnce ==
  /\ executor.pc = "waiting"
  /\ executor' = EndQuery(executor)
  /\ UNCHANGED <<event, tasks, stack>>

\* The loop over weak_references, then EndQueryInternal.
EndCancelTasks ==
  /\ executor.pc = "waiting"
  /\ \A p \in executor.weak_references : ~PipelineAlive(p)
  /\ executor' = EndQuery(executor)
  /\ UNCHANGED <<event, tasks, stack>>

-----------------------------------------------------------------------------

Init ==
  /\ BuildInit
  /\ event = <<>>
  /\ tasks = <<>>
  /\ stack = [t \in Thread |-> <<>>]
  /\ executor = [pc |-> "building", completed_pipelines |-> 0, error |-> FALSE, cancelled |-> FALSE,
                 task |-> NoEvent, events |-> {}, pipelines |-> {}, weak_references |-> {},
                 to_schedule |-> {}, blocks |-> 0]

\* What a thread does on its stack.  Once the executor is destroyed, a thread
\* that uses it has undefined behaviour: its steps end there.
Work(t) ==
  /\ executor.pc # "ended"
  /\ \/ EndTask(t)
     \/ FailTask(t)
     \/ BlockTask(t)
     \/ Deschedule(t)
     \/ Flush(t)
     \/ SetTasks(t)
     \/ FinishTask(t)
     \/ NotifyParent(t)
     \/ FinalizeFinish(t)

Client ==
  \/ ScheduleEvents
  \/ ScheduleInitial
  \/ EndInitialize
  \/ ExecuteKeptTask
  \/ ExecuteNewTask
  \/ EndExecuteTask
  \/ ExecuteAfterError
  \/ ResultReady
  \/ Cleanup
  \/ WorkOnTasks
  \/ EndWorkOnTasks
  \/ EndCancelTasks

ClientStep   == (Client \/ Work(Main) \/ PartialTask) /\ UNCHANGED buildVars
WorkerStep(w) == (TakeTask(w) \/ Work(w)) /\ UNCHANGED buildVars
Callback     == (\E e \in DOMAIN event : RescheduleTask(e)) /\ UNCHANGED buildVars

Next ==
  \/ BuildStep /\ UNCHANGED execVars
  \/ ClientStep
  \/ CloseQuery /\ UNCHANGED buildVars
  \/ \E w \in Workers : WorkerStep(w)
  \/ Callback

\* Every thread makes progress; nobody has to close a query.
Fairness ==
  /\ WF_vars(BuildStep /\ UNCHANGED execVars)
  /\ WF_vars(ClientStep)
  /\ \A w \in Workers : WF_vars(WorkerStep(w))
  /\ WF_vars(Callback)

Spec == Init /\ [][Next]_vars /\ Fairness

-----------------------------------------------------------------------------
(* Properties *)

TypeOK ==
  /\ executor.pc \in {"building", "scheduling", "client", "executing", "ready",
                      "cancelling", "waiting", "ended"}
  /\ executor.completed_pipelines \in 0..Total
  /\ executor.blocks \in 0..MaxBlocks
  /\ executor.task \in {NoEvent} \cup DOMAIN event
  /\ executor.events \subseteq DOMAIN event
  /\ executor.pipelines \cup executor.weak_references \subseteq Pipeline
  /\ \A e \in DOMAIN event :
       /\ event[e].total_tasks \in 0..MaxTasks
       /\ \A d \in event[e].parents : d.event \in DOMAIN event
       /\ tasks[e] \in [queued : 0..MaxTasks, descheduled : 0..MaxTasks, callbacks : 0..MaxBlocks]
  /\ \A t \in Thread : \A i \in DOMAIN stack[t] : stack[t][i].event \in DOMAIN event

\* The assertions of CompleteDependency, Finish and FinishTask: neither count
\* passes its total, and an event that has finished did so with all its tasks
\* and dependencies counted.
CountersAgree ==
  \A e \in DOMAIN event :
    LET v == event[e]
    IN  /\ v.finished_dependencies <= v.total_dependencies
        /\ v.finished_tasks <= v.total_tasks
        /\ v.total_tasks > 0 => v.finished_dependencies = v.total_dependencies
        /\ v.finished =>
             v.finished_dependencies = v.total_dependencies /\ v.finished_tasks = v.total_tasks

\* How many tasks of e a call has: the one it executes, or those it is yet to enqueue.
Holds(f, e) ==
  IF f.event # e THEN 0
  ELSE CASE f.fn \in {"Execute", "Deschedule", "FinishTask"} -> 1
         [] f.fn = "SetTasks" -> f.n
         [] OTHER -> 0

\* The calls of all threads, each with its depth.
Calls == UNION {{<<t, Len(stack[t]) - i, stack[t][i]>> : i \in DOMAIN stack[t]} : t \in Thread}

\* The tasks of e that the threads have, numbered within each call.
InHand(e) == UNION {{<<c[1], c[2], n>> : n \in 1..Holds(c[3], e)} : c \in Calls}

\* No task is lost or done twice: as long as nothing fails and nobody cancels
\* the query, a task that was scheduled and has not been counted is in exactly
\* one place: about to be enqueued, in the queue, with a thread, kept by the
\* client, or descheduled with a callback to come.
NoTaskLost ==
  executor.pc \notin {"building", "ended"} /\ ~executor.error /\ ~executor.cancelled =>
    \A e \in DOMAIN event :
      /\ event[e].total_tasks = event[e].finished_tasks + tasks[e].queued + tasks[e].descheduled
            + (IF executor.task = e THEN 1 ELSE 0) + Cardinality(InHand(e))
      /\ tasks[e].descheduled <= tasks[e].callbacks

\* While a task runs a pipeline, all filters the pipeline probes and all sinks
\* it reads are complete, the tasks of the events they inserted included.  After
\* an error the pipelines run on, but their result is never used.
InputsComplete ==
  \A t \in Thread : \A i \in DOMAIN stack[t] :
    LET f == stack[t][i]
    IN  f.fn = "Execute" /\ f.event[1] = "event" /\ ~executor.error =>
          LET pipeline == build.pipelines[f.event[2]]
              needed   == (UNION {ToSet(plan[op].related) : op \in ToSet(pipeline.operators)})
                            \cup {pipeline.source}
          IN  \A e \in DOMAIN event :
                \/ e[1] \in {"finish", "finalize"}
                   /\ build.metas[build.pipelines[e[2]].meta].sink \in needed
                \/ e[1] = "complete" /\ build.metas[e[2]].sink \in needed
                => event[e].finished

\* When the client is told that the result is ready, all events have finished and
\* no task is queued, descheduled or kept by the client (D_ASSERT(!task)).  A
\* thread may still be in the last call of a task: see ExecutorOutlivesTasks.
ReadyMeansDone ==
  executor.pc = "ready" =>
    /\ \A e \in DOMAIN event : event[e].finished /\ tasks[e] = NoTasks
    /\ executor.task = NoEvent

\* Whether a call still refers to the executor.
UsesExecutor(f) == f.fn # "Finish" \/ f.parents # {} \/ f.event[1] = "complete"

\* No thread uses the executor, and no queued task will.
NobodyUsesExecutor ==
  /\ Queued = {}
  /\ \A t \in Thread : \A i \in DOMAIN stack[t] : ~UsesExecutor(stack[t][i])

\* Whatever ends a query first waits for its tasks, as the comment in
\* CancelTasks says: nobody uses the executor once it is destroyed.
ExecutorOutlivesTasks == executor.pc = "ended" => NobodyUsesExecutor

\* A query that is closed while it has pipelines, which is when CancelTasks has
\* something to wait for, ends after all of its tasks.
CloseWaitsForTasks ==
  executor.pc = "ended" /\ executor.weak_references # {} => NobodyUsesExecutor

\* A client that keeps calling ExecuteTask gets a result or an error.
QueryEnds ==
  (executor.pc = "client") ~> (executor.pc \in {"ready", "ended"} \/ executor.weak_references # {})

\* A client that closes a query, or starts another, gets control back, provided
\* that no pipeline that CancelTasks waits for is one that a CreateBF keeps.
CancelEnds ==
  (executor.pc = "cancelling" /\ executor.weak_references \cap KeptPipelines = {})
    ~> (executor.pc = "ended")

\* A client that closes a query gets control back, whatever the plan.
CloseEnds == (executor.pc = "cancelling") ~> (executor.pc = "ended")
=============================================================================
