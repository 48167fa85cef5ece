--------------------------- MODULE Executor_proofs ---------------------------
(***************************************************************************)
(* The execution of a query, for every plan and any number of threads,     *)
(* tasks and failures: a query that is closed ends after all of its tasks, *)
(* no task is lost or counted twice, no event starts before its last       *)
(* dependency, and a result that is ready is complete.                     *)
(***************************************************************************)
EXTENDS Executor, Pipelines_proofs

-----------------------------------------------------------------------------
(* The events of an execution and the pipelines they keep alive *)

\* The pipeline that an event other than a complete event refers to.
PipelineOf(e) == IF e[1] = "initialize" THEN Base(e[2]) ELSE e[2]

EventKinds == {"initialize", "event", "finish", "finalize", "complete"}

\* The events that have tasks.
TaskEvents == {e \in AllEvents : e[1] # "complete"}

\* An event that has tasks keeps a pipeline of this execution.
LEMMA EventsKeepPipelines ==
  ASSUME Shape(build), NEW e \in AllEvents
  PROVE  /\ e[1] \in EventKinds
         /\ e[1] # "complete" => PipelineOf(e) \in Current
         /\ e[1] = "finish" => e \in Events
<1>1. ASSUME NEW p, NEW m \in Scheduled, Belongs(build, p, m)
      PROVE  p \in Current
  BY <1>1, Numbered DEF Belongs, Scheduled, Current
<1>2. ASSUME NEW m \in Scheduled, e = InitializeEvent(m)
      PROVE  e[1] = "initialize" /\ PipelineOf(e) \in Current
  BY <1>1, <1>2, BaseBelongs, Numbered DEF InitializeEvent, PipelineOf, Scheduled
<1>3. ASSUME NEW m \in Scheduled, e = CompleteEvent(m)
      PROVE  e[1] = "complete"
  BY <1>3 DEF CompleteEvent
<1>4. ASSUME NEW p \in ScheduledPipeline, e = PipelineEvent(p)
      PROVE  e[1] = "event" /\ PipelineOf(e) \in Current
  <2>1. Belongs(build, p, build.pipelines[p].meta) /\ build.pipelines[p].meta \in Scheduled
    BY Numbered DEF ScheduledPipeline, Belongs
  <2>2. p \in Current
    BY <1>1, <2>1
  <2> QED
    BY <1>4, <2>2 DEF PipelineEvent, PipelineOf
<1>5. ASSUME NEW p \in ScheduledPipeline, NEW x, x = FinishEvent(p)
      PROVE  x[1] = "finish" /\ x[2] \in Current
  <2>1. p \in DOMAIN build.pipelines /\ build.pipelines[p].meta \in Scheduled
    BY Numbered DEF ScheduledPipeline
  <2>2. PICK q : FinishEvent(p) = <<"finish", q>> /\ Belongs(build, q, build.pipelines[p].meta)
    BY <2>1, FinishBelongs
  <2>3. q \in Current
    BY <1>1, <2>1, <2>2
  <2> QED
    BY <1>5, <2>2, <2>3
<1>6. ASSUME e \in Events
      PROVE  e[1] \in EventKinds /\ (e[1] # "complete" => PipelineOf(e) \in Current)
  <2>1. CASE \E m \in Scheduled : e = InitializeEvent(m)
    BY <1>2, <2>1 DEF EventKinds
  <2>2. CASE \E m \in Scheduled : e = CompleteEvent(m)
    BY <1>3, <2>2 DEF EventKinds
  <2>3. CASE \E p \in ScheduledPipeline : e = PipelineEvent(p)
    BY <1>4, <2>3 DEF EventKinds
  <2>4. CASE \E p \in ScheduledPipeline : e = FinishEvent(p)
    BY <1>5, <2>4 DEF EventKinds, PipelineOf
  <2> QED
    BY <1>6, <2>1, <2>2, <2>3, <2>4 DEF Events
<1>7. ASSUME NEW x \in Events, InsertsEvent(x), e = FinalizeEvent(x[2])
      PROVE  e[1] = "finalize" /\ PipelineOf(e) \in Current
  <2>1. x[1] = "finish"
    BY <1>7 DEF InsertsEvent
  <2>2. PICK p \in ScheduledPipeline : x = FinishEvent(p)
    BY <2>1 DEF Events, InitializeEvent, CompleteEvent, PipelineEvent
  <2>3. x[2] \in Current
    BY <1>5, <2>2
  <2> QED
    BY <1>7, <2>3 DEF FinalizeEvent, PipelineOf
<1> QED
  BY <1>6, <1>7 DEF AllEvents, EventKinds

\* Dependencies are dependencies of events.
LEMMA DependenciesOfEvents ==
  ASSUME NEW d \in Dependencies
  PROVE  d.event \in AllEvents
<1>1. PICK p \in ScheduledPipeline :
        d \in StackDependencies(p) \cup InnerDependencies(p) \cup OuterDependencies(p)
  BY DEF Dependencies
<1>2. d.event \in {PipelineEvent(p), FinishEvent(p), CompleteEvent(build.pipelines[p].meta)}
  BY <1>1 DEF StackDependencies, InnerDependencies, OuterDependencies, Dependency
<1>3. build.pipelines[p].meta \in Scheduled
  BY DEF ScheduledPipeline
<1> QED
  BY <1>2, <1>3 DEF AllEvents, Events

-----------------------------------------------------------------------------
(* The invariant of an execution *)

EventFields    == {"total_dependencies", "finished_dependencies", "total_tasks", "finished_tasks",
                   "finished", "parents"}
FrameFields    == {"fn", "event", "parents", "n"}
ExecutorFields == {"pc", "completed_pipelines", "error", "cancelled", "task", "events", "pipelines",
                   "weak_references", "to_schedule", "blocks"}

\* Only a call of Finish can be about a complete event.
FrameOK(f, E) ==
  /\ DOMAIN f = FrameFields
  /\ f.event \in E
  /\ f.fn # "Finish" => f.event[1] # "complete"
  /\ \A d \in f.parents : d.event \in E

\* The outermost call is that of a task, so it keeps an event that has one.
StackOK(s, E) ==
  /\ IsSeq(s)
  /\ \A i \in DOMAIN s : FrameOK(s[i], E)
  /\ s # <<>> => s[Len(s)].event[1] # "complete"

StacksOK(st, E) == DOMAIN st = Thread /\ \A t \in Thread : StackOK(st[t], E)

EventsOK(ev, E) ==
  /\ DOMAIN ev = E
  /\ \A e \in E : DOMAIN ev[e] = EventFields /\ \A d \in ev[e].parents : d.event \in E

TasksOK(ts, E) ==
  /\ DOMAIN ts = E
  /\ \A e \in E : /\ DOMAIN ts[e] = DOMAIN NoTasks
                  /\ ts[e].queued \in Nat /\ ts[e].descheduled \in Nat
                  /\ e[1] = "complete" => ts[e].queued = 0 /\ ts[e].descheduled = 0

\* The objects of an execution, once its events have been made.
ObjectsInv ==
  IF executor.pc = "building"
  THEN /\ event = <<>> /\ stack = [t \in Thread |-> <<>>]
       /\ executor.to_schedule = {} /\ executor.task = NoEvent
  ELSE /\ phase = "scheduled"
       /\ EventsOK(event, AllEvents)
       /\ TasksOK(tasks, AllEvents)
       /\ StacksOK(stack, AllEvents)
       /\ executor.to_schedule \subseteq Scheduled
       /\ executor.task # NoEvent => executor.task \in TaskEvents

\* The pipelines that the executor holds, and then waits for.
PipelinesInv ==
  /\ DOMAIN executor = ExecutorFields
  /\ executor.pc \in {"scheduling", "client", "executing"} => executor.pipelines = Current
  /\ executor.pc = "ready" => executor.pipelines = {}
  /\ executor.weak_references # {} =>
       /\ executor.weak_references = Current
       /\ executor.cancelled
       /\ executor.pc \in {"cancelling", "waiting", "ended"}

\* A cancelled query keeps no descheduled task.
CancelledInv ==
  executor.cancelled /\ executor.pc # "building" => \A e \in AllEvents : tasks[e].descheduled = 0

\* After CancelTasks has waited, nothing is left.
EndedInv ==
  executor.pc = "ended" /\ executor.weak_references # {} =>
    Queued = {} /\ \A t \in Thread : stack[t] = <<>>

ExecInv == ObjectsInv /\ PipelinesInv /\ CancelledInv /\ EndedInv

IInv == IsPlan(plan) /\ Shape(build) /\ ExecInv

\* Calls on a stack: one more, and one less.
LEMMA PushFrame ==
  ASSUME NEW E, NEW s, StackOK(s, E), NEW f, FrameOK(f, E), s # <<>> \/ f.event[1] # "complete"
  PROVE  StackOK(<<f>> \o s, E) /\ <<f>> \o s # <<>>
<1> DEFINE S == {s[i] : i \in DOMAIN s} \cup {f}
           r == <<f>> \o s
<1>1. s \in Seq(S) /\ <<f>> \in Seq(S) /\ Len(<<f>>) = 1 /\ <<f>>[1] = f
  BY DEF StackOK, IsSeq
<1> HIDE DEF S
<1>2. /\ r \in Seq(S) /\ Len(r) = 1 + Len(s) /\ Len(s) \in Nat
      /\ \A i \in 1..(1 + Len(s)) : r[i] = IF i <= 1 THEN <<f>>[i] ELSE s[i - 1]
  <2>1. ConcatOf(S, <<f>>, s, r)
    BY <1>1, ConcatIs
  <2> HIDE DEF r
  <2> QED
    BY <1>1, <2>1 DEF ConcatOf
<1> HIDE DEF r
<1>3. IsSeq(r) /\ DOMAIN r = 1..(1 + Len(s)) /\ DOMAIN s = 1..Len(s) /\ r # <<>>
  <2>1. IsSeq(r) /\ DOMAIN r = 1..Len(r)
    BY <1>2, SeqIsSeq
  <2>2. DOMAIN s = 1..Len(s)
    BY <1>1, SeqIsSeq
  <2>3. r # <<>>
    BY <1>2
  <2> QED
    BY <1>2, <2>1, <2>2, <2>3
<1>4. ASSUME NEW i \in DOMAIN r
      PROVE  FrameOK(r[i], E)
  <2>1. CASE i = 1
    BY <1>1, <1>2, <1>3, <2>1
  <2>2. CASE i # 1
    <3>1. i - 1 \in DOMAIN s /\ r[i] = s[i - 1]
      BY <1>2, <1>3, <2>2
    <3> QED
      BY <3>1 DEF StackOK
  <2> QED
    BY <2>1, <2>2
<1>5. r[Len(r)].event[1] # "complete"
  <2>1. CASE s = <<>>
    BY <1>1, <1>2, <2>1
  <2>2. CASE s # <<>>
    <3>1. Len(s) # 0
      BY <1>1, <2>2
    <3>2. r[Len(r)] = s[Len(s)]
      BY <1>2, <3>1
    <3> QED
      BY <2>2, <3>2 DEF StackOK
  <2> QED
    BY <2>1, <2>2
<1> QED
  BY <1>3, <1>4, <1>5 DEF StackOK, r

\* A call returns.
LEMMA Pop ==
  ASSUME NEW E, NEW s, StackOK(s, E), s # <<>>
  PROVE  /\ StackOK(Tail(s), E) /\ FrameOK(Head(s), E)
         /\ Tail(s) # <<>> \/ Head(s).event[1] # "complete"
<1> DEFINE S == {s[i] : i \in DOMAIN s}
<1>1. s \in Seq(S)
  BY DEF StackOK, IsSeq
<1> HIDE DEF S
<1>2. /\ Head(s) = s[1] /\ Tail(s) \in Seq(S) /\ Len(Tail(s)) = Len(s) - 1
      /\ \A i \in 1..Len(Tail(s)) : Tail(s)[i] = s[i + 1]
      /\ Len(s) \in Nat /\ Len(s) # 0 /\ DOMAIN s = 1..Len(s)
  BY <1>1, HeadTailProperties
<1>3. IsSeq(Tail(s)) /\ DOMAIN Tail(s) = 1..Len(Tail(s))
  BY <1>2, SeqIsSeq
<1>4. FrameOK(Head(s), E)
  BY <1>2 DEF StackOK
<1>5. \A i \in DOMAIN Tail(s) : FrameOK(Tail(s)[i], E)
  BY <1>2, <1>3 DEF StackOK
<1>6. Tail(s) # <<>> => Tail(s)[Len(Tail(s))].event[1] # "complete"
  <2>1. ASSUME Tail(s) # <<>>
        PROVE  Tail(s)[Len(Tail(s))] = s[Len(s)]
    <3>1. Len(Tail(s)) # 0
      BY <1>2, <2>1
    <3> QED
      BY <1>2, <3>1
  <2> QED
    BY <2>1 DEF StackOK
<1>7. Tail(s) # <<>> \/ Head(s).event[1] # "complete"
  <2>1. ASSUME Tail(s) = <<>>
        PROVE  Head(s) = s[Len(s)]
    <3>1. Len(<<>>) = 0
      OBVIOUS
    <3>2. Len(Tail(s)) = 0
      BY <2>1, <3>1
    <3> DEFINE k == Len(Tail(s))
               l == Len(s)
    <3>3. k = l - 1 /\ k = 0 /\ l \in Nat
      BY <1>2, <3>2
    <3> HIDE DEF k, l
    <3>4. l = 1
      BY <3>3
    <3> USE DEF l
    <3> QED
      BY <1>2, <3>4
  <2> QED
    BY <2>1 DEF StackOK
<1> QED
  BY <1>3, <1>4, <1>5, <1>6, <1>7 DEF StackOK

\* A call is replaced by another one about the same event.
LEMMA Swap ==
  ASSUME NEW E, NEW s, StackOK(s, E), s # <<>>, NEW f, FrameOK(f, E), f.event = Head(s).event
  PROVE  StackOK(<<f>> \o Tail(s), E) /\ <<f>> \o Tail(s) # <<>>
BY Pop, PushFrame

\* A stack of one call, and of none.
LEMMA OneCall ==
  ASSUME NEW E, NEW f, FrameOK(f, E), f.event[1] # "complete"
  PROVE  StackOK(<<f>>, E)
BY DEF StackOK, IsSeq

\* A thread that does nothing.
LEMMA NoCall ==
  ASSUME NEW E
  PROVE  StackOK(<<>>, E)
BY DEF StackOK, IsSeq

\* Nothing is added.
LEMMA EmptyConcat ==
  ASSUME NEW s, IsSeq(s)
  PROVE  <<>> \o s = s /\ s \o <<>> = s
BY ConcatEmptySeq DEF IsSeq

\* A thread has a new stack.
LEMMA NewStack ==
  ASSUME NEW E, NEW st, StacksOK(st, E), NEW t \in Thread, NEW s, StackOK(s, E)
  PROVE  StacksOK([st EXCEPT ![t] = s], E)
BY DEF StacksOK

\* An event changes, and the parents of an event are replaced.
LEMMA NewEvent ==
  ASSUME NEW E, NEW ev, EventsOK(ev, E), NEW e, NEW r,
         e \in E => DOMAIN r = EventFields /\ \A d \in r.parents : d.event \in E
  PROVE  EventsOK([ev EXCEPT ![e] = r], E)
BY DEF EventsOK

\* The tasks of one event change.
LEMMA NewTasks ==
  ASSUME NEW E, NEW ts, TasksOK(ts, E), NEW e, NEW r,
         e \in E => /\ DOMAIN r = DOMAIN NoTasks /\ r.queued \in Nat /\ r.descheduled \in Nat
                    /\ e[1] = "complete" => r.queued = 0 /\ r.descheduled = 0
  PROVE  TasksOK([ts EXCEPT ![e] = r], E)
BY DEF TasksOK

\* A new frame.
LEMMA NewFrame ==
  ASSUME NEW E, NEW fn, NEW e \in E, NEW parents, NEW n, \A d \in parents : d.event \in E,
         fn # "Finish" => e[1] # "complete"
  PROVE  /\ FrameOK(Frame(fn, e, parents, n), E)
         /\ Frame(fn, e, parents, n).event = e
BY DEF FrameOK, FrameFields, Frame

\* A task of an event that has tasks is a call that may be made.
LEMMA TaskFrame ==
  ASSUME NEW E, NEW fn, NEW e \in E, e[1] # "complete"
  PROVE  FrameOK(Task(fn, e), E) /\ Task(fn, e).event = e
BY DEF FrameOK, FrameFields, Frame, Task

\* The events are those of the pipelines, which an execution does not change.
LEMMA SameBuild ==
  ASSUME UNCHANGED buildVars
  PROVE  /\ AllEvents' = AllEvents /\ Scheduled' = Scheduled /\ Current' = Current
         /\ TaskEvents' = TaskEvents /\ plan' = plan /\ phase' = phase
         /\ Shape(build) => Shape(build)'
<1>1. plan' = plan /\ build' = build /\ phase' = phase
  BY DEF buildVars
<1>2. Pipeline' = Pipeline /\ Meta' = Meta
  BY <1>1 DEF Pipeline, Meta
<1>3. Scheduled' = Scheduled /\ Current' = Current
  BY <1>1, <1>2 DEF Scheduled, Current
<1>4. ScheduledPipeline' = ScheduledPipeline
  BY <1>1, <1>2, <1>3 DEF ScheduledPipeline
<1>5. \A p : FinishEvent(p)' = FinishEvent(p)
  BY <1>1 DEF FinishEvent, Base
<1>6. Events' = Events
  BY <1>3, <1>4, <1>5 DEF Events, InitializeEvent, CompleteEvent, PipelineEvent
<1>7. \A e : InsertsEvent(e)' <=> InsertsEvent(e)
  BY <1>1 DEF InsertsEvent, SinkOf
<1>8. AllEvents' = AllEvents
  BY <1>6, <1>7 DEF AllEvents, FinalizeEvent
<1>9. TaskEvents' = TaskEvents
  BY <1>8 DEF TaskEvents
<1>10. Shape(build) => Shape(build)'
  BY <1>1, Assigned
<1> QED
  BY <1>1, <1>3, <1>8, <1>9, <1>10

\* What a step of an execution has to keep.
LEMMA Combine ==
  ASSUME IInv, UNCHANGED buildVars, phase = "scheduled", executor'.pc # "building",
         EventsOK(event', AllEvents), TasksOK(tasks', AllEvents), StacksOK(stack', AllEvents),
         DOMAIN executor' = ExecutorFields,
         executor'.to_schedule \subseteq Scheduled,
         executor'.task # NoEvent => executor'.task \in TaskEvents,
         executor'.pc \in {"scheduling", "client", "executing"} => executor'.pipelines = Current,
         executor'.pc = "ready" => executor'.pipelines = {},
         executor'.weak_references # {} =>
           /\ executor'.weak_references = Current /\ executor'.cancelled
           /\ executor'.pc \in {"cancelling", "waiting", "ended"},
         executor'.cancelled => \A e \in AllEvents : tasks'[e].descheduled = 0,
         executor'.pc = "ended" /\ executor'.weak_references # {} =>
           Queued' = {} /\ \A t \in Thread : stack'[t] = <<>>
  PROVE  IInv'
<1>1. /\ AllEvents' = AllEvents /\ Scheduled' = Scheduled /\ Current' = Current
      /\ TaskEvents' = TaskEvents /\ plan' = plan /\ phase' = phase /\ Shape(build)'
  BY SameBuild DEF IInv
<1>2. ObjectsInv'
  <2>1. /\ EventsOK(event, AllEvents)' /\ TasksOK(tasks, AllEvents)' /\ StacksOK(stack, AllEvents)'
    BY <1>1
  <2> QED
    BY <1>1, <2>1 DEF ObjectsInv
<1>3. PipelinesInv' /\ CancelledInv' /\ EndedInv'
  BY <1>1 DEF PipelinesInv, CancelledInv, EndedInv
<1> QED
  BY <1>1, <1>2, <1>3 DEF IInv, ExecInv

\* The fields of the executor that a thread at work leaves alone.
SameClient ==
  /\ DOMAIN executor' = ExecutorFields
  /\ executor'.pc = executor.pc /\ executor'.cancelled = executor.cancelled
  /\ executor'.task = executor.task /\ executor'.pipelines = executor.pipelines
  /\ executor'.weak_references = executor.weak_references
  /\ executor'.to_schedule = executor.to_schedule

\* Steps of the threads, which leave the client where it is.
LEMMA WorkKeeps ==
  ASSUME IInv, UNCHANGED buildVars, executor.pc \notin {"building", "ended"}, SameClient,
         EventsOK(event', AllEvents), TasksOK(tasks', AllEvents), StacksOK(stack', AllEvents),
         executor.cancelled => \A e \in AllEvents : tasks'[e].descheduled = 0
  PROVE  IInv'
<1>1. /\ phase = "scheduled" /\ executor.to_schedule \subseteq Scheduled
      /\ executor.task # NoEvent => executor.task \in TaskEvents
  BY DEF IInv, ExecInv, ObjectsInv
<1>2. /\ executor.pc \in {"scheduling", "client", "executing"} => executor.pipelines = Current
      /\ executor.pc = "ready" => executor.pipelines = {}
      /\ executor.weak_references # {} =>
           /\ executor.weak_references = Current /\ executor.cancelled
           /\ executor.pc \in {"cancelling", "waiting", "ended"}
  BY DEF IInv, ExecInv, PipelinesInv
<1> QED
  BY <1>1, <1>2, Combine DEF SameClient

\* What a thread at work finds.
LEMMA Working ==
  ASSUME IInv, NEW t \in Thread, stack[t] # <<>>
  PROVE  /\ executor.pc # "building"
         /\ EventsOK(event, AllEvents) /\ TasksOK(tasks, AllEvents) /\ StacksOK(stack, AllEvents)
         /\ StackOK(stack[t], AllEvents) /\ FrameOK(Head(stack[t]), AllEvents)
         /\ StackOK(Tail(stack[t]), AllEvents)
         /\ executor = executor' => SameClient
         /\ DOMAIN executor = ExecutorFields
         /\ executor.cancelled => \A e \in AllEvents : tasks[e].descheduled = 0
<1>1. executor.pc # "building"
  BY DEF IInv, ExecInv, ObjectsInv
<1>2. EventsOK(event, AllEvents) /\ TasksOK(tasks, AllEvents) /\ StacksOK(stack, AllEvents)
  BY <1>1 DEF IInv, ExecInv, ObjectsInv
<1>3. StackOK(stack[t], AllEvents)
  BY <1>2 DEF StacksOK
<1>4. FrameOK(Head(stack[t]), AllEvents) /\ StackOK(Tail(stack[t]), AllEvents)
  BY <1>3, Pop
<1>5. DOMAIN executor = ExecutorFields /\ (executor = executor' => SameClient)
  BY DEF IInv, ExecInv, PipelinesInv, SameClient
<1>6. executor.cancelled => \A e \in AllEvents : tasks[e].descheduled = 0
  BY <1>1 DEF IInv, ExecInv, CancelledInv
<1> QED
  BY <1>1, <1>2, <1>3, <1>4, <1>5, <1>6

\* Flush keeps the invariant.
LEMMA FlushKeeps ==
  ASSUME IInv, UNCHANGED buildVars, NEW t \in Thread, executor.pc # "ended", Flush(t)
  PROVE  IInv'
<1>1. stack[t] # <<>> /\ event' = event /\ tasks' = tasks /\ executor' = executor
      /\ stack' = [stack EXCEPT ![t] = Tail(stack[t])]
  BY DEF Flush, At
<1>2. StacksOK(stack', AllEvents)
  BY <1>1, Working, NewStack
<1> QED
  BY <1>1, <1>2, Working, WorkKeeps

\* FailTask keeps the invariant.
LEMMA FailTaskKeeps ==
  ASSUME IInv, UNCHANGED buildVars, NEW t \in Thread, executor.pc # "ended", FailTask(t)
  PROVE  IInv'
<1>1. stack[t] # <<>> /\ event' = event /\ tasks' = tasks
      /\ executor' = [executor EXCEPT !.error = TRUE]
      /\ stack' = [stack EXCEPT ![t] = Tail(stack[t])]
  BY DEF FailTask, At
<1>2. StacksOK(stack', AllEvents)
  BY <1>1, Working, NewStack
<1>3. SameClient
  BY <1>1, Working DEF SameClient, ExecutorFields
<1> QED
  BY <1>1, <1>2, <1>3, Working, WorkKeeps

\* FinalizeFinish keeps the invariant.
LEMMA FinalizeFinishKeeps ==
  ASSUME IInv, UNCHANGED buildVars, NEW t \in Thread, executor.pc # "ended", FinalizeFinish(t)
  PROVE  IInv'
<1>1. stack[t] # <<>> /\ event' = event /\ tasks' = tasks
      /\ stack' = [stack EXCEPT ![t] = Tail(stack[t])]
  BY DEF FinalizeFinish, At
<1>2. StacksOK(stack', AllEvents)
  BY <1>1, Working, NewStack
<1>3. SameClient
  BY <1>1, Working DEF SameClient, ExecutorFields, FinalizeFinish
<1> QED
  BY <1>1, <1>2, <1>3, Working, WorkKeeps

\* Deschedule keeps the invariant.
LEMMA DescheduleKeeps ==
  ASSUME IInv, UNCHANGED buildVars, NEW t \in Thread, executor.pc # "ended", Deschedule(t)
  PROVE  IInv'
<1> DEFINE f == Head(stack[t])
           e == f.event
           r == [tasks[e] EXCEPT !.descheduled = @ + (IF executor.cancelled THEN 0 ELSE 1)]
<1>1. /\ stack[t] # <<>> /\ f.fn = "Deschedule" /\ event' = event /\ executor' = executor
      /\ stack' = [stack EXCEPT ![t] = Tail(stack[t])]
      /\ tasks' = [tasks EXCEPT ![e] = r]
  BY DEF Deschedule, At
<1>2. StacksOK(stack', AllEvents)
  BY <1>1, Working, NewStack
<1>3. FrameOK(f, AllEvents) /\ TasksOK(tasks, AllEvents)
  BY <1>1, Working
<1> HIDE DEF f
<1>4. e \in AllEvents /\ e[1] # "complete"
  BY <1>1, <1>3 DEF FrameOK
<1> HIDE DEF e
<1>5. /\ DOMAIN r = DOMAIN NoTasks /\ r.queued \in Nat /\ r.descheduled \in Nat
      /\ executor.cancelled => r.descheduled = tasks[e].descheduled
  BY <1>3, <1>4 DEF TasksOK, NoTasks
<1> HIDE DEF r
<1>6. TasksOK(tasks', AllEvents)
  BY <1>1, <1>3, <1>4, <1>5, NewTasks
<1>7. executor.cancelled => \A x \in AllEvents : tasks'[x].descheduled = 0
  BY <1>1, <1>3, <1>4, <1>5, Working DEF TasksOK
<1> QED
  BY <1>1, <1>2, <1>6, <1>7, Working, WorkKeeps

\* SetTasks keeps the invariant.
LEMMA SetTasksKeeps ==
  ASSUME IInv, UNCHANGED buildVars, NEW t \in Thread, executor.pc # "ended", SetTasks(t)
  PROVE  IInv'
<1> DEFINE f == Head(stack[t])
           e == f.event
           r == [tasks[e] EXCEPT !.queued = @ + 1]
           g == [f EXCEPT !.n = f.n - 1]
           s == (IF f.n = 1 THEN <<>> ELSE <<g>>) \o Tail(stack[t])
<1>1. /\ stack[t] # <<>> /\ f.fn = "SetTasks" /\ event' = event /\ executor' = executor
      /\ stack' = [stack EXCEPT ![t] = s]
      /\ tasks' = [tasks EXCEPT ![e] = r]
  BY DEF SetTasks, At
<1>2. /\ FrameOK(f, AllEvents) /\ TasksOK(tasks, AllEvents)
      /\ StackOK(stack[t], AllEvents) /\ StackOK(Tail(stack[t]), AllEvents)
  BY <1>1, Working
<1>3. StackOK(s, AllEvents)
  <2>1. CASE f.n = 1
    <3>1. s = Tail(stack[t])
      BY <1>2, <2>1, EmptyConcat DEF StackOK
    <3> QED
      BY <1>2, <3>1
  <2>2. CASE f.n # 1
    <3>1. FrameOK(g, AllEvents) /\ g.event = f.event
      <4> HIDE DEF f
      <4> QED
        BY <1>2 DEF FrameOK, FrameFields
    <3> HIDE DEF g
    <3>2. s = <<g>> \o Tail(stack[t])
      BY <2>2
    <3> QED
      BY <1>1, <1>2, <3>1, <3>2, Swap
  <2> QED
    BY <2>1, <2>2
<1> HIDE DEF s
<1>4. StacksOK(stack', AllEvents)
  BY <1>1, <1>3, Working, NewStack
<1> HIDE DEF f
<1>5. e \in AllEvents /\ e[1] # "complete"
  BY <1>1, <1>2 DEF FrameOK
<1> HIDE DEF e
<1>6. /\ DOMAIN r = DOMAIN NoTasks /\ r.queued \in Nat /\ r.descheduled \in Nat
      /\ r.descheduled = tasks[e].descheduled
  BY <1>2, <1>5 DEF TasksOK, NoTasks
<1> HIDE DEF r
<1>7. TasksOK(tasks', AllEvents)
  BY <1>1, <1>2, <1>5, <1>6, NewTasks
<1>8. executor.cancelled => \A x \in AllEvents : tasks'[x].descheduled = 0
  BY <1>1, <1>2, <1>5, <1>6, Working DEF TasksOK
<1> QED
  BY <1>1, <1>4, <1>7, <1>8, Working, WorkKeeps

\* FinishTask keeps the invariant.
LEMMA FinishTaskKeeps ==
  ASSUME IInv, UNCHANGED buildVars, NEW t \in Thread, executor.pc # "ended", FinishTask(t)
  PROVE  IInv'
<1> DEFINE f == Head(stack[t])
           e == f.event
           last == event[e].finished_tasks + 1 = event[e].total_tasks
           g == Frame("Finish", e, event[e].parents, 0)
           s == (IF last THEN <<g>> ELSE <<>>) \o Tail(stack[t])
<1>1. /\ stack[t] # <<>> /\ f.fn = "FinishTask" /\ tasks' = tasks /\ executor' = executor
      /\ stack' = [stack EXCEPT ![t] = s]
      /\ event' = [event EXCEPT ![e].finished_tasks = @ + 1, ![e].finished = last]
  BY Zenon DEF FinishTask, At
<1>2. /\ FrameOK(f, AllEvents) /\ EventsOK(event, AllEvents)
      /\ StackOK(stack[t], AllEvents) /\ StackOK(Tail(stack[t]), AllEvents)
  BY <1>1, Working, Zenon
<1>3. e \in AllEvents
  BY <1>2 DEF FrameOK
<1>4. EventsOK(event', AllEvents)
  <2> HIDE DEF e, last
  <2> QED
    BY <1>1, <1>2, <1>3 DEF EventsOK, EventFields
<1> HIDE DEF last
<1>5. StackOK(s, AllEvents)
  <2>1. CASE ~last
    <3>1. s = Tail(stack[t])
      BY <1>2, <2>1, EmptyConcat DEF StackOK
    <3> QED
      BY <1>2, <3>1
  <2>2. CASE last
    <3>1. FrameOK(g, AllEvents) /\ g.event = f.event
      <4>1. \A d \in event[e].parents : d.event \in AllEvents
        BY <1>2, <1>3 DEF EventsOK
      <4> QED
        BY <1>3, <4>1, NewFrame
    <3> HIDE DEF g
    <3>2. s = <<g>> \o Tail(stack[t])
      BY <2>2
    <3> QED
      BY <1>1, <1>2, <3>1, <3>2, Swap
  <2> QED
    BY <2>1, <2>2
<1> HIDE DEF s
<1>6. StacksOK(stack', AllEvents)
  BY <1>1, <1>5, Working, NewStack
<1> QED
  BY <1>1, <1>4, <1>6, Working, WorkKeeps

\* BlockTask keeps the invariant.
LEMMA BlockTaskKeeps ==
  ASSUME IInv, UNCHANGED buildVars, NEW t \in Thread, executor.pc # "ended", BlockTask(t)
  PROVE  IInv'
<1> DEFINE f == Head(stack[t])
           e == f.event
           r == [tasks[e] EXCEPT !.callbacks = @ + 1]
           g == Task("Deschedule", e)
<1>1. /\ stack[t] # <<>> /\ f.fn = "Execute" /\ event' = event
      /\ executor' = [executor EXCEPT !.blocks = @ + 1]
      /\ stack' = [stack EXCEPT ![t] = <<g>>]
      /\ tasks' = [tasks EXCEPT ![e] = r]
  BY DEF BlockTask, At
<1>2. FrameOK(f, AllEvents) /\ TasksOK(tasks, AllEvents)
  BY <1>1, Working
<1>3. SameClient
  BY <1>1, Working DEF SameClient, ExecutorFields
<1> HIDE DEF f
<1>4. e \in AllEvents /\ e[1] # "complete"
  BY <1>1, <1>2 DEF FrameOK
<1> HIDE DEF e
<1>5. FrameOK(g, AllEvents) /\ g.event = e
  BY <1>4, TaskFrame
<1> HIDE DEF g
<1>6. StacksOK(stack', AllEvents)
  BY <1>1, <1>4, <1>5, OneCall, Working, NewStack
<1>7. /\ DOMAIN r = DOMAIN NoTasks /\ r.queued \in Nat /\ r.descheduled \in Nat
      /\ r.descheduled = tasks[e].descheduled
  BY <1>2, <1>4 DEF TasksOK, NoTasks
<1> HIDE DEF r
<1>8. TasksOK(tasks', AllEvents)
  BY <1>1, <1>2, <1>4, <1>7, NewTasks
<1>9. executor.cancelled => \A x \in AllEvents : tasks'[x].descheduled = 0
  BY <1>1, <1>2, <1>4, <1>7, Working DEF TasksOK
<1> QED
  BY <1>1, <1>3, <1>6, <1>8, <1>9, Working, WorkKeeps

\* InsertEvent keeps the invariant.
LEMMA InsertEventKeeps ==
  ASSUME IInv, UNCHANGED buildVars, NEW t \in Thread, executor.pc # "ended",
         At(t, "Execute"), InsertsEvent(Head(stack[t]).event), InsertEvent(t, Head(stack[t]).event)
  PROVE  IInv'
<1> DEFINE f == Head(stack[t])
           e == f.event
           new == FinalizeEvent(e[2])
           d == Dependency(new, e, 0)
           g == Task("FinishTask", e)
<1>1. /\ stack[t] # <<>> /\ f.fn = "Execute" /\ tasks' = tasks
      /\ event' = [event EXCEPT ![new].parents = event[e].parents,
                                ![new].total_dependencies = 1,
                                ![e].parents = {d}]
      /\ stack' = [stack EXCEPT ![t] = <<g>> \o Tail(stack[t])]
  BY Zenon DEF At, InsertEvent
<1>2. /\ FrameOK(f, AllEvents) /\ EventsOK(event, AllEvents)
      /\ StackOK(stack[t], AllEvents)
  BY <1>1, Working, Zenon
<1>3. SameClient
  BY <1>1, Working, Zenon DEF InsertEvent, SameClient, ExecutorFields
<1>4. e \in AllEvents /\ e[1] # "complete" /\ e[1] = "finish"
  BY <1>1, <1>2, Zenon DEF FrameOK, InsertsEvent
<1>5. new \in AllEvents
  <2>1. e \in Events
    BY <1>4, EventsKeepPipelines DEF IInv
  <2> QED
    BY <2>1 DEF AllEvents
<1>6. FrameOK(g, AllEvents) /\ g.event = f.event
  BY <1>4, TaskFrame
<1>7. d.event = new
  BY DEF Dependency
<1> HIDE DEF g, d, new, e
<1>8. StackOK(<<g>> \o Tail(stack[t]), AllEvents)
  BY <1>1, <1>2, <1>6, Swap
<1>9. StacksOK(stack', AllEvents)
  BY <1>1, <1>8, Working, NewStack
<1>10. EventsOK(event', AllEvents)
  BY <1>1, <1>2, <1>4, <1>5, <1>7 DEF EventsOK, EventFields
<1> QED
  BY <1>1, <1>3, <1>9, <1>10, Working, WorkKeeps

\* EndTask keeps the invariant.
LEMMA EndTaskKeeps ==
  ASSUME IInv, UNCHANGED buildVars, NEW t \in Thread, executor.pc # "ended", EndTask(t)
  PROVE  IInv'
<1> DEFINE f == Head(stack[t])
           e == f.event
           g == Task("FinishTask", e)
           h == Task("Flush", e)
           T == Tail(stack[t])
           s == <<g>> \o (IF FlushesLast(e) THEN <<h>> ELSE <<>>) \o T
<1>1. CASE InsertsEvent(e)
  BY <1>1, InsertEventKeeps DEF EndTask
<1>2. CASE ~InsertsEvent(e)
  <2>1. /\ stack[t] # <<>> /\ f.fn = "Execute" /\ tasks' = tasks /\ event' = event
        /\ executor' = executor /\ stack' = [stack EXCEPT ![t] = s]
    BY <1>2 DEF EndTask, At
  <2>2. FrameOK(f, AllEvents) /\ StackOK(stack[t], AllEvents) /\ StackOK(T, AllEvents)
    BY <2>1, Working
  <2>3. e \in AllEvents /\ e[1] # "complete"
    BY <2>1, <2>2 DEF FrameOK
  <2>4. FrameOK(g, AllEvents) /\ g.event = e /\ FrameOK(h, AllEvents) /\ h.event = e
    BY <2>3, TaskFrame
  <2> HIDE DEF g, h
  <2>5. StackOK(s, AllEvents)
    <3>1. CASE FlushesLast(e)
      <4>1. s = <<g>> \o (<<h>> \o T)
        <5> DEFINE S == {T[i] : i \in DOMAIN T} \cup {g, h}
        <5>1. T \in Seq(S) /\ <<g>> \in Seq(S) /\ <<h>> \in Seq(S)
          <6> HIDE DEF T
          <6> QED
            BY <2>2 DEF StackOK, IsSeq
        <5> HIDE DEF S, T
        <5>2. (<<g>> \o <<h>>) \o T = <<g>> \o (<<h>> \o T)
          BY <5>1, ConcatAssociative
        <5> QED
          BY <3>1, <5>2
      <4>2. StackOK(<<h>> \o T, AllEvents)
        BY <2>1, <2>2, <2>4, Swap
      <4> HIDE DEF T
      <4> QED
        BY <2>3, <2>4, <4>1, <4>2, PushFrame
    <3>2. CASE ~FlushesLast(e)
      <4>1. s = <<g>> \o T
        <5>1. <<g>> \o <<>> = <<g>>
          BY EmptyConcat DEF IsSeq
        <5> QED
          BY <3>2, <5>1
      <4> QED
        BY <2>1, <2>2, <2>4, <4>1, Swap
    <3> QED
      BY <3>1, <3>2
  <2> HIDE DEF s
  <2>6. StacksOK(stack', AllEvents)
    BY <2>1, <2>5, Working, NewStack
  <2> QED
    BY <2>1, <2>6, Working, WorkKeeps
<1> QED
  BY <1>1, <1>2

\* Scheduling an event from a call of Finish.
LEMMA ScheduleKeeps ==
  ASSUME IInv, UNCHANGED buildVars, NEW t \in Thread, executor.pc # "ended", stack[t] # <<>>,
         NEW ev, EventsOK(ev, AllEvents), NEW e \in AllEvents,
         NEW frames, StackOK(frames, AllEvents), frames # <<>>, Schedule(t, ev, e, frames)
  PROVE  IInv'
<1>1. PICK o \in ScheduleOutcomes(e) :
        /\ event' = ScheduleWith(ev, e, o.n, frames).event
        /\ stack' = [stack EXCEPT ![t] = ScheduleWith(ev, e, o.n, frames).calls]
        /\ executor' = [executor EXCEPT !.error = @ \/ o.throws]
        /\ tasks' = tasks
  BY DEF Schedule
<1>2. SameClient
  BY <1>1, Working DEF SameClient, ExecutorFields
<1>3. CASE o.n = 0
  <2> DEFINE g == Frame("Finish", e, ev[e].parents, 0)
  <2>1. /\ event' = [ev EXCEPT ![e].finished = TRUE]
        /\ stack' = [stack EXCEPT ![t] = <<g>> \o frames]
    BY <1>1, <1>3 DEF ScheduleWith
  <2>2. EventsOK(event', AllEvents)
    BY <2>1 DEF EventsOK, EventFields
  <2>3. \A d \in ev[e].parents : d.event \in AllEvents
    BY DEF EventsOK
  <2>4. FrameOK(g, AllEvents)
    BY <2>3, NewFrame
  <2> HIDE DEF g
  <2>5. StackOK(<<g>> \o frames, AllEvents)
    BY <2>4, PushFrame
  <2>6. StacksOK(stack', AllEvents)
    BY <2>1, <2>5, Working, NewStack
  <2> QED
    BY <1>1, <1>2, <2>2, <2>6, Working, WorkKeeps
<1>4. CASE o.n # 0
  <2> DEFINE g == Frame("SetTasks", e, {}, o.n)
  <2>1. /\ event' = [ev EXCEPT ![e].total_tasks = o.n]
        /\ stack' = [stack EXCEPT ![t] = <<g>> \o frames]
    BY <1>1, <1>4 DEF ScheduleWith
  <2>2. EventsOK(event', AllEvents)
    BY <2>1 DEF EventsOK, EventFields
  <2>3. e[1] # "complete"
    <3>1. ASSUME e[1] = "complete"
          PROVE  ScheduleOutcomes(e) = {[n |-> 0, throws |-> FALSE]}
      BY <3>1, Zenon DEF ScheduleOutcomes
    <3> QED
      BY <1>1, <1>4, <3>1
  <2>4. FrameOK(g, AllEvents)
    BY <2>3, NewFrame
  <2> HIDE DEF g
  <2>5. StackOK(<<g>> \o frames, AllEvents)
    BY <2>4, PushFrame
  <2>6. StacksOK(stack', AllEvents)
    BY <2>1, <2>5, Working, NewStack
  <2> QED
    BY <1>1, <1>2, <2>2, <2>6, Working, WorkKeeps
<1> QED
  BY <1>3, <1>4

\* NotifyParent keeps the invariant.
LEMMA NotifyParentKeeps ==
  ASSUME IInv, UNCHANGED buildVars, NEW t \in Thread, executor.pc # "ended", NotifyParent(t)
  PROVE  IInv'
<1> DEFINE f == Head(stack[t])
<1>1. PICK d \in f.parents :
        LET frames == <<[f EXCEPT !.parents = @ \ {d}]>> \o Tail(stack[t])
        IN  IF Alive(d.event) THEN CompleteDependency(t, d, frames)
            ELSE /\ stack' = [stack EXCEPT ![t] = frames]
                 /\ UNCHANGED <<event, tasks, executor>>
  BY DEF NotifyParent
<1> DEFINE g == [f EXCEPT !.parents = @ \ {d}]
           frames == <<g>> \o Tail(stack[t])
           e == d.event
           done == [event EXCEPT ![e].finished_dependencies = @ + 1]
<1>2. stack[t] # <<>> /\ f.fn = "Finish"
  BY DEF NotifyParent, At
<1>3. FrameOK(f, AllEvents) /\ StackOK(stack[t], AllEvents) /\ EventsOK(event, AllEvents)
  BY <1>2, Working
<1>4. FrameOK(g, AllEvents) /\ g.event = f.event /\ e \in AllEvents
  <2> HIDE DEF f
  <2> QED
    BY <1>3 DEF FrameOK, FrameFields
<1>5. /\ Alive(e) => CompleteDependency(t, d, frames)
      /\ ~Alive(e) => stack' = [stack EXCEPT ![t] = frames] /\ UNCHANGED <<event, tasks, executor>>
  BY <1>1
<1> HIDE DEF g
<1>6. StackOK(frames, AllEvents) /\ frames # <<>>
  BY <1>2, <1>3, <1>4, Swap
<1> HIDE DEF frames
<1>7. StacksOK([stack EXCEPT ![t] = frames], AllEvents)
  BY <1>2, <1>6, Working, NewStack
<1>8. EventsOK(done, AllEvents)
  <2> HIDE DEF e
  <2> QED
    BY <1>3 DEF EventsOK, EventFields
<1>9. CASE ~Alive(e)
  BY <1>2, <1>5, <1>7, <1>9, Working, WorkKeeps
<1>10. CASE Alive(e)
  <2>1. /\ done[e].finished_dependencies = done[e].total_dependencies => Schedule(t, done, e, frames)
        /\ done[e].finished_dependencies # done[e].total_dependencies =>
             /\ event' = done /\ stack' = [stack EXCEPT ![t] = frames]
             /\ tasks' = tasks /\ executor' = executor
    BY <1>5, <1>10 DEF CompleteDependency
  <2> HIDE DEF done, e
  <2>2. CASE done[e].finished_dependencies = done[e].total_dependencies
    BY <1>2, <1>4, <1>6, <1>8, <2>1, <2>2, ScheduleKeeps
  <2>3. CASE done[e].finished_dependencies # done[e].total_dependencies
    BY <1>2, <1>7, <1>8, <2>1, <2>3, Working, WorkKeeps
  <2> QED
    BY <2>2, <2>3
<1> QED
  BY <1>9, <1>10

\* A thread works on its stack.
LEMMA WorkStep ==
  ASSUME IInv, UNCHANGED buildVars, NEW t \in Thread, Work(t)
  PROVE  IInv'
BY EndTaskKeeps, FailTaskKeeps, BlockTaskKeeps, DescheduleKeeps, FlushKeeps, SetTasksKeeps,
   FinishTaskKeeps, NotifyParentKeeps, FinalizeFinishKeeps DEF Work

\* A thread or the client takes a task of the queue.
LEMMA TakenTask ==
  ASSUME IInv, executor.pc # "building", NEW t \in Thread, NEW e \in Queued,
         tasks' = [tasks EXCEPT ![e].queued = @ - 1],
         stack' = [stack EXCEPT ![t] = <<Task("Execute", e)>>]
  PROVE  /\ TasksOK(tasks', AllEvents) /\ StacksOK(stack', AllEvents)
         /\ executor.cancelled => \A x \in AllEvents : tasks'[x].descheduled = 0
<1> DEFINE r == [tasks[e] EXCEPT !.queued = @ - 1]
<1>1. EventsOK(event, AllEvents) /\ TasksOK(tasks, AllEvents) /\ StacksOK(stack, AllEvents)
  BY DEF IInv, ExecInv, ObjectsInv
<1>2. e \in AllEvents /\ tasks[e].queued > 0
  BY <1>1 DEF Queued, EventsOK
<1>3. e[1] # "complete"
  BY <1>1, <1>2 DEF TasksOK
<1>4. FrameOK(Task("Execute", e), AllEvents) /\ Task("Execute", e).event = e
  BY <1>2, <1>3, TaskFrame
<1>5. StackOK(<<Task("Execute", e)>>, AllEvents)
  BY <1>3, <1>4, OneCall
<1>6. StacksOK(stack', AllEvents)
  BY <1>1, <1>5, NewStack
<1>7. tasks' = [tasks EXCEPT ![e] = r]
  OBVIOUS
<1>8. /\ DOMAIN r = DOMAIN NoTasks /\ r.queued \in Nat /\ r.descheduled \in Nat
      /\ r.descheduled = tasks[e].descheduled
  BY <1>1, <1>2 DEF TasksOK, NoTasks
<1> HIDE DEF r
<1>9. TasksOK(tasks', AllEvents)
  <2>1. TasksOK([tasks EXCEPT ![e] = r], AllEvents)
    BY <1>1, <1>2, <1>3, <1>8, NewTasks
  <2> QED
    BY <1>7, <2>1, Zenon
<1>10. executor.cancelled => \A x \in AllEvents : tasks'[x].descheduled = 0
  BY <1>1, <1>2, <1>7, <1>8 DEF TasksOK, IInv, ExecInv, CancelledInv
<1> QED
  BY <1>6, <1>9, <1>10

\* Once nothing is left, nothing can be taken.
LEMMA TakeTaskKeeps ==
  ASSUME IInv, UNCHANGED buildVars, NEW w \in Thread, executor.pc # "building", TakeTask(w)
  PROVE  IInv'
<1>1. PICK e \in Queued : /\ tasks' = [tasks EXCEPT ![e].queued = @ - 1]
                          /\ stack' = [stack EXCEPT ![w] = <<Task("Execute", e)>>]
  BY DEF TakeTask
<1>2. event' = event /\ executor' = executor
  BY DEF TakeTask
<1>3. /\ TasksOK(tasks', AllEvents) /\ StacksOK(stack', AllEvents)
      /\ executor.cancelled => \A x \in AllEvents : tasks'[x].descheduled = 0
  BY <1>1, TakenTask
<1>4. executor.pc = "ended" => executor.weak_references = {}
  BY <1>1 DEF IInv, ExecInv, EndedInv
<1>5. /\ phase = "scheduled" /\ executor.to_schedule \subseteq Scheduled
      /\ executor.task # NoEvent => executor.task \in TaskEvents
      /\ EventsOK(event', AllEvents)
  BY <1>2 DEF IInv, ExecInv, ObjectsInv
<1> QED
  BY <1>2, <1>3, <1>4, <1>5, Combine DEF IInv, ExecInv, PipelinesInv

\* A blocked task is called back.
LEMMA RescheduleTaskKeeps ==
  ASSUME IInv, UNCHANGED buildVars, executor.pc # "building", NEW e \in AllEvents, RescheduleTask(e)
  PROVE  IInv'
<1>1. event' = event /\ executor' = executor /\ stack' = stack
  BY DEF RescheduleTask
<1>2. /\ EventsOK(event, AllEvents) /\ TasksOK(tasks, AllEvents) /\ StacksOK(stack, AllEvents)
      /\ phase = "scheduled" /\ executor.to_schedule \subseteq Scheduled
      /\ executor.task # NoEvent => executor.task \in TaskEvents
  BY DEF IInv, ExecInv, ObjectsInv
<1>3. executor.cancelled => \A x \in AllEvents : tasks[x].descheduled = 0
  BY DEF IInv, ExecInv, CancelledInv
<1>4. PICK r : /\ tasks' = [tasks EXCEPT ![e] = r]
               /\ DOMAIN r = DOMAIN NoTasks /\ r.queued \in Nat /\ r.descheduled \in Nat
               /\ e[1] = "complete" => r.queued = 0 /\ r.descheduled = 0
               /\ executor.cancelled => r.queued = tasks[e].queued /\ r.descheduled = 0
  <2>1. CASE tasks' = [tasks EXCEPT ![e].callbacks = @ - 1]
    <3> DEFINE r == [tasks[e] EXCEPT !.callbacks = @ - 1]
    <3>1. tasks' = [tasks EXCEPT ![e] = r]
      BY <2>1
    <3>2. DOMAIN r = DOMAIN NoTasks /\ r.queued = tasks[e].queued /\ r.descheduled = tasks[e].descheduled
      BY <1>2 DEF TasksOK, NoTasks
    <3> HIDE DEF r
    <3> QED
      BY <1>2, <1>3, <3>1, <3>2 DEF TasksOK
  <2>2. CASE /\ tasks[e].descheduled > 0
             /\ tasks' = [tasks EXCEPT ![e] =
                  [queued |-> @.queued + 1, descheduled |-> @.descheduled - 1, callbacks |-> @.callbacks - 1]]
    <3> DEFINE r == [queued |-> tasks[e].queued + 1, descheduled |-> tasks[e].descheduled - 1,
                     callbacks |-> tasks[e].callbacks - 1]
    <3>1. tasks' = [tasks EXCEPT ![e] = r]
      BY <2>2
    <3>2. DOMAIN r = DOMAIN NoTasks /\ r.queued \in Nat /\ r.descheduled \in Nat
      BY <1>2, <2>2 DEF TasksOK, NoTasks
    <3>3. e[1] # "complete" /\ ~executor.cancelled
      BY <1>2, <1>3, <2>2 DEF TasksOK
    <3> HIDE DEF r
    <3> QED
      BY <3>1, <3>2, <3>3
  <2> QED
    BY <2>1, <2>2 DEF RescheduleTask
<1>5. TasksOK(tasks', AllEvents)
  BY <1>2, <1>4, NewTasks
<1>6. executor.cancelled => \A x \in AllEvents : tasks'[x].descheduled = 0
  BY <1>2, <1>3, <1>4 DEF TasksOK
<1>7. /\ DOMAIN executor = ExecutorFields
      /\ executor.pc \in {"scheduling", "client", "executing"} => executor.pipelines = Current
      /\ executor.pc = "ready" => executor.pipelines = {}
      /\ executor.weak_references # {} =>
           /\ executor.weak_references = Current /\ executor.cancelled
           /\ executor.pc \in {"cancelling", "waiting", "ended"}
  BY DEF IInv, ExecInv, PipelinesInv
<1>8. ASSUME executor.pc = "ended", executor.weak_references # {}
      PROVE  Queued' = {} /\ \A t \in Thread : stack'[t] = <<>>
  <2>1. Queued = {} /\ \A t \in Thread : stack[t] = <<>>
    BY <1>8 DEF IInv, ExecInv, EndedInv
  <2>2. \A x \in AllEvents : tasks'[x].queued = tasks[x].queued
    BY <1>2, <1>4, <1>7, <1>8 DEF TasksOK
  <2>3. Queued' = {}
    BY <1>1, <1>2, <2>1, <2>2 DEF Queued, EventsOK
  <2> QED
    BY <1>1, <2>1, <2>3
<1> QED
  BY <1>1, <1>2, <1>5, <1>6, <1>7, <1>8, Combine

\* What the client finds once the events have been made.
LEMMA Executing ==
  ASSUME IInv, executor.pc # "building"
  PROVE  /\ EventsOK(event, AllEvents) /\ TasksOK(tasks, AllEvents) /\ StacksOK(stack, AllEvents)
         /\ phase = "scheduled" /\ executor.to_schedule \subseteq Scheduled
         /\ executor.task # NoEvent => executor.task \in TaskEvents
         /\ DOMAIN executor = ExecutorFields
         /\ executor.pc \in {"scheduling", "client", "executing"} => executor.pipelines = Current
         /\ executor.pc = "ready" => executor.pipelines = {}
         /\ executor.weak_references # {} =>
              /\ executor.weak_references = Current /\ executor.cancelled
              /\ executor.pc \in {"cancelling", "waiting", "ended"}
         /\ executor.cancelled => \A e \in AllEvents : tasks[e].descheduled = 0
<1>1. ObjectsInv /\ PipelinesInv /\ CancelledInv
  BY DEF IInv, ExecInv
<1> QED
  BY <1>1 DEF ObjectsInv, PipelinesInv, CancelledInv

\* ScheduleEvents keeps the invariant.
LEMMA ScheduleEventsKeeps ==
  ASSUME IInv, UNCHANGED buildVars, ScheduleEvents
  PROVE  IInv'
<1>1. /\ executor.pc = "building" /\ phase = "scheduled" /\ stack' = stack
      /\ executor' = [executor EXCEPT !.pc = "scheduling", !.events = Events,
                                      !.pipelines = Current, !.to_schedule = Scheduled]
      /\ tasks' = [e \in AllEvents |-> NoTasks]
      /\ event' = [e \in AllEvents |->
              [total_dependencies |-> Cardinality({d \in Dependencies : d.event = e}),
               finished_dependencies |-> 0, total_tasks |-> 0, finished_tasks |-> 0,
               finished |-> FALSE, parents |-> {d \in Dependencies : d.on = e}]]
  BY DEF ScheduleEvents
<1>2. /\ stack = [t \in Thread |-> <<>>] /\ executor.task = NoEvent
      /\ DOMAIN executor = ExecutorFields /\ executor.weak_references = {}
  BY <1>1 DEF IInv, ExecInv, ObjectsInv, PipelinesInv
<1>3. EventsOK(event', AllEvents)
  <2>1. DOMAIN event' = AllEvents
    BY <1>1
  <2>2. ASSUME NEW e \in AllEvents
        PROVE  DOMAIN event'[e] = EventFields /\ event'[e].parents \subseteq Dependencies
    BY <1>1 DEF EventFields
  <2> QED
    BY <2>1, <2>2, DependenciesOfEvents DEF EventsOK
<1>4. TasksOK(tasks', AllEvents) /\ \A e \in AllEvents : tasks'[e].descheduled = 0
  BY <1>1 DEF TasksOK, NoTasks
<1>5. StacksOK(stack', AllEvents)
  BY <1>1, <1>2, NoCall DEF StacksOK
<1>6. /\ DOMAIN executor' = ExecutorFields /\ executor'.pc = "scheduling" /\ executor'.task = NoEvent
      /\ executor'.pipelines = Current /\ executor'.to_schedule = Scheduled
      /\ executor'.weak_references = {}
  BY <1>1, <1>2 DEF ExecutorFields
<1> QED
  BY <1>1, <1>3, <1>4, <1>5, <1>6, Combine

\* ScheduleInitial keeps the invariant.
LEMMA ScheduleInitialKeeps ==
  ASSUME IInv, UNCHANGED buildVars, ScheduleInitial
  PROVE  IInv'
<1>1. PICK m \in executor.to_schedule :
        LET s == ScheduleWith(event, InitializeEvent(m), 1, <<>>)
        IN  /\ event' = s.event
            /\ stack' = [stack EXCEPT ![Main] = s.calls]
            /\ executor' = [executor EXCEPT !.to_schedule = @ \ {m}]
  BY DEF ScheduleInitial
<1> DEFINE e == InitializeEvent(m)
           g == Frame("SetTasks", e, {}, 1)
<1>2. /\ event' = [event EXCEPT ![e].total_tasks = 1]
      /\ stack' = [stack EXCEPT ![Main] = <<g>> \o <<>>]
      /\ executor' = [executor EXCEPT !.to_schedule = @ \ {m}]
  BY <1>1 DEF ScheduleWith
<1>3. executor.pc = "scheduling" /\ tasks' = tasks
  BY DEF ScheduleInitial
<1>4. e \in AllEvents /\ e[1] # "complete"
  BY <1>3, Executing DEF AllEvents, Events, InitializeEvent
<1> HIDE DEF e
<1>5. FrameOK(g, AllEvents) /\ g.event = e
  BY <1>4, NewFrame
<1> HIDE DEF g
<1>6. <<g>> \o <<>> = <<g>>
  BY EmptyConcat DEF IsSeq
<1>7. StackOK(<<g>>, AllEvents) /\ Main \in Thread
  BY <1>4, <1>5, OneCall DEF Thread
<1>8. StacksOK(stack', AllEvents)
  BY <1>2, <1>3, <1>6, <1>7, Executing, NewStack
<1>9. EventsOK(event', AllEvents)
  BY <1>2, <1>3, Executing DEF EventsOK, EventFields
<1>10. /\ DOMAIN executor' = ExecutorFields /\ executor'.pc = executor.pc /\ executor'.task = executor.task
       /\ executor'.pipelines = executor.pipelines /\ executor'.cancelled = executor.cancelled
       /\ executor'.weak_references = executor.weak_references
       /\ executor'.to_schedule \subseteq Scheduled
  BY <1>2, <1>3, Executing DEF ExecutorFields
<1> QED
  BY <1>3, <1>8, <1>9, <1>10, Executing, Combine

\* The client goes on, and only its place changes.
LEMMA PlaceKeeps ==
  ASSUME IInv, UNCHANGED buildVars, UNCHANGED <<event, tasks, stack>>, NEW pc,
         executor' = [executor EXCEPT !.pc = pc],
         \/ pc = "client" /\ executor.pc \in {"scheduling", "executing"}
         \/ pc = "waiting" /\ executor.pc = "cancelling"
  PROVE  IInv'
<1>1. executor.pc # "building" /\ executor.pc # "ended"
  OBVIOUS
<1>2. /\ DOMAIN executor' = ExecutorFields /\ executor'.pc = pc /\ executor'.task = executor.task
      /\ executor'.pipelines = executor.pipelines /\ executor'.cancelled = executor.cancelled
      /\ executor'.weak_references = executor.weak_references
      /\ executor'.to_schedule = executor.to_schedule
  BY <1>1, Executing DEF ExecutorFields
<1> QED
  BY <1>1, <1>2, Executing, Combine

\* ExecuteKeptTask keeps the invariant.
LEMMA ExecuteKeptTaskKeeps ==
  ASSUME IInv, UNCHANGED buildVars, ExecuteKeptTask
  PROVE  IInv'
<1> DEFINE e == executor.task
           g == Frame("Execute", e, {}, 1)
<1>1. /\ executor.pc = "client" /\ e # NoEvent /\ event' = event /\ tasks' = tasks
      /\ stack' = [stack EXCEPT ![Main] = <<g>>]
      /\ executor' = [executor EXCEPT !.pc = "executing", !.task = NoEvent]
  BY DEF ExecuteKeptTask
<1>2. e \in AllEvents /\ e[1] # "complete"
  BY <1>1, Executing DEF TaskEvents
<1>3. FrameOK(g, AllEvents) /\ g.event = e
  <2> HIDE DEF e
  <2> QED
    BY <1>2, NewFrame
<1> HIDE DEF g
<1>4. StackOK(<<g>>, AllEvents) /\ Main \in Thread
  BY <1>2, <1>3, OneCall DEF Thread
<1>5. StacksOK(stack', AllEvents)
  BY <1>1, <1>4, Executing, NewStack
<1>6. /\ DOMAIN executor' = ExecutorFields /\ executor'.pc = "executing" /\ executor'.task = NoEvent
      /\ executor'.pipelines = executor.pipelines /\ executor'.cancelled = executor.cancelled
      /\ executor'.weak_references = executor.weak_references
      /\ executor'.to_schedule = executor.to_schedule
  BY <1>1, Executing DEF ExecutorFields
<1> QED
  BY <1>1, <1>5, <1>6, Executing, Combine

\* ExecuteNewTask keeps the invariant.
LEMMA ExecuteNewTaskKeeps ==
  ASSUME IInv, UNCHANGED buildVars, ExecuteNewTask
  PROVE  IInv'
<1>1. PICK e \in Queued : /\ tasks' = [tasks EXCEPT ![e].queued = @ - 1]
                          /\ stack' = [stack EXCEPT ![Main] = <<Task("Execute", e)>>]
  BY DEF ExecuteNewTask
<1>2. /\ executor.pc = "client" /\ event' = event
      /\ executor' = [executor EXCEPT !.pc = "executing"]
  BY DEF ExecuteNewTask
<1>3. /\ TasksOK(tasks', AllEvents) /\ StacksOK(stack', AllEvents)
      /\ executor.cancelled => \A x \in AllEvents : tasks'[x].descheduled = 0
  BY <1>1, <1>2, TakenTask DEF Thread
<1>4. /\ DOMAIN executor' = ExecutorFields /\ executor'.pc = "executing" /\ executor'.task = executor.task
      /\ executor'.pipelines = executor.pipelines /\ executor'.cancelled = executor.cancelled
      /\ executor'.weak_references = executor.weak_references
      /\ executor'.to_schedule = executor.to_schedule
  BY <1>2, Executing DEF ExecutorFields
<1> QED
  BY <1>2, <1>3, <1>4, Executing, Combine

\* WorkOnTasks keeps the invariant.
LEMMA WorkOnTasksKeeps ==
  ASSUME IInv, UNCHANGED buildVars, WorkOnTasks
  PROVE  IInv'
<1>1. PICK e \in Queued : /\ tasks' = [tasks EXCEPT ![e].queued = @ - 1]
                          /\ stack' = [stack EXCEPT ![Main] = <<Task("Execute", e)>>]
  BY DEF WorkOnTasks
<1>2. executor.pc = "cancelling" /\ event' = event /\ executor' = executor
  BY DEF WorkOnTasks
<1>3. /\ TasksOK(tasks', AllEvents) /\ StacksOK(stack', AllEvents)
      /\ executor.cancelled => \A x \in AllEvents : tasks'[x].descheduled = 0
  BY <1>1, <1>2, TakenTask DEF Thread
<1> QED
  BY <1>2, <1>3, Executing, Combine

\* PartialTask keeps the invariant.
LEMMA PartialTaskKeeps ==
  ASSUME IInv, UNCHANGED buildVars, PartialTask
  PROVE  IInv'
<1> DEFINE f == Head(stack[Main])
<1>1. /\ executor.pc = "executing" /\ stack[Main] # <<>> /\ f.fn = "Execute"
      /\ event' = event /\ tasks' = tasks
      /\ stack' = [stack EXCEPT ![Main] = <<>>]
      /\ executor' = [executor EXCEPT !.task = f.event]
  BY DEF PartialTask, At
<1>2. Main \in Thread
  BY DEF Thread
<1>3. FrameOK(f, AllEvents)
  BY <1>1, <1>2, Working
<1> HIDE DEF f
<1>4. f.event \in TaskEvents
  BY <1>1, <1>3 DEF FrameOK, TaskEvents
<1>5. StacksOK(stack', AllEvents)
  BY <1>1, <1>2, NoCall, Executing, NewStack
<1>6. /\ DOMAIN executor' = ExecutorFields /\ executor'.pc = "executing" /\ executor'.task = f.event
      /\ executor'.pipelines = executor.pipelines /\ executor'.cancelled = executor.cancelled
      /\ executor'.weak_references = executor.weak_references
      /\ executor'.to_schedule = executor.to_schedule
  BY <1>1, Executing DEF ExecutorFields
<1> QED
  BY <1>1, <1>4, <1>5, <1>6, Executing, Combine

\* Descheduled tasks are dropped.
LEMMA ForgottenTasks ==
  ASSUME IInv, executor.pc # "building", tasks' = Forgotten
  PROVE  TasksOK(tasks', AllEvents) /\ \A e \in AllEvents : tasks'[e].descheduled = 0
<1>1. TasksOK(tasks, AllEvents)
  BY Executing
<1> QED
  BY <1>1 DEF Forgotten, TasksOK, NoTasks

\* An error ends the query without waiting.
LEMMA ThrowKeeps ==
  ASSUME IInv, UNCHANGED buildVars, executor.pc \in {"client", "executing"}, Throw
  PROVE  IInv'
<1>1. /\ event' = event /\ stack' = stack
      /\ executor' = [executor EXCEPT !.pc = "ended", !.events = {}, !.pipelines = {}, !.task = NoEvent]
  BY DEF Throw, EndQuery
<1>2. TasksOK(tasks', AllEvents) /\ \A e \in AllEvents : tasks'[e].descheduled = 0
  BY ForgottenTasks DEF Throw
<1>3. executor.weak_references = {}
  BY Executing
<1>4. /\ DOMAIN executor' = ExecutorFields /\ executor'.pc = "ended" /\ executor'.task = NoEvent
      /\ executor'.weak_references = {} /\ executor'.to_schedule = executor.to_schedule
  BY <1>1, <1>3, Executing DEF ExecutorFields
<1> QED
  BY <1>1, <1>2, <1>4, Executing, Combine

\* EndExecuteTask keeps the invariant.
LEMMA EndExecuteTaskKeeps ==
  ASSUME IInv, UNCHANGED buildVars, EndExecuteTask
  PROVE  IInv'
<1>1. CASE executor.error
  BY <1>1, ThrowKeeps DEF EndExecuteTask
<1>2. CASE ~executor.error
  BY <1>2, PlaceKeeps DEF EndExecuteTask
<1> QED
  BY <1>1, <1>2

\* ResultReady keeps the invariant.
LEMMA ResultReadyKeeps ==
  ASSUME IInv, UNCHANGED buildVars, ResultReady
  PROVE  IInv'
<1>1. CASE executor.error
  BY <1>1, ThrowKeeps DEF ResultReady
<1>2. CASE ~executor.error
  <2>1. /\ executor.pc = "client" /\ event' = event /\ tasks' = tasks /\ stack' = stack
        /\ executor' = [executor EXCEPT !.pc = "ready", !.pipelines = {}]
    BY <1>2 DEF ResultReady
  <2>2. /\ DOMAIN executor' = ExecutorFields /\ executor'.pc = "ready" /\ executor'.task = executor.task
        /\ executor'.pipelines = {} /\ executor'.cancelled = executor.cancelled
        /\ executor'.weak_references = executor.weak_references
        /\ executor'.to_schedule = executor.to_schedule
    BY <2>1, Executing DEF ExecutorFields
  <2> QED
    BY <2>1, <2>2, Executing, Combine
<1> QED
  BY <1>1, <1>2

\* The executor hands its pipelines to weak_references.
LEMMA CancelTasksKeeps ==
  ASSUME IInv, UNCHANGED buildVars, executor.pc \in {"client", "ready"}, CancelTasks
  PROVE  IInv'
<1>1. /\ event' = event /\ stack' = stack
      /\ executor' = [executor EXCEPT !.pc = "cancelling", !.task = NoEvent, !.cancelled = TRUE,
                                      !.weak_references = executor.pipelines,
                                      !.pipelines = {}, !.events = {}]
  BY DEF CancelTasks
<1>2. TasksOK(tasks', AllEvents) /\ \A e \in AllEvents : tasks'[e].descheduled = 0
  BY ForgottenTasks DEF CancelTasks
<1>3. /\ DOMAIN executor' = ExecutorFields /\ executor'.pc = "cancelling" /\ executor'.task = NoEvent
      /\ executor'.cancelled = TRUE /\ executor'.weak_references = executor.pipelines
      /\ executor'.to_schedule = executor.to_schedule
  BY <1>1, Executing DEF ExecutorFields
<1>4. executor.pipelines = Current \/ executor.pipelines = {}
  BY Executing
<1> QED
  BY <1>1, <1>2, <1>3, <1>4, Executing, Combine

\* CancelTasks has seen every pipeline go: no event that has tasks is left, so
\* there is no task in the queue, and no thread has a call.
LEMMA EndCancelTasksKeeps ==
  ASSUME IInv, UNCHANGED buildVars, EndCancelTasks
  PROVE  IInv'
<1>1. /\ executor.pc = "waiting" /\ event' = event /\ tasks' = tasks /\ stack' = stack
      /\ executor' = [executor EXCEPT !.pc = "ended", !.events = {}, !.pipelines = {}, !.task = NoEvent]
      /\ \A p \in executor.weak_references : ~PipelineAlive(p)
  BY DEF EndCancelTasks, EndQuery
<1>2. /\ DOMAIN executor' = ExecutorFields /\ executor'.pc = "ended" /\ executor'.task = NoEvent
      /\ executor'.weak_references = executor.weak_references /\ executor'.cancelled = executor.cancelled
      /\ executor'.to_schedule = executor.to_schedule
  BY <1>1, Executing DEF ExecutorFields
<1>3. ASSUME executor.weak_references # {}
      PROVE  Queued' = {} /\ \A t \in Thread : stack'[t] = <<>>
  <2>1. executor.weak_references = Current
    BY <1>1, <1>3, Executing
  <2>2. EventsOK(event, AllEvents) /\ TasksOK(tasks, AllEvents) /\ StacksOK(stack, AllEvents)
    BY <1>1, Executing
  <2>3. ASSUME NEW e \in AllEvents, e[1] # "complete"
        PROVE  ~Alive(e)
    <3>1. e[1] \in EventKinds /\ PipelineOf(e) \in Current
      BY <2>3, EventsKeepPipelines DEF IInv
    <3>2. ~PipelineAlive(PipelineOf(e))
      BY <1>1, <2>1, <3>1
    <3>3. \/ e[1] \in {"event", "finish", "finalize"} /\ e[2] = PipelineOf(e)
          \/ e[1] = "initialize" /\ Base(e[2]) = PipelineOf(e)
      BY <2>3, <3>1 DEF EventKinds, PipelineOf
    <3> QED
      BY <2>2, <3>2, <3>3 DEF PipelineAlive, EventsOK
  <2>4. ASSUME NEW e \in Queued
        PROVE  FALSE
    <3>1. e \in AllEvents /\ tasks[e].queued > 0
      BY <2>2 DEF Queued, EventsOK
    <3>2. e[1] # "complete" /\ tasks[e].queued + tasks[e].descheduled > 0
      BY <2>2, <3>1 DEF TasksOK
    <3> QED
      BY <2>3, <3>1, <3>2 DEF Alive
  <2>5. ASSUME NEW t \in Thread, stack[t] # <<>>
        PROVE  FALSE
    <3>1. StackOK(stack[t], AllEvents)
      BY <2>2 DEF StacksOK
    <3>2. Len(stack[t]) \in DOMAIN stack[t]
      <4>1. stack[t] \in Seq({stack[t][i] : i \in DOMAIN stack[t]})
        BY <3>1 DEF StackOK, IsSeq
      <4>2. Len(stack[t]) \in Nat /\ DOMAIN stack[t] = 1..Len(stack[t]) /\ Len(stack[t]) # 0
        BY <2>5, <4>1
      <4> QED
        BY <4>2
    <3> DEFINE e == stack[t][Len(stack[t])].event
    <3>3. e \in AllEvents /\ e[1] # "complete"
      BY <2>5, <3>1, <3>2 DEF StackOK, FrameOK
    <3>4. OnStack(e, t)
      BY <3>2 DEF OnStack
    <3> QED
      BY <2>3, <3>3, <3>4 DEF Alive
  <2>6. Queued' = Queued
    BY <1>1 DEF Queued
  <2> QED
    BY <1>1, <2>4, <2>5, <2>6
<1> QED
  BY <1>1, <1>2, <1>3, Executing, Combine

-----------------------------------------------------------------------------

\* Nothing is built or scheduled yet.
LEMMA InitInv == Init => IInv
<1> SUFFICES ASSUME Init PROVE IInv
  OBVIOUS
<1>1. IsPlan(plan) /\ build = [NoPipelines EXCEPT !.this_pipeline = [op \in DOMAIN plan |-> NoPipeline]]
  BY PipelinesAssumption DEF Init, BuildInit
<1>2. /\ DOMAIN build = BuildFields /\ build.pipelines = <<>> /\ build.metas = <<>>
      /\ build.calls = <<>> /\ build.root = 0
  BY <1>1 DEF NoPipelines, BuildFields
<1>3. Shape(build)
  BY <1>2, NoCalls DEF Shape
<1>4. /\ DOMAIN executor = ExecutorFields /\ executor.pc = "building" /\ executor.task = NoEvent
      /\ executor.to_schedule = {} /\ executor.weak_references = {}
      /\ event = <<>> /\ stack = [t \in Thread |-> <<>>]
  BY DEF Init, ExecutorFields
<1>5. ExecInv
  BY <1>4 DEF ExecInv, ObjectsInv, PipelinesInv, CancelledInv, EndedInv
<1> QED
  BY <1>1, <1>3, <1>5 DEF IInv

\* While the pipelines are built, there is no execution.
LEMMA BuildingKeeps ==
  ASSUME IInv, BuildStep, UNCHANGED execVars
  PROVE  IInv'
<1>1. plan' = plan /\ Shape(build)'
  BY BuildStepKeeps DEF IInv
<1>2. event' = event /\ tasks' = tasks /\ stack' = stack /\ executor' = executor
  BY DEF execVars
<1>3. phase # "scheduled"
  BY Zenon DEF BuildStep, InitializeInternal, BuildSource, BuildStreaming, BuildSink, BuildCreateBF,
         BuildPipelinesFromRelated, BuildUseBF, BuildJoin, BuildJoinSource, BuildUnion,
         BuildUnionOrder, BuildIEJoin, BuildIEJoinRight, BuildIEJoinFinish, Ready, Calling
<1>4. executor.pc = "building"
  BY <1>3 DEF IInv, ExecInv, ObjectsInv
<1>5. ExecInv'
  BY <1>2, <1>4 DEF IInv, ExecInv, ObjectsInv, PipelinesInv, CancelledInv, EndedInv
<1> QED
  BY <1>1, <1>5 DEF IInv

\* The steps of the client.
LEMMA ClientKeeps ==
  ASSUME IInv, UNCHANGED buildVars, Client
  PROVE  IInv'
<1>1. ASSUME EndInitialize PROVE IInv'
  BY <1>1, PlaceKeeps DEF EndInitialize
<1>2. ASSUME EndWorkOnTasks PROVE IInv'
  BY <1>2, PlaceKeeps DEF EndWorkOnTasks
<1>3. ASSUME ExecuteAfterError PROVE IInv'
  BY <1>3, ThrowKeeps DEF ExecuteAfterError
<1>4. ASSUME Cleanup PROVE IInv'
  BY <1>4, CancelTasksKeeps DEF Cleanup
<1> QED
  BY <1>1, <1>2, <1>3, <1>4, ScheduleEventsKeeps, ScheduleInitialKeeps, ExecuteKeptTaskKeeps,
     ExecuteNewTaskKeeps, EndExecuteTaskKeeps, ResultReadyKeeps, WorkOnTasksKeeps,
     EndCancelTasksKeeps DEF Client

\* Every step keeps the invariant.
LEMMA NextInv == IInv /\ [Next]_vars => IInv'
<1> SUFFICES ASSUME IInv, [Next]_vars PROVE IInv'
  OBVIOUS
<1>1. CASE BuildStep /\ UNCHANGED execVars
  BY <1>1, BuildingKeeps
<1>2. CASE ClientStep
  BY <1>2, ClientKeeps, WorkStep, PartialTaskKeeps DEF ClientStep, Thread
<1>3. CASE CloseQuery /\ UNCHANGED buildVars
  BY <1>3, CancelTasksKeeps DEF CloseQuery
<1>4. ASSUME NEW w \in Workers, WorkerStep(w)
      PROVE  IInv'
  <2>1. w \in Thread /\ UNCHANGED buildVars
    BY <1>4 DEF WorkerStep, Thread
  <2>2. CASE Work(w)
    BY <2>1, <2>2, WorkStep
  <2>3. CASE TakeTask(w) /\ executor.pc # "building"
    BY <2>1, <2>3, TakeTaskKeeps
  <2>4. CASE TakeTask(w) /\ executor.pc = "building"
    <3>1. event = <<>>
      BY <2>4 DEF IInv, ExecInv, ObjectsInv
    <3>2. DOMAIN event = {}
      BY <3>1, NoCalls
    <3> QED
      BY <2>4, <3>2 DEF TakeTask, Queued
  <2> QED
    BY <1>4, <2>2, <2>3, <2>4 DEF WorkerStep
<1>5. CASE Callback
  <2>1. PICK e \in DOMAIN event : RescheduleTask(e)
    BY <1>5 DEF Callback
  <2>2. UNCHANGED buildVars
    BY <1>5 DEF Callback
  <2>3. executor.pc # "building"
    BY <2>1 DEF RescheduleTask, LockFree
  <2>4. e \in AllEvents
    BY <2>1, <2>3, Executing DEF EventsOK
  <2> QED
    BY <2>1, <2>2, <2>3, <2>4, RescheduleTaskKeeps
<1>6. CASE UNCHANGED vars
  <2>1. UNCHANGED buildVars /\ UNCHANGED execVars
    BY <1>6 DEF vars
  <2>2. event' = event /\ tasks' = tasks /\ stack' = stack /\ executor' = executor
    BY <2>1 DEF execVars
  <2>3. /\ AllEvents' = AllEvents /\ Scheduled' = Scheduled /\ Current' = Current
        /\ TaskEvents' = TaskEvents /\ plan' = plan /\ phase' = phase /\ Shape(build)'
    BY <2>1, SameBuild DEF IInv
  <2>4. ExecInv'
    BY <2>2, <2>3 DEF IInv, ExecInv, ObjectsInv, PipelinesInv, CancelledInv, EndedInv, Queued
  <2> QED
    BY <2>3, <2>4 DEF IInv
<1> QED
  BY <1>1, <1>2, <1>3, <1>4, <1>5, <1>6 DEF Next

\* A query that is closed while it has pipelines ends after all of its tasks:
\* once CancelTasks has seen all of its weak references expire, no task is in
\* the queue and no thread has a call that refers to the executor.
THEOREM ClosingWaits == Spec => []CloseWaitsForTasks
<1>1. IInv => CloseWaitsForTasks
  <2> SUFFICES ASSUME IInv, executor.pc = "ended", executor.weak_references # {}
               PROVE  NobodyUsesExecutor
    BY DEF CloseWaitsForTasks
  <2>1. Queued = {} /\ \A t \in Thread : stack[t] = <<>>
    BY DEF IInv, ExecInv, EndedInv
  <2> QED
    BY <2>1, NoCalls DEF NobodyUsesExecutor
<1> QED
  BY <1>1, InitInv, NextInv, PTL DEF Spec

-----------------------------------------------------------------------------
(* The calls of all threads as a set *)

CallsOf(t, s) == {<<t, Len(s) - i, s[i]>> : i \in DOMAIN s}

CallsIn(st) == UNION {CallsOf(t, st[t]) : t \in Thread}

\* A call is known by its thread and its depth.
SameCall(b, c) == b[1] = c[1] /\ b[2] = c[2]
Distinct(C) == \A b, c \in C : SameCall(b, c) => b = c
Fresh(C, c) == \A b \in C : ~SameCall(b, c)

\* The stacks are sequences.
Stacks(st) == DOMAIN st = Thread /\ \A t \in Thread : IsSeq(st[t])

\* What a sequence without its first element is.
LEMMA TailOf ==
  ASSUME NEW s, IsSeq(s), s # <<>>
  PROVE  /\ Len(s) \in Nat \ {0} /\ DOMAIN s = 1..Len(s) /\ Head(s) = s[1]
         /\ IsSeq(Tail(s)) /\ Len(Tail(s)) = Len(s) - 1 /\ DOMAIN Tail(s) = 1..(Len(s) - 1)
         /\ \A i \in 1..(Len(s) - 1) : Tail(s)[i] = s[i + 1]
<1> DEFINE S == {s[i] : i \in DOMAIN s}
<1>1. s \in Seq(S)
  BY DEF IsSeq
<1> HIDE DEF S
<1>2. /\ Tail(s) \in Seq(S) /\ Len(Tail(s)) = Len(s) - 1
      /\ \A i \in 1..Len(Tail(s)) : Tail(s)[i] = s[i + 1]
  BY <1>1, HeadTailProperties
<1>3. /\ IsSeq(Tail(s)) /\ DOMAIN Tail(s) = 1..Len(Tail(s))
      /\ Len(s) \in Nat /\ DOMAIN s = 1..Len(s)
  BY <1>1, <1>2, SeqIsSeq
<1>4. Len(s) # 0 /\ Head(s) = s[1]
  BY <1>1
<1> QED
  BY <1>2, <1>3, <1>4

\* What a sequence with one more element in front is.
LEMMA PushOf ==
  ASSUME NEW s, IsSeq(s), NEW f
  PROVE  /\ Len(s) \in Nat /\ DOMAIN s = 1..Len(s)
         /\ IsSeq(<<f>> \o s) /\ Len(<<f>> \o s) = Len(s) + 1 /\ DOMAIN (<<f>> \o s) = 1..(Len(s) + 1)
         /\ (<<f>> \o s)[1] = f /\ \A i \in 1..Len(s) : (<<f>> \o s)[i + 1] = s[i]
<1> DEFINE S == {s[i] : i \in DOMAIN s} \cup {f}
           r == <<f>> \o s
<1>1. s \in Seq(S) /\ <<f>> \in Seq(S) /\ Len(<<f>>) = 1 /\ <<f>>[1] = f
  BY DEF IsSeq
<1> HIDE DEF S
<1>2. /\ r \in Seq(S) /\ Len(r) = 1 + Len(s) /\ Len(s) \in Nat
      /\ \A i \in 1..(1 + Len(s)) : r[i] = IF i <= 1 THEN <<f>>[i] ELSE s[i - 1]
  <2>1. ConcatOf(S, <<f>>, s, r)
    BY <1>1, ConcatIs
  <2> HIDE DEF r
  <2> QED
    BY <1>1, <2>1 DEF ConcatOf
<1> HIDE DEF r
<1>3. IsSeq(r) /\ DOMAIN r = 1..Len(r) /\ DOMAIN s = 1..Len(s)
  BY <1>1, <1>2, SeqIsSeq
<1>4. r[1] = f
  BY <1>1, <1>2
<1>5. ASSUME NEW i \in 1..Len(s)
      PROVE  r[i + 1] = s[i]
  <2>1. i + 1 \in 1..(1 + Len(s)) /\ ~(i + 1 <= 1) /\ (i + 1) - 1 = i
    BY <1>2
  <2> QED
    BY <1>2, <2>1
<1> QED
  BY <1>2, <1>3, <1>4, <1>5 DEF r

\* The depths of the calls of a thread.
LEMMA Depths ==
  ASSUME NEW t, NEW s, IsSeq(s), NEW c \in CallsOf(t, s)
  PROVE  /\ Len(s) \in Nat /\ DOMAIN s = 1..Len(s)
         /\ c[1] = t /\ c[2] \in 0..(Len(s) - 1) /\ c[3] = s[Len(s) - c[2]]
         /\ Len(s) - c[2] \in DOMAIN s /\ c = <<t, c[2], c[3]>>
<1>1. Len(s) \in Nat /\ DOMAIN s = 1..Len(s)
  BY IsSeqAppend
<1>2. PICK i \in DOMAIN s : c = <<t, Len(s) - i, s[i]>>
  BY DEF CallsOf
<1>3. c[1] = t /\ c[2] = Len(s) - i /\ c[3] = s[i]
  BY <1>2
<1>4. c[2] \in 0..(Len(s) - 1) /\ Len(s) - c[2] = i
  BY <1>1, <1>3
<1> QED
  BY <1>1, <1>2, <1>3, <1>4

\* A call is pushed.
LEMMA CallsPush ==
  ASSUME NEW t, NEW s, IsSeq(s), NEW f
  PROVE  CallsOf(t, <<f>> \o s) = CallsOf(t, s) \cup {<<t, Len(s), f>>}
<1> DEFINE r == <<f>> \o s
<1>1. /\ Len(s) \in Nat /\ DOMAIN s = 1..Len(s) /\ Len(r) = Len(s) + 1 /\ DOMAIN r = 1..(Len(s) + 1)
      /\ r[1] = f /\ \A i \in 1..Len(s) : r[i + 1] = s[i]
  BY PushOf
<1> HIDE DEF r
<1>2. ASSUME NEW i \in DOMAIN r
      PROVE  <<t, Len(r) - i, r[i]>> \in CallsOf(t, s) \cup {<<t, Len(s), f>>}
  <2>1. CASE i = 1
    <3>1. Len(r) - i = Len(s)
      BY <1>1, <2>1
    <3> QED
      BY <1>1, <2>1, <3>1
  <2>2. CASE i # 1
    <3>1. i - 1 \in DOMAIN s /\ (i - 1) + 1 = i /\ Len(r) - i = Len(s) - (i - 1)
      BY <1>1, <2>2
    <3>2. r[i] = s[i - 1]
      BY <1>1, <3>1
    <3> QED
      BY <3>1, <3>2 DEF CallsOf
  <2> QED
    BY <2>1, <2>2
<1>3. ASSUME NEW i \in DOMAIN s
      PROVE  <<t, Len(s) - i, s[i]>> \in CallsOf(t, r)
  <2>1. i + 1 \in DOMAIN r /\ r[i + 1] = s[i] /\ Len(r) - (i + 1) = Len(s) - i
    BY <1>1
  <2> QED
    BY <2>1 DEF CallsOf
<1>4. <<t, Len(s), f>> \in CallsOf(t, r)
  <2>1. 1 \in DOMAIN r /\ r[1] = f /\ Len(r) - 1 = Len(s)
    BY <1>1
  <2> QED
    BY <2>1 DEF CallsOf
<1>5. CallsOf(t, r) \subseteq CallsOf(t, s) \cup {<<t, Len(s), f>>}
  BY <1>2 DEF CallsOf
<1>6. CallsOf(t, s) \subseteq CallsOf(t, r)
  BY <1>3 DEF CallsOf
<1> QED
  BY <1>4, <1>5, <1>6 DEF r

\* A sequence is its first element and the rest.
LEMMA HeadAndTail ==
  ASSUME NEW s, IsSeq(s), s # <<>>
  PROVE  s = <<Head(s)>> \o Tail(s)
<1> DEFINE r == <<Head(s)>> \o Tail(s)
<1>1. /\ Len(s) \in Nat \ {0} /\ DOMAIN s = 1..Len(s) /\ Head(s) = s[1]
      /\ IsSeq(Tail(s)) /\ Len(Tail(s)) = Len(s) - 1
      /\ \A i \in 1..(Len(s) - 1) : Tail(s)[i] = s[i + 1]
  BY TailOf
<1>2. /\ IsSeq(r) /\ DOMAIN r = 1..(Len(Tail(s)) + 1)
      /\ r[1] = Head(s) /\ \A i \in 1..Len(Tail(s)) : r[i + 1] = Tail(s)[i]
  BY <1>1, PushOf
<1> HIDE DEF r
<1>3. DOMAIN r = DOMAIN s
  BY <1>1, <1>2
<1>4. ASSUME NEW i \in DOMAIN s
      PROVE  r[i] = s[i]
  <2>1. CASE i = 1
    BY <1>1, <1>2, <2>1
  <2>2. CASE i # 1
    <3>1. i - 1 \in 1..(Len(s) - 1) /\ (i - 1) + 1 = i
      BY <1>1, <2>2
    <3> QED
      BY <1>1, <1>2, <3>1
  <2> QED
    BY <2>1, <2>2
<1>5. r = [i \in DOMAIN r |-> r[i]] /\ s = [i \in DOMAIN s |-> s[i]]
  BY <1>1, <1>2 DEF IsSeq
<1>6. r = s
  BY <1>3, <1>4, <1>5
<1> QED
  BY <1>6 DEF r

\* A call returns.
LEMMA CallsPop ==
  ASSUME NEW t, NEW s, IsSeq(s), s # <<>>
  PROVE  /\ CallsOf(t, s) = CallsOf(t, Tail(s)) \cup {<<t, Len(s) - 1, Head(s)>>}
         /\ <<t, Len(s) - 1, Head(s)>> \notin CallsOf(t, Tail(s))
<1> DEFINE r == Tail(s)
           f == Head(s)
<1>1. Len(s) \in Nat \ {0} /\ IsSeq(r) /\ Len(r) = Len(s) - 1
  BY TailOf
<1>2. s = <<f>> \o r
  BY HeadAndTail
<1> HIDE DEF r, f
<1>3. CallsOf(t, <<f>> \o r) = CallsOf(t, r) \cup {<<t, Len(r), f>>}
  BY <1>1, CallsPush, ZenonT(60)
<1>4. ASSUME <<t, Len(s) - 1, f>> \in CallsOf(t, r)
      PROVE  FALSE
  <2>1. <<t, Len(s) - 1, f>>[2] \in 0..(Len(r) - 1)
    BY <1>1, <1>4, Depths
  <2> QED
    BY <1>1, <2>1
<1> QED
  BY <1>1, <1>2, <1>3, <1>4 DEF r, f

\* No calls, and one.
LEMMA FewCalls ==
  ASSUME NEW t, NEW f
  PROVE  CallsOf(t, <<>>) = {} /\ CallsOf(t, <<f>>) = {<<t, 0, f>>} /\ IsSeq(<<>>) /\ IsSeq(<<f>>)
<1>1. IsSeq(<<>>) /\ IsSeq(<<f>>) /\ Len(<<f>>) = 1 /\ DOMAIN <<f>> = {1} /\ <<f>>[1] = f
  BY DEF IsSeq
<1>2. CallsOf(t, <<>>) = {}
  BY DEF CallsOf
<1> DEFINE s == <<f>>
<1> HIDE DEF s
<1>3. Len(s) = 1 /\ DOMAIN s = {1} /\ s[1] = f
  BY <1>1 DEF s
<1>4. CallsOf(t, s) = {<<t, 1 - 1, f>>}
  BY <1>3 DEF CallsOf
<1> QED
  BY <1>1, <1>2, <1>4 DEF s

\* The calls after one thread's stack has changed.
LEMMA CallsOfOne ==
  ASSUME NEW st, Stacks(st), NEW t \in Thread, NEW s, IsSeq(s)
  PROVE  /\ CallsIn([st EXCEPT ![t] = s]) = {c \in CallsIn(st) : c[1] # t} \cup CallsOf(t, s)
         /\ {c \in CallsIn(st) : c[1] = t} = CallsOf(t, st[t])
         /\ Stacks([st EXCEPT ![t] = s])
<1> DEFINE n == [st EXCEPT ![t] = s]
<1>1. DOMAIN n = Thread /\ n[t] = s /\ \A u \in Thread : u # t => n[u] = st[u]
  BY DEF Stacks
<1>2. \A u \in Thread : \A c \in CallsOf(u, st[u]) : c[1] = u
  BY Depths DEF Stacks
<1>3. \A c \in CallsOf(t, s) : c[1] = t
  BY Depths
<1> HIDE DEF n
<1>4. CallsIn(n) = {c \in CallsIn(st) : c[1] # t} \cup CallsOf(t, s)
  BY <1>1, <1>2, <1>3 DEF CallsIn
<1>5. {c \in CallsIn(st) : c[1] = t} = CallsOf(t, st[t])
  BY <1>2 DEF CallsIn
<1>6. Stacks(n)
  BY <1>1 DEF Stacks
<1> QED
  BY <1>4, <1>5, <1>6 DEF n

\* A call is known by its thread and its depth.
LEMMA CallsDistinct ==
  ASSUME NEW st, Stacks(st)
  PROVE  Distinct(CallsIn(st))
<1> SUFFICES ASSUME NEW b \in CallsIn(st), NEW c \in CallsIn(st), b[1] = c[1], b[2] = c[2]
             PROVE  b = c
  BY DEF Distinct, SameCall
<1>1. PICK t \in Thread : b \in CallsOf(t, st[t])
  BY DEF CallsIn
<1>2. PICK u \in Thread : c \in CallsOf(u, st[u])
  BY DEF CallsIn
<1>3. /\ IsSeq(st[t]) /\ IsSeq(st[u])
  BY DEF Stacks
<1>4. b[1] = t /\ b[3] = st[t][Len(st[t]) - b[2]] /\ b = <<t, b[2], b[3]>>
  BY <1>1, <1>3, Depths
<1>5. c[1] = u /\ c[3] = st[u][Len(st[u]) - c[2]] /\ c = <<u, c[2], c[3]>>
  BY <1>2, <1>3, Depths
<1> QED
  BY <1>4, <1>5

\* The innermost call of a thread.
Top(st, t) == <<t, Len(st[t]) - 1, Head(st[t])>>

\* A thread's innermost call returns.
LEMMA Popped ==
  ASSUME NEW st, Stacks(st), NEW t \in Thread, st[t] # <<>>
  PROVE  /\ Top(st, t) \in CallsIn(st)
         /\ CallsIn([st EXCEPT ![t] = Tail(st[t])]) = CallsIn(st) \ {Top(st, t)}
         /\ Stacks([st EXCEPT ![t] = Tail(st[t])])
<1> DEFINE s == st[t]
           a == Top(st, t)
<1>1. IsSeq(s) /\ IsSeq(Tail(s))
  BY TailOf DEF Stacks
<1>2. CallsOf(t, s) = CallsOf(t, Tail(s)) \cup {a} /\ a \notin CallsOf(t, Tail(s))
  BY <1>1, CallsPop DEF Top
<1>3. /\ CallsIn([st EXCEPT ![t] = Tail(s)]) = {c \in CallsIn(st) : c[1] # t} \cup CallsOf(t, Tail(s))
      /\ {c \in CallsIn(st) : c[1] = t} = CallsOf(t, s)
      /\ Stacks([st EXCEPT ![t] = Tail(s)])
  BY <1>1, CallsOfOne
<1>4. a[1] = t
  BY DEF Top
<1> HIDE DEF s, a
<1> QED
  BY <1>2, <1>3, <1>4 DEF s, a

\* A thread makes a call.
LEMMA Pushed ==
  ASSUME NEW st, Stacks(st), NEW t \in Thread, NEW f
  PROVE  /\ CallsIn([st EXCEPT ![t] = <<f>> \o st[t]]) = CallsIn(st) \cup {<<t, Len(st[t]), f>>}
         /\ Fresh(CallsIn(st), <<t, Len(st[t]), f>>)
         /\ Stacks([st EXCEPT ![t] = <<f>> \o st[t]])
<1> DEFINE s == st[t]
           r == <<f>> \o s
<1>1. IsSeq(s) /\ IsSeq(r)
  BY PushOf DEF Stacks
<1>2. CallsOf(t, r) = CallsOf(t, s) \cup {<<t, Len(s), f>>}
  BY <1>1, CallsPush
<1> HIDE DEF r
<1>3. /\ CallsIn([st EXCEPT ![t] = r]) = {c \in CallsIn(st) : c[1] # t} \cup CallsOf(t, r)
      /\ {c \in CallsIn(st) : c[1] = t} = CallsOf(t, s)
      /\ Stacks([st EXCEPT ![t] = r])
  BY <1>1, CallsOfOne
<1>4. ASSUME NEW b \in CallsIn(st), b[1] = t, b[2] = Len(s)
      PROVE  FALSE
  <2>1. b \in CallsOf(t, s)
    BY <1>3, <1>4
  <2>2. b[2] \in 0..(Len(s) - 1) /\ Len(s) \in Nat
    BY <1>1, <2>1, Depths
  <2> QED
    BY <1>4, <2>2
<1>5. Fresh(CallsIn(st), <<t, Len(s), f>>)
  BY <1>4 DEF Fresh, SameCall
<1> HIDE DEF s
<1>6. CallsIn([st EXCEPT ![t] = r]) = CallsIn(st) \cup {<<t, Len(s), f>>}
  BY <1>2, <1>3
<1> QED
  BY <1>3, <1>5, <1>6 DEF r, s

-----------------------------------------------------------------------------
(* The invariant.  C stands for the calls, ev for the events, ts for the    *)
(* tasks, ex for the executor; E are all events of the execution, I those   *)
(* that insert another one, D the dependencies, S the MetaPipelines.        *)

Inserting == {x \in AllEvents : InsertsEvent(x)}

FinishCalls(C) == {c \in C : c[3].fn = "Finish"}

\* The events one of whose tasks is about to be counted.
Ending(C) == {c[3].event : c \in {b \in C : b[3].fn = "FinishTask"}}

\* Parents are told of a finished event, by one call.
FinishInv(F, ev, E) ==
  /\ \A c \in F : /\ c[3].event \in E /\ ev[c[3].event].finished
                  /\ c[3].parents \subseteq ev[c[3].event].parents
  /\ \A b, c \in F : b[3].event = c[3].event => b = c

\* A dependency is in the parents of one event; one of an inserted event is
\* with the event that inserted it.
ParentsInv(ev, E, I) ==
  \A x \in E : \A d \in ev[x].parents :
    /\ \A y \in E : d \in ev[y].parents => x = y
    /\ d.event[1] = "finalize" =>
         /\ x \in I /\ d = Dependency(FinalizeEvent(x[2]), x, 0)
         /\ ev[FinalizeEvent(x[2])].total_dependencies = 1

\* The dependencies that have not been counted, and those of e.
Waiting(F, ev, E) ==
  (UNION {ev[x].parents : x \in {y \in E : ~ev[y].finished}}) \cup (UNION {c[3].parents : c \in F})

Pending(F, ev, E, e) == {d \in Waiting(F, ev, E) : d.event = e}

DependencyCount(F, ev, E, e) ==
  /\ IsFiniteSet(Pending(F, ev, E, e))
  /\ ev[e].finished_dependencies + Cardinality(Pending(F, ev, E, e)) <= ev[e].total_dependencies

\* An event that still waits has not been scheduled, nor has one that is not yet inserted.
EventInv(ev, e) ==
  /\ ev[e].finished_dependencies \in Nat /\ ev[e].total_dependencies \in Nat
  /\ ev[e].finished_tasks \in 0..ev[e].total_tasks /\ ev[e].total_tasks \in 0..MaxTasks
  /\ ev[e].finished \in BOOLEAN
  /\ \/ ev[e].finished_dependencies < ev[e].total_dependencies
     \/ e[1] = "finalize" /\ ev[e].total_dependencies = 0
     => ev[e].total_tasks = 0 /\ ~ev[e].finished
  /\ ev[e].finished => ev[e].finished_tasks = ev[e].total_tasks
  /\ e[1] = "initialize" => ev[e].total_dependencies = 0
  /\ e[1] = "finish" => ev[e].total_tasks <= 1

\* A CreateBF's finalize event is in the graph from the moment its finish task ends.
InsertedInv(X, ev, x) ==
  LET new == FinalizeEvent(x[2])
  IN  /\ \/ ev[new].total_dependencies = 0 /\ ev[new].parents = {}
         \/ ev[new].total_dependencies = 1 /\ ev[x].parents = {Dependency(new, x, 0)}
      /\ ev[new].total_dependencies = 1 <=> (ev[x].finished \/ x \in X)

\* No dependency gets lost: it is with the event it is on, or with the one inserted after it.
HomeInv(ev, E, I, d) ==
  d.on \in E => d \in ev[d.on].parents \/ (d.on \in I /\ d \in ev[FinalizeEvent(d.on[2])].parents)

Links(F, X, ev, E, I, D) ==
  /\ FinishInv(F, ev, E)
  /\ ParentsInv(ev, E, I)
  /\ \A e \in E : EventInv(ev, e)
  /\ \A e \in E : DependencyCount(F, ev, E, e)
  /\ \A x \in I : InsertedInv(X, ev, x)
  /\ \A d \in D : HomeInv(ev, E, I, d)

\* The tasks of e that calls have, and the tasks that are blocked but not yet descheduled.
HandsIn(C, e) == UNION {{<<c[1], c[2], n>> : n \in 1..Holds(c[3], e)} : c \in C}
BlockedIn(C, e) == {c \in C : c[3].fn = "Deschedule" /\ c[3].event = e}

\* A call that has a task.
LEMMA InHands ==
  ASSUME NEW C, NEW e, NEW c \in C, Holds(c[3], e) = 1
  PROVE  <<c[1], c[2], 1>> \in HandsIn(C, e)
<1> DEFINE S(d) == {<<d[1], d[2], n>> : n \in 1..Holds(d[3], e)}
<1>1. 1 \in 1..Holds(c[3], e)
  OBVIOUS
<1>2. <<c[1], c[2], 1>> \in S(c)
  BY <1>1, Zenon
<1>3. HandsIn(C, e) = UNION {S(d) : d \in C}
  BY DEF HandsIn
<1> HIDE DEF S
<1> QED
  BY <1>2, <1>3

\* A task is executed by the outermost call of a thread.
CallShape(c) ==
  /\ c[3].fn = "Execute" => c[2] = 0
  /\ c[3].fn = "SetTasks" => c[3].n \in Nat \ {0}

Stock(C, E) ==
  /\ Distinct(C)
  /\ \A c \in C : CallShape(c)
  /\ \A e \in E : IsFiniteSet(HandsIn(C, e)) /\ IsFiniteSet(BlockedIn(C, e))

Hands(C, e)   == Cardinality(HandsIn(C, e))
Blocked(C, e) == Cardinality(BlockedIn(C, e))

Kept(ex, e) == IF ex.task = e THEN 1 ELSE 0

Counted(C, ev, ts, ex, e) ==
  ev[e].finished_tasks + ts[e].queued + ts[e].descheduled + Kept(ex, e) + Hands(C, e)

TaskCount(C, ev, ts, ex, e) ==
  /\ Counted(C, ev, ts, ex, e) <= ev[e].total_tasks
  /\ ex.pc # "ended" /\ ~ex.error /\ ~ex.cancelled => Counted(C, ev, ts, ex, e) = ev[e].total_tasks

CallbackCount(C, ts, ex, e) ==
  /\ ts[e].callbacks <= ex.blocks
  /\ ex.pc # "ended" /\ ~ex.cancelled => ts[e].callbacks = ts[e].descheduled + Blocked(C, e)

TasksInv(C, ev, ts, ex, E) ==
  /\ Stock(C, E)
  /\ \A e \in E : /\ ts[e] \in [queued : Nat, descheduled : Nat, callbacks : Nat]
                  /\ TaskCount(C, ev, ts, ex, e)
                  /\ CallbackCount(C, ts, ex, e)

\* The MetaPipelines that FinalizeFinish has counted.
Completed(F, ev, S) ==
  {m \in S : ev[CompleteEvent(m)].finished /\ \A c \in F : c[3].event # CompleteEvent(m)}

ProgressInv(F, ev, ex, S) ==
  /\ \A m \in ex.to_schedule : ev[InitializeEvent(m)].total_tasks = 0 /\ ~ev[InitializeEvent(m)].finished
  /\ ex.completed_pipelines = Cardinality(Completed(F, ev, S))
  /\ ex.pc = "ready" => ex.completed_pipelines = Cardinality(S)

\* The client has no call when it is between two calls of ExecuteTask, and no
\* kept task while it executes one.
MainInv(st, ex) ==
  /\ ex.pc \in {"client", "ready", "waiting"} => st[Main] = <<>>
  /\ ex.pc = "executing" /\ st[Main] # <<>> => ex.task = NoEvent

ClientInv(ex, E, P) ==
  /\ ex.pc \in {"building", "scheduling", "client", "executing", "ready", "cancelling", "waiting", "ended"}
  /\ ex.blocks \in 0..MaxBlocks
  /\ ex.error \in BOOLEAN /\ ex.cancelled \in BOOLEAN
  /\ ex.cancelled => ex.pc \in {"cancelling", "waiting", "ended"}
  /\ ex.events \subseteq E
  /\ ex.pipelines \subseteq P
  /\ ex.pc = "building" => /\ ex.completed_pipelines = 0 /\ ex.events = {} /\ ex.pipelines = {}
                           /\ ex.blocks = 0 /\ ~ex.error

CountInv(C, ev, ts, ex, E, I, D, S) ==
  /\ Links(FinishCalls(C), Ending(C), ev, E, I, D)
  /\ TasksInv(C, ev, ts, ex, E)
  /\ ProgressInv(FinishCalls(C), ev, ex, S)

CInv ==
  /\ ClientInv(executor, AllEvents, Current)
  /\ MainInv(stack, executor)
  /\ executor.pc # "building" =>
       CountInv(CallsIn(stack), event, tasks, executor, AllEvents, Inserting, Dependencies, Scheduled)

-----------------------------------------------------------------------------
(* Tasks in hand, when a call is made and when it returns *)

\* How many tasks a call has.
LEMMA HoldsOf ==
  ASSUME NEW f, NEW e
  PROVE  /\ f.event # e => Holds(f, e) = 0
         /\ f.event = e /\ f.fn \in {"Execute", "Deschedule", "FinishTask"} => Holds(f, e) = 1
         /\ f.event = e /\ f.fn = "SetTasks" => Holds(f, e) = f.n
         /\ f.fn \in {"Finish", "Flush"} => Holds(f, e) = 0
BY DEF Holds

\* It is a number.
LEMMA HoldsNat ==
  ASSUME NEW c, CallShape(c), NEW e
  PROVE  Holds(c[3], e) \in Nat
<1>1. CASE c[3].event # e
  BY <1>1 DEF Holds
<1>2. CASE c[3].event = e /\ c[3].fn = "SetTasks"
  BY <1>2 DEF Holds, CallShape
<1>3. CASE c[3].event = e /\ c[3].fn # "SetTasks" /\ c[3].fn \in {"Execute", "Deschedule", "FinishTask"}
  BY <1>3, HoldsOf
<1>4. CASE c[3].event = e /\ c[3].fn # "SetTasks" /\ c[3].fn \notin {"Execute", "Deschedule", "FinishTask"}
  BY <1>4 DEF Holds
<1> QED
  BY <1>1, <1>2, <1>3, <1>4

\* The k tasks of the call at depth b of thread a.
TokensOf(a, b, k) == {<<a, b, n>> : n \in 1..k}

\* The tasks of one call are as many as it holds.
LEMMA Tokens ==
  ASSUME NEW a, NEW b, NEW k \in Nat
  PROVE  IsFiniteSet(TokensOf(a, b, k)) /\ Cardinality(TokensOf(a, b, k)) = k
<1> DEFINE T == TokensOf(a, b, k)
           f == [n \in 1..k |-> <<a, b, n>>]
<1>1. f \in Bijection(1..k, T)
  BY DEF TokensOf, Bijection, Injection, Surjection, IsInjective
<1>2. ExistsBijection(1..k, T)
  BY <1>1 DEF ExistsBijection
<1>3. IsFiniteSet(1..k) /\ Cardinality(1..k) = k
  BY FS_Interval
<1> HIDE DEF T
<1>4. IsFiniteSet(T) /\ Cardinality(T) = Cardinality(1..k)
  BY <1>2, <1>3, FS_Bijection
<1> QED
  BY <1>3, <1>4 DEF T

\* The tasks in hand after a call is made.
LEMMA OneMoreHand ==
  ASSUME NEW C, NEW b, Fresh(C, b), NEW e, Holds(b[3], e) \in Nat, IsFiniteSet(HandsIn(C, e))
  PROVE  /\ IsFiniteSet(HandsIn(C \cup {b}, e))
         /\ Hands(C \cup {b}, e) = Hands(C, e) + Holds(b[3], e) /\ Hands(C, e) \in Nat
<1> DEFINE T == TokensOf(b[1], b[2], Holds(b[3], e))
           H == HandsIn(C, e)
           K == HandsIn(C \cup {b}, e)
<1>1. IsFiniteSet(T) /\ Cardinality(T) = Holds(b[3], e)
  BY Tokens
<1>2. K = H \cup T
  BY DEF HandsIn, TokensOf
<1>3. H \cap T = {}
  <2> SUFFICES ASSUME NEW c \in C, NEW n \in 1..Holds(c[3], e), NEW k \in 1..Holds(b[3], e),
                      <<c[1], c[2], n>> = <<b[1], b[2], k>>
               PROVE  FALSE
    BY DEF HandsIn, TokensOf
  <2> QED
    BY DEF Fresh, SameCall
<1> HIDE DEF T, H, K
<1>4. IsFiniteSet(H)
  BY DEF H
<1>5. Cardinality(H) \in Nat
  BY <1>4, FS_CardinalityType
<1>6. IsFiniteSet(H \cup T) /\ Cardinality(H \cup T) = Cardinality(H) + Cardinality(T)
  BY <1>1, <1>3, <1>4, <1>5, FS_Union, FS_EmptySet
<1> QED
  BY <1>1, <1>2, <1>5, <1>6 DEF H, K, Hands

\* Whether a call is about to deschedule a task of e.
Descheduling(f, e) == IF f.fn = "Deschedule" /\ f.event = e THEN 1 ELSE 0

\* The blocked tasks after a call is made.
LEMMA OneMoreBlocked ==
  ASSUME NEW C, NEW b, b \notin C, NEW e, IsFiniteSet(BlockedIn(C, e))
  PROVE  /\ IsFiniteSet(BlockedIn(C \cup {b}, e))
         /\ Blocked(C \cup {b}, e) = Blocked(C, e) + Descheduling(b[3], e) /\ Blocked(C, e) \in Nat
<1> DEFINE B == BlockedIn(C, e)
<1>1. Cardinality(B) \in Nat
  BY FS_CardinalityType
<1>2. CASE b[3].fn = "Deschedule" /\ b[3].event = e
  <2>1. BlockedIn(C \cup {b}, e) = B \cup {b} /\ b \notin B
    BY <1>2 DEF BlockedIn
  <2>2. IsFiniteSet(B \cup {b}) /\ Cardinality(B \cup {b}) = Cardinality(B) + 1
    BY <2>1, FS_AddElement
  <2> QED
    BY <1>1, <1>2, <2>1, <2>2 DEF Blocked, Descheduling
<1>3. CASE ~(b[3].fn = "Deschedule" /\ b[3].event = e)
  <2>1. BlockedIn(C \cup {b}, e) = B
    BY <1>3 DEF BlockedIn
  <2> QED
    BY <1>1, <1>3, <2>1 DEF Blocked, Descheduling
<1> QED
  BY <1>2, <1>3

\* C has one call more than R.
OneMore(R, C, f, E) ==
  \A e \in E : /\ Hands(C, e) = Hands(R, e) + Holds(f, e)
              /\ Blocked(C, e) = Blocked(R, e) + Descheduling(f, e)
              /\ Hands(R, e) \in Nat /\ Blocked(R, e) \in Nat /\ Holds(f, e) \in Nat

\* A call is made.
LEMMA CallMade ==
  ASSUME NEW C, NEW E, Stock(C, E), NEW b, Fresh(C, b), CallShape(b)
  PROVE  Stock(C \cup {b}, E) /\ OneMore(C, C \cup {b}, b[3], E)
<1>1. \A e : Holds(b[3], e) \in Nat
  BY HoldsNat
<1>2. b \notin C
  BY DEF Fresh, SameCall
<1>3. ASSUME NEW e \in E
      PROVE  /\ IsFiniteSet(HandsIn(C \cup {b}, e)) /\ IsFiniteSet(BlockedIn(C \cup {b}, e))
             /\ Hands(C \cup {b}, e) = Hands(C, e) + Holds(b[3], e)
             /\ Blocked(C \cup {b}, e) = Blocked(C, e) + Descheduling(b[3], e)
             /\ Hands(C, e) \in Nat /\ Blocked(C, e) \in Nat /\ Holds(b[3], e) \in Nat
  <2>1. IsFiniteSet(HandsIn(C, e)) /\ IsFiniteSet(BlockedIn(C, e))
    BY DEF Stock
  <2> QED
    BY <1>1, <1>2, <2>1, OneMoreHand, OneMoreBlocked
<1>4. Distinct(C \cup {b})
  BY DEF Stock, Distinct, Fresh, SameCall
<1>5. \A c \in C \cup {b} : CallShape(c)
  BY DEF Stock
<1> QED
  BY <1>3, <1>4, <1>5 DEF Stock, OneMore

\* A call returns.
LEMMA Returned ==
  ASSUME NEW C, NEW E, Stock(C, E), NEW a \in C
  PROVE  Stock(C \ {a}, E) /\ OneMore(C \ {a}, C, a[3], E)
<1> DEFINE R == C \ {a}
<1>1. Distinct(R) /\ \A c \in R : CallShape(c)
  BY DEF Stock, Distinct
<1>2. ASSUME NEW e \in E
      PROVE  IsFiniteSet(HandsIn(R, e)) /\ IsFiniteSet(BlockedIn(R, e))
  <2>1. IsFiniteSet(HandsIn(C, e)) /\ IsFiniteSet(BlockedIn(C, e))
    BY DEF Stock
  <2>2. HandsIn(R, e) \subseteq HandsIn(C, e)
    BY DEF HandsIn
  <2>3. BlockedIn(R, e) \subseteq BlockedIn(C, e)
    BY DEF BlockedIn
  <2> QED
    BY <2>1, <2>2, <2>3, FS_Subset
<1>3. Stock(R, E)
  BY <1>1, <1>2 DEF Stock
<1>4. Fresh(R, a) /\ CallShape(a)
  BY DEF Stock, Distinct, Fresh, SameCall
<1>5. R \cup {a} = C
  OBVIOUS
<1> HIDE DEF R
<1>6. OneMore(R, R \cup {a}, a[3], E)
  BY <1>3, <1>4, CallMade
<1> QED
  BY <1>3, <1>5, <1>6 DEF R

-----------------------------------------------------------------------------
(* The graph of the events *)

\* What is known of the events of a plan.
GraphOK(E, I) ==
  /\ \A x \in I : x \in E /\ x[1] = "finish" /\ FinalizeEvent(x[2]) \in E
  /\ \A x, y \in I : x[2] = y[2] => x = y

\* A dependency waits with an event that has not finished, or with a call.
LEMMA WaitsWhere ==
  ASSUME NEW F, NEW ev, NEW E, NEW d
  PROVE  d \in Waiting(F, ev, E)
           <=> (\E x \in E : ~ev[x].finished /\ d \in ev[x].parents) \/ (\E c \in F : d \in c[3].parents)
<1> DEFINE N == {y \in E : ~ev[y].finished}
           U == UNION {ev[x].parents : x \in N}
           V == UNION {c[3].parents : c \in F}
<1>1. d \in U <=> \E x \in N : d \in ev[x].parents
  BY Zenon
<1>2. d \in V <=> \E c \in F : d \in c[3].parents
  BY Zenon
<1>3. (\E x \in N : d \in ev[x].parents) <=> \E x \in E : ~ev[x].finished /\ d \in ev[x].parents
  OBVIOUS
<1>4. Waiting(F, ev, E) = U \cup V
  BY Zenon DEF Waiting
<1> HIDE DEF U, V, N
<1> QED
  BY <1>1, <1>2, <1>3, <1>4

\* An event somebody will still tell of a dependency has not been scheduled.
LEMMA Unscheduled ==
  ASSUME NEW F, NEW X, NEW ev, NEW E, NEW I, NEW D, Links(F, X, ev, E, I, D),
         NEW e \in E, NEW d \in Waiting(F, ev, E), d.event = e
  PROVE  /\ ev[e].finished_dependencies < ev[e].total_dependencies
         /\ ev[e].total_tasks = 0 /\ ev[e].finished_tasks = 0 /\ ~ev[e].finished
<1> DEFINE P == Pending(F, ev, E, e)
<1>1. d \in P
  BY DEF Pending
<1>2. /\ IsFiniteSet(P) /\ ev[e].finished_dependencies + Cardinality(P) <= ev[e].total_dependencies
      /\ EventInv(ev, e)
  BY DEF Links, DependencyCount
<1> HIDE DEF P
<1>3. Cardinality(P) \in Nat /\ Cardinality(P) # 0
  BY <1>1, <1>2, FS_CardinalityType, FS_EmptySet
<1>4. ev[e].finished_dependencies < ev[e].total_dependencies
  BY <1>2, <1>3 DEF EventInv
<1> QED
  BY <1>2, <1>4 DEF EventInv

\* An event that has been scheduled has all of its dependencies.
LEMMA AllCounted ==
  ASSUME NEW F, NEW X, NEW ev, NEW E, NEW I, NEW D, Links(F, X, ev, E, I, D),
         NEW e \in E, ev[e].total_tasks # 0 \/ ev[e].finished
  PROVE  /\ ev[e].finished_dependencies = ev[e].total_dependencies
         /\ ~(e[1] = "finalize" /\ ev[e].total_dependencies = 0)
         /\ \A d \in Waiting(F, ev, E) : d.event # e
<1> DEFINE P == Pending(F, ev, E, e)
<1>1. /\ IsFiniteSet(P) /\ ev[e].finished_dependencies + Cardinality(P) <= ev[e].total_dependencies
      /\ EventInv(ev, e)
  BY DEF Links, DependencyCount
<1> HIDE DEF P
<1>2. Cardinality(P) \in Nat
  BY <1>1, FS_CardinalityType
<1>3. \A d \in Waiting(F, ev, E) : d.event # e
  BY Unscheduled
<1> QED
  BY <1>1, <1>2, <1>3 DEF EventInv

\* Only the tasks about to be counted have changed, and not those of inserting events.
LEMMA KeepLinks ==
  ASSUME NEW F, NEW X, NEW Y, NEW ev, NEW E, NEW I, NEW D, Links(F, X, ev, E, I, D),
         \A x \in I : x \in X <=> x \in Y
  PROVE  Links(F, Y, ev, E, I, D)
<1>1. \A x \in I : InsertedInv(Y, ev, x)
  BY DEF Links, InsertedInv
<1> QED
  BY <1>1 DEF Links

\* The edges between the events have not changed.
SameEdges(ev, nv, E) ==
  \A x \in E : nv[x].parents = ev[x].parents /\ nv[x].total_dependencies = ev[x].total_dependencies

\* Then dependencies are where they were.
LEMMA KeepEdges ==
  ASSUME NEW F, NEW X, NEW ev, NEW E, NEW I, NEW D, Links(F, X, ev, E, I, D), GraphOK(E, I),
         NEW nv, SameEdges(ev, nv, E)
  PROVE  ParentsInv(nv, E, I) /\ \A d \in D : HomeInv(nv, E, I, d)
<1>1. ParentsInv(nv, E, I)
  BY DEF Links, ParentsInv, SameEdges, GraphOK
<1>2. \A d \in D : HomeInv(nv, E, I, d)
  BY DEF Links, HomeInv, SameEdges, GraphOK
<1> QED
  BY <1>1, <1>2

\* An event is scheduled with n tasks.
LEMMA StartLinks ==
  ASSUME NEW F, NEW X, NEW ev, NEW E, NEW I, NEW D, Links(F, X, ev, E, I, D), GraphOK(E, I),
         NEW e \in E, NEW n \in 1..MaxTasks, e[1] = "finish" => n = 1,
         ~ev[e].finished, ev[e].total_tasks = 0,
         ev[e].finished_dependencies >= ev[e].total_dependencies,
         ~(e[1] = "finalize" /\ ev[e].total_dependencies = 0),
         NEW nv, SameEdges(ev, nv, E), \A x \in E : x # e => nv[x] = ev[x],
         nv[e].finished = ev[e].finished, nv[e].finished_tasks = ev[e].finished_tasks,
         nv[e].finished_dependencies = ev[e].finished_dependencies, nv[e].total_tasks = n
  PROVE  Links(F, X, nv, E, I, D)
<1>1. ParentsInv(nv, E, I) /\ \A d \in D : HomeInv(nv, E, I, d)
  BY KeepEdges
<1>2. \A x \in E : /\ nv[x].finished = ev[x].finished /\ nv[x].parents = ev[x].parents
                   /\ nv[x].finished_dependencies = ev[x].finished_dependencies
                   /\ nv[x].total_dependencies = ev[x].total_dependencies
  BY DEF SameEdges
<1>3. Waiting(F, nv, E) = Waiting(F, ev, E)
  BY <1>2 DEF Waiting
<1>4. \A x \in E : DependencyCount(F, nv, E, x)
  BY <1>2, <1>3 DEF Links, DependencyCount, Pending
<1>5. EventInv(nv, e)
  <2>1. EventInv(ev, e)
    BY DEF Links
  <2> QED
    BY <1>2, <2>1 DEF EventInv
<1>6. \A x \in E : EventInv(nv, x)
  BY <1>5 DEF Links, EventInv
<1>7. FinishInv(F, nv, E)
  BY <1>2 DEF Links, FinishInv
<1>8. \A x \in I : InsertedInv(X, nv, x)
  BY <1>2 DEF Links, InsertedInv, GraphOK
<1> QED
  BY <1>1, <1>4, <1>6, <1>7, <1>8 DEF Links


\* An event finishes, and a call is to tell its parents.
LEMMA FinishLinks ==
  ASSUME NEW F, NEW X, NEW Y, NEW ev, NEW E, NEW I, NEW D, Links(F, X, ev, E, I, D), GraphOK(E, I),
         NEW e \in E, ~ev[e].finished,
         ev[e].finished_dependencies >= ev[e].total_dependencies,
         ~(e[1] = "finalize" /\ ev[e].total_dependencies = 0),
         \A x \in I : x # e => (x \in X <=> x \in Y), e \in I => e \in X,
         NEW nv, SameEdges(ev, nv, E), \A x \in E : x # e => nv[x] = ev[x],
         nv[e].finished = TRUE, nv[e].finished_tasks = ev[e].total_tasks,
         nv[e].finished_dependencies = ev[e].finished_dependencies, nv[e].total_tasks = ev[e].total_tasks,
         NEW b, b[3].event = e, b[3].parents = ev[e].parents
  PROVE  Links(F \cup {b}, Y, nv, E, I, D)
<1> DEFINE G == F \cup {b}
<1>1. ParentsInv(nv, E, I) /\ \A d \in D : HomeInv(nv, E, I, d)
  BY KeepEdges
<1>2. \A x \in E : /\ nv[x].parents = ev[x].parents
                   /\ nv[x].finished_dependencies = ev[x].finished_dependencies
                   /\ nv[x].total_dependencies = ev[x].total_dependencies
  BY DEF SameEdges
<1>3. \A x \in E : nv[x].finished <=> (x = e \/ ev[x].finished)
  OBVIOUS
<1>4. Waiting(G, nv, E) = Waiting(F, ev, E)
  <2> SUFFICES ASSUME NEW d
               PROVE  d \in Waiting(G, nv, E) <=> d \in Waiting(F, ev, E)
    OBVIOUS
  <2>1. (\E c \in G : d \in c[3].parents) <=> (\E c \in F : d \in c[3].parents) \/ d \in ev[e].parents
    OBVIOUS
  <2>2. (\E x \in E : ~ev[x].finished /\ d \in ev[x].parents)
           <=> (\E x \in E : ~nv[x].finished /\ d \in nv[x].parents) \/ d \in ev[e].parents
    BY <1>2, <1>3
  <2> QED
    BY <2>1, <2>2, WaitsWhere
<1>5. \A x \in E : DependencyCount(G, nv, E, x)
  BY <1>2, <1>4 DEF Links, DependencyCount, Pending
<1>6. EventInv(nv, e)
  <2>1. EventInv(ev, e)
    BY DEF Links
  <2>2. nv[e].finished \in BOOLEAN /\ nv[e].total_dependencies = ev[e].total_dependencies
    BY <1>2
  <2>3. nv[e].finished_tasks \in 0..nv[e].total_tasks
    BY <2>1 DEF EventInv
  <2> QED
    BY <2>1, <2>2, <2>3 DEF EventInv
<1>7. \A x \in E : EventInv(nv, x)
  BY <1>6 DEF Links, EventInv
<1>8. FinishInv(G, nv, E)
  <2>1. FinishInv(F, ev, E)
    BY DEF Links
  <2>2. \A c \in F : c[3].event # e
    BY <2>1 DEF FinishInv
  <2>3. \A c \in G : c[3].event \in E /\ nv[c[3].event].finished /\ c[3].parents \subseteq nv[c[3].event].parents
    BY <1>2, <2>1, <2>2 DEF FinishInv
  <2>4. \A a, c \in G : a[3].event = c[3].event => a = c
    BY <2>1, <2>2 DEF FinishInv
  <2> QED
    BY <2>3, <2>4 DEF FinishInv
<1>9. ASSUME NEW x \in I
      PROVE  InsertedInv(Y, nv, x)
  <2>1. InsertedInv(X, ev, x) /\ x \in E /\ FinalizeEvent(x[2]) \in E
    BY DEF Links, GraphOK
  <2> QED
    BY <1>2, <1>3, <2>1 DEF InsertedInv
<1> QED
  BY <1>1, <1>5, <1>7, <1>8, <1>9 DEF Links

\* A call has told all parents.
LEMMA DropLinks ==
  ASSUME NEW F, NEW X, NEW ev, NEW E, NEW I, NEW D, Links(F, X, ev, E, I, D),
         NEW c \in F, c[3].parents = {}
  PROVE  Links(F \ {c}, X, ev, E, I, D)
<1> DEFINE G == F \ {c}
<1>1. Waiting(G, ev, E) = Waiting(F, ev, E)
  BY DEF Waiting
<1>2. \A x \in E : DependencyCount(G, ev, E, x)
  BY <1>1 DEF Links, DependencyCount, Pending
<1>3. FinishInv(G, ev, E)
  BY DEF Links, FinishInv
<1> QED
  BY <1>2, <1>3 DEF Links

\* The events after e has counted k more dependencies.
Counts(ev, nv, e, k, E) ==
  /\ e \in E /\ k \in {0, 1} /\ SameEdges(ev, nv, E)
  /\ \A x \in E : x # e => nv[x] = ev[x]
  /\ nv[e].finished = ev[e].finished /\ nv[e].finished_tasks = ev[e].finished_tasks
  /\ nv[e].total_tasks = ev[e].total_tasks
  /\ nv[e].finished_dependencies = ev[e].finished_dependencies + k

\* The calls after b, which has not to tell d, takes the place of c.
Tells(F, G, b, c, d, e) ==
  /\ d.event = e /\ c \in F /\ d \in c[3].parents /\ G = (F \ {c}) \cup {b}
  /\ b[3].event = c[3].event /\ b[3].parents = c[3].parents \ {d}

\* A call tells one parent, which counts the dependency if it is still there.
LEMMA TellLinks ==
  ASSUME NEW F, NEW X, NEW ev, NEW E, NEW I, NEW D, Links(F, X, ev, E, I, D), GraphOK(E, I),
         NEW b, NEW c, NEW d, NEW G, NEW e, Tells(F, G, b, c, d, e), NEW k, NEW nv, Counts(ev, nv, e, k, E)
  PROVE  /\ Links(G, X, nv, E, I, D)
         /\ ev[e].finished_dependencies < ev[e].total_dependencies
         /\ ev[e].total_tasks = 0 /\ ev[e].finished_tasks = 0 /\ ~ev[e].finished
<1>0. /\ c \in F /\ d \in c[3].parents /\ G = (F \ {c}) \cup {b}
      /\ b[3].event = c[3].event /\ b[3].parents = c[3].parents \ {d}
      /\ d.event = e /\ e \in E /\ k \in {0, 1}
  BY DEF Tells, Counts
<1>1. ParentsInv(nv, E, I) /\ \A x \in D : HomeInv(nv, E, I, x)
  BY KeepEdges DEF Counts
<1>2. \A x \in E : /\ nv[x].parents = ev[x].parents
                   /\ nv[x].finished = ev[x].finished
                   /\ nv[x].total_dependencies = ev[x].total_dependencies
  BY DEF Counts, SameEdges
<1>3. FinishInv(F, ev, E) /\ ParentsInv(ev, E, I)
  BY DEF Links
<1>4. FinishInv(G, nv, E)
  <2>1. \A a \in G : a[3].event \in E /\ nv[a[3].event].finished /\ a[3].parents \subseteq nv[a[3].event].parents
    BY <1>0, <1>2, <1>3 DEF FinishInv
  <2>2. \A a \in F \ {c} : a[3].event # b[3].event
    BY <1>0, <1>3 DEF FinishInv
  <2>3. \A a, x \in G : a[3].event = x[3].event => a = x
    BY <1>0, <1>3, <2>2 DEF FinishInv
  <2> QED
    BY <2>1, <2>3 DEF FinishInv
<1>5. d \in Waiting(F, ev, E)
  BY <1>0, WaitsWhere
<1>6. /\ ev[e].finished_dependencies < ev[e].total_dependencies
      /\ ev[e].total_tasks = 0 /\ ev[e].finished_tasks = 0 /\ ~ev[e].finished
  BY <1>0, <1>5, Unscheduled
<1>7. ASSUME NEW x \in E, d \in ev[x].parents
      PROVE  x = c[3].event
  BY <1>0, <1>3, <1>7 DEF FinishInv, ParentsInv
<1>8. ~\E x \in E : ~ev[x].finished /\ d \in ev[x].parents
  BY <1>0, <1>3, <1>7 DEF FinishInv
<1>9. ASSUME NEW a \in G
      PROVE  d \notin a[3].parents
  <2>1. CASE a = b
    BY <1>0, <2>1
  <2>2. CASE a \in F /\ a # c
    <3>1. ASSUME d \in a[3].parents
          PROVE  a[3].event = c[3].event
      BY <1>3, <1>7, <2>2, <3>1 DEF FinishInv
    <3> QED
      BY <1>0, <1>3, <2>2, <3>1 DEF FinishInv
  <2> QED
    BY <1>0, <2>1, <2>2
<1>10. Waiting(G, nv, E) = Waiting(F, ev, E) \ {d}
  <2> SUFFICES ASSUME NEW z
               PROVE  z \in Waiting(G, nv, E) <=> z \in Waiting(F, ev, E) /\ z # d
    OBVIOUS
  <2>1. (\E x \in E : ~nv[x].finished /\ z \in nv[x].parents)
          <=> (\E x \in E : ~ev[x].finished /\ z \in ev[x].parents) /\ z # d
    BY <1>2, <1>8
  <2>2. (\E a \in G : z \in a[3].parents) <=> (\E a \in F : z \in a[3].parents) /\ z # d
    BY <1>0, <1>9
  <2> QED
    BY <2>1, <2>2, WaitsWhere
<1>11. ASSUME NEW x \in E, x # e
       PROVE  DependencyCount(G, nv, E, x)
  <2>1. Pending(G, nv, E, x) = Pending(F, ev, E, x)
    BY <1>0, <1>10, <1>11 DEF Pending
  <2>2. nv[x] = ev[x]
    BY <1>11 DEF Counts
  <2> QED
    BY <2>1, <2>2 DEF Links, DependencyCount
<1>12. DependencyCount(G, nv, E, e)
  <2> DEFINE P == Pending(F, ev, E, e)
  <2>1. Pending(G, nv, E, e) = P \ {d} /\ d \in P
    BY <1>0, <1>5, <1>10 DEF Pending
  <2>2. IsFiniteSet(P) /\ ev[e].finished_dependencies + Cardinality(P) <= ev[e].total_dependencies
    BY <1>0 DEF Links, DependencyCount
  <2>3. EventInv(ev, e)
    BY <1>0 DEF Links
  <2> HIDE DEF P
  <2>4. Cardinality(P) \in Nat /\ IsFiniteSet(P \ {d}) /\ Cardinality(P \ {d}) = Cardinality(P) - 1
    BY <2>1, <2>2, FS_CardinalityType, FS_RemoveElement
  <2>5. nv[e].finished_dependencies + Cardinality(P \ {d}) <= nv[e].total_dependencies
    BY <1>0, <1>2, <2>2, <2>3, <2>4 DEF EventInv, Counts
  <2> QED
    BY <2>1, <2>4, <2>5 DEF DependencyCount
<1>13. EventInv(nv, e)
  <2>1. EventInv(ev, e)
    BY <1>0 DEF Links
  <2> QED
    BY <1>0, <1>2, <1>6, <2>1 DEF EventInv, Counts
<1>14. \A x \in E : EventInv(nv, x)
  BY <1>13 DEF Links, EventInv, Counts
<1>15. \A x \in I : InsertedInv(X, nv, x)
  BY <1>2 DEF Links, InsertedInv, GraphOK
<1>16. \A x \in E : DependencyCount(G, nv, E, x)
  BY <1>11, <1>12
<1> QED
  BY <1>1, <1>4, <1>6, <1>14, <1>15, <1>16 DEF Links


\* The task of a finish event inserts an event: it takes over the parents, and
\* the finish event has one parent only.
LEMMA InsertLinks ==
  ASSUME NEW F, NEW X, NEW ev, NEW E, NEW I, NEW D, Links(F, X, ev, E, I, D), GraphOK(E, I),
         NEW e \in I, NEW new, new = FinalizeEvent(e[2]), ~ev[e].finished, e \notin X,
         NEW nv, \A x \in E : x # e /\ x # new => nv[x] = ev[x],
         nv[new].parents = ev[e].parents, nv[new].total_dependencies = 1,
         nv[e].parents = {Dependency(new, e, 0)}, nv[e].total_dependencies = ev[e].total_dependencies,
         \A x \in {e, new} :
           /\ nv[x].finished = ev[x].finished /\ nv[x].finished_tasks = ev[x].finished_tasks
           /\ nv[x].total_tasks = ev[x].total_tasks
           /\ nv[x].finished_dependencies = ev[x].finished_dependencies,
         NEW Y, \A x \in I : x \in Y <=> (x \in X \/ x = e)
  PROVE  Links(F, Y, nv, E, I, D)
<1> DEFINE d == Dependency(new, e, 0)
<1>1. /\ e \in E /\ new \in E /\ e[1] = "finish" /\ new[1] = "finalize" /\ new # e
      /\ \A x \in I : FinalizeEvent(x[2]) = new => x = e
      /\ \A x \in I : FinalizeEvent(x[2]) # e /\ x # new
  BY DEF GraphOK, FinalizeEvent
<1>2. ev[new].total_dependencies = 0 /\ ev[new].parents = {}
  BY DEF Links, InsertedInv
<1>3. EventInv(ev, new) /\ EventInv(ev, e)
  BY <1>1 DEF Links
<1>4. /\ ev[new].finished_dependencies = 0 /\ ~ev[new].finished /\ ev[new].total_tasks = 0
      /\ Pending(F, ev, E, new) = {}
  <2> DEFINE P == Pending(F, ev, E, new)
  <2>1. IsFiniteSet(P) /\ ev[new].finished_dependencies + Cardinality(P) <= ev[new].total_dependencies
    BY <1>1 DEF Links, DependencyCount
  <2> HIDE DEF P
  <2>2. Cardinality(P) \in Nat /\ (Cardinality(P) = 0 => P = {})
    BY <2>1, FS_CardinalityType, FS_EmptySet
  <2>3. ~ev[new].finished /\ ev[new].total_tasks = 0
    BY <1>1, <1>2, <1>3 DEF EventInv
  <2>4. ev[new].finished_dependencies = 0 /\ Cardinality(P) = 0
    BY <1>2, <1>3, <2>1, <2>2 DEF EventInv
  <2> QED
    BY <2>2, <2>3, <2>4 DEF P
<1>5. d.event = new /\ d.on = e
  BY DEF Dependency
<1>6. \A x \in E : d \notin ev[x].parents
  <2> SUFFICES ASSUME NEW x \in E, d \in ev[x].parents PROVE FALSE
    OBVIOUS
  <2>1. x \in I /\ d = Dependency(FinalizeEvent(x[2]), x, 0) /\ ev[FinalizeEvent(x[2])].total_dependencies = 1
    BY <1>1, <1>5 DEF Links, ParentsInv
  <2>2. d.on = x
    BY <2>1 DEF Dependency
  <2> QED
    BY <1>2, <1>5, <2>1, <2>2
<1> HIDE DEF d
<1>7. nv[e].parents = {d}
  BY DEF d
<1>8. \A x \in E : nv[x].finished = ev[x].finished
  OBVIOUS
<1>9. ASSUME NEW x \in E, NEW z \in nv[x].parents
      PROVE  \/ x = e /\ z = d
             \/ x = new /\ z \in ev[e].parents /\ z # d
             \/ x # e /\ x # new /\ z \in ev[x].parents /\ z # d
  BY <1>1, <1>6, <1>7
<1>10. ParentsInv(nv, E, I)
  <2> SUFFICES ASSUME NEW x \in E, NEW z \in nv[x].parents
               PROVE  /\ \A y \in E : z \in nv[y].parents => x = y
                      /\ z.event[1] = "finalize" =>
                           /\ x \in I /\ z = Dependency(FinalizeEvent(x[2]), x, 0)
                           /\ nv[FinalizeEvent(x[2])].total_dependencies = 1
    BY DEF ParentsInv
  <2>1. ParentsInv(ev, E, I)
    BY DEF Links
  <2>2. ASSUME NEW y \in E, z \in nv[y].parents
        PROVE  x = y
    <3>1. \/ y = e /\ z = d
          \/ y = new /\ z \in ev[e].parents /\ z # d
          \/ y # e /\ y # new /\ z \in ev[y].parents /\ z # d
      BY <1>9, <2>2
    <3>2. \/ x = e /\ z = d
          \/ x = new /\ z \in ev[e].parents /\ z # d
          \/ x # e /\ x # new /\ z \in ev[x].parents /\ z # d
      BY <1>9
    <3>3. \A u, v \in E : z \in ev[u].parents /\ z \in ev[v].parents => u = v
      BY <2>1 DEF ParentsInv
    <3> QED
      BY <1>1, <3>1, <3>2, <3>3
  <2>3. ASSUME z.event[1] = "finalize"
        PROVE  /\ x \in I /\ z = Dependency(FinalizeEvent(x[2]), x, 0)
               /\ nv[FinalizeEvent(x[2])].total_dependencies = 1
    <3>1. CASE x = e /\ z = d
      BY <3>1 DEF d
    <3>2. CASE x = new /\ z \in ev[e].parents
      <4>1. ev[FinalizeEvent(e[2])].total_dependencies = 1
        BY <1>1, <2>1, <2>3, <3>2 DEF ParentsInv
      <4> QED
        BY <1>2, <4>1
    <3>3. CASE x # e /\ x # new /\ z \in ev[x].parents
      <4>1. /\ x \in I /\ z = Dependency(FinalizeEvent(x[2]), x, 0)
            /\ ev[FinalizeEvent(x[2])].total_dependencies = 1
        BY <2>1, <2>3, <3>3 DEF ParentsInv
      <4>2. FinalizeEvent(x[2]) \in E /\ FinalizeEvent(x[2]) # e /\ FinalizeEvent(x[2]) # new
        BY <1>1, <3>3, <4>1 DEF GraphOK
      <4>3. nv[FinalizeEvent(x[2])] = ev[FinalizeEvent(x[2])]
        BY <4>2
      <4> QED
        BY <4>1, <4>3
    <3> QED
      BY <1>9, <3>1, <3>2, <3>3
  <2> QED
    BY <2>2, <2>3
<1>11. Waiting(F, nv, E) = Waiting(F, ev, E) \cup {d}
  <2> SUFFICES ASSUME NEW z
               PROVE  z \in Waiting(F, nv, E) <=> z \in Waiting(F, ev, E) \/ z = d
    OBVIOUS
  <2>1. ASSUME NEW x \in E, ~nv[x].finished, z \in nv[x].parents
        PROVE  (\E y \in E : ~ev[y].finished /\ z \in ev[y].parents) \/ z = d
    BY <1>1, <1>8, <1>9, <2>1
  <2>2. ASSUME NEW x \in E, ~ev[x].finished, z \in ev[x].parents
        PROVE  \E y \in E : ~nv[y].finished /\ z \in nv[y].parents
    <3>1. CASE x = e
      BY <1>1, <1>4, <1>8, <2>2, <3>1
    <3>2. CASE x # e
      <4>1. x # new
        BY <1>2, <2>2
      <4> QED
        BY <1>8, <2>2, <3>2, <4>1
    <3> QED
      BY <3>1, <3>2
  <2>3. z = d => \E y \in E : ~nv[y].finished /\ z \in nv[y].parents
    BY <1>1, <1>7, <1>8
  <2> QED
    BY <2>1, <2>2, <2>3, WaitsWhere
<1>12. ASSUME NEW x \in E
       PROVE  DependencyCount(F, nv, E, x)
  <2>1. CASE x = new
    <3>1. Pending(F, nv, E, new) = {d}
      BY <1>4, <1>5, <1>11 DEF Pending
    <3>2. IsFiniteSet({d}) /\ Cardinality({d}) = 1
      BY FS_Singleton
    <3>3. nv[new].finished_dependencies = 0
      BY <1>4
    <3> QED
      BY <2>1, <3>1, <3>2, <3>3 DEF DependencyCount
  <2>2. CASE x # new
    <3>1. Pending(F, nv, E, x) = Pending(F, ev, E, x)
      BY <1>5, <1>11, <2>2 DEF Pending
    <3>2. /\ nv[x].finished_dependencies = ev[x].finished_dependencies
          /\ nv[x].total_dependencies = ev[x].total_dependencies
      BY <2>2
    <3>3. DependencyCount(F, ev, E, x)
      BY DEF Links
    <3> QED
      BY <3>1, <3>2, <3>3 DEF DependencyCount
  <2> QED
    BY <2>1, <2>2
<1>13. EventInv(nv, new) /\ EventInv(nv, e)
  <2>1. EventInv(nv, new)
    BY <1>1, <1>3, <1>4 DEF EventInv
  <2>2. EventInv(nv, e)
    BY <1>1, <1>3 DEF EventInv
  <2> QED
    BY <2>1, <2>2
<1>14. \A x \in E : EventInv(nv, x)
  <2> SUFFICES ASSUME NEW x \in E, x # e, x # new PROVE EventInv(nv, x)
    BY <1>13
  <2>1. nv[x] = ev[x] /\ EventInv(ev, x)
    BY DEF Links
  <2> QED
    BY <2>1 DEF EventInv
<1>15. FinishInv(F, nv, E)
  <2>1. FinishInv(F, ev, E)
    BY DEF Links
  <2>2. \A c \in F : c[3].event \in E /\ nv[c[3].event] = ev[c[3].event]
    BY <1>4, <2>1 DEF FinishInv
  <2> QED
    BY <2>1, <2>2 DEF FinishInv
<1>16. ASSUME NEW x \in I
       PROVE  InsertedInv(Y, nv, x)
  <2>1. InsertedInv(X, ev, x) /\ x \in E
    BY DEF Links, GraphOK
  <2>2. CASE x = e
    BY <1>7, <2>2 DEF InsertedInv, d
  <2>3. CASE x # e
    <3>1. FinalizeEvent(x[2]) \in E /\ FinalizeEvent(x[2]) # new /\ FinalizeEvent(x[2]) # e /\ x # new
      BY <1>1, <2>3 DEF GraphOK
    <3>2. nv[x] = ev[x] /\ nv[FinalizeEvent(x[2])] = ev[FinalizeEvent(x[2])]
      BY <2>1, <2>3, <3>1
    <3> QED
      BY <2>1, <2>3, <3>2 DEF InsertedInv
  <2> QED
    BY <2>2, <2>3
<1>17. ASSUME NEW z \in D
       PROVE  HomeInv(nv, E, I, z)
  <2> SUFFICES ASSUME z.on \in E
               PROVE  z \in nv[z.on].parents \/ (z.on \in I /\ z \in nv[FinalizeEvent(z.on[2])].parents)
    BY DEF HomeInv
  <2>1. z \in ev[z.on].parents \/ (z.on \in I /\ z \in ev[FinalizeEvent(z.on[2])].parents)
    BY DEF Links, HomeInv
  <2>2. CASE z \in ev[z.on].parents
    <3>1. z.on # new
      BY <1>2, <2>2
    <3>2. CASE z.on = e
      BY <2>2, <3>2
    <3>3. CASE z.on # e
      BY <2>2, <3>1, <3>3
    <3> QED
      BY <3>2, <3>3
  <2>3. CASE z.on \in I /\ z \in ev[FinalizeEvent(z.on[2])].parents
    <3>1. FinalizeEvent(z.on[2]) \in E /\ FinalizeEvent(z.on[2]) # e /\ FinalizeEvent(z.on[2]) # new
      BY <1>1, <1>2, <2>3 DEF GraphOK
    <3> QED
      BY <2>3, <3>1
  <2> QED
    BY <2>1, <2>2, <2>3
<1> QED
  BY <1>10, <1>12, <1>14, <1>15, <1>16, <1>17 DEF Links

-----------------------------------------------------------------------------
(* The events of a plan, and steps of a thread *)

\* The finish events of a plan, and the events that are inserted.
LEMMA PlanGraph ==
  ASSUME Shape(build)
  PROVE  /\ GraphOK(AllEvents, Inserting)
         /\ \A m \in Scheduled : InitializeEvent(m) \in AllEvents /\ CompleteEvent(m) \in AllEvents
         /\ IsFiniteSet(Scheduled) /\ Cardinality(Scheduled) \in Nat
<1>1. ASSUME NEW x \in AllEvents, x[1] = "finish"
      PROVE  x \in Events /\ x = <<"finish", x[2]>>
  <2>1. x \in Events
    BY <1>1, EventsKeepPipelines
  <2>2. PICK p \in ScheduledPipeline : x = FinishEvent(p)
    BY <1>1, <2>1 DEF Events, InitializeEvent, CompleteEvent, PipelineEvent
  <2>3. p \in DOMAIN build.pipelines
    BY Numbered DEF ScheduledPipeline
  <2>4. PICK q : FinishEvent(p) = <<"finish", q>>
    BY <2>3, FinishBelongs
  <2> QED
    BY <2>1, <2>2, <2>4
<1>2. ASSUME NEW x \in Inserting
      PROVE  x \in AllEvents /\ x[1] = "finish" /\ FinalizeEvent(x[2]) \in AllEvents /\ x = <<"finish", x[2]>>
  <2>1. x \in AllEvents /\ InsertsEvent(x) /\ x[1] = "finish"
    BY DEF Inserting, InsertsEvent
  <2>2. x \in Events /\ x = <<"finish", x[2]>>
    BY <1>1, <2>1
  <2> QED
    BY <2>1, <2>2 DEF AllEvents
<1>3. ASSUME NEW x \in Inserting, NEW y \in Inserting, x[2] = y[2]
      PROVE  x = y
  BY <1>2, <1>3
<1>4. GraphOK(AllEvents, Inserting)
  BY <1>2, <1>3 DEF GraphOK
<1>5. \A m \in Scheduled : InitializeEvent(m) \in AllEvents /\ CompleteEvent(m) \in AllEvents
  BY DEF AllEvents, Events
<1>6. IsFiniteSet(Scheduled)
  <2>1. Meta = 1..Len(build.metas) /\ Len(build.metas) \in Nat
    BY IsSeqAppend DEF Meta, Shape
  <2>2. IsFiniteSet(Meta)
    BY <2>1, FS_Interval
  <2> QED
    BY <2>2, FS_Subset DEF Scheduled
<1> QED
  BY <1>4, <1>5, <1>6, FS_CardinalityType

\* The innermost call of a thread is replaced.
LEMMA Swapped ==
  ASSUME NEW st, Stacks(st), NEW t \in Thread, st[t] # <<>>, NEW g
  PROVE  /\ CallsIn([st EXCEPT ![t] = <<g>> \o Tail(st[t])])
              = (CallsIn(st) \ {Top(st, t)}) \cup {<<t, Len(st[t]) - 1, g>>}
         /\ Fresh(CallsIn(st) \ {Top(st, t)}, <<t, Len(st[t]) - 1, g>>)
         /\ Stacks([st EXCEPT ![t] = <<g>> \o Tail(st[t])])
<1> DEFINE s == [st EXCEPT ![t] = Tail(st[t])]
<1>1. CallsIn(s) = CallsIn(st) \ {Top(st, t)} /\ Stacks(s)
  BY Popped
<1>2. s[t] = Tail(st[t]) /\ [s EXCEPT ![t] = <<g>> \o Tail(st[t])] = [st EXCEPT ![t] = <<g>> \o Tail(st[t])]
  BY DEF Stacks
<1>3. Len(s[t]) = Len(st[t]) - 1
  BY <1>2, TailOf DEF Stacks
<1> HIDE DEF s
<1>4. /\ CallsIn([s EXCEPT ![t] = <<g>> \o s[t]]) = CallsIn(s) \cup {<<t, Len(s[t]), g>>}
      /\ Fresh(CallsIn(s), <<t, Len(s[t]), g>>)
      /\ Stacks([s EXCEPT ![t] = <<g>> \o s[t]])
  BY <1>1, Pushed
<1> QED
  BY <1>1, <1>2, <1>3, <1>4

\* The same in one word.
SwapsTop(st, t, g) ==
  /\ CallsIn([st EXCEPT ![t] = <<g>> \o Tail(st[t])])
       = (CallsIn(st) \ {Top(st, t)}) \cup {<<t, Len(st[t]) - 1, g>>}
  /\ Fresh(CallsIn(st) \ {Top(st, t)}, <<t, Len(st[t]) - 1, g>>)

\* A call for another, in one word.
LEMMA SwappedTop ==
  ASSUME NEW st, Stacks(st), NEW t \in Thread, st[t] # <<>>, NEW g
  PROVE  SwapsTop(st, t, g)
<1> DEFINE after == [st EXCEPT ![t] = <<g>> \o Tail(st[t])]
           rest == CallsIn(st) \ {Top(st, t)}
           call == <<t, Len(st[t]) - 1, g>>
<1>1. CallsIn(after) = rest \cup {call} /\ Fresh(rest, call)
  BY Swapped, ZenonT(60)
<1> QED
  BY <1>1, Zenon DEF SwapsTop

\* The calls, with g in the place of a thread's innermost one.
After(st, t, g) == (CallsIn(st) \ {Top(st, t)}) \cup {<<t, Len(st[t]) - 1, g>>}

\* The calls, with g in the place of a thread's innermost one, which has called h.
AndThen(st, t, g, h) == After(st, t, g) \cup {<<t, Len(st[t]), h>>}

\* The innermost call of a thread is replaced by two.
LEMMA Doubled ==
  ASSUME NEW st, Stacks(st), NEW t \in Thread, st[t] # <<>>, NEW g, NEW h,
         NEW r, r = <<g>> \o Tail(st[t])
  PROVE  /\ CallsIn([st EXCEPT ![t] = <<h>> \o r]) = AndThen(st, t, g, h)
         /\ Fresh(After(st, t, g), <<t, Len(st[t]), h>>)
<1> DEFINE s == [st EXCEPT ![t] = r]
<1>1. CallsIn(s) = After(st, t, g) /\ Stacks(s)
  BY Swapped DEF After
<1>2. Len(r) = Len(st[t])
  <2>1. IsSeq(Tail(st[t])) /\ Len(Tail(st[t])) = Len(st[t]) - 1 /\ Len(st[t]) \in Nat
    BY TailOf DEF Stacks
  <2>2. Len(r) = Len(Tail(st[t])) + 1
    BY <2>1, PushOf
  <2> QED
    BY <2>1, <2>2
<1>3. s[t] = r /\ [s EXCEPT ![t] = <<h>> \o r] = [st EXCEPT ![t] = <<h>> \o r]
  BY DEF Stacks
<1> HIDE DEF s
<1>4. /\ CallsIn([s EXCEPT ![t] = <<h>> \o s[t]]) = CallsIn(s) \cup {<<t, Len(s[t]), h>>}
      /\ Fresh(CallsIn(s), <<t, Len(s[t]), h>>)
      /\ Stacks([s EXCEPT ![t] = <<h>> \o s[t]])
  BY <1>1, Pushed
<1> QED
  BY <1>1, <1>2, <1>3, <1>4 DEF AndThen

\* A thread without a call makes one.
LEMMA FirstCall ==
  ASSUME NEW st, Stacks(st), NEW t \in Thread, st[t] = <<>>, NEW g
  PROVE  /\ CallsIn([st EXCEPT ![t] = <<g>>]) = CallsIn(st) \cup {<<t, 0, g>>}
         /\ Fresh(CallsIn(st), <<t, 0, g>>)
<1> DEFINE s == <<g>>
<1>1. IsSeq(s) /\ CallsOf(t, s) = {<<t, 0, g>>} /\ CallsOf(t, <<>>) = {}
  BY FewCalls
<1> HIDE DEF s
<1>2. /\ CallsIn([st EXCEPT ![t] = s]) = {c \in CallsIn(st) : c[1] # t} \cup CallsOf(t, s)
      /\ {c \in CallsIn(st) : c[1] = t} = CallsOf(t, st[t])
  BY <1>1, CallsOfOne
<1>3. \A c \in CallsIn(st) : c[1] # t
  BY <1>1, <1>2
<1>4. Fresh(CallsIn(st), <<t, 0, g>>)
  BY <1>3 DEF Fresh, SameCall
<1> QED
  BY <1>1, <1>2, <1>3, <1>4 DEF s

\* What the calls, events and tasks of a step have to be.
LEMMA CountKeeps ==
  ASSUME UNCHANGED buildVars, executor'.pc # "building",
         ClientInv(executor', AllEvents, Current), MainInv(stack', executor'),
         CountInv(CallsIn(stack'), event', tasks', executor', AllEvents, Inserting, Dependencies, Scheduled)
  PROVE  CInv'
<1>1. /\ AllEvents' = AllEvents /\ Scheduled' = Scheduled /\ Current' = Current
      /\ plan' = plan /\ build' = build
  BY SameBuild DEF buildVars
<1>2. Inserting' = Inserting
  BY <1>1, Zenon DEF Inserting, InsertsEvent, SinkOf
<1>3. Dependencies' = Dependencies
  <2>1. Pipeline' = Pipeline
    BY <1>1 DEF Pipeline
  <2>2. ScheduledPipeline' = ScheduledPipeline
    BY <1>1, <2>1 DEF ScheduledPipeline
  <2>3. \A p : FinishEvent(p)' = FinishEvent(p)
    BY <1>1 DEF FinishEvent, Base
  <2>4. \A p : StackDependencies(p)' = StackDependencies(p)
    BY <1>1, <2>3 DEF StackDependencies, Base, Dependency, PipelineEvent, InitializeEvent, CompleteEvent
  <2>5. \A p : InnerDependencies(p)' = InnerDependencies(p) /\ OuterDependencies(p)' = OuterDependencies(p)
    BY <1>1 DEF InnerDependencies, OuterDependencies
  <2> QED
    BY <2>2, <2>4, <2>5 DEF Dependencies
<1>4. CInv' = (/\ ClientInv(executor', AllEvents', Current')
               /\ MainInv(stack', executor')
               /\ executor'.pc # "building" =>
                    CountInv(CallsIn(stack'), event', tasks', executor', AllEvents', Inserting',
                             Dependencies', Scheduled'))
  BY DEF CInv, ClientInv, MainInv
<1> QED
  BY <1>1, <1>2, <1>3, <1>4

-----------------------------------------------------------------------------
(* A thread at work keeps the counts *)

LinksNow(C, ev)        == Links(FinishCalls(C), Ending(C), ev, AllEvents, Inserting, Dependencies)
TasksNow(C, ev, ts, ex) == TasksInv(C, ev, ts, ex, AllEvents)
ProgressNow(C, ev, ex) == ProgressInv(FinishCalls(C), ev, ex, Scheduled)

\* The query has not ended, failed or been cancelled if it has not done so now.
Follows(ex, nx) ==
  /\ nx.pc # "ended" => ex.pc # "ended"
  /\ ~nx.error => ~ex.error
  /\ ~nx.cancelled => ~ex.cancelled
  /\ ex.blocks \in Nat /\ nx.blocks \in Nat /\ ex.blocks <= nx.blocks

\* The tasks of all other events are where they were.
Elsewhere(R, C, e, E) == \A x \in E : x # e => Hands(R, x) = Hands(C, x) /\ Blocked(R, x) = Blocked(C, x)

\* What R, C and the call by which they differ have of e.
Gains(R, C, f, e) ==
  /\ Hands(C, e) = Hands(R, e) + Holds(f, e)
  /\ Blocked(C, e) = Blocked(R, e) + Descheduling(f, e)
  /\ Hands(R, e) \in Nat /\ Blocked(R, e) \in Nat /\ Holds(f, e) \in Nat

\* One call more has tasks of one event only.
LEMMA OnlyOne ==
  ASSUME NEW R, NEW C, NEW f, NEW E, OneMore(R, C, f, E)
  PROVE  /\ Elsewhere(R, C, f.event, E) /\ Elsewhere(C, R, f.event, E)
         /\ \A e \in E : Gains(R, C, f, e)
<1>1. ASSUME NEW e \in E
      PROVE  Gains(R, C, f, e)
  BY DEF OneMore, Gains
<1>2. ASSUME NEW x \in E, x # f.event
      PROVE  Hands(R, x) = Hands(C, x) /\ Blocked(R, x) = Blocked(C, x)
  <2>1. Holds(f, x) = 0 /\ Descheduling(f, x) = 0
    BY <1>2, HoldsOf DEF Descheduling
  <2>2. Gains(R, C, f, x)
    BY <1>1
  <2> QED
    BY <2>1, <2>2 DEF Gains
<1> QED
  BY <1>1, <1>2 DEF Elsewhere

\* A call goes, and another one comes: the tasks of other events stay.
LEMMA ElsewhereToo ==
  ASSUME NEW R, NEW C, NEW B, NEW e, NEW E, Elsewhere(C, R, e, E), Elsewhere(R, B, e, E)
  PROVE  Elsewhere(C, B, e, E)
BY DEF Elsewhere

\* The tasks of one event change, if any.
LEMMA MoveTasks ==
  ASSUME NEW C, NEW R, NEW ev, NEW nv, NEW ts, NEW ns, NEW ex, NEW nx, NEW E, NEW e \in E,
         TasksInv(C, ev, ts, ex, E), Stock(R, E), Follows(ex, nx), Elsewhere(R, C, e, E),
         \A x \in E : x # e =>
           /\ ns[x] = ts[x]
           /\ nv[x].finished_tasks = ev[x].finished_tasks /\ nv[x].total_tasks = ev[x].total_tasks
           /\ Kept(nx, x) = Kept(ex, x),
         ns[e] \in [queued : Nat, descheduled : Nat, callbacks : Nat],
         TaskCount(R, nv, ns, nx, e), CallbackCount(R, ns, nx, e)
  PROVE  TasksInv(R, nv, ns, nx, E)
<1> SUFFICES ASSUME NEW x \in E, x # e
             PROVE  /\ ns[x] \in [queued : Nat, descheduled : Nat, callbacks : Nat]
                    /\ TaskCount(R, nv, ns, nx, x) /\ CallbackCount(R, ns, nx, x)
  BY DEF TasksInv
<1>1. /\ ts[x] \in [queued : Nat, descheduled : Nat, callbacks : Nat]
      /\ TaskCount(C, ev, ts, ex, x) /\ CallbackCount(C, ts, ex, x)
  BY DEF TasksInv
<1>2. Counted(R, nv, ns, nx, x) = Counted(C, ev, ts, ex, x)
  <2>1. Hands(R, x) = Hands(C, x)
    BY DEF Elsewhere
  <2> QED
    BY <2>1 DEF Counted
<1>3. TaskCount(R, nv, ns, nx, x)
  BY <1>1, <1>2 DEF TaskCount, Follows
<1>4. ts[x].callbacks \in Nat
  BY <1>1
<1>5. CallbackCount(R, ns, nx, x)
  BY <1>1, <1>4 DEF CallbackCount, Follows, Elsewhere
<1> QED
  BY <1>1, <1>3, <1>5

\* What is known of the counts of e.
LEMMA TasksOf ==
  ASSUME NEW C, NEW ev, NEW ts, NEW ex, NEW E, NEW e \in E, TasksInv(C, ev, ts, ex, E)
  PROVE  /\ ts[e] \in [queued : Nat, descheduled : Nat, callbacks : Nat]
         /\ ts[e].queued \in Nat /\ ts[e].descheduled \in Nat /\ ts[e].callbacks \in Nat
         /\ TaskCount(C, ev, ts, ex, e) /\ CallbackCount(C, ts, ex, e)
         /\ Hands(C, e) \in Nat /\ Blocked(C, e) \in Nat /\ Kept(ex, e) \in {0, 1}
<1>1. /\ ts[e] \in [queued : Nat, descheduled : Nat, callbacks : Nat]
      /\ TaskCount(C, ev, ts, ex, e) /\ CallbackCount(C, ts, ex, e)
      /\ IsFiniteSet(HandsIn(C, e)) /\ IsFiniteSet(BlockedIn(C, e))
  BY DEF TasksInv, Stock
<1>2. Hands(C, e) \in Nat /\ Blocked(C, e) \in Nat
  BY <1>1, FS_CardinalityType DEF Hands, Blocked
<1>3. Kept(ex, e) \in {0, 1}
  BY DEF Kept
<1> QED
  BY <1>1, <1>2, <1>3

\* Tasks are counted in numbers.
LEMMA EventCounts ==
  ASSUME NEW C, NEW ev, LinksNow(C, ev), NEW e \in AllEvents
  PROVE  ev[e].total_tasks \in Nat /\ ev[e].finished_tasks \in Nat
<1>1. EventInv(ev, e)
  BY DEF LinksNow, Links
<1> QED
  BY <1>1, ExecutorAssumption DEF EventInv

\* A thread that has a call, and what is left if it returns.
LEMMA AtWork ==
  ASSUME IInv, CInv, NEW t \in Thread, stack[t] # <<>>
  PROVE  /\ Stacks(stack) /\ executor.pc # "building"
         /\ Top(stack, t) \in CallsIn(stack)
         /\ Top(stack, t) = <<t, Len(stack[t]) - 1, Head(stack[t])>>
         /\ Top(stack, t)[3] = Head(stack[t])
         /\ Head(stack[t]).event \in AllEvents
         /\ LinksNow(CallsIn(stack), event) /\ ProgressNow(CallsIn(stack), event, executor)
         /\ TasksNow(CallsIn(stack), event, tasks, executor) /\ Stock(CallsIn(stack), AllEvents)
         /\ GraphOK(AllEvents, Inserting) /\ ClientInv(executor, AllEvents, Current)
<1>1. /\ executor.pc # "building" /\ FrameOK(Head(stack[t]), AllEvents) /\ StacksOK(stack, AllEvents)
  BY Working
<1>2. Stacks(stack)
  BY <1>1 DEF StacksOK, StackOK, Stacks
<1>3. Top(stack, t) \in CallsIn(stack)
  BY <1>2, Popped
<1>4. /\ LinksNow(CallsIn(stack), event) /\ ProgressNow(CallsIn(stack), event, executor)
      /\ TasksNow(CallsIn(stack), event, tasks, executor) /\ ClientInv(executor, AllEvents, Current)
  BY <1>1 DEF CInv, CountInv, LinksNow, ProgressNow, TasksNow
<1>5. Stock(CallsIn(stack), AllEvents)
  BY <1>4 DEF TasksNow, TasksInv
<1>6. GraphOK(AllEvents, Inserting)
  BY PlanGraph DEF IInv
<1> QED
  BY <1>1, <1>2, <1>3, <1>4, <1>5, <1>6 DEF Top, FrameOK

\* What a step of a thread has to keep.
LEMMA WorkCounts ==
  ASSUME IInv, CInv, UNCHANGED buildVars, NEW t \in Thread, stack[t] # <<>>, executor.pc # "ended",
         NEW s, stack' = [stack EXCEPT ![t] = s],
         executor'.pc = executor.pc, executor'.task = executor.task,
         executor'.cancelled = executor.cancelled, executor'.pipelines = executor.pipelines,
         executor'.error \in BOOLEAN, executor'.blocks \in 0..MaxBlocks, executor'.events \subseteq AllEvents,
         LinksNow(CallsIn(stack'), event'), ProgressNow(CallsIn(stack'), event', executor'),
         TasksNow(CallsIn(stack'), event', tasks', executor')
  PROVE  CInv'
<1>1. executor.pc # "building" /\ ClientInv(executor, AllEvents, Current) /\ Stacks(stack)
  BY AtWork
<1>2. ClientInv(executor', AllEvents, Current)
  BY <1>1 DEF ClientInv
<1>3. MainInv(stack', executor')
  <2>1. MainInv(stack, executor) /\ DOMAIN stack = Thread
    BY <1>1 DEF CInv, Stacks
  <2>2. CASE t = Main
    BY <2>1, <2>2 DEF MainInv
  <2>3. CASE t # Main
    <3>1. stack'[Main] = stack[Main]
      BY <2>1, <2>3
    <3> QED
      BY <2>1, <3>1 DEF MainInv
  <2> QED
    BY <2>2, <2>3
<1>4. CountInv(CallsIn(stack'), event', tasks', executor', AllEvents, Inserting, Dependencies, Scheduled)
  BY DEF CountInv, LinksNow, ProgressNow, TasksNow
<1> QED
  BY <1>1, <1>2, <1>3, <1>4, CountKeeps

\* The executor, when a step does not change it.
LEMMA SameExecutor ==
  ASSUME NEW ex, NEW E, NEW P, ClientInv(ex, E, P)
  PROVE  /\ Follows(ex, ex) /\ ex.error \in BOOLEAN /\ ex.blocks \in 0..MaxBlocks /\ ex.events \subseteq E
BY ExecutorAssumption DEF ClientInv, Follows

\* A call without tasks goes.
LEMMA Emptied ==
  ASSUME NEW C, NEW E, NEW a \in C, a[3].fn \in {"Flush", "Finish"}, a[3].event \in E,
         NEW ev, NEW ts, NEW ex, TasksInv(C, ev, ts, ex, E), NEW nx, Follows(ex, nx), nx.task = ex.task
  PROVE  TasksInv(C \ {a}, ev, ts, nx, E)
<1> DEFINE R == C \ {a}
           e == a[3].event
<1>1. Stock(C, E)
  BY DEF TasksInv
<1>2. Stock(R, E) /\ OneMore(R, C, a[3], E)
  BY <1>1, Returned
<1> HIDE DEF R
<1>3. Elsewhere(R, C, e, E) /\ Gains(R, C, a[3], e)
  BY <1>2, OnlyOne
<1>4. Holds(a[3], e) = 0 /\ Descheduling(a[3], e) = 0
  BY HoldsOf DEF Descheduling
<1>5. Hands(R, e) = Hands(C, e) /\ Blocked(R, e) = Blocked(C, e)
  BY <1>3, <1>4 DEF Gains
<1>6. /\ ts[e] \in [queued : Nat, descheduled : Nat, callbacks : Nat] /\ ts[e].callbacks \in Nat
      /\ TaskCount(C, ev, ts, ex, e) /\ CallbackCount(C, ts, ex, e)
  BY TasksOf
<1>7. \A x : Kept(nx, x) = Kept(ex, x)
  BY DEF Kept
<1>8. Counted(R, ev, ts, nx, e) = Counted(C, ev, ts, ex, e)
  BY <1>5, <1>7 DEF Counted
<1>9. TaskCount(R, ev, ts, nx, e)
  BY <1>6, <1>8 DEF TaskCount, Follows
<1>10. CallbackCount(R, ts, nx, e)
  BY <1>5, <1>6 DEF CallbackCount, Follows
<1> QED
  BY <1>2, <1>3, <1>6, <1>7, <1>9, <1>10, MoveTasks DEF R

\* Flush keeps the counts.
LEMMA FlushCounts ==
  ASSUME IInv, CInv, UNCHANGED buildVars, NEW t \in Thread, executor.pc # "ended", Flush(t)
  PROVE  CInv'
<1> DEFINE C == CallsIn(stack)
           a == Top(stack, t)
           R == C \ {a}
<1>1. stack[t] # <<>> /\ event' = event /\ tasks' = tasks /\ executor' = executor
      /\ stack' = [stack EXCEPT ![t] = Tail(stack[t])] /\ Head(stack[t]).fn = "Flush"
  BY DEF Flush, At
<1>2. CallsIn(stack') = R
  BY <1>1, AtWork, Popped
<1>3. /\ a \in C /\ a[3].fn = "Flush" /\ a[3].event \in AllEvents
      /\ LinksNow(C, event) /\ ProgressNow(C, event, executor) /\ TasksNow(C, event, tasks, executor)
      /\ ClientInv(executor, AllEvents, Current)
  BY <1>1, AtWork
<1> HIDE DEF C, a
<1>4. FinishCalls(R) = FinishCalls(C) /\ Ending(R) = Ending(C)
  BY <1>3 DEF FinishCalls, Ending
<1>5. TasksNow(R, event, tasks, executor)
  BY <1>3, Emptied, SameExecutor DEF TasksNow
<1>6. LinksNow(R, event) /\ ProgressNow(R, event, executor)
  BY <1>3, <1>4 DEF LinksNow, ProgressNow
<1> HIDE DEF R
<1> QED
  BY <1>1, <1>2, <1>3, <1>5, <1>6, WorkCounts, SameExecutor

\* What has been counted, when the events and the calls that count are the same.
LEMMA SameProgress ==
  ASSUME NEW F, NEW ev, NEW ex, NEW S, ProgressInv(F, ev, ex, S),
         NEW G, NEW nv, Completed(G, nv, S) = Completed(F, ev, S),
         NEW nx, nx.completed_pipelines = ex.completed_pipelines, nx.to_schedule = ex.to_schedule,
         nx.pc = ex.pc,
         \A m \in ex.to_schedule :
           /\ nv[InitializeEvent(m)].total_tasks = ev[InitializeEvent(m)].total_tasks
           /\ nv[InitializeEvent(m)].finished = ev[InitializeEvent(m)].finished
  PROVE  ProgressInv(G, nv, nx, S)
BY DEF ProgressInv

\* A complete event is counted.
LEMMA CompleteOne ==
  ASSUME NEW F, NEW ev, NEW ex, NEW S, ProgressInv(F, ev, ex, S), IsFiniteSet(S),
         NEW E, FinishInv(F, ev, E), NEW c \in F, NEW m \in S, c[3].event = CompleteEvent(m),
         NEW nx, nx.completed_pipelines = ex.completed_pipelines + 1,
         nx.to_schedule = ex.to_schedule, nx.pc = ex.pc
  PROVE  ProgressInv(F \ {c}, ev, nx, S)
<1> DEFINE A == Completed(F, ev, S)
           B == Completed(F \ {c}, ev, S)
<1>1. m \notin A /\ A \subseteq S
  BY DEF Completed
<1>2. \A n \in S : n # m => CompleteEvent(n) # c[3].event
  BY DEF CompleteEvent
<1>3. B = A \cup {m}
  <2>1. ASSUME NEW n \in S, n # m
        PROVE  n \in B <=> n \in A
    BY <1>2, <2>1 DEF Completed
  <2>2. m \in B
    BY DEF Completed, FinishInv
  <2>3. B \subseteq S
    BY DEF Completed
  <2> HIDE DEF A, B
  <2> QED
    BY <1>1, <2>1, <2>2, <2>3
<1> HIDE DEF A, B
<1>4. IsFiniteSet(A) /\ Cardinality(A) \in Nat /\ (A = S \/ Cardinality(A) < Cardinality(S))
  BY <1>1, FS_Subset, FS_CardinalityType
<1>5. Cardinality(A \cup {m}) = Cardinality(A) + 1
  BY <1>1, <1>4, FS_AddElement
<1>6. Cardinality(S) \in Nat
  BY FS_CardinalityType
<1>7. ex.completed_pipelines = Cardinality(A)
  BY DEF ProgressInv, A
<1>8. ex.pc # "ready"
  BY <1>1, <1>4, <1>6, <1>7 DEF ProgressInv
<1>9. nx.completed_pipelines = Cardinality(B)
  BY <1>3, <1>5, <1>7
<1> QED
  BY <1>8, <1>9 DEF ProgressInv, B

\* Complete events are those of the MetaPipelines.
LEMMA CompleteEvents ==
  ASSUME Shape(build), NEW x \in AllEvents, x[1] = "complete"
  PROVE  \E m \in Scheduled : x = CompleteEvent(m)
<1>1. x \in Events
  BY DEF AllEvents, FinalizeEvent
<1>2. ASSUME NEW p \in ScheduledPipeline
      PROVE  x # FinishEvent(p)
  <2>1. p \in DOMAIN build.pipelines
    BY Numbered DEF ScheduledPipeline
  <2>2. PICK q : FinishEvent(p) = <<"finish", q>>
    BY <2>1, FinishBelongs
  <2> QED
    BY <2>2
<1> QED
  BY <1>1, <1>2 DEF Events, InitializeEvent, PipelineEvent

\* FinalizeFinish keeps the counts.
LEMMA FinalizeFinishCounts ==
  ASSUME IInv, CInv, UNCHANGED buildVars, NEW t \in Thread, executor.pc # "ended", FinalizeFinish(t)
  PROVE  CInv'
<1> DEFINE C == CallsIn(stack)
           a == Top(stack, t)
           R == C \ {a}
           k == IF Head(stack[t]).event[1] = "complete" THEN 1 ELSE 0
<1>1. stack[t] # <<>> /\ event' = event /\ tasks' = tasks
      /\ executor' = [executor EXCEPT !.completed_pipelines = @ + k]
      /\ stack' = [stack EXCEPT ![t] = Tail(stack[t])] /\ Head(stack[t]).fn = "Finish"
      /\ Head(stack[t]).parents = {}
  BY DEF FinalizeFinish, At
<1>2. CallsIn(stack') = R
  BY <1>1, AtWork, Popped
<1>3. /\ a \in C /\ a[3].fn = "Finish" /\ a[3].event \in AllEvents
      /\ LinksNow(C, event) /\ ProgressNow(C, event, executor) /\ TasksNow(C, event, tasks, executor)
      /\ ClientInv(executor, AllEvents, Current) /\ a[3] = Head(stack[t])
  BY <1>1, AtWork
<1>4. DOMAIN executor = ExecutorFields
  BY <1>1, Working
<1>5. /\ executor'.completed_pipelines = executor.completed_pipelines + k
      /\ executor'.pc = executor.pc /\ executor'.task = executor.task
      /\ executor'.cancelled = executor.cancelled /\ executor'.pipelines = executor.pipelines
      /\ executor'.error = executor.error /\ executor'.blocks = executor.blocks
      /\ executor'.events = executor.events /\ executor'.to_schedule = executor.to_schedule
  BY <1>1, <1>4 DEF ExecutorFields
<1>6. Follows(executor, executor')
  BY <1>3, <1>5, ExecutorAssumption DEF Follows, ClientInv
<1> HIDE DEF C, a
<1>7. FinishCalls(R) = FinishCalls(C) \ {a} /\ Ending(R) = Ending(C) /\ a \in FinishCalls(C)
  BY <1>3 DEF FinishCalls, Ending
<1>8. TasksNow(R, event, tasks, executor')
  BY <1>3, <1>5, <1>6, Emptied DEF TasksNow
<1>9. LinksNow(R, event)
  <2>1. a[3].parents = {} /\ Links(FinishCalls(C), Ending(C), event, AllEvents, Inserting, Dependencies)
    BY <1>1, <1>3 DEF LinksNow
  <2>2. Links(FinishCalls(C) \ {a}, Ending(C), event, AllEvents, Inserting, Dependencies)
    BY <1>7, <2>1, DropLinks
  <2> QED
    BY <1>7, <2>2 DEF LinksNow
<1>10. FinishInv(FinishCalls(C), event, AllEvents)
  BY <1>3 DEF LinksNow, Links
<1> HIDE DEF R
<1>11. ProgressNow(R, event, executor')
  <2>1. CASE Head(stack[t]).event[1] = "complete"
    <3>1. PICK m \in Scheduled : a[3].event = CompleteEvent(m)
      BY <1>3, <2>1, CompleteEvents DEF IInv
    <3>2. IsFiniteSet(Scheduled)
      BY PlanGraph DEF IInv
    <3>3. k = 1
      BY <2>1
    <3> QED
      BY <1>3, <1>5, <1>7, <1>10, <3>1, <3>2, <3>3, CompleteOne DEF ProgressNow
  <2>2. CASE Head(stack[t]).event[1] # "complete"
    <3>1. \A m \in Scheduled : a[3].event # CompleteEvent(m)
      BY <1>3, <2>2 DEF CompleteEvent
    <3>2. Completed(FinishCalls(R), event, Scheduled) = Completed(FinishCalls(C), event, Scheduled)
      BY <1>7, <3>1 DEF Completed
    <3>3. IsFiniteSet(Completed(FinishCalls(C), event, Scheduled))
      BY PlanGraph, FS_Subset DEF IInv, Completed
    <3>4. executor.completed_pipelines \in Nat
      BY <1>3, <3>3, FS_CardinalityType DEF ProgressNow, ProgressInv
    <3>5. executor'.completed_pipelines = executor.completed_pipelines
      BY <1>5, <2>2, <3>4
    <3> QED
      BY <1>3, <1>5, <3>2, <3>5, SameProgress DEF ProgressNow
  <2> QED
    BY <2>1, <2>2
<1>12. /\ LinksNow(CallsIn(stack'), event') /\ ProgressNow(CallsIn(stack'), event', executor')
       /\ TasksNow(CallsIn(stack'), event', tasks', executor')
  BY <1>1, <1>2, <1>8, <1>9, <1>11
<1>13. executor'.error \in BOOLEAN /\ executor'.blocks \in 0..MaxBlocks /\ executor'.events \subseteq AllEvents
  BY <1>3, <1>5, SameExecutor
<1> QED
  BY <1>1, <1>5, <1>12, <1>13, WorkCounts

\* A call about e goes.
LEMMA Gone ==
  ASSUME NEW C, NEW E, Stock(C, E), NEW a \in C, NEW e \in E, a[3].event = e
  PROVE  Stock(C \ {a}, E) /\ Elsewhere(C \ {a}, C, e, E) /\ Gains(C \ {a}, C, a[3], e)
BY Returned, OnlyOne

\* A call about e comes.
LEMMA Come ==
  ASSUME NEW C, NEW E, Stock(C, E), NEW b, Fresh(C, b), CallShape(b), NEW e \in E, b[3].event = e
  PROVE  Stock(C \cup {b}, E) /\ Elsewhere(C \cup {b}, C, e, E) /\ Gains(C, C \cup {b}, b[3], e)
BY CallMade, OnlyOne

\* What B has of e with g in the place of f, which C has.
Turns(B, C, f, g, e) ==
  /\ Hands(B, e) + Holds(f, e) = Hands(C, e) + Holds(g, e)
  /\ Blocked(B, e) + Descheduling(f, e) = Blocked(C, e) + Descheduling(g, e)
  /\ Hands(B, e) \in Nat /\ Blocked(B, e) \in Nat /\ Hands(C, e) \in Nat /\ Blocked(C, e) \in Nat

\* A call about e takes the place of another one.
LEMMA Exchanged ==
  ASSUME NEW C, NEW E, Stock(C, E), NEW a \in C, NEW R, R = C \ {a},
         NEW b, Fresh(R, b), CallShape(b),
         NEW e \in E, a[3].event = e, b[3].event = e, NEW B, B = R \cup {b}
  PROVE  Stock(B, E) /\ Elsewhere(B, C, e, E) /\ Turns(B, C, a[3], b[3], e)
<1>1. Stock(R, E) /\ Elsewhere(R, C, e, E) /\ Gains(R, C, a[3], e)
  BY Gone
<1>2. Stock(B, E) /\ Elsewhere(B, R, e, E) /\ Gains(R, B, b[3], e)
  BY <1>1, Come
<1>3. Elsewhere(B, C, e, E)
  BY <1>1, <1>2, ElsewhereToo
<1>4. Descheduling(a[3], e) \in {0, 1} /\ Descheduling(b[3], e) \in {0, 1}
  BY DEF Descheduling
<1>5. Turns(B, C, a[3], b[3], e)
  BY <1>1, <1>2, <1>4 DEF Gains, Turns
<1> QED
  BY <1>2, <1>3, <1>5

\* FailTask keeps the counts.
LEMMA FailTaskCounts ==
  ASSUME IInv, CInv, UNCHANGED buildVars, NEW t \in Thread, executor.pc # "ended", FailTask(t)
  PROVE  CInv'
<1> DEFINE C == CallsIn(stack)
           a == Top(stack, t)
           R == C \ {a}
           e == Head(stack[t]).event
<1>1. stack[t] # <<>> /\ event' = event /\ tasks' = tasks
      /\ executor' = [executor EXCEPT !.error = TRUE]
      /\ stack' = [stack EXCEPT ![t] = Tail(stack[t])] /\ Head(stack[t]).fn = "Execute"
  BY DEF FailTask, At
<1>2. CallsIn(stack') = R
  BY <1>1, AtWork, Popped
<1>3. /\ a \in C /\ a[3].fn = "Execute" /\ e \in AllEvents /\ a[3].event = e /\ Stock(C, AllEvents)
      /\ LinksNow(C, event) /\ ProgressNow(C, event, executor) /\ TasksNow(C, event, tasks, executor)
      /\ ClientInv(executor, AllEvents, Current)
  BY <1>1, AtWork
<1>4. DOMAIN executor = ExecutorFields
  BY <1>1, Working
<1>5. /\ executor'.completed_pipelines = executor.completed_pipelines
      /\ executor'.pc = executor.pc /\ executor'.task = executor.task
      /\ executor'.cancelled = executor.cancelled /\ executor'.pipelines = executor.pipelines
      /\ executor'.error = TRUE /\ executor'.blocks = executor.blocks
      /\ executor'.events = executor.events /\ executor'.to_schedule = executor.to_schedule
  BY <1>1, <1>4 DEF ExecutorFields
<1>6. Follows(executor, executor')
  BY <1>3, <1>5, ExecutorAssumption DEF Follows, ClientInv
<1> HIDE DEF C, a, e
<1>7. FinishCalls(R) = FinishCalls(C) /\ Ending(R) = Ending(C)
  BY <1>3 DEF FinishCalls, Ending
<1>8. Stock(R, AllEvents) /\ Elsewhere(R, C, e, AllEvents) /\ Gains(R, C, a[3], e)
  BY <1>3, Gone
<1>9. LinksNow(R, event)
  BY <1>3, <1>7 DEF LinksNow
<1>10. ProgressNow(R, event, executor')
  BY <1>3, <1>5, <1>7, SameProgress DEF ProgressNow
<1> HIDE DEF R
<1>11. \A x : Kept(executor', x) = Kept(executor, x)
  BY <1>5 DEF Kept
<1>12. Hands(C, e) = Hands(R, e) + 1 /\ Blocked(C, e) = Blocked(R, e) /\ Hands(R, e) \in Nat
  <2>1. Holds(a[3], e) = 1 /\ Descheduling(a[3], e) = 0
    BY <1>3, HoldsOf DEF Descheduling
  <2> QED
    BY <1>8, <2>1 DEF Gains
<1>13. /\ tasks[e] \in [queued : Nat, descheduled : Nat, callbacks : Nat]
       /\ tasks[e].queued \in Nat /\ tasks[e].descheduled \in Nat /\ tasks[e].callbacks \in Nat
       /\ TaskCount(C, event, tasks, executor, e) /\ CallbackCount(C, tasks, executor, e)
       /\ Kept(executor, e) \in {0, 1}
  BY <1>3, TasksOf DEF TasksNow
<1>14. event[e].total_tasks \in Nat /\ event[e].finished_tasks \in Nat
  BY <1>3, EventCounts
<1>15. TaskCount(R, event, tasks, executor', e)
  <2>1. Counted(R, event, tasks, executor', e) + 1 = Counted(C, event, tasks, executor, e)
        /\ Counted(R, event, tasks, executor', e) \in Nat
    BY <1>11, <1>12, <1>13, <1>14 DEF Counted
  <2> QED
    BY <1>5, <1>13, <1>14, <2>1 DEF TaskCount
<1>16. CallbackCount(R, tasks, executor', e)
  BY <1>5, <1>12, <1>13 DEF CallbackCount
<1>17. TasksNow(R, event, tasks, executor')
  BY <1>3, <1>6, <1>8, <1>11, <1>13, <1>15, <1>16, MoveTasks DEF TasksNow
<1>18. /\ LinksNow(CallsIn(stack'), event') /\ ProgressNow(CallsIn(stack'), event', executor')
       /\ TasksNow(CallsIn(stack'), event', tasks', executor')
  BY <1>1, <1>2, <1>9, <1>10, <1>17
<1>19. executor'.error \in BOOLEAN /\ executor'.blocks \in 0..MaxBlocks /\ executor'.events \subseteq AllEvents
  BY <1>3, <1>5, SameExecutor
<1> QED
  BY <1>1, <1>5, <1>18, <1>19, WorkCounts

\* The records of tasks after those of e have changed.
TasksBut(ts, ns, e) ==
  /\ \A x \in AllEvents : x # e => ns[x] = ts[x]
  /\ ns[e] \in [queued : Nat, descheduled : Nat, callbacks : Nat]

\* A thread moves tasks of e, without changing an event.
LEMMA TasksMoved ==
  ASSUME IInv, CInv, UNCHANGED buildVars, NEW t \in Thread, stack[t] # <<>>, executor.pc # "ended",
         NEW s, stack' = [stack EXCEPT ![t] = s], event' = event, executor' = executor,
         NEW R, CallsIn(stack') = R, FinishCalls(R) = FinishCalls(CallsIn(stack)),
         \A x \in Inserting : x \in Ending(R) <=> x \in Ending(CallsIn(stack)),
         NEW e \in AllEvents, Stock(R, AllEvents), Elsewhere(R, CallsIn(stack), e, AllEvents),
         TasksBut(tasks, tasks', e),
         TaskCount(R, event, tasks', executor, e), CallbackCount(R, tasks', executor, e)
  PROVE  CInv'
<1> DEFINE C == CallsIn(stack)
<1>1. /\ LinksNow(C, event) /\ ProgressNow(C, event, executor) /\ TasksNow(C, event, tasks, executor)
      /\ ClientInv(executor, AllEvents, Current)
  BY AtWork
<1> HIDE DEF C
<1>2. LinksNow(R, event)
  BY <1>1, KeepLinks DEF LinksNow, C
<1>3. ProgressNow(R, event, executor)
  BY <1>1 DEF ProgressNow, C
<1>4. Elsewhere(R, C, e, AllEvents)
  BY DEF C
<1>5. Follows(executor, executor)
  BY <1>1, SameExecutor
<1>6. TasksNow(R, event, tasks', executor)
  <2>1. TasksInv(C, event, tasks, executor, AllEvents)
    BY <1>1 DEF TasksNow
  <2> DEFINE ns == tasks'
  <2>2. /\ \A x \in AllEvents : x # e => ns[x] = tasks[x]
        /\ ns[e] \in [queued : Nat, descheduled : Nat, callbacks : Nat]
        /\ TaskCount(R, event, ns, executor, e) /\ CallbackCount(R, ns, executor, e)
    BY DEF TasksBut
  <2> HIDE DEF ns
  <2>3. TasksInv(R, event, ns, executor, AllEvents)
    BY <1>4, <1>5, <2>1, <2>2, MoveTasks
  <2> QED
    BY <2>3 DEF TasksNow, ns
<1>7. /\ LinksNow(CallsIn(stack'), event') /\ ProgressNow(CallsIn(stack'), event', executor')
      /\ TasksNow(CallsIn(stack'), event', tasks', executor')
  BY <1>2, <1>3, <1>6
<1>8. executor'.error \in BOOLEAN /\ executor'.blocks \in 0..MaxBlocks /\ executor'.events \subseteq AllEvents
  BY <1>1, SameExecutor
<1> QED
  BY <1>7, <1>8, WorkCounts

\* Deschedule keeps the counts.
LEMMA DescheduleCounts ==
  ASSUME IInv, CInv, UNCHANGED buildVars, NEW t \in Thread, executor.pc # "ended", Deschedule(t)
  PROVE  CInv'
<1> DEFINE C == CallsIn(stack)
           a == Top(stack, t)
           R == C \ {a}
           e == Head(stack[t]).event
           k == IF executor.cancelled THEN 0 ELSE 1
           r == [tasks[e] EXCEPT !.descheduled = @ + k]
<1>1. stack[t] # <<>> /\ event' = event /\ executor' = executor
      /\ tasks' = [tasks EXCEPT ![e] = r]
      /\ stack' = [stack EXCEPT ![t] = Tail(stack[t])] /\ Head(stack[t]).fn = "Deschedule"
  BY DEF Deschedule, At
<1>2. CallsIn(stack') = R
  BY <1>1, AtWork, Popped
<1>3. /\ a \in C /\ a[3].fn = "Deschedule" /\ e \in AllEvents /\ a[3].event = e /\ Stock(C, AllEvents)
      /\ LinksNow(C, event) /\ TasksNow(C, event, tasks, executor) /\ ClientInv(executor, AllEvents, Current)
  BY <1>1, AtWork
<1>4. DOMAIN tasks = AllEvents
  BY <1>1, Working DEF TasksOK
<1>5. k \in {0, 1} /\ (executor.cancelled => k = 0) /\ (~executor.cancelled => k = 1)
  OBVIOUS
<1>6. /\ tasks[e] \in [queued : Nat, descheduled : Nat, callbacks : Nat]
      /\ tasks[e].queued \in Nat /\ tasks[e].descheduled \in Nat /\ tasks[e].callbacks \in Nat
      /\ TaskCount(C, event, tasks, executor, e) /\ CallbackCount(C, tasks, executor, e)
      /\ Kept(executor, e) \in {0, 1}
  BY <1>3, TasksOf DEF TasksNow
<1> HIDE DEF C, a, e, k
<1>7. /\ r \in [queued : Nat, descheduled : Nat, callbacks : Nat]
      /\ r.queued = tasks[e].queued /\ r.descheduled = tasks[e].descheduled + k
      /\ r.callbacks = tasks[e].callbacks
  BY <1>5, <1>6
<1> HIDE DEF r
<1>8. tasks'[e] = r /\ \A x \in AllEvents : x # e => tasks'[x] = tasks[x]
  BY <1>1, <1>3, <1>4
<1>9. FinishCalls(R) = FinishCalls(C) /\ Ending(R) = Ending(C)
  BY <1>3 DEF FinishCalls, Ending
<1>10. Stock(R, AllEvents) /\ Elsewhere(R, C, e, AllEvents) /\ Gains(R, C, a[3], e)
  BY <1>3, Gone
<1> HIDE DEF R
<1>11. Hands(C, e) = Hands(R, e) + 1 /\ Blocked(C, e) = Blocked(R, e) + 1 /\ Hands(R, e) \in Nat /\ Blocked(R, e) \in Nat
  <2>1. Holds(a[3], e) = 1 /\ Descheduling(a[3], e) = 1
    BY <1>3, HoldsOf DEF Descheduling
  <2> QED
    BY <1>10, <2>1 DEF Gains
<1>12. event[e].total_tasks \in Nat /\ event[e].finished_tasks \in Nat
  BY <1>3, EventCounts
<1>13. TaskCount(R, event, tasks', executor, e)
  <2>1. Counted(R, event, tasks', executor, e) + 1 = Counted(C, event, tasks, executor, e) + k
        /\ Counted(R, event, tasks', executor, e) \in Nat /\ Counted(C, event, tasks, executor, e) \in Nat
    BY <1>5, <1>6, <1>7, <1>8, <1>11, <1>12 DEF Counted
  <2> QED
    BY <1>5, <1>6, <1>12, <2>1 DEF TaskCount
<1>14. CallbackCount(R, tasks', executor, e)
  BY <1>5, <1>6, <1>7, <1>8, <1>11 DEF CallbackCount
<1>15. TasksBut(tasks, tasks', e)
  BY <1>7, <1>8 DEF TasksBut
<1> QED
  BY <1>1, <1>2, <1>3, <1>9, <1>10, <1>13, <1>14, <1>15, TasksMoved DEF C

\* A thread goes on with another call about the same event.
LEMMA GoesOn ==
  ASSUME IInv, CInv, NEW t \in Thread, stack[t] # <<>>, NEW g, g.event = Head(stack[t]).event,
         g.fn # "Execute", g.fn = "SetTasks" => g.n \in Nat \ {0},
         NEW e, e = Head(stack[t]).event
  PROVE  /\ CallsIn([stack EXCEPT ![t] = <<g>> \o Tail(stack[t])]) = After(stack, t, g)
         /\ Stock(After(stack, t, g), AllEvents)
         /\ Elsewhere(After(stack, t, g), CallsIn(stack), e, AllEvents)
         /\ Turns(After(stack, t, g), CallsIn(stack), Head(stack[t]), g, e)
<1> DEFINE C == CallsIn(stack)
           a == Top(stack, t)
           f == Head(stack[t])
           b == <<t, Len(stack[t]) - 1, g>>
           R == C \ {a}
<1>1. a \in C /\ a[3] = f /\ e \in AllEvents /\ Stock(C, AllEvents) /\ Stacks(stack)
  BY AtWork
<1>2. /\ CallsIn([stack EXCEPT ![t] = <<g>> \o Tail(stack[t])]) = After(stack, t, g)
      /\ Fresh(R, b)
  <2>1. SwapsTop(stack, t, g)
    BY <1>1, SwappedTop
  <2> QED
    BY <2>1, Zenon DEF SwapsTop, After
<1>3. b[3] = g /\ CallShape(b)
  BY DEF CallShape
<1> DEFINE B == After(stack, t, g)
<1>4. B = R \cup {b} /\ R = C \ {a}
  BY DEF After
<1> HIDE DEF b, a, C, f, R
<1>5. a[3].event = e /\ b[3].event = e
  BY <1>1, <1>3 DEF f
<1> HIDE DEF B
<1>6. /\ Stock(B, AllEvents) /\ Elsewhere(B, C, e, AllEvents) /\ Turns(B, C, a[3], b[3], e)
  BY <1>1, <1>2, <1>3, <1>4, <1>5, Exchanged
<1> QED
  BY <1>1, <1>2, <1>3, <1>6 DEF f, C, B

\* SetTasks keeps the counts.
LEMMA SetTasksCounts ==
  ASSUME IInv, CInv, UNCHANGED buildVars, NEW t \in Thread, executor.pc # "ended", SetTasks(t)
  PROVE  CInv'
<1> DEFINE C == CallsIn(stack)
           R == CallsIn(stack')
           a == Top(stack, t)
           f == Head(stack[t])
           e == f.event
           r == [tasks[e] EXCEPT !.queued = @ + 1]
           g == [f EXCEPT !.n = f.n - 1]
           s == (IF f.n = 1 THEN <<>> ELSE <<g>>) \o Tail(stack[t])
<1>1. /\ stack[t] # <<>> /\ f.fn = "SetTasks" /\ event' = event /\ executor' = executor
      /\ stack' = [stack EXCEPT ![t] = s]
      /\ tasks' = [tasks EXCEPT ![e] = r]
  BY DEF SetTasks, At
<1>2. /\ a \in C /\ a[3] = f /\ e \in AllEvents /\ Stock(C, AllEvents) /\ Stacks(stack)
      /\ LinksNow(C, event) /\ TasksNow(C, event, tasks, executor)
  BY <1>1, AtWork
<1>3. /\ DOMAIN tasks = AllEvents /\ DOMAIN f = FrameFields /\ IsSeq(Tail(stack[t]))
  BY <1>1, Working DEF TasksOK, FrameOK, StackOK
<1>4. f.n \in Nat \ {0}
  BY <1>1, <1>2 DEF Stock, CallShape
<1>5. Holds(f, e) = f.n /\ Descheduling(f, e) = 0
  BY <1>1, HoldsOf DEF Descheduling
<1>6. /\ Stock(R, AllEvents) /\ Elsewhere(R, C, e, AllEvents)
      /\ Hands(R, e) + 1 = Hands(C, e) /\ Blocked(R, e) = Blocked(C, e) /\ Hands(R, e) \in Nat
      /\ FinishCalls(R) = FinishCalls(C) /\ Ending(R) = Ending(C)
  <2>1. CASE f.n = 1
    <3>1. s = Tail(stack[t])
      BY <1>3, <2>1, EmptyConcat
    <3> HIDE DEF s
    <3>2. R = C \ {a}
      BY <1>1, <1>2, <3>1, Popped
    <3> HIDE DEF R, C, a, f, e
    <3>3. Stock(R, AllEvents) /\ Elsewhere(R, C, e, AllEvents) /\ Gains(R, C, a[3], e)
      BY <1>2, <3>2, Gone DEF e
    <3>4. Hands(R, e) + 1 = Hands(C, e) /\ Blocked(R, e) = Blocked(C, e) /\ Hands(R, e) \in Nat
      BY <1>2, <1>5, <2>1, <3>3 DEF Gains
    <3>5. FinishCalls(R) = FinishCalls(C) /\ Ending(R) = Ending(C)
      BY <1>1, <1>2, <3>2 DEF FinishCalls, Ending
    <3> QED
      BY <3>3, <3>4, <3>5
  <2>2. CASE f.n # 1
    <3>1. s = <<g>> \o Tail(stack[t])
      BY <2>2
    <3> HIDE DEF s
    <3>2. g.event = e /\ g.fn = "SetTasks" /\ g.n = f.n - 1 /\ g.n \in Nat \ {0}
      <4> HIDE DEF f
      <4> QED
        BY <1>1, <1>3, <1>4, <2>2 DEF FrameFields
    <3>3. Holds(g, e) = g.n /\ Descheduling(g, e) = 0
      BY <3>2, HoldsOf DEF Descheduling
    <3> HIDE DEF g
    <3> DEFINE B == After(stack, t, g)
    <3> HIDE DEF R, B
    <3>0. /\ CallsIn([stack EXCEPT ![t] = <<g>> \o Tail(stack[t])]) = B
          /\ Stock(B, AllEvents) /\ Elsewhere(B, C, e, AllEvents) /\ Turns(B, C, f, g, e)
      BY <1>1, <3>2, GoesOn DEF B
    <3>4. /\ R = B /\ Stock(R, AllEvents) /\ Elsewhere(R, C, e, AllEvents)
          /\ Turns(R, C, f, g, e)
      BY <1>1, <3>0, <3>1 DEF R
    <3> DEFINE b == <<t, Len(stack[t]) - 1, g>>
    <3>5. R = (C \ {a}) \cup {b} /\ b[3].fn = "SetTasks"
      BY <3>2, <3>4 DEF After, B
    <3> HIDE DEF R, C, a, f, e, b
    <3>7. Hands(R, e) + 1 = Hands(C, e) /\ Blocked(R, e) = Blocked(C, e) /\ Hands(R, e) \in Nat
      BY <1>4, <1>5, <3>2, <3>3, <3>4 DEF Turns
    <3>8. FinishCalls(R) = FinishCalls(C) /\ Ending(R) = Ending(C)
      BY <1>1, <1>2, <3>5 DEF FinishCalls, Ending
    <3> QED
      BY <3>4, <3>7, <3>8
  <2> QED
    BY <2>1, <2>2
<1>7. /\ tasks[e] \in [queued : Nat, descheduled : Nat, callbacks : Nat]
      /\ tasks[e].queued \in Nat /\ tasks[e].descheduled \in Nat /\ tasks[e].callbacks \in Nat
      /\ TaskCount(C, event, tasks, executor, e) /\ CallbackCount(C, tasks, executor, e)
      /\ Kept(executor, e) \in {0, 1}
  BY <1>2, TasksOf DEF TasksNow
<1> HIDE DEF C, R, s, e
<1>8. /\ r \in [queued : Nat, descheduled : Nat, callbacks : Nat]
      /\ r.queued = tasks[e].queued + 1 /\ r.descheduled = tasks[e].descheduled
      /\ r.callbacks = tasks[e].callbacks
  BY <1>7
<1> HIDE DEF r
<1>9. tasks'[e] = r /\ \A x \in AllEvents : x # e => tasks'[x] = tasks[x]
  BY <1>1, <1>2, <1>3
<1>10. event[e].total_tasks \in Nat /\ event[e].finished_tasks \in Nat
  BY <1>2, EventCounts
<1>11. TaskCount(R, event, tasks', executor, e)
  <2>1. Counted(R, event, tasks', executor, e) = Counted(C, event, tasks, executor, e)
    BY <1>6, <1>7, <1>8, <1>9, <1>10 DEF Counted
  <2> QED
    BY <1>7, <2>1 DEF TaskCount
<1>12. CallbackCount(R, tasks', executor, e)
  BY <1>6, <1>7, <1>8, <1>9 DEF CallbackCount
<1>13. TasksBut(tasks, tasks', e)
  BY <1>8, <1>9 DEF TasksBut
<1> QED
  BY <1>1, <1>2, <1>6, <1>11, <1>12, <1>13, TasksMoved DEF C, R

\* A thread goes on with another call, which makes one more.
LEMMA CallsToo ==
  ASSUME IInv, CInv, NEW t \in Thread, stack[t] # <<>>, NEW g, g.event = Head(stack[t]).event,
         g.fn # "Execute", g.fn = "SetTasks" => g.n \in Nat \ {0},
         NEW h, h.fn # "Execute", h.fn = "SetTasks" => h.n \in Nat \ {0},
         NEW y \in AllEvents, h.event = y
  PROVE  /\ CallsIn([stack EXCEPT ![t] = <<h>> \o (<<g>> \o Tail(stack[t]))]) = AndThen(stack, t, g, h)
         /\ Stock(AndThen(stack, t, g, h), AllEvents)
         /\ Elsewhere(AndThen(stack, t, g, h), After(stack, t, g), y, AllEvents)
         /\ Gains(After(stack, t, g), AndThen(stack, t, g, h), h, y)
<1> DEFINE B == After(stack, t, g)
           b == <<t, Len(stack[t]), h>>
<1>1. Stacks(stack)
  BY AtWork
<1>2. Stock(B, AllEvents)
  BY GoesOn
<1>3. /\ CallsIn([stack EXCEPT ![t] = <<h>> \o (<<g>> \o Tail(stack[t]))]) = AndThen(stack, t, g, h)
      /\ Fresh(B, b)
  BY <1>1, Doubled
<1>4. b[3] = h /\ CallShape(b)
  BY DEF CallShape
<1>6. AndThen(stack, t, g, h) = B \cup {b}
  BY DEF AndThen
<1> HIDE DEF b, B
<1>5. Stock(B \cup {b}, AllEvents) /\ Elsewhere(B \cup {b}, B, y, AllEvents) /\ Gains(B, B \cup {b}, b[3], y)
  BY <1>2, <1>3, <1>4, Come
<1> QED
  BY <1>3, <1>4, <1>5, <1>6 DEF B

\* A task that inserts no event ends.
LEMMA EndTaskCounts ==
  ASSUME IInv, CInv, UNCHANGED buildVars, NEW t \in Thread, executor.pc # "ended", EndTask(t),
         ~InsertsEvent(Head(stack[t]).event)
  PROVE  CInv'
<1> DEFINE C == CallsIn(stack)
           R == CallsIn(stack')
           a == Top(stack, t)
           f == Head(stack[t])
           e == f.event
           g == Task("FinishTask", e)
           h == Task("Flush", e)
           T == Tail(stack[t])
           s == <<g>> \o (IF FlushesLast(e) THEN <<h>> ELSE <<>>) \o T
<1>1. /\ stack[t] # <<>> /\ f.fn = "Execute" /\ tasks' = tasks /\ event' = event
      /\ executor' = executor /\ stack' = [stack EXCEPT ![t] = s]
  BY DEF EndTask, At
<1>2. /\ a \in C /\ a[3] = f /\ e \in AllEvents /\ Stock(C, AllEvents)
      /\ LinksNow(C, event) /\ TasksNow(C, event, tasks, executor)
  BY <1>1, AtWork
<1>3. IsSeq(T)
  BY <1>1, Working DEF StackOK
<1>4. Holds(f, e) = 1 /\ Descheduling(f, e) = 0
  BY <1>1, HoldsOf DEF Descheduling
<1>5. /\ g.event = e /\ g.fn = "FinishTask" /\ h.event = e /\ h.fn = "Flush"
  BY DEF Task, Frame
<1>6. Holds(g, e) = 1 /\ Descheduling(g, e) = 0 /\ Holds(h, e) = 0 /\ Descheduling(h, e) = 0
  BY <1>5, HoldsOf DEF Descheduling
<1>7. e \notin Inserting
  BY DEF Inserting
<1> HIDE DEF g, h
<1>8. /\ Stock(R, AllEvents) /\ Elsewhere(R, C, e, AllEvents)
      /\ Hands(R, e) = Hands(C, e) /\ Blocked(R, e) = Blocked(C, e)
      /\ FinishCalls(R) = FinishCalls(C)
      /\ \A x \in Inserting : x \in Ending(R) <=> x \in Ending(C)
  <2>1. CASE FlushesLast(e)
    <3>1. s = <<g>> \o (<<h>> \o T)
      <4> DEFINE S == {T[i] : i \in DOMAIN T} \cup {g, h}
      <4>1. T \in Seq(S) /\ <<g>> \in Seq(S) /\ <<h>> \in Seq(S)
        <5> HIDE DEF T
        <5> QED
          BY <1>3 DEF IsSeq
      <4> HIDE DEF S, T
      <4>2. (<<g>> \o <<h>>) \o T = <<g>> \o (<<h>> \o T)
        BY <4>1, ConcatAssociative
      <4> QED
        BY <2>1, <4>2
    <3> HIDE DEF s
    <3> DEFINE B == After(stack, t, h)
               A == AndThen(stack, t, h, g)
               b == <<t, Len(stack[t]) - 1, h>>
               c == <<t, Len(stack[t]), g>>
    <3>2. Elsewhere(B, C, e, AllEvents) /\ Turns(B, C, f, h, e)
      BY <1>1, <1>5, GoesOn
    <3>3. /\ CallsIn([stack EXCEPT ![t] = <<g>> \o (<<h>> \o Tail(stack[t]))]) = A
          /\ Stock(A, AllEvents) /\ Elsewhere(A, B, e, AllEvents) /\ Gains(B, A, g, e)
      BY <1>1, <1>2, <1>5, CallsToo
    <3>4. R = A /\ A = (C \ {a}) \cup {b, c} /\ b[3] = h /\ c[3] = g
      BY <1>1, <3>1, <3>3 DEF After, AndThen
    <3> HIDE DEF R, A, B, C, a, f, e, b, c
    <3>5. Hands(R, e) = Hands(C, e) /\ Blocked(R, e) = Blocked(C, e)
      BY <1>4, <1>6, <3>2, <3>3, <3>4 DEF Turns, Gains
    <3>6. Elsewhere(R, C, e, AllEvents)
      BY <3>2, <3>3, <3>4, ElsewhereToo
    <3>7. FinishCalls(R) = FinishCalls(C)
      BY <1>1, <1>2, <1>5, <3>4 DEF FinishCalls
    <3>8. \A x \in Inserting : x \in Ending(R) <=> x \in Ending(C)
      BY <1>1, <1>2, <1>5, <1>7, <3>4 DEF Ending
    <3> QED
      BY <3>3, <3>4, <3>5, <3>6, <3>7, <3>8
  <2>2. CASE ~FlushesLast(e)
    <3>1. s = <<g>> \o T
      <4>1. <<g>> \o <<>> = <<g>>
        BY EmptyConcat DEF IsSeq
      <4> QED
        BY <2>2, <4>1
    <3> HIDE DEF s
    <3> DEFINE B == After(stack, t, g)
               b == <<t, Len(stack[t]) - 1, g>>
    <3>2. /\ CallsIn([stack EXCEPT ![t] = <<g>> \o Tail(stack[t])]) = B
          /\ Stock(B, AllEvents) /\ Elsewhere(B, C, e, AllEvents) /\ Turns(B, C, f, g, e)
      BY <1>1, <1>5, GoesOn
    <3>3. R = B /\ B = (C \ {a}) \cup {b} /\ b[3] = g
      BY <1>1, <3>1, <3>2 DEF After
    <3> HIDE DEF R, B, C, a, f, e, b
    <3>4. Hands(R, e) = Hands(C, e) /\ Blocked(R, e) = Blocked(C, e)
      BY <1>4, <1>6, <3>2, <3>3 DEF Turns
    <3>5. FinishCalls(R) = FinishCalls(C)
      BY <1>1, <1>2, <1>5, <3>3 DEF FinishCalls
    <3>6. \A x \in Inserting : x \in Ending(R) <=> x \in Ending(C)
      BY <1>1, <1>2, <1>5, <1>7, <3>3 DEF Ending
    <3> QED
      BY <3>2, <3>3, <3>4, <3>5, <3>6
  <2> QED
    BY <2>1, <2>2
<1>9. /\ tasks[e] \in [queued : Nat, descheduled : Nat, callbacks : Nat]
      /\ TaskCount(C, event, tasks, executor, e) /\ CallbackCount(C, tasks, executor, e)
  BY <1>2, TasksOf DEF TasksNow
<1> HIDE DEF C, R, s, e
<1>10. TaskCount(R, event, tasks, executor, e) /\ CallbackCount(R, tasks, executor, e)
  BY <1>8, <1>9 DEF TaskCount, Counted, CallbackCount
<1>11. TasksBut(tasks, tasks', e)
  BY <1>1, <1>9 DEF TasksBut
<1> QED
  BY <1>1, <1>2, <1>8, <1>10, <1>11, TasksMoved DEF C, R

\* A sequence of one element has no tail.
LEMMA NoTail ==
  ASSUME NEW s, IsSeq(s), s # <<>>, Len(s) - 1 = 0
  PROVE  Tail(s) = <<>>
<1>1. IsSeq(Tail(s)) /\ Len(Tail(s)) = 0 /\ DOMAIN Tail(s) = 1..0
  BY TailOf
<1> DEFINE r == Tail(s)
<1> HIDE DEF r
<1> DEFINE S == {r[i] : i \in DOMAIN r}
<1>2. r \in Seq(S) /\ Len(r) = 0
  BY <1>1 DEF IsSeq, r
<1> HIDE DEF S
<1> QED
  BY <1>2, EmptySeq DEF r

\* BlockTask keeps the counts.
LEMMA BlockTaskCounts ==
  ASSUME IInv, CInv, UNCHANGED buildVars, NEW t \in Thread, executor.pc # "ended", BlockTask(t)
  PROVE  CInv'
<1> DEFINE C == CallsIn(stack)
           R == CallsIn(stack')
           a == Top(stack, t)
           f == Head(stack[t])
           e == f.event
           r == [tasks[e] EXCEPT !.callbacks = @ + 1]
           g == Task("Deschedule", e)
           B == After(stack, t, g)
           b == <<t, Len(stack[t]) - 1, g>>
<1>1. /\ stack[t] # <<>> /\ f.fn = "Execute" /\ event' = event
      /\ executor' = [executor EXCEPT !.blocks = @ + 1] /\ executor.blocks < MaxBlocks
      /\ stack' = [stack EXCEPT ![t] = <<g>>]
      /\ tasks' = [tasks EXCEPT ![e] = r]
  BY DEF BlockTask, At
<1>2. /\ a \in C /\ a[3] = f /\ a[2] = Len(stack[t]) - 1 /\ e \in AllEvents /\ Stock(C, AllEvents)
      /\ LinksNow(C, event) /\ TasksNow(C, event, tasks, executor) /\ ProgressNow(C, event, executor)
      /\ ClientInv(executor, AllEvents, Current)
  BY <1>1, AtWork
<1>3. /\ DOMAIN tasks = AllEvents /\ IsSeq(stack[t]) /\ DOMAIN executor = ExecutorFields
  BY <1>1, Working DEF TasksOK, StackOK
<1>4. Tail(stack[t]) = <<>>
  <2>1. a[2] = 0
    BY <1>1, <1>2 DEF Stock, CallShape
  <2> QED
    BY <1>1, <1>2, <1>3, <2>1, NoTail
<1>5. g.event = e /\ g.fn = "Deschedule"
  BY DEF Task, Frame
<1>6. /\ Holds(f, e) = 1 /\ Descheduling(f, e) = 0
      /\ Holds(g, e) = 1 /\ Descheduling(g, e) = 1
  BY <1>1, <1>5, HoldsOf DEF Descheduling
<1>7. /\ CallsIn([stack EXCEPT ![t] = <<g>> \o Tail(stack[t])]) = B
      /\ Stock(B, AllEvents) /\ Elsewhere(B, C, e, AllEvents) /\ Turns(B, C, f, g, e)
  <2> HIDE DEF g
  <2> QED
    BY <1>1, <1>5, GoesOn
<1>8. R = B /\ B = (C \ {a}) \cup {b} /\ b[3] = g
  <2>1. <<g>> \o Tail(stack[t]) = <<g>>
    <3> HIDE DEF g
    <3>1. IsSeq(<<g>>)
      BY FewCalls
    <3> QED
      BY <1>4, <3>1, EmptyConcat
  <2> HIDE DEF g
  <2> QED
    BY <1>1, <1>7, <2>1 DEF After
<1>9. /\ executor'.completed_pipelines = executor.completed_pipelines
      /\ executor'.pc = executor.pc /\ executor'.task = executor.task
      /\ executor'.cancelled = executor.cancelled /\ executor'.pipelines = executor.pipelines
      /\ executor'.error = executor.error /\ executor'.blocks = executor.blocks + 1
      /\ executor'.events = executor.events /\ executor'.to_schedule = executor.to_schedule
  BY <1>1, <1>3 DEF ExecutorFields
<1>10. executor.blocks \in Nat /\ executor'.blocks \in 0..MaxBlocks
  BY <1>1, <1>2, <1>9, ExecutorAssumption DEF ClientInv
<1>11. Follows(executor, executor')
  BY <1>2, <1>9, <1>10 DEF Follows
<1>12. \A x : Kept(executor', x) = Kept(executor, x)
  BY <1>9 DEF Kept
<1>13. /\ tasks[e] \in [queued : Nat, descheduled : Nat, callbacks : Nat]
       /\ tasks[e].queued \in Nat /\ tasks[e].descheduled \in Nat /\ tasks[e].callbacks \in Nat
       /\ TaskCount(C, event, tasks, executor, e) /\ CallbackCount(C, tasks, executor, e)
       /\ Kept(executor, e) \in {0, 1}
  BY <1>2, TasksOf DEF TasksNow
<1> HIDE DEF C, R, B, a, b, f, e, g
<1>14. /\ r \in [queued : Nat, descheduled : Nat, callbacks : Nat]
       /\ r.queued = tasks[e].queued /\ r.descheduled = tasks[e].descheduled
       /\ r.callbacks = tasks[e].callbacks + 1
  BY <1>13
<1> HIDE DEF r
<1>15. tasks'[e] = r /\ \A x \in AllEvents : x # e => tasks'[x] = tasks[x]
  BY <1>1, <1>2, <1>3
<1>16. Hands(R, e) = Hands(C, e) /\ Blocked(R, e) = Blocked(C, e) + 1 /\ Blocked(C, e) \in Nat
  BY <1>6, <1>7, <1>8 DEF Turns
<1>17. FinishCalls(R) = FinishCalls(C) /\ Ending(R) = Ending(C)
  BY <1>1, <1>2, <1>5, <1>8 DEF FinishCalls, Ending
<1>18. TaskCount(R, event, tasks', executor', e)
  <2>1. Counted(R, event, tasks', executor', e) = Counted(C, event, tasks, executor, e)
    BY <1>12, <1>14, <1>15, <1>16 DEF Counted
  <2> QED
    BY <1>9, <1>13, <2>1 DEF TaskCount
<1>19. CallbackCount(R, tasks', executor', e)
  BY <1>9, <1>10, <1>13, <1>14, <1>15, <1>16 DEF CallbackCount
<1>20. TasksNow(R, event, tasks', executor')
  <2> DEFINE ns == tasks'
             nx == executor'
  <2>1. /\ \A x \in AllEvents : x # e => ns[x] = tasks[x]
        /\ \A x : Kept(nx, x) = Kept(executor, x)
        /\ ns[e] \in [queued : Nat, descheduled : Nat, callbacks : Nat]
        /\ TaskCount(R, event, ns, nx, e) /\ CallbackCount(R, ns, nx, e) /\ Follows(executor, nx)
    BY <1>11, <1>12, <1>14, <1>15, <1>18, <1>19
  <2>2. TasksInv(C, event, tasks, executor, AllEvents) /\ Stock(R, AllEvents) /\ Elsewhere(R, C, e, AllEvents)
    BY <1>2, <1>7, <1>8 DEF TasksNow
  <2> HIDE DEF ns, nx
  <2>3. TasksInv(R, event, ns, nx, AllEvents)
    BY <1>2, <2>1, <2>2, MoveTasks
  <2> QED
    BY <2>3 DEF TasksNow, ns, nx
<1>21. LinksNow(R, event)
  BY <1>2, <1>17 DEF LinksNow
<1>22. ProgressNow(R, event, executor')
  BY <1>2, <1>9, <1>17, SameProgress DEF ProgressNow
<1>23. /\ LinksNow(CallsIn(stack'), event') /\ ProgressNow(CallsIn(stack'), event', executor')
       /\ TasksNow(CallsIn(stack'), event', tasks', executor')
  BY <1>1, <1>20, <1>21, <1>22 DEF R
<1>24. executor'.error \in BOOLEAN /\ executor'.events \subseteq AllEvents
  BY <1>2, <1>9, SameExecutor
<1> QED
  BY <1>1, <1>9, <1>10, <1>23, <1>24, WorkCounts

\* A task is counted that is not the last one.
LEMMA CountLinks ==
  ASSUME NEW F, NEW X, NEW Y, NEW ev, NEW E, NEW I, NEW D, Links(F, X, ev, E, I, D), GraphOK(E, I),
         NEW e \in E, \A x \in I : x \in X <=> x \in Y,
         NEW nv, SameEdges(ev, nv, E), \A x \in E : x # e => nv[x] = ev[x],
         nv[e].finished = ev[e].finished, ~ev[e].finished,
         nv[e].finished_dependencies = ev[e].finished_dependencies,
         nv[e].total_tasks = ev[e].total_tasks, nv[e].finished_tasks \in 0..ev[e].total_tasks
  PROVE  Links(F, Y, nv, E, I, D)
<1>1. ParentsInv(nv, E, I) /\ \A d \in D : HomeInv(nv, E, I, d)
  BY KeepEdges
<1>2. \A x \in E : /\ nv[x].finished = ev[x].finished /\ nv[x].parents = ev[x].parents
                   /\ nv[x].finished_dependencies = ev[x].finished_dependencies
                   /\ nv[x].total_dependencies = ev[x].total_dependencies
  BY DEF SameEdges
<1>3. Waiting(F, nv, E) = Waiting(F, ev, E)
  BY <1>2 DEF Waiting
<1>4. \A x \in E : DependencyCount(F, nv, E, x)
  BY <1>2, <1>3 DEF Links, DependencyCount, Pending
<1>5. EventInv(nv, e)
  <2>1. EventInv(ev, e)
    BY DEF Links
  <2> QED
    BY <1>2, <2>1 DEF EventInv
<1>6. \A x \in E : EventInv(nv, x)
  BY <1>5 DEF Links, EventInv
<1>7. FinishInv(F, nv, E)
  BY <1>2 DEF Links, FinishInv
<1>8. ASSUME NEW x \in I
      PROVE  InsertedInv(Y, nv, x)
  <2>1. InsertedInv(X, ev, x) /\ x \in E /\ FinalizeEvent(x[2]) \in E
    BY DEF Links, GraphOK
  <2> QED
    BY <1>2, <2>1 DEF InsertedInv
<1> QED
  BY <1>1, <1>4, <1>6, <1>7, <1>8 DEF Links

\* A thread has a task of e, so e has been scheduled and has not finished.
LEMMA InWork ==
  ASSUME NEW C, NEW ev, NEW ts, NEW ex, LinksNow(C, ev), TasksNow(C, ev, ts, ex),
         NEW e \in AllEvents, Hands(C, e) # 0
  PROVE  /\ ~ev[e].finished /\ ev[e].finished \in BOOLEAN
         /\ ev[e].finished_tasks \in Nat /\ ev[e].total_tasks \in 1..MaxTasks
         /\ ev[e].finished_tasks < ev[e].total_tasks
         /\ ev[e].finished_dependencies >= ev[e].total_dependencies
         /\ ~(e[1] = "finalize" /\ ev[e].total_dependencies = 0)
         /\ e \in Inserting => ev[e].total_tasks = 1 /\ ev[e].finished_tasks = 0
<1>1. EventInv(ev, e)
  BY DEF LinksNow, Links
<1>2. /\ ts[e].queued \in Nat /\ ts[e].descheduled \in Nat
      /\ TaskCount(C, ev, ts, ex, e) /\ Hands(C, e) \in Nat /\ Kept(ex, e) \in {0, 1}
  BY TasksOf DEF TasksNow
<1>3. ev[e].total_tasks \in Nat /\ ev[e].finished_tasks \in Nat
  BY EventCounts
<1>4. ev[e].finished_tasks < ev[e].total_tasks
  BY <1>2, <1>3 DEF TaskCount, Counted
<1>5. ~ev[e].finished /\ ev[e].finished \in BOOLEAN /\ ev[e].total_tasks \in 1..MaxTasks
  BY <1>1, <1>3, <1>4, ExecutorAssumption DEF EventInv
<1>6. /\ ev[e].finished_dependencies >= ev[e].total_dependencies
      /\ ~(e[1] = "finalize" /\ ev[e].total_dependencies = 0)
  BY <1>1, <1>3, <1>4 DEF EventInv
<1>7. ASSUME e \in Inserting
      PROVE  ev[e].total_tasks = 1 /\ ev[e].finished_tasks = 0
  <2>1. e[1] = "finish"
    BY <1>7 DEF Inserting, InsertsEvent
  <2> QED
    BY <1>1, <1>3, <1>4, <2>1 DEF EventInv
<1> QED
  BY <1>3, <1>4, <1>5, <1>6, <1>7

\* Only e changes, and it is not an event that is still to be scheduled.
Onward(ex, nx, ev, nv, e, E, S) ==
  /\ nx.completed_pipelines = ex.completed_pipelines /\ nx.pc = ex.pc
  /\ nx.to_schedule \subseteq ex.to_schedule /\ ex.to_schedule \subseteq S
  /\ \A m \in nx.to_schedule : InitializeEvent(m) # e
  /\ \A m \in S : CompleteEvent(m) \in E /\ InitializeEvent(m) \in E
  /\ \A x \in E : x # e => nv[x] = ev[x]

\* An event finishes, and a call is to tell its parents.  Nothing is counted yet.
LEMMA FinishProgress ==
  ASSUME NEW F, NEW ev, NEW ex, NEW S, ProgressInv(F, ev, ex, S), NEW e, NEW E, NEW nv, NEW nx,
         Onward(ex, nx, ev, nv, e, E, S), NEW b, b[3].event = e, ~ev[e].finished
  PROVE  ProgressInv(F \cup {b}, nv, nx, S)
<1>1. Completed(F \cup {b}, nv, S) = Completed(F, ev, S)
  BY DEF Completed, Onward
<1>2. \A m \in nx.to_schedule : nv[InitializeEvent(m)] = ev[InitializeEvent(m)] /\ m \in ex.to_schedule
  BY DEF Onward
<1> QED
  BY <1>1, <1>2 DEF ProgressInv, Onward

\* An event that is still to be scheduled has no tasks.
LEMMA NotYet ==
  ASSUME NEW C, NEW ev, NEW ex, ProgressNow(C, ev, ex), NEW e, ev[e].total_tasks # 0
  PROVE  \A m \in ex.to_schedule : InitializeEvent(m) # e
BY DEF ProgressNow, ProgressInv

\* FinishTask keeps the counts.
LEMMA FinishTaskCounts ==
  ASSUME IInv, CInv, UNCHANGED buildVars, NEW t \in Thread, executor.pc # "ended", FinishTask(t)
  PROVE  CInv'
<1> DEFINE C == CallsIn(stack)
           R == CallsIn(stack')
           a == Top(stack, t)
           f == Head(stack[t])
           e == f.event
           last == event[e].finished_tasks + 1 = event[e].total_tasks
           g == Frame("Finish", e, event[e].parents, 0)
           s == (IF last THEN <<g>> ELSE <<>>) \o Tail(stack[t])
           b == <<t, Len(stack[t]) - 1, g>>
<1>1. /\ stack[t] # <<>> /\ f.fn = "FinishTask" /\ tasks' = tasks /\ executor' = executor
      /\ stack' = [stack EXCEPT ![t] = s]
      /\ event' = [event EXCEPT ![e].finished_tasks = @ + 1, ![e].finished = last]
  BY ZenonT(60) DEF FinishTask, At
<1>2. /\ a \in C /\ a[3] = f /\ e \in AllEvents /\ Stock(C, AllEvents) /\ Stacks(stack)
      /\ LinksNow(C, event) /\ TasksNow(C, event, tasks, executor) /\ ProgressNow(C, event, executor)
      /\ ClientInv(executor, AllEvents, Current) /\ GraphOK(AllEvents, Inserting)
  BY <1>1, AtWork
<1>3. /\ DOMAIN event = AllEvents /\ DOMAIN event[e] = EventFields /\ IsSeq(Tail(stack[t]))
      /\ executor.to_schedule \subseteq Scheduled
  BY <1>1, <1>2, Working, Executing, Zenon DEF EventsOK, StackOK
<1>4. Holds(f, e) = 1 /\ Descheduling(f, e) = 0
  BY <1>1, HoldsOf, Zenon DEF Descheduling
<1>5. g.event = e /\ g.fn = "Finish" /\ g.parents = event[e].parents
  BY DEF Frame
<1>6. Holds(g, e) = 0 /\ Descheduling(g, e) = 0
  BY <1>5, HoldsOf DEF Descheduling
<1> HIDE DEF g, last
<1>7. /\ Stock(R, AllEvents) /\ Elsewhere(R, C, e, AllEvents)
      /\ Hands(R, e) + 1 = Hands(C, e) /\ Blocked(R, e) = Blocked(C, e) /\ Hands(R, e) \in Nat
      /\ last => R = (C \ {a}) \cup {b}
      /\ ~last => R = C \ {a}
  <2>1. CASE ~last
    <3>1. s = Tail(stack[t])
      BY <1>3, <2>1, EmptyConcat
    <3> HIDE DEF s
    <3>2. R = C \ {a}
      BY <1>1, <1>2, <3>1, Popped
    <3> HIDE DEF R, C, a, f, e
    <3>3. Stock(R, AllEvents) /\ Elsewhere(R, C, e, AllEvents) /\ Gains(R, C, a[3], e)
      BY <1>2, <3>2, Gone DEF e
    <3>4. Hands(R, e) + 1 = Hands(C, e) /\ Blocked(R, e) = Blocked(C, e) /\ Hands(R, e) \in Nat
      BY <1>2, <1>4, <2>1, <3>3 DEF Gains
    <3> QED
      BY <2>1, <3>2, <3>3, <3>4
  <2>2. CASE last
    <3>1. s = <<g>> \o Tail(stack[t])
      BY <2>2
    <3> HIDE DEF s
    <3> DEFINE B == After(stack, t, g)
    <3> HIDE DEF R, B
    <3>2. /\ CallsIn([stack EXCEPT ![t] = <<g>> \o Tail(stack[t])]) = B
          /\ Stock(B, AllEvents) /\ Elsewhere(B, C, e, AllEvents) /\ Turns(B, C, f, g, e)
      BY <1>1, <1>5, GoesOn DEF B
    <3>3. R = B /\ B = (C \ {a}) \cup {b}
      BY <1>1, <3>1, <3>2 DEF R, B, After
    <3> HIDE DEF C, a, f, e, b
    <3>4. Hands(R, e) + 1 = Hands(C, e) /\ Blocked(R, e) = Blocked(C, e) /\ Hands(R, e) \in Nat
      BY <1>4, <1>6, <3>2, <3>3 DEF Turns
    <3> QED
      BY <2>2, <3>2, <3>3, <3>4
  <2> QED
    BY <2>1, <2>2
<1> HIDE DEF C, R, a, f, e, s
<1>8. Hands(C, e) # 0
  BY <1>7
<1>9. /\ ~event[e].finished /\ event[e].finished \in BOOLEAN
      /\ event[e].finished_tasks \in Nat /\ event[e].total_tasks \in 1..MaxTasks
      /\ event[e].finished_tasks < event[e].total_tasks
      /\ event[e].finished_dependencies >= event[e].total_dependencies
      /\ ~(e[1] = "finalize" /\ event[e].total_dependencies = 0)
      /\ e \in Inserting => event[e].total_tasks = 1 /\ event[e].finished_tasks = 0
  BY <1>2, <1>8, InWork
<1> DEFINE nv == event'
<1>10. /\ \A x \in AllEvents : x # e => nv[x] = event[x]
       /\ nv[e].finished_tasks = event[e].finished_tasks + 1
       /\ nv[e].finished = last
       /\ nv[e].total_tasks = event[e].total_tasks /\ nv[e].parents = event[e].parents
       /\ nv[e].total_dependencies = event[e].total_dependencies
       /\ nv[e].finished_dependencies = event[e].finished_dependencies
  BY <1>1, <1>2, <1>3 DEF EventFields
<1> HIDE DEF nv
<1>11. SameEdges(event, nv, AllEvents)
  BY <1>10 DEF SameEdges
<1>12. TasksNow(R, nv, tasks, executor)
  <2>1. /\ tasks[e] \in [queued : Nat, descheduled : Nat, callbacks : Nat]
        /\ tasks[e].queued \in Nat /\ tasks[e].descheduled \in Nat /\ tasks[e].callbacks \in Nat
        /\ TaskCount(C, event, tasks, executor, e) /\ CallbackCount(C, tasks, executor, e)
        /\ Kept(executor, e) \in {0, 1}
    BY <1>2, TasksOf DEF TasksNow
  <2> DEFINE n == event[e].finished_tasks
             q == tasks[e].queued
             u == tasks[e].descheduled
             k == Kept(executor, e)
             h == Hands(R, e)
  <2>7. /\ n \in Nat /\ q \in Nat /\ u \in Nat /\ k \in {0, 1} /\ h \in Nat
        /\ Counted(R, nv, tasks, executor, e) = (n + 1) + q + u + k + h
        /\ Counted(C, event, tasks, executor, e) = n + q + u + k + (h + 1)
    BY <1>7, <1>9, <1>10, <2>1 DEF Counted
  <2> HIDE DEF n, q, u, k, h
  <2>2. Counted(R, nv, tasks, executor, e) = Counted(C, event, tasks, executor, e)
    BY <2>7
  <2>3. TaskCount(R, nv, tasks, executor, e)
    BY <1>10, <2>1, <2>2 DEF TaskCount
  <2>4. CallbackCount(R, tasks, executor, e)
    BY <1>7, <2>1 DEF CallbackCount
  <2>5. TasksInv(C, event, tasks, executor, AllEvents) /\ Follows(executor, executor)
    BY <1>2, SameExecutor DEF TasksNow
  <2>6. TasksInv(R, nv, tasks, executor, AllEvents)
    BY <1>2, <1>7, <1>10, <2>1, <2>3, <2>4, <2>5, MoveTasks
  <2> QED
    BY <2>6 DEF TasksNow
<1>13. /\ \A x \in Inserting : x # e => (x \in Ending(C) <=> x \in Ending(R))
       /\ e \in Ending(C)
       /\ last => FinishCalls(R) = FinishCalls(C) \cup {b} /\ b[3] = g
       /\ ~last => FinishCalls(R) = FinishCalls(C)
  <2>1. b[3] = g
    OBVIOUS
  <2> HIDE DEF b
  <2>2. a[3].event = e /\ a[3].fn = "FinishTask"
    BY <1>1, <1>2 DEF e
  <2>3. CASE last
    BY <1>2, <1>5, <1>7, <2>1, <2>2, <2>3 DEF Ending, FinishCalls
  <2>4. CASE ~last
    BY <1>2, <1>7, <2>2, <2>4 DEF Ending, FinishCalls
  <2> QED
    BY <2>1, <2>3, <2>4
<1> HIDE DEF b
<1>14. /\ Links(FinishCalls(C), Ending(C), event, AllEvents, Inserting, Dependencies)
       /\ ProgressInv(FinishCalls(C), event, executor, Scheduled)
       /\ \A m \in Scheduled : InitializeEvent(m) \in AllEvents /\ CompleteEvent(m) \in AllEvents
       /\ \A m \in executor.to_schedule : InitializeEvent(m) # e
  BY <1>2, <1>9, PlanGraph, NotYet DEF LinksNow, ProgressNow, IInv
<1>15. LinksNow(R, nv) /\ ProgressNow(R, nv, executor)
  <2>1. CASE last
    <3>1. nv[e].finished = TRUE /\ nv[e].finished_tasks = event[e].total_tasks
      BY <1>10, <2>1 DEF last
    <3>2. b[3].event = e /\ b[3].parents = event[e].parents
      BY <1>5, <1>13, <2>1
    <3>3. Links(FinishCalls(C) \cup {b}, Ending(R), nv, AllEvents, Inserting, Dependencies)
      <4> DEFINE F == FinishCalls(C)
                 X == Ending(C)
                 Y == Ending(R)
      <4>1. /\ Links(F, X, event, AllEvents, Inserting, Dependencies)
            /\ \A x \in Inserting : x # e => (x \in X <=> x \in Y)
            /\ e \in Inserting => e \in X
        BY <1>13, <1>14
      <4>2. /\ ~event[e].finished /\ event[e].finished_dependencies >= event[e].total_dependencies
            /\ ~(e[1] = "finalize" /\ event[e].total_dependencies = 0)
        BY <1>9
      <4> HIDE DEF F, X, Y
      <4>3. Links(F \cup {b}, Y, nv, AllEvents, Inserting, Dependencies)
        BY <1>2, <1>10, <1>11, <3>1, <3>2, <4>1, <4>2, FinishLinks
      <4> QED
        BY <4>3 DEF F, Y
    <3>4. ProgressInv(FinishCalls(C) \cup {b}, nv, executor, Scheduled)
      <4>1. Onward(executor, executor, event, nv, e, AllEvents, Scheduled)
        BY <1>3, <1>10, <1>14 DEF Onward
      <4> QED
        BY <1>9, <1>14, <3>2, <4>1, FinishProgress
    <3> QED
      BY <1>13, <2>1, <3>3, <3>4 DEF LinksNow, ProgressNow
  <2>2. CASE ~last
    <3>1. e \notin Inserting
      BY <1>9, <2>2 DEF last
    <3>2. nv[e].finished = event[e].finished /\ nv[e].finished_tasks \in 0..event[e].total_tasks
      <4>1. nv[e].finished = event[e].finished
        <5>1. last = FALSE
          BY <2>2 DEF last
        <5>2. event[e].finished = FALSE
          BY <1>9
        <5> QED
          BY <1>10, <5>1, <5>2
      <4>2. nv[e].finished_tasks \in 0..event[e].total_tasks
        BY <1>9, <1>10
      <4> QED
        BY <4>1, <4>2
    <3>3. \A x \in Inserting : x \in Ending(C) <=> x \in Ending(R)
      BY <1>13, <3>1
    <3>4. Links(FinishCalls(C), Ending(R), nv, AllEvents, Inserting, Dependencies)
      BY <1>2, <1>9, <1>10, <1>11, <1>14, <3>2, <3>3, CountLinks
    <3>5. Completed(FinishCalls(C), nv, Scheduled) = Completed(FinishCalls(C), event, Scheduled)
      <4>1. \A m \in Scheduled : nv[CompleteEvent(m)].finished = event[CompleteEvent(m)].finished
        BY <1>10, <1>14, <3>2
      <4> QED
        BY <4>1 DEF Completed
    <3>6. ProgressInv(FinishCalls(C), nv, executor, Scheduled)
      BY <1>3, <1>10, <1>14, <3>5, SameProgress
    <3> QED
      BY <1>13, <2>2, <3>4, <3>6 DEF LinksNow, ProgressNow
  <2> QED
    BY <2>1, <2>2
<1>16. /\ LinksNow(CallsIn(stack'), event') /\ ProgressNow(CallsIn(stack'), event', executor')
       /\ TasksNow(CallsIn(stack'), event', tasks', executor')
  BY <1>1, <1>12, <1>15 DEF R, nv
<1>17. executor'.error \in BOOLEAN /\ executor'.blocks \in 0..MaxBlocks /\ executor'.events \subseteq AllEvents
  BY <1>1, <1>2, SameExecutor
<1> QED
  BY <1>1, <1>16, <1>17, WorkCounts, Zenon

\* Two calls that have a task of e have two.
LEMMA TwoInHand ==
  ASSUME NEW C, NEW E, Stock(C, E), NEW a \in C, NEW c \in C, a # c, NEW e \in E,
         a[3].event = e, c[3].event = e, Holds(a[3], e) = 1, Holds(c[3], e) = 1
  PROVE  Hands(C, e) >= 2
<1> DEFINE R == C \ {a}
<1>1. Stock(R, E) /\ Gains(R, C, a[3], e) /\ c \in R
  BY Gone
<1> HIDE DEF R
<1>2. Gains(R \ {c}, R, c[3], e)
  BY <1>1, Gone
<1> QED
  BY <1>1, <1>2 DEF Gains

\* InsertEvent keeps the counts.
LEMMA InsertEventCounts ==
  ASSUME IInv, CInv, UNCHANGED buildVars, NEW t \in Thread, executor.pc # "ended",
         At(t, "Execute"), InsertsEvent(Head(stack[t]).event), InsertEvent(t, Head(stack[t]).event)
  PROVE  CInv'
<1> DEFINE C == CallsIn(stack)
           R == CallsIn(stack')
           a == Top(stack, t)
           f == Head(stack[t])
           e == f.event
           new == FinalizeEvent(e[2])
           d == Dependency(new, e, 0)
           g == Task("FinishTask", e)
           b == <<t, Len(stack[t]) - 1, g>>
           B == After(stack, t, g)
           V == IF executor.cancelled THEN executor.events ELSE executor.events \cup {new}
<1>1. /\ stack[t] # <<>> /\ f.fn = "Execute" /\ tasks' = tasks
      /\ event' = [event EXCEPT ![new].parents = event[e].parents,
                                ![new].total_dependencies = 1,
                                ![e].parents = {d}]
      /\ stack' = [stack EXCEPT ![t] = <<g>> \o Tail(stack[t])]
      /\ executor' = [executor EXCEPT !.events = V]
  BY Zenon DEF At, InsertEvent
<1>2. /\ a \in C /\ a[3] = f /\ e \in AllEvents /\ Stock(C, AllEvents)
      /\ LinksNow(C, event) /\ TasksNow(C, event, tasks, executor) /\ ProgressNow(C, event, executor)
      /\ ClientInv(executor, AllEvents, Current) /\ GraphOK(AllEvents, Inserting)
  BY <1>1, AtWork, Zenon
<1>3. e \in Inserting /\ new \in AllEvents /\ e # new
  <2>1. e \in Inserting
    BY <1>2 DEF Inserting
  <2>2. e[1] = "finish" /\ new \in AllEvents
    BY <1>2, <2>1 DEF GraphOK
  <2> QED
    BY <2>1, <2>2 DEF FinalizeEvent
<1>4. /\ DOMAIN event = AllEvents /\ DOMAIN event[e] = EventFields /\ DOMAIN event[new] = EventFields
      /\ executor.to_schedule \subseteq Scheduled /\ DOMAIN executor = ExecutorFields
  BY <1>1, <1>2, <1>3, Working, Executing, Zenon DEF EventsOK
<1>5. g.event = e /\ g.fn = "FinishTask"
  BY DEF Task, Frame
<1>6. Holds(f, e) = 1 /\ Descheduling(f, e) = 0 /\ Holds(g, e) = 1 /\ Descheduling(g, e) = 0
  BY <1>1, <1>5, HoldsOf, Zenon DEF Descheduling
<1> HIDE DEF g
<1>7. /\ CallsIn([stack EXCEPT ![t] = <<g>> \o Tail(stack[t])]) = B
      /\ Stock(B, AllEvents) /\ Elsewhere(B, C, e, AllEvents) /\ Turns(B, C, f, g, e)
  BY <1>1, <1>5, GoesOn, Zenon
<1>8. R = B /\ B = (C \ {a}) \cup {b} /\ b[3] = g
  BY <1>1, <1>7, Zenon DEF After
<1> HIDE DEF C, R, B, a, b, f, e, new
<1>9. Hands(R, e) = Hands(C, e) /\ Blocked(R, e) = Blocked(C, e) /\ Hands(C, e) \in Nat /\ Hands(C, e) # 0
  <2>1. Hands(R, e) = Hands(C, e) /\ Blocked(R, e) = Blocked(C, e) /\ Hands(C, e) \in Nat
    BY <1>6, <1>7, <1>8 DEF Turns
  <2>2. Gains(C \ {a}, C, a[3], e)
    BY <1>2, Gone DEF e
  <2>3. Hands(C, e) # 0
    BY <1>2, <1>6, <2>2 DEF Gains
  <2> QED
    BY <2>1, <2>3
<1>10. /\ ~event[e].finished /\ event[e].total_tasks = 1 /\ event[e].finished_tasks = 0
  BY <1>2, <1>3, <1>9, InWork
<1>11. e \notin Ending(C)
  <2> SUFFICES ASSUME NEW c \in C, c[3].fn = "FinishTask", c[3].event = e
               PROVE  FALSE
    BY DEF Ending
  <2>1. c # a /\ a[3].event = e /\ Holds(a[3], e) = 1
    BY <1>1, <1>2, <1>6 DEF e
  <2>2. Holds(c[3], e) = 1
    BY HoldsOf
  <2>3. Hands(C, e) >= 2
    BY <1>2, <2>1, <2>2, TwoInHand
  <2>4. /\ tasks[e].queued \in Nat /\ tasks[e].descheduled \in Nat
        /\ TaskCount(C, event, tasks, executor, e) /\ Kept(executor, e) \in {0, 1}
    BY <1>2, TasksOf DEF TasksNow
  <2> QED
    BY <1>9, <1>10, <2>3, <2>4 DEF TaskCount, Counted
<1>12. FinishCalls(R) = FinishCalls(C) /\ \A x \in Inserting : x \in Ending(R) <=> (x \in Ending(C) \/ x = e)
  <2>1. a[3].fn = "Execute" /\ b[3].fn = "FinishTask" /\ b[3].event = e
    BY <1>1, <1>2, <1>5, <1>8
  <2> QED
    BY <1>2, <1>8, <2>1 DEF FinishCalls, Ending
<1> DEFINE nv == event'
<1>13. /\ \A x \in AllEvents : x # e /\ x # new => nv[x] = event[x]
       /\ nv[new].parents = event[e].parents /\ nv[new].total_dependencies = 1
       /\ nv[e].parents = {d} /\ nv[e].total_dependencies = event[e].total_dependencies
       /\ \A x \in {e, new} :
            /\ nv[x].finished = event[x].finished /\ nv[x].finished_tasks = event[x].finished_tasks
            /\ nv[x].total_tasks = event[x].total_tasks
            /\ nv[x].finished_dependencies = event[x].finished_dependencies
  <2> HIDE DEF d
  <2> QED
    BY <1>1, <1>2, <1>3, <1>4 DEF EventFields
<1> HIDE DEF nv
<1>14. \A x \in AllEvents : /\ nv[x].finished = event[x].finished
                            /\ nv[x].finished_tasks = event[x].finished_tasks
                            /\ nv[x].total_tasks = event[x].total_tasks
  BY <1>13
<1>15. LinksNow(R, nv)
  <2> DEFINE F == FinishCalls(C)
             X == Ending(C)
             Y == Ending(R)
  <2>1. /\ Links(F, X, event, AllEvents, Inserting, Dependencies) /\ FinishCalls(R) = F
        /\ e \notin X /\ \A x \in Inserting : x \in Y <=> (x \in X \/ x = e)
    BY <1>2, <1>11, <1>12 DEF LinksNow
  <2>2. new = FinalizeEvent(e[2]) /\ nv[e].parents = {Dependency(new, e, 0)}
    BY <1>13 DEF new
  <2> HIDE DEF F, X, Y
  <2>3. Links(F, Y, nv, AllEvents, Inserting, Dependencies)
    BY <1>2, <1>3, <1>10, <1>13, <2>1, <2>2, InsertLinks
  <2> QED
    BY <2>1, <2>3 DEF LinksNow, Y
<1> HIDE DEF V
<1>16. /\ executor'.completed_pipelines = executor.completed_pipelines
       /\ executor'.pc = executor.pc /\ executor'.task = executor.task
       /\ executor'.cancelled = executor.cancelled /\ executor'.pipelines = executor.pipelines
       /\ executor'.error = executor.error /\ executor'.blocks = executor.blocks
       /\ executor'.events = V /\ executor'.to_schedule = executor.to_schedule
  BY <1>1, <1>4 DEF ExecutorFields
<1>17. ProgressNow(R, nv, executor')
  <2>1. \A m \in Scheduled : InitializeEvent(m) \in AllEvents /\ CompleteEvent(m) \in AllEvents
    BY PlanGraph DEF IInv
  <2>2. Completed(FinishCalls(R), nv, Scheduled) = Completed(FinishCalls(C), event, Scheduled)
    BY <1>12, <1>14, <2>1 DEF Completed
  <2>3. \A m \in executor.to_schedule :
           /\ nv[InitializeEvent(m)].total_tasks = event[InitializeEvent(m)].total_tasks
           /\ nv[InitializeEvent(m)].finished = event[InitializeEvent(m)].finished
    BY <1>4, <1>14, <2>1
  <2> QED
    BY <1>2, <1>16, <2>2, <2>3, SameProgress DEF ProgressNow
<1>18. TasksNow(R, nv, tasks, executor')
  <2> DEFINE nx == executor'
  <2>1. Follows(executor, nx) /\ nx.pc = executor.pc /\ nx.error = executor.error
        /\ nx.cancelled = executor.cancelled /\ nx.blocks = executor.blocks
    BY <1>2, <1>16, ExecutorAssumption DEF Follows, ClientInv
  <2>2. \A x : Kept(nx, x) = Kept(executor, x)
    BY <1>16 DEF Kept
  <2> HIDE DEF nx
  <2>3. /\ tasks[e] \in [queued : Nat, descheduled : Nat, callbacks : Nat]
        /\ TaskCount(C, event, tasks, executor, e) /\ CallbackCount(C, tasks, executor, e)
    BY <1>2, TasksOf DEF TasksNow
  <2>4. Counted(R, nv, tasks, nx, e) = Counted(C, event, tasks, executor, e)
    BY <1>2, <1>9, <1>14, <2>2 DEF Counted
  <2>5. TaskCount(R, nv, tasks, nx, e) /\ CallbackCount(R, tasks, nx, e)
    BY <1>2, <1>9, <1>14, <2>1, <2>3, <2>4 DEF TaskCount, CallbackCount
  <2>6. TasksInv(C, event, tasks, executor, AllEvents) /\ Stock(R, AllEvents) /\ Elsewhere(R, C, e, AllEvents)
    BY <1>2, <1>7, <1>8 DEF TasksNow
  <2>7. TasksInv(R, nv, tasks, nx, AllEvents)
    BY <1>2, <1>14, <2>1, <2>2, <2>3, <2>5, <2>6, MoveTasks
  <2> QED
    BY <2>7 DEF TasksNow, nx
<1>19. /\ LinksNow(CallsIn(stack'), event') /\ ProgressNow(CallsIn(stack'), event', executor')
       /\ TasksNow(CallsIn(stack'), event', tasks', executor')
  BY <1>1, <1>15, <1>17, <1>18 DEF R, nv
<1>20. executor'.error \in BOOLEAN /\ executor'.blocks \in 0..MaxBlocks /\ executor'.events \subseteq AllEvents
  BY <1>2, <1>3, <1>16, SameExecutor DEF V
<1> QED
  BY <1>1, <1>16, <1>19, <1>20, WorkCounts

\* How many tasks an event is scheduled with.
LEMMA Outcomes ==
  ASSUME Shape(build), NEW e \in AllEvents, NEW o \in ScheduleOutcomes(e)
  PROVE  o.n \in 0..MaxTasks /\ (e[1] = "finish" => o.n = 1)
<1>1. e[1] \in EventKinds
  BY EventsKeepPipelines
<1>2. MaxTasks \in Nat \ {0}
  BY ExecutorAssumption
<1>3. CASE e[1] \in {"initialize", "finish"}
  <2>1. ScheduleOutcomes(e) = {[n |-> 1, throws |-> FALSE]}
    BY <1>3 DEF ScheduleOutcomes
  <2>2. o.n = 1
    BY <2>1
  <2> QED
    BY <1>2, <2>2
<1>4. CASE e[1] = "complete"
  <2>1. ScheduleOutcomes(e) = {[n |-> 0, throws |-> FALSE]}
    BY <1>4 DEF ScheduleOutcomes
  <2>2. o.n = 0
    BY <2>1
  <2> QED
    BY <1>2, <1>4, <2>2
<1>5. CASE e[1] = "finalize"
  <2>1. ScheduleOutcomes(e) = [n : 1..MaxTasks, throws : {FALSE}]
    BY <1>5 DEF ScheduleOutcomes
  <2>2. o.n \in 1..MaxTasks
    BY <2>1
  <2> QED
    BY <1>2, <1>5, <2>2
<1>6. CASE e[1] = "event"
  <2>1. ScheduleOutcomes(e) = [n : 1..MaxTasks, throws : {FALSE}]
          \cup (IF MayFail THEN {[n |-> 0, throws |-> TRUE]} ELSE {})
    BY <1>6 DEF ScheduleOutcomes
  <2>2. o \in [n : 1..MaxTasks, throws : {FALSE}] \/ o = [n |-> 0, throws |-> TRUE]
    BY <2>1
  <2>3. o.n \in 0..MaxTasks
    <3>1. CASE o \in [n : 1..MaxTasks, throws : {FALSE}]
      <4>1. o.n \in 1..MaxTasks
        BY <3>1
      <4> QED
        BY <1>2, <4>1
    <3>2. CASE o = [n |-> 0, throws |-> TRUE]
      <4>1. o.n = 0
        BY <3>2
      <4> QED
        BY <1>2, <4>1
    <3> QED
      BY <2>2, <3>1, <3>2
  <2> QED
    BY <1>6, <2>3
<1> QED
  BY <1>1, <1>3, <1>4, <1>5, <1>6 DEF EventKinds

\* An event starts.  What has been counted stays.
LEMMA StartProgress ==
  ASSUME NEW F, NEW ev, NEW ex, NEW S, ProgressInv(F, ev, ex, S), NEW e, NEW E, NEW nv, NEW nx,
         Onward(ex, nx, ev, nv, e, E, S), nv[e].finished = ev[e].finished
  PROVE  ProgressInv(F, nv, nx, S)
<1>1. Completed(F, nv, S) = Completed(F, ev, S)
  <2>1. \A m \in S : nv[CompleteEvent(m)].finished = ev[CompleteEvent(m)].finished
    BY DEF Onward
  <2> QED
    BY <2>1 DEF Completed
<1>2. \A m \in nx.to_schedule : nv[InitializeEvent(m)] = ev[InitializeEvent(m)] /\ m \in ex.to_schedule
  BY DEF Onward
<1> QED
  BY <1>1, <1>2 DEF ProgressInv, Onward

\* The tasks that an event starts with are all in hand.
LEMMA StartTasks ==
  ASSUME NEW B, NEW R, NEW ev, NEW nv, NEW ts, NEW ex, NEW nx, NEW E, NEW e \in E, NEW h,
         TasksInv(B, ev, ts, ex, E), Stock(R, E), Follows(ex, nx), Elsewhere(R, B, e, E), Gains(B, R, h, e),
         Descheduling(h, e) = 0, nx.task = ex.task,
         \A x \in E : x # e => nv[x] = ev[x],
         ev[e].total_tasks = 0, ev[e].finished_tasks = 0, nv[e].finished_tasks = 0,
         nv[e].total_tasks = Holds(h, e)
  PROVE  TasksInv(R, nv, ts, nx, E)
<1>1. /\ ts[e] \in [queued : Nat, descheduled : Nat, callbacks : Nat]
      /\ ts[e].queued \in Nat /\ ts[e].descheduled \in Nat /\ ts[e].callbacks \in Nat
      /\ TaskCount(B, ev, ts, ex, e) /\ CallbackCount(B, ts, ex, e)
      /\ Hands(B, e) \in Nat /\ Kept(ex, e) \in {0, 1}
  BY TasksOf
<1>2. \A x : Kept(nx, x) = Kept(ex, x)
  BY DEF Kept
<1>3. /\ ts[e].queued = 0 /\ ts[e].descheduled = 0 /\ Kept(ex, e) = 0 /\ Hands(B, e) = 0
  <2> DEFINE q == ts[e].queued
             u == ts[e].descheduled
             k == Kept(ex, e)
             n == Hands(B, e)
  <2>1. /\ q \in Nat /\ u \in Nat /\ k \in {0, 1} /\ n \in Nat
        /\ 0 + q + u + k + n <= 0
    BY <1>1 DEF TaskCount, Counted
  <2> HIDE DEF q, u, k, n
  <2>2. q = 0 /\ u = 0 /\ k = 0 /\ n = 0
    BY <2>1
  <2> QED
    BY <2>2 DEF q, u, k, n
<1>4. Hands(R, e) = Holds(h, e) /\ Blocked(R, e) = Blocked(B, e) /\ Holds(h, e) \in Nat
  BY <1>3 DEF Gains
<1>5. Counted(R, nv, ts, nx, e) = Holds(h, e)
  BY <1>2, <1>3, <1>4 DEF Counted
<1>6. TaskCount(R, nv, ts, nx, e)
  BY <1>4, <1>5 DEF TaskCount
<1>7. CallbackCount(R, ts, nx, e)
  BY <1>1, <1>4 DEF CallbackCount, Follows
<1> QED
  BY <1>1, <1>2, <1>6, <1>7, MoveTasks

\* Where a thread is after it has told a parent: its call g, and the events ev.
Told(B, ev) ==
  LinksNow(B, ev) /\ ProgressNow(B, ev, executor) /\ TasksNow(B, ev, tasks, executor)

\* An event all of whose dependencies have just been counted.
MayStart(ev, e) ==
  /\ ev[e].finished_dependencies >= ev[e].total_dependencies /\ ev[e].total_dependencies # 0
  /\ ev[e].total_tasks = 0 /\ ev[e].finished_tasks = 0 /\ ~ev[e].finished

\* A thread schedules an event, after it has told it of its last dependency.
LEMMA ScheduleCounts ==
  ASSUME IInv, CInv, UNCHANGED buildVars, NEW t \in Thread, stack[t] # <<>>, executor.pc # "ended",
         NEW g, g.fn = "Finish", g.event = Head(stack[t]).event,
         NEW ev, EventsOK(ev, AllEvents), Told(After(stack, t, g), ev),
         NEW e \in AllEvents, MayStart(ev, e),
         Schedule(t, ev, e, <<g>> \o Tail(stack[t]))
  PROVE  CInv'
<1> DEFINE B == After(stack, t, g)
           frames == <<g>> \o Tail(stack[t])
<1>1. PICK o \in ScheduleOutcomes(e) :
        /\ event' = ScheduleWith(ev, e, o.n, frames).event
        /\ stack' = [stack EXCEPT ![t] = ScheduleWith(ev, e, o.n, frames).calls]
        /\ executor' = [executor EXCEPT !.error = @ \/ o.throws]
        /\ tasks' = tasks
  BY DEF Schedule
<1>2. o.n \in 0..MaxTasks /\ (e[1] = "finish" => o.n = 1)
  BY Outcomes DEF IInv
<1>3. /\ ClientInv(executor, AllEvents, Current) /\ GraphOK(AllEvents, Inserting)
      /\ DOMAIN executor = ExecutorFields /\ executor.to_schedule \subseteq Scheduled
      /\ \A m \in Scheduled : InitializeEvent(m) \in AllEvents /\ CompleteEvent(m) \in AllEvents
  BY AtWork, Working, Executing, PlanGraph DEF IInv
<1>4. /\ executor'.completed_pipelines = executor.completed_pipelines
      /\ executor'.pc = executor.pc /\ executor'.task = executor.task
      /\ executor'.cancelled = executor.cancelled /\ executor'.pipelines = executor.pipelines
      /\ executor'.error = (executor.error \/ o.throws) /\ executor'.blocks = executor.blocks
      /\ executor'.events = executor.events /\ executor'.to_schedule = executor.to_schedule
  BY <1>1, <1>3 DEF ExecutorFields
<1>5. executor'.error \in BOOLEAN /\ executor'.blocks \in 0..MaxBlocks /\ executor'.events \subseteq AllEvents
  BY <1>3, <1>4, SameExecutor
<1>6. Follows(executor, executor')
  BY <1>3, <1>4, ExecutorAssumption DEF Follows, ClientInv
<1>7. /\ DOMAIN ev = AllEvents /\ DOMAIN ev[e] = EventFields
  BY DEF EventsOK
<1>8. /\ Links(FinishCalls(B), Ending(B), ev, AllEvents, Inserting, Dependencies)
      /\ ProgressInv(FinishCalls(B), ev, executor, Scheduled)
      /\ TasksInv(B, ev, tasks, executor, AllEvents)
  BY DEF Told, LinksNow, ProgressNow, TasksNow
<1>9. /\ \A m \in executor.to_schedule : InitializeEvent(m) # e
      /\ ~(e[1] = "finalize" /\ ev[e].total_dependencies = 0)
      /\ ev[e].finished_dependencies >= ev[e].total_dependencies
      /\ ~ev[e].finished /\ ev[e].total_tasks = 0 /\ ev[e].finished_tasks = 0
  <2>1. EventInv(ev, e)
    BY <1>8 DEF Links
  <2>2. e[1] # "initialize"
    BY <2>1 DEF EventInv, MayStart
  <2> QED
    BY <2>2 DEF InitializeEvent, MayStart
<1>10. CASE o.n = 0
  <2> DEFINE h == Frame("Finish", e, ev[e].parents, 0)
             R == AndThen(stack, t, g, h)
             b == <<t, Len(stack[t]), h>>
             nv == event'
  <2>1. /\ event' = [ev EXCEPT ![e].finished = TRUE]
        /\ stack' = [stack EXCEPT ![t] = <<h>> \o frames]
    BY <1>1, <1>10 DEF ScheduleWith
  <2>2. h.event = e /\ h.fn = "Finish" /\ h.parents = ev[e].parents
    BY DEF Frame
  <2>3. Holds(h, e) = 0 /\ Descheduling(h, e) = 0
    BY <2>2, HoldsOf DEF Descheduling
  <2> HIDE DEF h
  <2>4. /\ CallsIn([stack EXCEPT ![t] = <<h>> \o (<<g>> \o Tail(stack[t]))]) = R
        /\ Stock(R, AllEvents) /\ Elsewhere(R, B, e, AllEvents) /\ Gains(B, R, h, e)
    BY <2>2, CallsToo
  <2>5. CallsIn(stack') = R
    BY <2>1, <2>4
  <2>6. R = B \cup {b} /\ b[3] = h
    BY DEF AndThen
  <2>7. /\ \A x \in AllEvents : x # e => nv[x] = ev[x]
        /\ nv[e].finished = TRUE /\ nv[e].finished_tasks = ev[e].finished_tasks
        /\ nv[e].total_tasks = ev[e].total_tasks /\ nv[e].parents = ev[e].parents
        /\ nv[e].total_dependencies = ev[e].total_dependencies
        /\ nv[e].finished_dependencies = ev[e].finished_dependencies
    BY <1>7, <2>1 DEF EventFields
  <2> HIDE DEF B, R, b, nv
  <2>8. FinishCalls(R) = FinishCalls(B) \cup {b} /\ Ending(R) = Ending(B)
    BY <2>2, <2>6 DEF FinishCalls, Ending
  <2>9. SameEdges(ev, nv, AllEvents)
    BY <2>7 DEF SameEdges
  <2>10. LinksNow(R, nv)
    <3> DEFINE F == FinishCalls(B)
               X == Ending(B)
    <3>1. e \notin Inserting
      BY <1>2, <1>10 DEF Inserting, InsertsEvent
    <3>2. b[3].event = e /\ b[3].parents = ev[e].parents
      BY <2>2, <2>6
    <3>3. nv[e].finished_tasks = ev[e].total_tasks
      BY <1>9, <2>7
    <3>4. /\ Links(F, X, ev, AllEvents, Inserting, Dependencies)
          /\ \A x \in Inserting : x # e => (x \in X <=> x \in X)
          /\ e \in Inserting => e \in X
      BY <1>8, <3>1
    <3>6. /\ ~ev[e].finished /\ ev[e].finished_dependencies >= ev[e].total_dependencies
          /\ ~(e[1] = "finalize" /\ ev[e].total_dependencies = 0)
      BY <1>9
    <3> HIDE DEF F, X
    <3>5. Links(F \cup {b}, X, nv, AllEvents, Inserting, Dependencies)
      BY <1>3, <2>7, <2>9, <3>2, <3>3, <3>4, <3>6, FinishLinks
    <3> QED
      BY <2>8, <3>5 DEF LinksNow, F, X
  <2>11. ProgressNow(R, nv, executor')
    <3>1. b[3].event = e
      BY <2>2, <2>6
    <3> DEFINE F == FinishCalls(B)
               nx == executor'
    <3>2. /\ ProgressInv(F, ev, executor, Scheduled) /\ ~ev[e].finished
          /\ Onward(executor, nx, ev, nv, e, AllEvents, Scheduled)
      BY <1>3, <1>4, <1>8, <1>9, <2>7 DEF Onward
    <3> HIDE DEF F, nx
    <3>3. ProgressInv(F \cup {b}, nv, nx, Scheduled)
      BY <3>1, <3>2, FinishProgress
    <3> QED
      BY <2>8, <3>3 DEF ProgressNow, F, nx
  <2>12. TasksNow(R, nv, tasks, executor')
    <3> DEFINE nx == executor'
    <3>1. Follows(executor, nx) /\ nx.task = executor.task
      BY <1>4, <1>6
    <3> HIDE DEF nx
    <3>2. nv[e].finished_tasks = 0 /\ nv[e].total_tasks = Holds(h, e)
      BY <1>9, <2>3, <2>7
    <3>3. TasksInv(R, nv, tasks, nx, AllEvents)
      BY <1>8, <1>9, <2>3, <2>4, <2>7, <3>1, <3>2, StartTasks
    <3> QED
      BY <3>3 DEF TasksNow, nx
  <2>13. /\ LinksNow(CallsIn(stack'), event') /\ ProgressNow(CallsIn(stack'), event', executor')
         /\ TasksNow(CallsIn(stack'), event', tasks', executor')
    BY <1>1, <2>5, <2>10, <2>11, <2>12 DEF nv
  <2> QED
    BY <1>4, <1>5, <2>1, <2>13, WorkCounts
<1>11. CASE o.n # 0
  <2> DEFINE n == o.n
             h == Frame("SetTasks", e, {}, n)
             R == AndThen(stack, t, g, h)
             b == <<t, Len(stack[t]), h>>
             nv == event'
  <2>1. /\ event' = [ev EXCEPT ![e].total_tasks = n]
        /\ stack' = [stack EXCEPT ![t] = <<h>> \o frames]
    BY <1>1, <1>11 DEF ScheduleWith
  <2>2. n \in 1..MaxTasks /\ n \in Nat \ {0} /\ (e[1] = "finish" => n = 1)
    BY <1>2, <1>11, ExecutorAssumption
  <2> HIDE DEF n
  <2>3. h.event = e /\ h.fn = "SetTasks" /\ h.n = n
    BY DEF Frame
  <2>4. Holds(h, e) = n /\ Descheduling(h, e) = 0
    BY <2>3, HoldsOf DEF Descheduling
  <2> HIDE DEF h
  <2>5. /\ CallsIn([stack EXCEPT ![t] = <<h>> \o (<<g>> \o Tail(stack[t]))]) = R
        /\ Stock(R, AllEvents) /\ Elsewhere(R, B, e, AllEvents) /\ Gains(B, R, h, e)
    BY <2>2, <2>3, CallsToo
  <2>6. CallsIn(stack') = R
    BY <2>1, <2>5
  <2>7. R = B \cup {b} /\ b[3] = h
    BY DEF AndThen
  <2>8. /\ \A x \in AllEvents : x # e => nv[x] = ev[x]
        /\ nv[e].finished = ev[e].finished /\ nv[e].finished_tasks = ev[e].finished_tasks
        /\ nv[e].total_tasks = n /\ nv[e].parents = ev[e].parents
        /\ nv[e].total_dependencies = ev[e].total_dependencies
        /\ nv[e].finished_dependencies = ev[e].finished_dependencies
    BY <1>7, <2>1 DEF EventFields
  <2> HIDE DEF B, R, b, nv
  <2>9. FinishCalls(R) = FinishCalls(B) /\ Ending(R) = Ending(B)
    BY <2>3, <2>7 DEF FinishCalls, Ending
  <2>10. SameEdges(ev, nv, AllEvents)
    BY <2>8 DEF SameEdges
  <2>11. LinksNow(R, nv)
    <3>1. Links(FinishCalls(B), Ending(B), nv, AllEvents, Inserting, Dependencies)
      BY <1>3, <1>8, <1>9, <2>2, <2>8, <2>10, StartLinks
    <3> QED
      BY <2>9, <3>1 DEF LinksNow
  <2>12. ProgressNow(R, nv, executor')
    <3> DEFINE F == FinishCalls(B)
               nx == executor'
    <3>1. /\ ProgressInv(F, ev, executor, Scheduled)
          /\ Onward(executor, nx, ev, nv, e, AllEvents, Scheduled)
          /\ nv[e].finished = ev[e].finished
      BY <1>3, <1>4, <1>8, <1>9, <2>8 DEF Onward
    <3> HIDE DEF F, nx
    <3>2. ProgressInv(F, nv, nx, Scheduled)
      BY <3>1, StartProgress
    <3> QED
      BY <2>9, <3>2 DEF ProgressNow, F, nx
  <2>13. TasksNow(R, nv, tasks, executor')
    <3> DEFINE nx == executor'
    <3>1. Follows(executor, nx) /\ nx.task = executor.task
      BY <1>4, <1>6
    <3> HIDE DEF nx
    <3>2. nv[e].finished_tasks = 0 /\ nv[e].total_tasks = Holds(h, e)
      BY <1>9, <2>4, <2>8
    <3>3. TasksInv(R, nv, tasks, nx, AllEvents)
      BY <1>8, <1>9, <2>4, <2>5, <2>8, <3>1, <3>2, StartTasks
    <3> QED
      BY <3>3 DEF TasksNow, nx
  <2>14. /\ LinksNow(CallsIn(stack'), event') /\ ProgressNow(CallsIn(stack'), event', executor')
         /\ TasksNow(CallsIn(stack'), event', tasks', executor')
    BY <1>1, <2>6, <2>11, <2>12, <2>13 DEF nv
  <2> QED
    BY <1>4, <1>5, <2>1, <2>14, WorkCounts
<1> QED
  BY <1>10, <1>11

\* g is what is left of the call f of Finish when it has told e of the dependency d.
Telling(f, g, d, e) ==
  /\ f.fn = "Finish" /\ d \in f.parents /\ d.event = e
  /\ g.fn = "Finish" /\ g.event = f.event /\ g.parents = f.parents \ {d}

\* A call of Finish has one parent less to tell, whether or not that one counts it.
LEMMA TellCounts ==
  ASSUME IInv, CInv, NEW t \in Thread, stack[t] # <<>>, NEW f, f = Head(stack[t]),
         NEW g, NEW d, NEW e, Telling(f, g, d, e), NEW k, NEW nv, Counts(event, nv, e, k, AllEvents)
  PROVE  /\ Told(After(stack, t, g), nv)
         /\ event[e].finished_dependencies < event[e].total_dependencies
         /\ event[e].total_tasks = 0 /\ event[e].finished_tasks = 0 /\ ~event[e].finished
<1> DEFINE C == CallsIn(stack)
           a == Top(stack, t)
           b == <<t, Len(stack[t]) - 1, g>>
           B == After(stack, t, g)
           x0 == f.event
<1>0. /\ f.fn = "Finish" /\ d \in f.parents /\ d.event = e
      /\ g.fn = "Finish" /\ g.event = f.event /\ g.parents = f.parents \ {d}
  BY DEF Telling
<1>1. /\ a \in C /\ a[3] = f /\ x0 \in AllEvents /\ Stock(C, AllEvents)
      /\ LinksNow(C, event) /\ ProgressNow(C, event, executor) /\ TasksNow(C, event, tasks, executor)
      /\ GraphOK(AllEvents, Inserting) /\ ClientInv(executor, AllEvents, Current)
  BY AtWork
<1>2. B = (C \ {a}) \cup {b} /\ b[3] = g
  BY DEF After
<1>3. Stock(B, AllEvents) /\ Elsewhere(B, C, x0, AllEvents) /\ Turns(B, C, f, g, x0)
  BY <1>0, GoesOn
<1> HIDE DEF C, a, b, B, x0
<1>4. FinishCalls(B) = (FinishCalls(C) \ {a}) \cup {b} /\ Ending(B) = Ending(C) /\ a \in FinishCalls(C)
  BY <1>0, <1>1, <1>2 DEF FinishCalls, Ending
<1>5. /\ Links(FinishCalls(B), Ending(C), nv, AllEvents, Inserting, Dependencies)
      /\ event[e].finished_dependencies < event[e].total_dependencies
      /\ event[e].total_tasks = 0 /\ event[e].finished_tasks = 0 /\ ~event[e].finished
  <2> DEFINE F == FinishCalls(C)
             G == FinishCalls(B)
             X == Ending(C)
  <2>1. Links(F, X, event, AllEvents, Inserting, Dependencies) /\ a \in F /\ G = (F \ {a}) \cup {b}
        /\ GraphOK(AllEvents, Inserting)
    BY <1>1, <1>4 DEF LinksNow
  <2> HIDE DEF F, G, X
  <2>2. Tells(F, G, b, a, d, e)
    BY <1>0, <1>1, <1>2, <2>1 DEF Tells
  <2>3. /\ Links(G, X, nv, AllEvents, Inserting, Dependencies)
        /\ event[e].finished_dependencies < event[e].total_dependencies
        /\ event[e].total_tasks = 0 /\ event[e].finished_tasks = 0 /\ ~event[e].finished
    BY <2>1, <2>2, TellLinks
  <2> QED
    BY <2>3 DEF F, G, X
<1>6. LinksNow(B, nv)
  BY <1>4, <1>5 DEF LinksNow
<1>7. \A x \in AllEvents : /\ nv[x].finished = event[x].finished
                           /\ nv[x].total_tasks = event[x].total_tasks
                           /\ nv[x].finished_tasks = event[x].finished_tasks
  BY DEF Counts
<1>8. ProgressNow(B, nv, executor)
  <2>1. \A m \in Scheduled : InitializeEvent(m) \in AllEvents /\ CompleteEvent(m) \in AllEvents
    BY PlanGraph DEF IInv
  <2>2. Completed(FinishCalls(B), nv, Scheduled) = Completed(FinishCalls(C), event, Scheduled)
    <3>1. a[3].event = b[3].event
      BY <1>0, <1>1, <1>2
    <3> DEFINE F == FinishCalls(C)
               G == FinishCalls(B)
    <3>2. G = (F \ {a}) \cup {b} /\ a \in F
      BY <1>4
    <3> HIDE DEF F, G
    <3>3. \A z : (\A c \in G : c[3].event # z) <=> (\A c \in F : c[3].event # z)
      BY <3>1, <3>2
    <3>4. \A m \in Scheduled : nv[CompleteEvent(m)].finished = event[CompleteEvent(m)].finished
      BY <1>7, <2>1
    <3>5. Completed(G, nv, Scheduled) = Completed(F, event, Scheduled)
      BY <3>3, <3>4 DEF Completed
    <3> QED
      BY <3>5 DEF F, G
  <2>3. executor.to_schedule \subseteq Scheduled
    BY Executing, AtWork DEF IInv
  <2>4. \A m \in executor.to_schedule :
           /\ nv[InitializeEvent(m)].total_tasks = event[InitializeEvent(m)].total_tasks
           /\ nv[InitializeEvent(m)].finished = event[InitializeEvent(m)].finished
    BY <1>7, <2>1, <2>3
  <2> QED
    BY <1>1, <2>2, <2>4, SameProgress DEF ProgressNow
<1>9. TasksNow(B, nv, tasks, executor)
  <2>1. Holds(f, x0) = 0 /\ Descheduling(f, x0) = 0 /\ Holds(g, x0) = 0 /\ Descheduling(g, x0) = 0
    BY <1>0, HoldsOf DEF Descheduling
  <2>2. Hands(B, x0) = Hands(C, x0) /\ Blocked(B, x0) = Blocked(C, x0)
    BY <1>3, <2>1 DEF Turns
  <2>3. /\ tasks[x0] \in [queued : Nat, descheduled : Nat, callbacks : Nat]
        /\ TaskCount(C, event, tasks, executor, x0) /\ CallbackCount(C, tasks, executor, x0)
    BY <1>1, TasksOf DEF TasksNow
  <2>4. Counted(B, nv, tasks, executor, x0) = Counted(C, event, tasks, executor, x0)
    BY <1>1, <1>7, <2>2 DEF Counted
  <2>5. TaskCount(B, nv, tasks, executor, x0) /\ CallbackCount(B, tasks, executor, x0)
    BY <1>1, <1>7, <2>2, <2>3, <2>4 DEF TaskCount, CallbackCount
  <2>6. TasksInv(C, event, tasks, executor, AllEvents) /\ Follows(executor, executor)
    BY <1>1, SameExecutor DEF TasksNow
  <2>7. TasksInv(B, nv, tasks, executor, AllEvents)
    BY <1>1, <1>3, <1>7, <2>3, <2>5, <2>6, MoveTasks
  <2> QED
    BY <2>7 DEF TasksNow
<1> QED
  BY <1>5, <1>6, <1>8, <1>9 DEF Told, B

\* NotifyParent keeps the counts.
LEMMA NotifyParentCounts ==
  ASSUME IInv, CInv, UNCHANGED buildVars, NEW t \in Thread, executor.pc # "ended", NotifyParent(t)
  PROVE  CInv'
<1> DEFINE f == Head(stack[t])
<1>1. PICK d \in f.parents :
        LET frames == <<[f EXCEPT !.parents = @ \ {d}]>> \o Tail(stack[t])
        IN  IF Alive(d.event) THEN CompleteDependency(t, d, frames)
            ELSE /\ stack' = [stack EXCEPT ![t] = frames]
                 /\ UNCHANGED <<event, tasks, executor>>
  BY DEF NotifyParent
<1> DEFINE g == [f EXCEPT !.parents = @ \ {d}]
           frames == <<g>> \o Tail(stack[t])
           e == d.event
           done == [event EXCEPT ![e].finished_dependencies = @ + 1]
           C == CallsIn(stack)
           B == After(stack, t, g)
<1>2. stack[t] # <<>> /\ f.fn = "Finish"
  BY DEF NotifyParent, At
<1>3. FrameOK(f, AllEvents) /\ EventsOK(event, AllEvents)
  BY <1>2, Working
<1>4. Telling(f, g, d, e) /\ e \in AllEvents
  <2> HIDE DEF f
  <2> QED
    BY <1>2, <1>3 DEF FrameOK, FrameFields, Telling
<1>5. /\ Alive(e) => CompleteDependency(t, d, frames)
      /\ ~Alive(e) => stack' = [stack EXCEPT ![t] = frames] /\ UNCHANGED <<event, tasks, executor>>
  BY <1>1
<1> HIDE DEF g
<1>6. CallsIn([stack EXCEPT ![t] = frames]) = B
  BY <1>2, <1>4, GoesOn DEF Telling
<1>7. /\ ClientInv(executor, AllEvents, Current)
      /\ executor.error \in BOOLEAN /\ executor.blocks \in 0..MaxBlocks /\ executor.events \subseteq AllEvents
  BY <1>2, AtWork, SameExecutor
<1>8. /\ DOMAIN event = AllEvents /\ DOMAIN event[e] = EventFields
  BY <1>3, <1>4 DEF EventsOK
<1>9. Links(FinishCalls(C), Ending(C), event, AllEvents, Inserting, Dependencies)
  BY <1>2, AtWork DEF LinksNow
<1>10. event[e].finished_dependencies \in Nat /\ event[e].total_dependencies \in Nat
  BY <1>4, <1>9 DEF Links, EventInv
<1> HIDE DEF frames, C, B
<1>11. CASE ~Alive(e)
  <2>1. Counts(event, event, e, 0, AllEvents)
    <3> HIDE DEF e
    <3> QED
      BY <1>4, <1>10 DEF Counts, SameEdges
  <2>2. Told(After(stack, t, g), event)
    <3> HIDE DEF f, e
    <3> QED
      BY <1>2, <1>4, <2>1, TellCounts DEF f
  <2>3. stack' = [stack EXCEPT ![t] = frames] /\ event' = event /\ tasks' = tasks /\ executor' = executor
    BY <1>5, <1>11
  <2>4. /\ LinksNow(CallsIn(stack'), event') /\ ProgressNow(CallsIn(stack'), event', executor')
        /\ TasksNow(CallsIn(stack'), event', tasks', executor')
    BY <1>6, <2>2, <2>3 DEF Told, B
  <2> QED
    BY <1>2, <1>7, <2>3, <2>4, WorkCounts
<1>12. CASE Alive(e)
  <2>1. /\ done[e].finished_dependencies = done[e].total_dependencies => Schedule(t, done, e, frames)
        /\ done[e].finished_dependencies # done[e].total_dependencies =>
             /\ event' = done /\ stack' = [stack EXCEPT ![t] = frames]
             /\ tasks' = tasks /\ executor' = executor
    BY <1>5, <1>12 DEF CompleteDependency
  <2> HIDE DEF e
  <2>2. EventsOK(done, AllEvents)
    BY <1>3 DEF EventsOK, EventFields
  <2>3. /\ \A x \in AllEvents : x # e => done[x] = event[x]
        /\ done[e].finished = event[e].finished /\ done[e].finished_tasks = event[e].finished_tasks
        /\ done[e].total_tasks = event[e].total_tasks /\ done[e].parents = event[e].parents
        /\ done[e].total_dependencies = event[e].total_dependencies
        /\ done[e].finished_dependencies = event[e].finished_dependencies + 1
    BY <1>4, <1>8 DEF EventFields
  <2> HIDE DEF done
  <2>4. Counts(event, done, e, 1, AllEvents)
    BY <1>4, <2>3 DEF Counts, SameEdges
  <2>5. /\ Told(After(stack, t, g), done)
        /\ event[e].finished_dependencies < event[e].total_dependencies
        /\ event[e].total_tasks = 0 /\ event[e].finished_tasks = 0 /\ ~event[e].finished
    <3> HIDE DEF f
    <3> QED
      BY <1>2, <1>4, <2>4, TellCounts DEF f
  <2>6. CASE done[e].finished_dependencies = done[e].total_dependencies
    <3>1. Schedule(t, done, e, <<g>> \o Tail(stack[t]))
      BY <2>1, <2>6 DEF frames
    <3>2. MayStart(done, e)
      BY <1>10, <2>3, <2>5, <2>6 DEF MayStart
    <3>3. g.fn = "Finish" /\ g.event = Head(stack[t]).event
      BY <1>4 DEF Telling
    <3> QED
      BY <1>2, <1>4, <2>2, <2>5, <3>1, <3>2, <3>3, ScheduleCounts
  <2>7. CASE done[e].finished_dependencies # done[e].total_dependencies
    <3>1. event' = done /\ stack' = [stack EXCEPT ![t] = frames] /\ tasks' = tasks /\ executor' = executor
      BY <2>1, <2>7
    <3>2. /\ LinksNow(CallsIn(stack'), event') /\ ProgressNow(CallsIn(stack'), event', executor')
          /\ TasksNow(CallsIn(stack'), event', tasks', executor')
      BY <1>6, <2>5, <3>1 DEF Told, B
    <3> QED
      BY <1>2, <1>7, <3>1, <3>2, WorkCounts
  <2> QED
    BY <2>6, <2>7
<1> QED
  BY <1>11, <1>12

\* A thread works on its stack.
LEMMA WorkStepCounts ==
  ASSUME IInv, CInv, UNCHANGED buildVars, NEW t \in Thread, Work(t)
  PROVE  CInv'
<1>1. executor.pc # "ended"
  BY DEF Work
<1>2. CASE EndTask(t)
  <2>1. CASE InsertsEvent(Head(stack[t]).event)
    BY <1>1, <1>2, <2>1, InsertEventCounts DEF EndTask
  <2>2. CASE ~InsertsEvent(Head(stack[t]).event)
    BY <1>1, <1>2, <2>2, EndTaskCounts
  <2> QED
    BY <2>1, <2>2
<1> QED
  BY <1>1, <1>2, FailTaskCounts, BlockTaskCounts, DescheduleCounts, FlushCounts, SetTasksCounts,
     FinishTaskCounts, NotifyParentCounts, FinalizeFinishCounts DEF Work

-----------------------------------------------------------------------------
(* The client, and threads that take tasks, keep the counts *)

\* What is known of the counts once the events have been made.
LEMMA Counting ==
  ASSUME IInv, CInv, executor.pc # "building"
  PROVE  /\ Stacks(stack) /\ Stock(CallsIn(stack), AllEvents) /\ GraphOK(AllEvents, Inserting)
         /\ LinksNow(CallsIn(stack), event) /\ ProgressNow(CallsIn(stack), event, executor)
         /\ TasksNow(CallsIn(stack), event, tasks, executor)
         /\ ClientInv(executor, AllEvents, Current) /\ MainInv(stack, executor)
         /\ DOMAIN executor = ExecutorFields /\ DOMAIN tasks = AllEvents /\ DOMAIN event = AllEvents
         /\ NoEvent \notin AllEvents
<1>1. EventsOK(event, AllEvents) /\ TasksOK(tasks, AllEvents) /\ StacksOK(stack, AllEvents)
      /\ DOMAIN executor = ExecutorFields
  BY Executing
<1>2. Stacks(stack)
  BY <1>1 DEF StacksOK, StackOK, Stacks
<1>3. /\ LinksNow(CallsIn(stack), event) /\ ProgressNow(CallsIn(stack), event, executor)
      /\ TasksNow(CallsIn(stack), event, tasks, executor) /\ ClientInv(executor, AllEvents, Current)
      /\ MainInv(stack, executor)
  BY DEF CInv, CountInv, LinksNow, ProgressNow, TasksNow
<1>4. Stock(CallsIn(stack), AllEvents)
  BY <1>3 DEF TasksNow, TasksInv
<1>5. GraphOK(AllEvents, Inserting)
  BY PlanGraph DEF IInv
<1>6. NoEvent \notin AllEvents
  <2>1. NoEvent[1] \notin EventKinds
    BY DEF NoEvent, EventKinds
  <2> QED
    BY <2>1, EventsKeepPipelines DEF IInv
<1> QED
  BY <1>1, <1>2, <1>3, <1>4, <1>5, <1>6 DEF EventsOK, TasksOK

\* What any step has to keep once the events have been made.
LEMMA NowCounts ==
  ASSUME UNCHANGED buildVars, executor'.pc # "building",
         ClientInv(executor', AllEvents, Current), MainInv(stack', executor'),
         LinksNow(CallsIn(stack'), event'), ProgressNow(CallsIn(stack'), event', executor'),
         TasksNow(CallsIn(stack'), event', tasks', executor')
  PROVE  CInv'
<1>1. CountInv(CallsIn(stack'), event', tasks', executor', AllEvents, Inserting, Dependencies, Scheduled)
  BY DEF CountInv, LinksNow, ProgressNow, TasksNow
<1> QED
  BY <1>1, CountKeeps

\* The counters of the executor do not change, and a query that has not ended goes on.
Continues(ex, nx) ==
  /\ nx.completed_pipelines = ex.completed_pipelines /\ nx.to_schedule = ex.to_schedule
  /\ nx.error = ex.error /\ nx.cancelled = ex.cancelled /\ nx.blocks = ex.blocks
  /\ nx.pc = ex.pc \/ (nx.pc \notin {"ready", "ended"} /\ ex.pc # "ended")

\* Then it goes on as before.
LEMMA ContinuesOn ==
  ASSUME NEW ex, NEW nx, NEW E, NEW P, ClientInv(ex, E, P), Continues(ex, nx)
  PROVE  Follows(ex, nx)
BY ExecutorAssumption DEF Follows, Continues, ClientInv

\* The calls that count and the events stay as they are.
LEMMA EventsStay ==
  ASSUME NEW C, NEW ev, NEW ex, LinksNow(C, ev), ProgressNow(C, ev, ex),
         NEW R, FinishCalls(R) = FinishCalls(C), Ending(R) = Ending(C), NEW nx, Continues(ex, nx)
  PROVE  LinksNow(R, ev) /\ ProgressNow(R, ev, nx)
BY DEF LinksNow, ProgressNow, ProgressInv, Continues

\* A task of e is taken from the queue by a thread that has no call.
LEMMA TakenCounts ==
  ASSUME IInv, CInv, executor.pc # "building", NEW t \in Thread, stack[t] = <<>>, NEW e \in Queued,
         tasks' = [tasks EXCEPT ![e].queued = @ - 1],
         stack' = [stack EXCEPT ![t] = <<Task("Execute", e)>>],
         Continues(executor, executor'), executor'.task = executor.task
  PROVE  /\ LinksNow(CallsIn(stack'), event) /\ ProgressNow(CallsIn(stack'), event, executor')
         /\ TasksNow(CallsIn(stack'), event, tasks', executor')
<1> DEFINE C == CallsIn(stack)
           R == CallsIn(stack')
           g == Task("Execute", e)
           b == <<t, 0, g>>
           r == [tasks[e] EXCEPT !.queued = @ - 1]
           ns == tasks'
           nx == executor'
<1>1. /\ Stacks(stack) /\ Stock(C, AllEvents) /\ LinksNow(C, event) /\ ProgressNow(C, event, executor)
      /\ TasksNow(C, event, tasks, executor) /\ ClientInv(executor, AllEvents, Current)
      /\ DOMAIN tasks = AllEvents /\ DOMAIN event = AllEvents
  BY Counting
<1>2. e \in AllEvents /\ tasks[e].queued > 0
  BY <1>1 DEF Queued
<1>3. g.event = e /\ g.fn = "Execute"
  BY DEF Task, Frame
<1> HIDE DEF g
<1>4. R = C \cup {b} /\ Fresh(C, b)
  BY <1>1, FirstCall, ZenonT(30) DEF g
<1>5. b[3] = g /\ CallShape(b)
  BY <1>3 DEF CallShape
<1>6. Continues(executor, nx) /\ nx.task = executor.task
  OBVIOUS
<1>7. tasks' = [tasks EXCEPT ![e] = r]
  OBVIOUS
<1>8. /\ tasks[e] \in [queued : Nat, descheduled : Nat, callbacks : Nat]
      /\ tasks[e].queued \in Nat /\ tasks[e].descheduled \in Nat /\ tasks[e].callbacks \in Nat
      /\ TaskCount(C, event, tasks, executor, e) /\ CallbackCount(C, tasks, executor, e)
      /\ Hands(C, e) \in Nat /\ Kept(executor, e) \in {0, 1}
  BY <1>1, <1>2, TasksOf DEF TasksNow
<1> HIDE DEF C, R, b, nx
<1>9. /\ r \in [queued : Nat, descheduled : Nat, callbacks : Nat]
      /\ r.queued = tasks[e].queued - 1 /\ r.descheduled = tasks[e].descheduled
      /\ r.callbacks = tasks[e].callbacks
  BY <1>2, <1>8
<1> HIDE DEF r
<1>10. ns[e] = r /\ \A x \in AllEvents : x # e => ns[x] = tasks[x]
  BY <1>1, <1>2, <1>7
<1> HIDE DEF ns
<1>11. Stock(R, AllEvents) /\ Elsewhere(R, C, e, AllEvents) /\ Gains(C, R, g, e)
  <2>1. b[3].event = e
    BY <1>3, <1>5
  <2> QED
    BY <1>1, <1>2, <1>4, <1>5, <2>1, Come
<1>12. Hands(R, e) = Hands(C, e) + 1 /\ Blocked(R, e) = Blocked(C, e)
  <2>1. Holds(g, e) = 1 /\ Descheduling(g, e) = 0
    BY <1>3, HoldsOf DEF Descheduling
  <2> QED
    BY <1>11, <2>1 DEF Gains
<1>13. Follows(executor, nx) /\ \A x : Kept(nx, x) = Kept(executor, x)
  BY <1>1, <1>6, ContinuesOn DEF Kept
<1>14. TaskCount(R, event, ns, nx, e)
  <2>1. event[e].finished_tasks \in Nat
    BY <1>1, <1>2, EventCounts
  <2>2. Counted(R, event, ns, nx, e) = Counted(C, event, tasks, executor, e)
    <3>1. /\ ns[e].queued = tasks[e].queued - 1 /\ ns[e].descheduled = tasks[e].descheduled
          /\ Kept(nx, e) = Kept(executor, e)
      BY <1>9, <1>10, <1>13
    <3> DEFINE i == event[e].finished_tasks
               q == tasks[e].queued
               u == tasks[e].descheduled
               k == Kept(executor, e)
               n == Hands(C, e)
    <3>2. /\ Counted(C, event, tasks, executor, e) = i + q + u + k + n
          /\ Counted(R, event, ns, nx, e) = i + (q - 1) + u + k + (n + 1)
      BY <1>12, <3>1 DEF Counted
    <3>3. i \in Nat /\ q \in Nat /\ u \in Nat /\ k \in {0, 1} /\ n \in Nat
      BY <1>8, <2>1
    <3> HIDE DEF i, q, u, k, n
    <3> QED
      BY <3>2, <3>3
  <2> QED
    BY <1>8, <1>13, <2>2 DEF TaskCount, Follows
<1>15. CallbackCount(R, ns, nx, e)
  BY <1>6, <1>8, <1>9, <1>10, <1>12, <1>13 DEF CallbackCount, Follows
<1>16. TasksNow(R, event, ns, nx)
  <2>1. TasksInv(C, event, tasks, executor, AllEvents)
    BY <1>1 DEF TasksNow
  <2>2. ns[e] \in [queued : Nat, descheduled : Nat, callbacks : Nat]
    BY <1>9, <1>10
  <2>3. TasksInv(R, event, ns, nx, AllEvents)
    BY <1>2, <1>10, <1>11, <1>13, <1>14, <1>15, <2>1, <2>2, MoveTasks
  <2> QED
    BY <2>3 DEF TasksNow
<1>17. FinishCalls(R) = FinishCalls(C) /\ Ending(R) = Ending(C)
  BY <1>3, <1>4, <1>5 DEF FinishCalls, Ending
<1>18. LinksNow(R, event) /\ ProgressNow(R, event, nx)
  BY <1>1, <1>6, <1>17, EventsStay
<1> QED
  BY <1>16, <1>18 DEF R, ns, nx

\* The fields of the executor that matter to the client's place.
LEMMA ClientMoves ==
  ASSUME NEW ex, NEW nx, NEW E, NEW P, ClientInv(ex, E, P), ex.pc # "building",
         nx.pc \in {"scheduling", "client", "executing", "ready", "cancelling", "waiting", "ended"},
         nx.blocks = ex.blocks, nx.error = ex.error,
         nx.cancelled \in BOOLEAN, nx.cancelled => nx.pc \in {"cancelling", "waiting", "ended"},
         nx.events = ex.events \/ nx.events = {}, nx.pipelines = ex.pipelines \/ nx.pipelines = {}
  PROVE  ClientInv(nx, E, P)
BY DEF ClientInv

\* TakeTask keeps the counts.
LEMMA TakeTaskCounts ==
  ASSUME IInv, CInv, UNCHANGED buildVars, NEW w \in Workers, executor.pc # "building", TakeTask(w)
  PROVE  CInv'
<1>1. PICK e \in Queued : /\ tasks' = [tasks EXCEPT ![e].queued = @ - 1]
                          /\ stack' = [stack EXCEPT ![w] = <<Task("Execute", e)>>]
  BY DEF TakeTask
<1>2. event' = event /\ executor' = executor /\ stack[w] = <<>> /\ w \in Thread /\ w # Main
  BY ExecutorAssumption DEF TakeTask, Thread
<1>3. Continues(executor, executor') /\ executor'.task = executor.task
  BY <1>2 DEF Continues
<1>4. /\ LinksNow(CallsIn(stack'), event) /\ ProgressNow(CallsIn(stack'), event, executor')
      /\ TasksNow(CallsIn(stack'), event, tasks', executor')
  BY <1>1, <1>2, <1>3, TakenCounts
<1>5. ClientInv(executor, AllEvents, Current) /\ MainInv(stack, executor) /\ Stacks(stack)
  BY Counting
<1>6. MainInv(stack', executor')
  <2>1. stack'[Main] = stack[Main]
    BY <1>1, <1>2, <1>5 DEF Stacks
  <2> QED
    BY <1>2, <1>5, <2>1 DEF MainInv
<1> QED
  BY <1>2, <1>4, <1>5, <1>6, NowCounts

\* ExecuteNewTask keeps the counts.
LEMMA ExecuteNewTaskCounts ==
  ASSUME IInv, CInv, UNCHANGED buildVars, ExecuteNewTask
  PROVE  CInv'
<1>1. PICK e \in Queued : /\ tasks' = [tasks EXCEPT ![e].queued = @ - 1]
                          /\ stack' = [stack EXCEPT ![Main] = <<Task("Execute", e)>>]
  BY DEF ExecuteNewTask
<1>2. /\ executor.pc = "client" /\ event' = event /\ executor.task = NoEvent
      /\ executor' = [executor EXCEPT !.pc = "executing"] /\ Main \in Thread
  BY DEF ExecuteNewTask, Thread
<1>3. /\ ClientInv(executor, AllEvents, Current) /\ MainInv(stack, executor)
      /\ DOMAIN executor = ExecutorFields
  BY <1>2, Counting
<1>4. /\ executor'.completed_pipelines = executor.completed_pipelines
      /\ executor'.pc = "executing" /\ executor'.task = executor.task
      /\ executor'.cancelled = executor.cancelled /\ executor'.pipelines = executor.pipelines
      /\ executor'.error = executor.error /\ executor'.blocks = executor.blocks
      /\ executor'.events = executor.events /\ executor'.to_schedule = executor.to_schedule
  BY <1>2, <1>3 DEF ExecutorFields
<1>5. Continues(executor, executor')
  BY <1>2, <1>4 DEF Continues
<1>6. stack[Main] = <<>>
  BY <1>2, <1>3 DEF MainInv
<1>7. /\ LinksNow(CallsIn(stack'), event) /\ ProgressNow(CallsIn(stack'), event, executor')
      /\ TasksNow(CallsIn(stack'), event, tasks', executor')
  BY <1>1, <1>2, <1>4, <1>5, <1>6, TakenCounts
<1>8. MainInv(stack', executor')
  BY <1>2, <1>4 DEF MainInv
<1>9. ClientInv(executor', AllEvents, Current)
  BY <1>2, <1>3, <1>4 DEF ClientInv
<1> QED
  BY <1>2, <1>4, <1>7, <1>8, <1>9, NowCounts

\* WorkOnTasks keeps the counts.
LEMMA WorkOnTasksCounts ==
  ASSUME IInv, CInv, UNCHANGED buildVars, WorkOnTasks
  PROVE  CInv'
<1>1. PICK e \in Queued : /\ tasks' = [tasks EXCEPT ![e].queued = @ - 1]
                          /\ stack' = [stack EXCEPT ![Main] = <<Task("Execute", e)>>]
  BY DEF WorkOnTasks
<1>2. /\ executor.pc = "cancelling" /\ event' = event /\ executor' = executor /\ stack[Main] = <<>>
      /\ Main \in Thread
  BY DEF WorkOnTasks, Thread
<1>3. Continues(executor, executor') /\ executor'.task = executor.task
  BY <1>2 DEF Continues
<1>4. /\ LinksNow(CallsIn(stack'), event) /\ ProgressNow(CallsIn(stack'), event, executor')
      /\ TasksNow(CallsIn(stack'), event, tasks', executor')
  BY <1>1, <1>2, <1>3, TakenCounts
<1>5. ClientInv(executor, AllEvents, Current) /\ MainInv(stack', executor')
  BY <1>2, Counting DEF MainInv
<1> QED
  BY <1>2, <1>4, <1>5, NowCounts

\* The client goes on, and only its place changes.
LEMMA PlaceCounts ==
  ASSUME IInv, CInv, UNCHANGED buildVars, UNCHANGED <<event, tasks, stack>>, stack[Main] = <<>>, NEW pc,
         executor' = [executor EXCEPT !.pc = pc],
         \/ pc = "client" /\ executor.pc \in {"scheduling", "executing"}
         \/ pc = "waiting" /\ executor.pc = "cancelling"
  PROVE  CInv'
<1> DEFINE C == CallsIn(stack)
           nx == executor'
<1>1. /\ LinksNow(C, event) /\ ProgressNow(C, event, executor) /\ TasksNow(C, event, tasks, executor)
      /\ ClientInv(executor, AllEvents, Current) /\ DOMAIN executor = ExecutorFields
  BY Counting
<1>2. /\ nx.completed_pipelines = executor.completed_pipelines
      /\ nx.pc = pc /\ nx.task = executor.task
      /\ nx.cancelled = executor.cancelled /\ nx.pipelines = executor.pipelines
      /\ nx.error = executor.error /\ nx.blocks = executor.blocks
      /\ nx.events = executor.events /\ nx.to_schedule = executor.to_schedule
  BY <1>1 DEF ExecutorFields
<1>3. event' = event /\ tasks' = tasks /\ stack' = stack
  OBVIOUS
<1>4. Continues(executor, nx)
  BY <1>2 DEF Continues
<1>5. nx.cancelled \in BOOLEAN /\ (nx.cancelled => nx.pc \in {"cancelling", "waiting", "ended"})
  BY <1>1, <1>2 DEF ClientInv
<1>6. MainInv(stack', nx)
  BY <1>2, <1>3 DEF MainInv
<1> HIDE DEF C, nx
<1>7. LinksNow(C, event) /\ ProgressNow(C, event, nx)
  BY <1>1, <1>4, EventsStay
<1>8. TasksNow(C, event, tasks, nx)
  BY <1>1, <1>2 DEF TasksNow, TasksInv, TaskCount, CallbackCount, Counted, Kept
<1>9. ClientInv(nx, AllEvents, Current)
  BY <1>1, <1>2, <1>5, ClientMoves
<1> QED
  BY <1>2, <1>3, <1>6, <1>7, <1>8, <1>9, NowCounts DEF C, nx

\* A query that ends or is cancelled drops tasks.
LEMMA Abandoned ==
  ASSUME NEW C, NEW ev, NEW ts, NEW ex, LinksNow(C, ev), TasksNow(C, ev, ts, ex),
         NEW ns, NEW nx, nx.task = NoEvent, NoEvent \notin AllEvents, nx.blocks = ex.blocks,
         nx.pc = "ended" \/ nx.cancelled,
         \A e \in AllEvents : /\ ns[e] \in [queued : Nat, descheduled : Nat, callbacks : Nat]
                              /\ ns[e].queued = ts[e].queued /\ ns[e].callbacks = ts[e].callbacks
                              /\ ns[e].descheduled <= ts[e].descheduled
  PROVE  TasksNow(C, ev, ns, nx)
<1> SUFFICES ASSUME NEW e \in AllEvents
             PROVE  TaskCount(C, ev, ns, nx, e) /\ CallbackCount(C, ns, nx, e)
  BY DEF TasksNow, TasksInv
<1>1. /\ ts[e].queued \in Nat /\ ts[e].descheduled \in Nat /\ ts[e].callbacks \in Nat
      /\ TaskCount(C, ev, ts, ex, e) /\ CallbackCount(C, ts, ex, e)
      /\ Hands(C, e) \in Nat /\ Kept(ex, e) \in {0, 1}
  BY TasksOf DEF TasksNow
<1>2. ev[e].finished_tasks \in Nat /\ ev[e].total_tasks \in Nat
  BY EventCounts
<1>3. Kept(nx, e) = 0
  BY DEF Kept
<1>4. Counted(C, ev, ns, nx, e) <= ev[e].total_tasks
  <2> DEFINE i == ev[e].finished_tasks
             q == ts[e].queued
             u == ts[e].descheduled
             v == ns[e].descheduled
             k == Kept(ex, e)
             n == Hands(C, e)
  <2>1. /\ i + q + u + k + n <= ev[e].total_tasks
        /\ Counted(C, ev, ns, nx, e) = i + q + v + 0 + n
    BY <1>1, <1>3 DEF TaskCount, Counted
  <2>2. ns[e] \in [queued : Nat, descheduled : Nat, callbacks : Nat]
    OBVIOUS
  <2>3. i \in Nat /\ q \in Nat /\ u \in Nat /\ v \in Nat /\ v <= u /\ k \in {0, 1} /\ n \in Nat
    BY <1>1, <1>2, <2>2
  <2> HIDE DEF i, q, u, v, k, n
  <2> QED
    BY <1>2, <2>1, <2>3
<1>5. TaskCount(C, ev, ns, nx, e)
  BY <1>4 DEF TaskCount
<1>6. CallbackCount(C, ns, nx, e)
  BY <1>1 DEF CallbackCount
<1> QED
  BY <1>5, <1>6

\* Of the tasks in the queue and the callbacks nothing is forgotten.
LEMMA ForgottenCounts ==
  ASSUME NEW C, TasksNow(C, event, tasks, executor), DOMAIN tasks = AllEvents, tasks' = Forgotten
  PROVE  \A e \in AllEvents :
           /\ tasks'[e] \in [queued : Nat, descheduled : Nat, callbacks : Nat]
           /\ tasks'[e].queued = tasks[e].queued /\ tasks'[e].callbacks = tasks[e].callbacks
           /\ tasks'[e].descheduled <= tasks[e].descheduled
<1> SUFFICES ASSUME NEW e \in AllEvents
             PROVE  /\ tasks'[e] \in [queued : Nat, descheduled : Nat, callbacks : Nat]
                    /\ tasks'[e].queued = tasks[e].queued /\ tasks'[e].callbacks = tasks[e].callbacks
                    /\ tasks'[e].descheduled <= tasks[e].descheduled
  OBVIOUS
<1>1. tasks[e] \in [queued : Nat, descheduled : Nat, callbacks : Nat] /\ tasks[e].descheduled \in Nat
  BY TasksOf DEF TasksNow
<1>2. tasks'[e] = [tasks[e] EXCEPT !.descheduled = 0]
  BY DEF Forgotten
<1> QED
  BY <1>1, <1>2

\* The client ends or cancels the query, and no thread notices.
LEMMA AbandonCounts ==
  ASSUME IInv, CInv, UNCHANGED buildVars, executor.pc # "building", event' = event, stack' = stack,
         tasks' = Forgotten \/ tasks' = tasks,
         executor'.completed_pipelines = executor.completed_pipelines,
         executor'.to_schedule = executor.to_schedule,
         executor'.task = NoEvent, executor'.error = executor.error, executor'.blocks = executor.blocks,
         executor'.events = {}, executor'.pipelines = {},
         \/ executor'.pc = "ended" /\ executor'.cancelled = executor.cancelled
         \/ executor'.pc = "cancelling" /\ executor'.cancelled = TRUE
  PROVE  CInv'
<1> DEFINE C == CallsIn(stack)
           nx == executor'
           ns == tasks'
<1>1. /\ LinksNow(C, event) /\ ProgressNow(C, event, executor) /\ TasksNow(C, event, tasks, executor)
      /\ ClientInv(executor, AllEvents, Current) /\ NoEvent \notin AllEvents /\ DOMAIN tasks = AllEvents
  BY Counting
<1>2. \A e \in AllEvents : /\ ns[e] \in [queued : Nat, descheduled : Nat, callbacks : Nat]
                           /\ ns[e].queued = tasks[e].queued /\ ns[e].callbacks = tasks[e].callbacks
                           /\ ns[e].descheduled <= tasks[e].descheduled
  <2>1. CASE tasks' = Forgotten
    BY <1>1, <2>1, ForgottenCounts
  <2>2. CASE tasks' = tasks
    <3>1. \A e \in AllEvents : tasks[e] \in [queued : Nat, descheduled : Nat, callbacks : Nat]
                               /\ tasks[e].descheduled \in Nat
      BY <1>1, TasksOf DEF TasksNow
    <3> QED
      BY <2>2, <3>1
  <2> QED
    BY <2>1, <2>2
<1>3. /\ nx.pc \in {"ended", "cancelling"} /\ nx.pc # "ready" /\ (nx.pc = "ended" \/ nx.cancelled)
      /\ nx.cancelled \in BOOLEAN
  BY <1>1 DEF ClientInv
<1>4. MainInv(stack', nx)
  BY <1>3 DEF MainInv
<1> HIDE DEF C
<1>5. ProgressNow(C, event, nx)
  BY <1>1, <1>3 DEF ProgressNow, ProgressInv
<1>6. TasksNow(C, event, ns, nx)
  <2>1. nx.task = NoEvent /\ nx.blocks = executor.blocks
    OBVIOUS
  <2> HIDE DEF ns, nx
  <2> QED
    BY <1>1, <1>2, <1>3, <2>1, Abandoned
<1>7. ClientInv(nx, AllEvents, Current)
  BY <1>1, <1>3 DEF ClientInv
<1> QED
  BY <1>1, <1>3, <1>4, <1>5, <1>6, <1>7, NowCounts DEF C

\* An error ends the query without waiting.
LEMMA ThrowCounts ==
  ASSUME IInv, CInv, UNCHANGED buildVars, executor.pc # "building", Throw
  PROVE  CInv'
<1>1. /\ event' = event /\ stack' = stack /\ tasks' = Forgotten
      /\ executor' = [executor EXCEPT !.pc = "ended", !.events = {}, !.pipelines = {}, !.task = NoEvent]
  BY DEF Throw, EndQuery
<1>2. /\ executor'.completed_pipelines = executor.completed_pipelines
      /\ executor'.to_schedule = executor.to_schedule /\ executor'.task = NoEvent
      /\ executor'.error = executor.error /\ executor'.blocks = executor.blocks
      /\ executor'.events = {} /\ executor'.pipelines = {}
      /\ executor'.pc = "ended" /\ executor'.cancelled = executor.cancelled
  BY <1>1, Counting DEF ExecutorFields
<1> QED
  BY <1>1, <1>2, AbandonCounts

\* CancelTasks keeps the counts.
LEMMA CancelTasksCounts ==
  ASSUME IInv, CInv, UNCHANGED buildVars, executor.pc # "building", CancelTasks
  PROVE  CInv'
<1>1. /\ event' = event /\ stack' = stack /\ tasks' = Forgotten
      /\ executor' = [executor EXCEPT !.pc = "cancelling", !.task = NoEvent, !.cancelled = TRUE,
                                      !.weak_references = executor.pipelines,
                                      !.pipelines = {}, !.events = {}]
  BY DEF CancelTasks
<1>2. /\ executor'.completed_pipelines = executor.completed_pipelines
      /\ executor'.to_schedule = executor.to_schedule /\ executor'.task = NoEvent
      /\ executor'.error = executor.error /\ executor'.blocks = executor.blocks
      /\ executor'.events = {} /\ executor'.pipelines = {}
      /\ executor'.pc = "cancelling" /\ executor'.cancelled = TRUE
  BY <1>1, Counting DEF ExecutorFields
<1> QED
  BY <1>1, <1>2, AbandonCounts

\* EndCancelTasks keeps the counts.
LEMMA EndCancelTasksCounts ==
  ASSUME IInv, CInv, UNCHANGED buildVars, EndCancelTasks
  PROVE  CInv'
<1>1. /\ executor.pc = "waiting" /\ event' = event /\ stack' = stack /\ tasks' = tasks
      /\ executor' = [executor EXCEPT !.pc = "ended", !.events = {}, !.pipelines = {}, !.task = NoEvent]
  BY DEF EndCancelTasks, EndQuery
<1>2. /\ executor'.completed_pipelines = executor.completed_pipelines
      /\ executor'.to_schedule = executor.to_schedule /\ executor'.task = NoEvent
      /\ executor'.error = executor.error /\ executor'.blocks = executor.blocks
      /\ executor'.events = {} /\ executor'.pipelines = {}
      /\ executor'.pc = "ended" /\ executor'.cancelled = executor.cancelled
  BY <1>1, Counting DEF ExecutorFields
<1> QED
  BY <1>1, <1>2, AbandonCounts

\* EndExecuteTask keeps the counts.
LEMMA EndExecuteTaskCounts ==
  ASSUME IInv, CInv, UNCHANGED buildVars, EndExecuteTask
  PROVE  CInv'
<1>1. CASE executor.error
  BY <1>1, ThrowCounts DEF EndExecuteTask
<1>2. CASE ~executor.error
  BY <1>2, PlaceCounts DEF EndExecuteTask
<1> QED
  BY <1>1, <1>2

\* ResultReady keeps the counts.
LEMMA ResultReadyCounts ==
  ASSUME IInv, CInv, UNCHANGED buildVars, ResultReady
  PROVE  CInv'
<1>1. CASE executor.error
  BY <1>1, ThrowCounts DEF ResultReady
<1>2. CASE ~executor.error
  <2> DEFINE C == CallsIn(stack)
             nx == executor'
  <2>1. /\ executor.pc = "client" /\ event' = event /\ tasks' = tasks /\ stack' = stack
        /\ executor.completed_pipelines = Total
        /\ executor' = [executor EXCEPT !.pc = "ready", !.pipelines = {}]
    BY <1>2 DEF ResultReady
  <2>2. /\ LinksNow(C, event) /\ ProgressNow(C, event, executor) /\ TasksNow(C, event, tasks, executor)
        /\ ClientInv(executor, AllEvents, Current) /\ DOMAIN executor = ExecutorFields
        /\ MainInv(stack, executor)
    BY <2>1, Counting
  <2>3. /\ nx.completed_pipelines = executor.completed_pipelines
        /\ nx.pc = "ready" /\ nx.task = executor.task /\ nx.pipelines = {}
        /\ nx.cancelled = executor.cancelled
        /\ nx.error = executor.error /\ nx.blocks = executor.blocks
        /\ nx.events = executor.events /\ nx.to_schedule = executor.to_schedule
    BY <2>1, <2>2 DEF ExecutorFields
  <2>4. MainInv(stack', nx) /\ ClientInv(nx, AllEvents, Current)
    BY <2>1, <2>2, <2>3 DEF MainInv, ClientInv
  <2> HIDE DEF C, nx
  <2>5. ProgressNow(C, event, nx)
    BY <2>1, <2>2, <2>3 DEF ProgressNow, ProgressInv, Total
  <2>6. TasksNow(C, event, tasks, nx)
    BY <2>1, <2>2, <2>3 DEF TasksNow, TasksInv, TaskCount, CallbackCount, Counted, Kept
  <2> QED
    BY <2>1, <2>2, <2>3, <2>4, <2>5, <2>6, NowCounts DEF C, nx
<1> QED
  BY <1>1, <1>2

\* RescheduleTask keeps the counts.
LEMMA RescheduleTaskCounts ==
  ASSUME IInv, CInv, UNCHANGED buildVars, executor.pc # "building", NEW e \in AllEvents, RescheduleTask(e)
  PROVE  CInv'
<1> DEFINE C == CallsIn(stack)
           ns == tasks'
           r == ns[e]
<1>1. event' = event /\ executor' = executor /\ stack' = stack /\ tasks[e].callbacks > 0
  BY DEF RescheduleTask
<1>2. /\ LinksNow(C, event) /\ ProgressNow(C, event, executor) /\ TasksNow(C, event, tasks, executor)
      /\ ClientInv(executor, AllEvents, Current) /\ MainInv(stack, executor) /\ DOMAIN tasks = AllEvents
      /\ Stock(C, AllEvents)
  BY Counting
<1>3. /\ tasks[e] \in [queued : Nat, descheduled : Nat, callbacks : Nat]
      /\ tasks[e].queued \in Nat /\ tasks[e].descheduled \in Nat /\ tasks[e].callbacks \in Nat
      /\ TaskCount(C, event, tasks, executor, e) /\ CallbackCount(C, tasks, executor, e)
      /\ Hands(C, e) \in Nat /\ Blocked(C, e) \in Nat /\ Kept(executor, e) \in {0, 1}
  BY <1>2, TasksOf DEF TasksNow
<1>4. Follows(executor, executor) /\ executor.blocks \in Nat
  BY <1>2, SameExecutor DEF Follows
<1>5. event[e].finished_tasks \in Nat
  BY <1>2, EventCounts
<1> HIDE DEF C
<1>6. /\ \A x \in AllEvents : x # e => ns[x] = tasks[x]
      /\ r \in [queued : Nat, descheduled : Nat, callbacks : Nat]
      /\ TaskCount(C, event, ns, executor, e) /\ CallbackCount(C, ns, executor, e)
  <2>1. CASE /\ executor.cancelled \/ executor.pc = "ended"
             /\ tasks' = [tasks EXCEPT ![e].callbacks = @ - 1]
    <3>1. r = [tasks[e] EXCEPT !.callbacks = @ - 1] /\ \A x \in AllEvents : x # e => ns[x] = tasks[x]
      BY <1>2, <2>1
    <3>2. /\ r.queued = tasks[e].queued /\ r.descheduled = tasks[e].descheduled
          /\ r.callbacks = tasks[e].callbacks - 1
          /\ r \in [queued : Nat, descheduled : Nat, callbacks : Nat]
      BY <1>1, <1>3, <3>1
    <3> HIDE DEF ns
    <3>3. Counted(C, event, ns, executor, e) = Counted(C, event, tasks, executor, e)
      BY <3>2 DEF Counted
    <3>4. TaskCount(C, event, ns, executor, e)
      BY <1>3, <3>3 DEF TaskCount
    <3>5. CallbackCount(C, ns, executor, e)
      BY <1>3, <1>4, <2>1, <3>2 DEF CallbackCount
    <3> QED
      BY <3>1, <3>2, <3>4, <3>5
  <2>2. CASE /\ tasks[e].descheduled > 0
             /\ tasks' = [tasks EXCEPT ![e] =
                  [queued |-> @.queued + 1, descheduled |-> @.descheduled - 1, callbacks |-> @.callbacks - 1]]
    <3>1. /\ r = [queued |-> tasks[e].queued + 1, descheduled |-> tasks[e].descheduled - 1,
                  callbacks |-> tasks[e].callbacks - 1]
          /\ \A x \in AllEvents : x # e => ns[x] = tasks[x]
      BY <1>2, <2>2
    <3>2. /\ r.queued = tasks[e].queued + 1 /\ r.descheduled = tasks[e].descheduled - 1
          /\ r.callbacks = tasks[e].callbacks - 1
          /\ r \in [queued : Nat, descheduled : Nat, callbacks : Nat]
      BY <1>1, <1>3, <2>2, <3>1
    <3> HIDE DEF ns
    <3>3. Counted(C, event, ns, executor, e) = Counted(C, event, tasks, executor, e)
      <4> DEFINE i == event[e].finished_tasks
                 q == tasks[e].queued
                 u == tasks[e].descheduled
                 k == Kept(executor, e)
                 n == Hands(C, e)
      <4>1. /\ Counted(C, event, tasks, executor, e) = i + q + u + k + n
            /\ Counted(C, event, ns, executor, e) = i + (q + 1) + (u - 1) + k + n
        BY <3>2 DEF Counted
      <4>2. i \in Nat /\ q \in Nat /\ u \in Nat /\ k \in {0, 1} /\ n \in Nat
        BY <1>3, <1>5
      <4> HIDE DEF i, q, u, k, n
      <4> QED
        BY <4>1, <4>2
    <3>4. TaskCount(C, event, ns, executor, e)
      BY <1>3, <3>3 DEF TaskCount
    <3>5. CallbackCount(C, ns, executor, e)
      BY <1>3, <1>4, <3>2 DEF CallbackCount
    <3> QED
      BY <3>1, <3>2, <3>4, <3>5
  <2> QED
    BY <2>1, <2>2 DEF RescheduleTask
<1>7. Elsewhere(C, C, e, AllEvents)
  BY DEF Elsewhere
<1>8. TasksNow(C, event, ns, executor)
  <2>1. TasksInv(C, event, tasks, executor, AllEvents)
    BY <1>2 DEF TasksNow
  <2> HIDE DEF ns
  <2>2. TasksInv(C, event, ns, executor, AllEvents)
    BY <1>2, <1>4, <1>6, <1>7, <2>1, MoveTasks
  <2> QED
    BY <2>2 DEF TasksNow
<1> QED
  BY <1>1, <1>2, <1>8, NowCounts DEF C

\* ExecuteKeptTask keeps the counts.
LEMMA ExecuteKeptTaskCounts ==
  ASSUME IInv, CInv, UNCHANGED buildVars, ExecuteKeptTask
  PROVE  CInv'
<1> DEFINE C == CallsIn(stack)
           R == CallsIn(stack')
           e == executor.task
           g == Frame("Execute", e, {}, 1)
           b == <<Main, 0, g>>
           nx == executor'
<1>1. /\ executor.pc = "client" /\ e # NoEvent /\ event' = event /\ tasks' = tasks
      /\ stack' = [stack EXCEPT ![Main] = <<g>>] /\ Main \in Thread
      /\ executor' = [executor EXCEPT !.pc = "executing", !.task = NoEvent]
  BY DEF ExecuteKeptTask, Thread
<1>2. /\ LinksNow(C, event) /\ ProgressNow(C, event, executor) /\ TasksNow(C, event, tasks, executor)
      /\ ClientInv(executor, AllEvents, Current) /\ MainInv(stack, executor) /\ Stacks(stack)
      /\ Stock(C, AllEvents) /\ DOMAIN executor = ExecutorFields /\ NoEvent \notin AllEvents
  BY <1>1, Counting
<1>3. /\ nx.completed_pipelines = executor.completed_pipelines
      /\ nx.pc = "executing" /\ nx.task = NoEvent /\ nx.pipelines = executor.pipelines
      /\ nx.cancelled = executor.cancelled /\ nx.error = executor.error /\ nx.blocks = executor.blocks
      /\ nx.events = executor.events /\ nx.to_schedule = executor.to_schedule
  BY <1>1, <1>2 DEF ExecutorFields
<1>4. e \in AllEvents
  BY <1>1, Executing DEF TaskEvents
<1>5. stack[Main] = <<>> /\ MainInv(stack', nx) /\ ClientInv(nx, AllEvents, Current)
  BY <1>1, <1>2, <1>3 DEF MainInv, ClientInv
<1>6. Continues(executor, nx)
  BY <1>1, <1>3 DEF Continues
<1>7. g.event = e /\ g.fn = "Execute"
  BY DEF Frame
<1> HIDE DEF g
<1>8. R = C \cup {b} /\ Fresh(C, b)
  <2>1. /\ CallsIn([stack EXCEPT ![Main] = <<g>>]) = CallsIn(stack) \cup {<<Main, 0, g>>}
        /\ Fresh(CallsIn(stack), <<Main, 0, g>>)
    BY <1>1, <1>2, <1>5, FirstCall, Zenon
  <2> QED
    BY <1>1, <2>1, Zenon
<1>9. b[3] = g /\ CallShape(b)
  BY <1>7 DEF CallShape
<1>10. Kept(executor, e) = 1 /\ Kept(nx, e) = 0 /\ \A x \in AllEvents : x # e => Kept(nx, x) = Kept(executor, x)
  BY <1>1, <1>2, <1>3, <1>4 DEF Kept
<1> HIDE DEF C, R, b, nx, e
<1>11. Stock(R, AllEvents) /\ Elsewhere(R, C, e, AllEvents) /\ Gains(C, R, g, e)
  <2>1. b[3].event = e
    BY <1>7, <1>9
  <2> QED
    BY <1>2, <1>4, <1>8, <1>9, <2>1, Come
<1>12. Hands(R, e) = Hands(C, e) + 1 /\ Blocked(R, e) = Blocked(C, e)
  <2>1. Holds(g, e) = 1 /\ Descheduling(g, e) = 0
    BY <1>7, HoldsOf DEF Descheduling
  <2> QED
    BY <1>11, <2>1 DEF Gains
<1>13. /\ tasks[e] \in [queued : Nat, descheduled : Nat, callbacks : Nat]
       /\ tasks[e].queued \in Nat /\ tasks[e].descheduled \in Nat /\ tasks[e].callbacks \in Nat
       /\ TaskCount(C, event, tasks, executor, e) /\ CallbackCount(C, tasks, executor, e)
       /\ Hands(C, e) \in Nat
  BY <1>2, <1>4, TasksOf DEF TasksNow
<1>14. Follows(executor, nx)
  BY <1>2, <1>6, ContinuesOn
<1>15. TaskCount(R, event, tasks, nx, e)
  <2>1. event[e].finished_tasks \in Nat
    BY <1>2, <1>4, EventCounts
  <2>2. Counted(R, event, tasks, nx, e) = Counted(C, event, tasks, executor, e)
    <3> DEFINE i == event[e].finished_tasks
               q == tasks[e].queued
               u == tasks[e].descheduled
               n == Hands(C, e)
    <3>1. /\ Counted(C, event, tasks, executor, e) = i + q + u + 1 + n
          /\ Counted(R, event, tasks, nx, e) = i + q + u + 0 + (n + 1)
      BY <1>10, <1>12 DEF Counted
    <3>2. i \in Nat /\ q \in Nat /\ u \in Nat /\ n \in Nat
      BY <1>13, <2>1
    <3> HIDE DEF i, q, u, n
    <3> QED
      BY <3>1, <3>2
  <2> QED
    BY <1>13, <1>14, <2>2 DEF TaskCount, Follows
<1>16. CallbackCount(R, tasks, nx, e)
  BY <1>3, <1>12, <1>13, <1>14 DEF CallbackCount, Follows
<1>17. TasksNow(R, event, tasks, nx)
  <2>1. TasksInv(C, event, tasks, executor, AllEvents)
    BY <1>2 DEF TasksNow
  <2>2. TasksInv(R, event, tasks, nx, AllEvents)
    BY <1>4, <1>10, <1>11, <1>13, <1>14, <1>15, <1>16, <2>1, MoveTasks
  <2> QED
    BY <2>2 DEF TasksNow
<1>18. FinishCalls(R) = FinishCalls(C) /\ Ending(R) = Ending(C)
  BY <1>7, <1>8, <1>9 DEF FinishCalls, Ending
<1>19. LinksNow(R, event) /\ ProgressNow(R, event, nx)
  BY <1>2, <1>6, <1>18, EventsStay
<1> QED
  BY <1>1, <1>3, <1>5, <1>17, <1>19, NowCounts DEF R, nx

\* PartialTask keeps the counts.
LEMMA PartialTaskCounts ==
  ASSUME IInv, CInv, UNCHANGED buildVars, PartialTask
  PROVE  CInv'
<1> DEFINE C == CallsIn(stack)
           R == CallsIn(stack')
           a == Top(stack, Main)
           f == Head(stack[Main])
           e == f.event
           nx == executor'
<1>1. /\ executor.pc = "executing" /\ stack[Main] # <<>> /\ f.fn = "Execute"
      /\ event' = event /\ tasks' = tasks /\ Main \in Thread
      /\ stack' = [stack EXCEPT ![Main] = <<>>]
      /\ executor' = [executor EXCEPT !.task = e]
  BY DEF PartialTask, At, Thread
<1>2. /\ LinksNow(C, event) /\ ProgressNow(C, event, executor) /\ TasksNow(C, event, tasks, executor)
      /\ ClientInv(executor, AllEvents, Current) /\ MainInv(stack, executor) /\ Stacks(stack)
      /\ Stock(C, AllEvents) /\ DOMAIN executor = ExecutorFields /\ NoEvent \notin AllEvents
  BY <1>1, Counting
<1>3. a \in C /\ a[3] = f /\ a[2] = Len(stack[Main]) - 1 /\ e \in AllEvents
  BY <1>1, AtWork
<1>4. /\ nx.completed_pipelines = executor.completed_pipelines
      /\ nx.pc = executor.pc /\ nx.task = e /\ nx.pipelines = executor.pipelines
      /\ nx.cancelled = executor.cancelled /\ nx.error = executor.error /\ nx.blocks = executor.blocks
      /\ nx.events = executor.events /\ nx.to_schedule = executor.to_schedule
  BY <1>1, <1>2 DEF ExecutorFields
<1>5. executor.task = NoEvent
  BY <1>1, <1>2 DEF MainInv
<1>6. Continues(executor, nx)
  BY <1>4 DEF Continues
<1>7. Tail(stack[Main]) = <<>>
  <2>1. a[2] = 0
    BY <1>1, <1>2, <1>3 DEF Stock, CallShape
  <2>2. IsSeq(stack[Main])
    BY <1>1, <1>2 DEF Stacks
  <2> QED
    BY <1>1, <1>3, <2>1, <2>2, NoTail
<1>8. R = C \ {a}
  <2>1. CallsIn([stack EXCEPT ![Main] = Tail(stack[Main])]) = C \ {a}
    BY <1>1, <1>2, Popped
  <2> QED
    BY <1>1, <1>7, <2>1
<1>9. MainInv(stack', nx) /\ ClientInv(nx, AllEvents, Current)
  BY <1>1, <1>2, <1>4 DEF MainInv, ClientInv, Stacks
<1>10. Kept(executor, e) = 0 /\ Kept(nx, e) = 1 /\ \A x \in AllEvents : x # e => Kept(nx, x) = Kept(executor, x)
  BY <1>2, <1>3, <1>4, <1>5 DEF Kept
<1> HIDE DEF C, R, a, nx, e
<1>11. Stock(R, AllEvents) /\ Elsewhere(R, C, e, AllEvents) /\ Gains(R, C, f, e)
  <2>1. a[3].event = e
    BY <1>3 DEF e
  <2>2. Stock(C \ {a}, AllEvents) /\ Elsewhere(C \ {a}, C, e, AllEvents) /\ Gains(C \ {a}, C, a[3], e)
    BY <1>2, <1>3, <2>1, Gone
  <2> QED
    BY <1>3, <1>8, <2>2
<1>12. Hands(C, e) = Hands(R, e) + 1 /\ Blocked(R, e) = Blocked(C, e) /\ Hands(R, e) \in Nat
  <2>1. Holds(f, e) = 1 /\ Descheduling(f, e) = 0
    BY <1>1, HoldsOf DEF Descheduling, e
  <2> QED
    BY <1>11, <2>1 DEF Gains
<1>13. /\ tasks[e] \in [queued : Nat, descheduled : Nat, callbacks : Nat]
       /\ tasks[e].queued \in Nat /\ tasks[e].descheduled \in Nat /\ tasks[e].callbacks \in Nat
       /\ TaskCount(C, event, tasks, executor, e) /\ CallbackCount(C, tasks, executor, e)
  BY <1>2, <1>3, TasksOf DEF TasksNow
<1>14. Follows(executor, nx)
  BY <1>2, <1>6, ContinuesOn
<1>15. TaskCount(R, event, tasks, nx, e)
  <2>1. event[e].finished_tasks \in Nat
    BY <1>2, <1>3, EventCounts
  <2>2. Counted(R, event, tasks, nx, e) = Counted(C, event, tasks, executor, e)
    <3> DEFINE i == event[e].finished_tasks
               q == tasks[e].queued
               u == tasks[e].descheduled
               n == Hands(R, e)
    <3>1. /\ Counted(C, event, tasks, executor, e) = i + q + u + 0 + (n + 1)
          /\ Counted(R, event, tasks, nx, e) = i + q + u + 1 + n
      BY <1>10, <1>12 DEF Counted
    <3>2. i \in Nat /\ q \in Nat /\ u \in Nat /\ n \in Nat
      BY <1>12, <1>13, <2>1
    <3> HIDE DEF i, q, u, n
    <3> QED
      BY <3>1, <3>2
  <2> QED
    BY <1>13, <1>14, <2>2 DEF TaskCount, Follows
<1>16. CallbackCount(R, tasks, nx, e)
  BY <1>4, <1>12, <1>13, <1>14 DEF CallbackCount, Follows
<1>17. TasksNow(R, event, tasks, nx)
  <2>1. TasksInv(C, event, tasks, executor, AllEvents)
    BY <1>2 DEF TasksNow
  <2>2. TasksInv(R, event, tasks, nx, AllEvents)
    BY <1>3, <1>10, <1>11, <1>13, <1>14, <1>15, <1>16, <2>1, MoveTasks
  <2> QED
    BY <2>2 DEF TasksNow
<1>18. FinishCalls(R) = FinishCalls(C) /\ Ending(R) = Ending(C)
  BY <1>1, <1>3, <1>8 DEF FinishCalls, Ending
<1>19. LinksNow(R, event) /\ ProgressNow(R, event, nx)
  BY <1>2, <1>6, <1>18, EventsStay
<1> QED
  BY <1>1, <1>4, <1>9, <1>17, <1>19, NowCounts DEF R, nx

\* ScheduleInitial keeps the counts.
LEMMA ScheduleInitialCounts ==
  ASSUME IInv, CInv, UNCHANGED buildVars, ScheduleInitial
  PROVE  CInv'
<1>1. PICK m \in executor.to_schedule :
        LET s == ScheduleWith(event, InitializeEvent(m), 1, <<>>)
        IN  /\ event' = s.event
            /\ stack' = [stack EXCEPT ![Main] = s.calls]
            /\ executor' = [executor EXCEPT !.to_schedule = @ \ {m}]
  BY DEF ScheduleInitial
<1> DEFINE e == InitializeEvent(m)
           g == Frame("SetTasks", e, {}, 1)
           C == CallsIn(stack)
           R == CallsIn(stack')
           b == <<Main, 0, g>>
           nx == executor'
           nv == event'
<1>2. /\ event' = [event EXCEPT ![e].total_tasks = 1]
      /\ stack' = [stack EXCEPT ![Main] = <<g>> \o <<>>]
      /\ executor' = [executor EXCEPT !.to_schedule = @ \ {m}]
  BY <1>1 DEF ScheduleWith
<1>3. executor.pc = "scheduling" /\ tasks' = tasks /\ stack[Main] = <<>> /\ Main \in Thread
  BY DEF ScheduleInitial, Thread
<1>4. /\ LinksNow(C, event) /\ ProgressNow(C, event, executor) /\ TasksNow(C, event, tasks, executor)
      /\ ClientInv(executor, AllEvents, Current) /\ Stacks(stack) /\ GraphOK(AllEvents, Inserting)
      /\ Stock(C, AllEvents) /\ DOMAIN executor = ExecutorFields
  BY <1>3, Counting
<1>5. /\ executor.to_schedule \subseteq Scheduled /\ EventsOK(event, AllEvents)
      /\ \A k \in Scheduled : InitializeEvent(k) \in AllEvents /\ CompleteEvent(k) \in AllEvents
  BY <1>3, Executing, PlanGraph DEF IInv
<1>6. e \in AllEvents /\ e[1] = "initialize" /\ \A k : k # m => InitializeEvent(k) # e
  BY <1>5 DEF InitializeEvent
<1>7. /\ nx.completed_pipelines = executor.completed_pipelines
      /\ nx.pc = executor.pc /\ nx.task = executor.task /\ nx.pipelines = executor.pipelines
      /\ nx.cancelled = executor.cancelled /\ nx.error = executor.error /\ nx.blocks = executor.blocks
      /\ nx.events = executor.events /\ nx.to_schedule = executor.to_schedule \ {m}
  BY <1>2, <1>4 DEF ExecutorFields
<1>8. event[e].total_tasks = 0 /\ ~event[e].finished
  BY <1>4 DEF ProgressNow, ProgressInv
<1> HIDE DEF e
<1>9. g.event = e /\ g.fn = "SetTasks" /\ g.n = 1
  BY DEF Frame
<1> HIDE DEF g
<1>10. R = C \cup {b} /\ Fresh(C, b)
  <2>1. <<g>> \o <<>> = <<g>>
    BY EmptyConcat DEF IsSeq
  <2>2. stack' = [stack EXCEPT ![Main] = <<g>>]
    BY <1>2, <2>1
  <2>3. /\ CallsIn([stack EXCEPT ![Main] = <<g>>]) = CallsIn(stack) \cup {<<Main, 0, g>>}
        /\ Fresh(CallsIn(stack), <<Main, 0, g>>)
    BY <1>3, <1>4, FirstCall
  <2> QED
    BY <2>2, <2>3
<1>11. b[3] = g /\ CallShape(b)
  BY <1>9 DEF CallShape
<1>12. /\ \A x \in AllEvents : x # e => nv[x] = event[x]
       /\ nv[e].finished = event[e].finished /\ nv[e].finished_tasks = event[e].finished_tasks
       /\ nv[e].total_tasks = 1 /\ nv[e].parents = event[e].parents
       /\ nv[e].total_dependencies = event[e].total_dependencies
       /\ nv[e].finished_dependencies = event[e].finished_dependencies
  BY <1>2, <1>5, <1>6 DEF EventsOK, EventFields
<1>13. MainInv(stack', nx) /\ ClientInv(nx, AllEvents, Current)
  BY <1>3, <1>4, <1>7 DEF MainInv, ClientInv
<1> HIDE DEF C, R, b, nx, nv
<1>14. Stock(R, AllEvents) /\ Elsewhere(R, C, e, AllEvents) /\ Gains(C, R, g, e)
  <2>1. b[3].event = e
    BY <1>9, <1>11
  <2> QED
    BY <1>4, <1>6, <1>10, <1>11, <2>1, Come
<1>15. Holds(g, e) = 1 /\ Descheduling(g, e) = 0
  BY <1>9, HoldsOf DEF Descheduling
<1>16. FinishCalls(R) = FinishCalls(C) /\ Ending(R) = Ending(C)
  BY <1>9, <1>10, <1>11 DEF FinishCalls, Ending
<1>17. SameEdges(event, nv, AllEvents)
  BY <1>12 DEF SameEdges
<1>18. event[e].finished_tasks = 0 /\ event[e].finished_dependencies >= event[e].total_dependencies
  <2>1. EventInv(event, e)
    BY <1>4, <1>6 DEF LinksNow, Links
  <2> QED
    BY <1>6, <1>8, <2>1 DEF EventInv
<1>19. LinksNow(R, nv)
  <2> DEFINE n == 1
             F == FinishCalls(C)
             X == Ending(C)
  <2>1. /\ n \in 1..MaxTasks /\ (e[1] = "finish" => n = 1) /\ nv[e].total_tasks = n
        /\ ~(e[1] = "finalize" /\ event[e].total_dependencies = 0)
    BY <1>6, <1>12, ExecutorAssumption
  <2>2. Links(F, X, event, AllEvents, Inserting, Dependencies)
    BY <1>4 DEF LinksNow
  <2> HIDE DEF n, F, X
  <2>3. Links(F, X, nv, AllEvents, Inserting, Dependencies)
    BY <1>4, <1>6, <1>8, <1>12, <1>17, <1>18, <2>1, <2>2, StartLinks
  <2> QED
    BY <1>16, <2>3 DEF LinksNow, F, X
<1>20. ProgressNow(R, nv, nx)
  <2> DEFINE F == FinishCalls(C)
  <2>1. /\ ProgressInv(F, event, executor, Scheduled)
        /\ Onward(executor, nx, event, nv, e, AllEvents, Scheduled)
    BY <1>4, <1>5, <1>6, <1>7, <1>12 DEF Onward, ProgressNow
  <2> HIDE DEF F
  <2>2. ProgressInv(F, nv, nx, Scheduled)
    BY <1>12, <2>1, StartProgress
  <2> QED
    BY <1>16, <2>2 DEF ProgressNow, F
<1>21. TasksNow(R, nv, tasks, nx)
  <2>1. Follows(executor, nx) /\ nx.task = executor.task
    BY <1>4, <1>7, ExecutorAssumption DEF Follows, ClientInv
  <2>2. nv[e].finished_tasks = 0 /\ nv[e].total_tasks = Holds(g, e)
    BY <1>12, <1>15, <1>18
  <2>3. TasksInv(C, event, tasks, executor, AllEvents)
    BY <1>4 DEF TasksNow
  <2>4. TasksInv(R, nv, tasks, nx, AllEvents)
    BY <1>6, <1>8, <1>12, <1>14, <1>15, <1>18, <2>1, <2>2, <2>3, StartTasks
  <2> QED
    BY <2>4 DEF TasksNow
<1> QED
  BY <1>3, <1>7, <1>13, <1>19, <1>20, <1>21, NowCounts DEF R, nx, nv

-----------------------------------------------------------------------------
(* The events are made *)

\* Events that nobody has told or finished.
NewEvents(ev, E, D) ==
  \A e \in E : /\ ev[e].total_dependencies = Cardinality({d \in D : d.event = e})
               /\ ev[e].finished_dependencies = 0 /\ ev[e].total_tasks = 0 /\ ev[e].finished_tasks = 0
               /\ ev[e].finished = FALSE /\ ev[e].parents = {d \in D : d.on = e}

\* At first an event waits for all of its dependencies.
LEMMA NewLinks ==
  ASSUME NEW ev, NEW E, NEW I, NEW D, GraphOK(E, I), NewEvents(ev, E, D), IsFiniteSet(D),
         \A d \in D : d.event[1] \notin {"initialize", "finalize"} /\ d.on[1] # "finalize"
  PROVE  Links({}, {}, ev, E, I, D)
<1>1. MaxTasks \in Nat
  BY ExecutorAssumption
<1>2. ASSUME NEW e \in E
      PROVE  LET T == {d \in D : d.event = e}
             IN  /\ IsFiniteSet(T) /\ Cardinality(T) \in Nat
                 /\ e[1] \in {"initialize", "finalize"} => Cardinality(T) = 0
  <2> DEFINE T == {d \in D : d.event = e}
  <2>1. T \subseteq D /\ (e[1] \in {"initialize", "finalize"} => T = {})
    OBVIOUS
  <2> HIDE DEF T
  <2>2. IsFiniteSet(T) /\ Cardinality(T) \in Nat
    BY <2>1, FS_Subset, FS_CardinalityType
  <2>3. IsFiniteSet(T) /\ Cardinality(T) \in Nat /\ (e[1] \in {"initialize", "finalize"} => Cardinality(T) = 0)
    BY <2>1, <2>2, FS_EmptySet
  <2> QED
    BY <2>3 DEF T
<1>3. FinishInv({}, ev, E)
  BY DEF FinishInv
<1>4. ParentsInv(ev, E, I)
  <2>1. ASSUME NEW x \in E, NEW d \in ev[x].parents
        PROVE  d \in D /\ d.on = x
    BY <2>1 DEF NewEvents
  <2>2. ASSUME NEW x \in E, NEW d \in ev[x].parents
        PROVE  /\ \A y \in E : d \in ev[y].parents => x = y
               /\ d.event[1] # "finalize"
    BY <2>1, <2>2
  <2> QED
    BY <2>2 DEF ParentsInv
<1>5. ASSUME NEW e \in E
      PROVE  EventInv(ev, e)
  <2> DEFINE c == Cardinality({d \in D : d.event = e})
  <2>1. c \in Nat /\ (e[1] = "initialize" => c = 0)
    BY <1>2
  <2>2. /\ ev[e].total_dependencies = c /\ ev[e].finished_dependencies = 0
        /\ ev[e].total_tasks = 0 /\ ev[e].finished_tasks = 0 /\ ev[e].finished = FALSE
    BY DEF NewEvents
  <2> HIDE DEF c
  <2>3. ev[e].finished \in BOOLEAN /\ ~ev[e].finished
    BY <2>2
  <2>4. 0 \in 0..0 /\ 0 \in 0..MaxTasks
    BY <1>1
  <2> QED
    BY <2>1, <2>2, <2>3, <2>4 DEF EventInv
<1>6. ASSUME NEW e \in E
      PROVE  DependencyCount({}, ev, E, e)
  <2> DEFINE T == {d \in D : d.event = e}
             P == Pending({}, ev, E, e)
  <2>1. ASSUME NEW d \in P PROVE d \in T
    <3>1. d \in Waiting({}, ev, E) /\ d.event = e
      BY <2>1 DEF Pending
    <3>2. PICK x \in E : d \in ev[x].parents
      BY <3>1, WaitsWhere
    <3> QED
      BY <3>1, <3>2 DEF NewEvents
  <2>2. IsFiniteSet(T) /\ Cardinality(T) \in Nat /\ ev[e].total_dependencies = Cardinality(T)
        /\ ev[e].finished_dependencies = 0
    BY <1>2 DEF NewEvents
  <2>3. P \in SUBSET T
    BY <2>1
  <2> HIDE DEF T, P
  <2>4. IsFiniteSet(P) /\ Cardinality(P) <= Cardinality(T)
    BY <2>2, <2>3, FS_Subset
  <2>5. Cardinality(P) \in Nat
    BY <2>4, FS_CardinalityType
  <2>6. ev[e].finished_dependencies + Cardinality(P) <= ev[e].total_dependencies
    BY <2>2, <2>4, <2>5
  <2> QED
    BY <2>4, <2>6 DEF P, DependencyCount
<1>7. ASSUME NEW x \in I
      PROVE  InsertedInv({}, ev, x)
  <2> DEFINE new == FinalizeEvent(x[2])
  <2>1. x \in E /\ new \in E
    BY DEF GraphOK
  <2>2. new[1] = "finalize"
    BY DEF FinalizeEvent
  <2> HIDE DEF new
  <2>3. ev[new].total_dependencies = 0 /\ ev[new].parents = {} /\ ev[x].finished = FALSE
    BY <1>2, <2>1, <2>2 DEF NewEvents
  <2> QED
    BY <2>3 DEF new, InsertedInv
<1>8. \A d \in D : HomeInv(ev, E, I, d)
  BY DEF NewEvents, HomeInv
<1> QED
  BY <1>3, <1>4, <1>5, <1>6, <1>7, <1>8 DEF Links

\* Without calls nothing is in hand.
LEMMA NobodyCalls ==
  ASSUME NEW C, C = {}, NEW E
  PROVE  /\ FinishCalls(C) = {} /\ Ending(C) = {} /\ Stock(C, E)
         /\ \A e \in E : Hands(C, e) = 0 /\ Blocked(C, e) = 0
<1>1. FinishCalls(C) = {} /\ Ending(C) = {}
  BY DEF FinishCalls, Ending
<1>2. \A e \in E : HandsIn(C, e) = {} /\ BlockedIn(C, e) = {}
  BY DEF HandsIn, BlockedIn
<1>3. Distinct(C) /\ \A c \in C : CallShape(c)
  BY DEF Distinct
<1> QED
  BY <1>1, <1>2, <1>3, FS_EmptySet DEF Stock, Hands, Blocked

\* ScheduleEvents makes the events, and nothing is counted yet.
LEMMA ScheduleEventsCounts ==
  ASSUME IInv, CInv, UNCHANGED buildVars, ScheduleEvents
  PROVE  CInv'
<1> DEFINE nv == event'
           ns == tasks'
           nx == executor'
           C  == CallsIn(stack')
<1>1. /\ executor.pc = "building" /\ stack' = stack
      /\ executor' = [executor EXCEPT !.pc = "scheduling", !.events = Events,
                                      !.pipelines = Current, !.to_schedule = Scheduled]
      /\ tasks' = [e \in AllEvents |-> NoTasks]
      /\ event' = [e \in AllEvents |->
              [total_dependencies |-> Cardinality({d \in Dependencies : d.event = e}),
               finished_dependencies |-> 0, total_tasks |-> 0, finished_tasks |-> 0,
               finished |-> FALSE, parents |-> {d \in Dependencies : d.on = e}]]
  BY DEF ScheduleEvents
<1>2. /\ stack = [t \in Thread |-> <<>>] /\ executor.task = NoEvent
      /\ DOMAIN executor = ExecutorFields /\ Shape(build)
  BY <1>1 DEF IInv, ExecInv, ObjectsInv, PipelinesInv
<1>3. /\ executor.completed_pipelines = 0 /\ executor.blocks = 0 /\ ~executor.error
      /\ executor.error \in BOOLEAN /\ executor.cancelled \in BOOLEAN /\ ~executor.cancelled
  BY <1>1 DEF CInv, ClientInv
<1>4. /\ nx.pc = "scheduling" /\ nx.events = Events /\ nx.pipelines = Current /\ nx.to_schedule = Scheduled
      /\ nx.completed_pipelines = 0 /\ nx.blocks = 0 /\ nx.error = executor.error
      /\ nx.cancelled = executor.cancelled /\ nx.task = NoEvent
  BY <1>1, <1>2, <1>3 DEF ExecutorFields
<1>5. NewEvents(nv, AllEvents, Dependencies)
  BY <1>1 DEF NewEvents
<1>6. \A e \in AllEvents : ns[e] = NoTasks
  BY <1>1
<1>7. C = {}
  <2>1. \A t \in Thread : CallsOf(t, stack[t]) = {}
    BY <1>2, FewCalls
  <2> QED
    BY <1>1, <2>1 DEF CallsIn
<1>8. /\ GraphOK(AllEvents, Inserting) /\ IsFiniteSet(Scheduled)
      /\ \A m \in Scheduled : InitializeEvent(m) \in AllEvents /\ CompleteEvent(m) \in AllEvents
  BY <1>2, PlanGraph
<1>9. NoEvent \notin AllEvents
  <2>1. NoEvent[1] \notin EventKinds
    BY DEF NoEvent, EventKinds
  <2> QED
    BY <1>2, <2>1, EventsKeepPipelines
<1>10. nx.pc # "building" /\ MaxBlocks \in Nat
  BY <1>4, ExecutorAssumption
<1>11. ClientInv(nx, AllEvents, Current)
  <2> HIDE DEF nx
  <2> QED
    BY <1>3, <1>4, <1>10 DEF ClientInv, AllEvents
<1>12. MainInv(stack', nx)
  <2> HIDE DEF nx
  <2> QED
    BY <1>4 DEF MainInv
<1> HIDE DEF nv, ns, nx, C
<1>13. /\ FinishCalls(C) = {} /\ Ending(C) = {} /\ Stock(C, AllEvents)
       /\ \A e \in AllEvents : Hands(C, e) = 0 /\ Blocked(C, e) = 0
  BY <1>7, NobodyCalls
<1>14. LinksNow(C, nv)
  <2>1. Links({}, {}, nv, AllEvents, Inserting, Dependencies)
    BY <1>2, <1>5, <1>8, PlanDependencies, NewLinks
  <2> QED
    BY <1>13, <2>1 DEF LinksNow
<1>15. ProgressNow(C, nv, nx)
  <2>1. \A m \in Scheduled : /\ nv[InitializeEvent(m)].total_tasks = 0 /\ ~nv[InitializeEvent(m)].finished
                             /\ ~nv[CompleteEvent(m)].finished
    BY <1>5, <1>8 DEF NewEvents
  <2>2. Completed(FinishCalls(C), nv, Scheduled) = {}
    BY <2>1 DEF Completed
  <2> QED
    BY <1>4, <2>1, <2>2, FS_EmptySet DEF ProgressNow, ProgressInv
<1>16. TasksNow(C, nv, ns, nx)
  <2> SUFFICES ASSUME NEW e \in AllEvents
               PROVE  /\ ns[e] \in [queued : Nat, descheduled : Nat, callbacks : Nat]
                      /\ TaskCount(C, nv, ns, nx, e) /\ CallbackCount(C, ns, nx, e)
    BY <1>13 DEF TasksNow, TasksInv
  <2>1. /\ ns[e].queued = 0 /\ ns[e].descheduled = 0 /\ ns[e].callbacks = 0
        /\ ns[e] \in [queued : Nat, descheduled : Nat, callbacks : Nat]
    BY <1>6 DEF NoTasks
  <2>2. Kept(nx, e) = 0
    BY <1>4, <1>9 DEF Kept
  <2>3. nv[e].finished_tasks = 0 /\ nv[e].total_tasks = 0
    BY <1>5 DEF NewEvents
  <2>4. Counted(C, nv, ns, nx, e) = 0
    BY <1>13, <2>1, <2>2, <2>3 DEF Counted
  <2>5. TaskCount(C, nv, ns, nx, e)
    BY <2>3, <2>4 DEF TaskCount
  <2>6. CallbackCount(C, ns, nx, e)
    BY <1>4, <1>13, <2>1 DEF CallbackCount
  <2> QED
    BY <2>1, <2>5, <2>6
<1> QED
  BY <1>10, <1>11, <1>12, <1>14, <1>15, <1>16, NowCounts DEF nv, ns, nx, C

-----------------------------------------------------------------------------
(* All steps *)

\* Nothing is counted before there are events.
LEMMA InitCounts == Init => CInv
<1> SUFFICES ASSUME Init PROVE CInv
  OBVIOUS
<1>1. /\ executor.pc = "building" /\ executor.completed_pipelines = 0 /\ executor.error = FALSE
      /\ executor.cancelled = FALSE /\ executor.events = {} /\ executor.pipelines = {}
      /\ executor.blocks = 0
  BY DEF Init
<1>2. 0 \in 0..MaxBlocks
  BY ExecutorAssumption
<1>3. ClientInv(executor, AllEvents, Current)
  <2>1. executor.error \in BOOLEAN /\ executor.cancelled \in BOOLEAN /\ ~executor.error /\ ~executor.cancelled
    BY <1>1
  <2> QED
    BY <1>1, <1>2, <2>1 DEF ClientInv
<1>4. MainInv(stack, executor)
  BY <1>1 DEF MainInv
<1> QED
  BY <1>1, <1>3, <1>4 DEF CInv

\* Nor while the pipelines are built.
LEMMA BuildingCounts ==
  ASSUME IInv, CInv, BuildStep, UNCHANGED execVars
  PROVE  CInv'
<1>1. executor' = executor /\ stack' = stack
  BY DEF execVars
<1>2. phase # "scheduled"
  BY Zenon DEF BuildStep, InitializeInternal, BuildSource, BuildStreaming, BuildSink, BuildCreateBF,
         BuildPipelinesFromRelated, BuildUseBF, BuildJoin, BuildJoinSource, BuildUnion,
         BuildUnionOrder, BuildIEJoin, BuildIEJoinRight, BuildIEJoinFinish, Ready, Calling
<1>3. executor.pc = "building"
  BY <1>2 DEF IInv, ExecInv, ObjectsInv
<1>4. ClientInv(executor, AllEvents, Current) /\ MainInv(stack, executor)
  BY DEF CInv
<1>5. ClientInv(executor, AllEvents, Current)'
  BY <1>1, <1>3, <1>4 DEF ClientInv
<1>6. MainInv(stack, executor)'
  BY <1>1, <1>4 DEF MainInv
<1> QED
  BY <1>1, <1>3, <1>5, <1>6 DEF CInv

\* The steps of the client.
LEMMA ClientCounts ==
  ASSUME IInv, CInv, UNCHANGED buildVars, Client
  PROVE  CInv'
<1>1. ASSUME EndInitialize PROVE CInv'
  BY <1>1, PlaceCounts DEF EndInitialize
<1>2. ASSUME EndWorkOnTasks PROVE CInv'
  BY <1>2, PlaceCounts DEF EndWorkOnTasks
<1>3. ASSUME ExecuteAfterError PROVE CInv'
  BY <1>3, ThrowCounts DEF ExecuteAfterError
<1>4. ASSUME Cleanup PROVE CInv'
  BY <1>4, CancelTasksCounts DEF Cleanup
<1> QED
  BY <1>1, <1>2, <1>3, <1>4, ScheduleEventsCounts, ScheduleInitialCounts, ExecuteKeptTaskCounts,
     ExecuteNewTaskCounts, EndExecuteTaskCounts, ResultReadyCounts, WorkOnTasksCounts,
     EndCancelTasksCounts DEF Client

\* Every step keeps the counts.
LEMMA NextCounts == IInv /\ CInv /\ [Next]_vars => CInv'
<1> SUFFICES ASSUME IInv, CInv, [Next]_vars PROVE CInv'
  OBVIOUS
<1>1. CASE BuildStep /\ UNCHANGED execVars
  BY <1>1, BuildingCounts
<1>2. CASE ClientStep
  BY <1>2, ClientCounts, WorkStepCounts, PartialTaskCounts DEF ClientStep, Thread
<1>3. CASE CloseQuery /\ UNCHANGED buildVars
  BY <1>3, CancelTasksCounts DEF CloseQuery
<1>4. ASSUME NEW w \in Workers, WorkerStep(w)
      PROVE  CInv'
  <2>1. w \in Thread /\ UNCHANGED buildVars
    BY <1>4 DEF WorkerStep, Thread
  <2>2. CASE Work(w)
    BY <2>1, <2>2, WorkStepCounts
  <2>3. CASE TakeTask(w) /\ executor.pc # "building"
    BY <2>1, <2>3, TakeTaskCounts
  <2>4. CASE TakeTask(w) /\ executor.pc = "building"
    <3>1. event = <<>>
      BY <2>4 DEF IInv, ExecInv, ObjectsInv
    <3>2. DOMAIN event = {}
      BY <3>1, NoCalls
    <3> QED
      BY <2>4, <3>2 DEF TakeTask, Queued
  <2> QED
    BY <1>4, <2>2, <2>3, <2>4 DEF WorkerStep
<1>5. CASE Callback
  <2>1. PICK e \in DOMAIN event : RescheduleTask(e)
    BY <1>5 DEF Callback
  <2>2. UNCHANGED buildVars
    BY <1>5 DEF Callback
  <2>3. executor.pc # "building"
    BY <2>1 DEF RescheduleTask, LockFree
  <2>4. e \in AllEvents
    BY <2>1, <2>3, Executing DEF EventsOK
  <2> QED
    BY <2>1, <2>2, <2>3, <2>4, RescheduleTaskCounts
<1>6. CASE UNCHANGED vars
  <2>1. UNCHANGED buildVars /\ UNCHANGED execVars
    BY <1>6 DEF vars
  <2>2. event' = event /\ tasks' = tasks /\ stack' = stack /\ executor' = executor
    BY <2>1 DEF execVars
  <2>3. CASE executor.pc # "building"
    <3>1. /\ ClientInv(executor', AllEvents, Current) /\ MainInv(stack', executor')
          /\ CountInv(CallsIn(stack'), event', tasks', executor', AllEvents, Inserting, Dependencies, Scheduled)
      BY <2>2, <2>3 DEF CInv
    <3> QED
      BY <2>1, <2>2, <2>3, <3>1, CountKeeps
  <2>4. CASE executor.pc = "building"
    <3>1. AllEvents' = AllEvents /\ Current' = Current
      BY <2>1, SameBuild DEF IInv
    <3>2. ClientInv(executor, AllEvents, Current)'
      BY <2>2, <3>1 DEF CInv, ClientInv
    <3>3. MainInv(stack, executor)'
      BY <2>2 DEF CInv, MainInv
    <3> QED
      BY <2>2, <2>4, <3>2, <3>3 DEF CInv
  <2> QED
    BY <2>3, <2>4
<1> QED
  BY <1>1, <1>2, <1>3, <1>4, <1>5, <1>6 DEF Next

-----------------------------------------------------------------------------
(* What the counts say *)

\* Both invariants hold throughout.
THEOREM CountsHold == Spec => [](IInv /\ CInv)
<1> QED
  BY InitInv, NextInv, InitCounts, NextCounts, PTL DEF Spec

\* The assertions of CompleteDependency, Finish and FinishTask: neither counter
\* of an event passes its total, no event has tasks before its last dependency,
\* and one that has finished has counted all of its tasks and dependencies.
THEOREM CountersNeverPassTotals == Spec => []CountersAgree
<1>1. IInv /\ CInv => CountersAgree
  <2> SUFFICES ASSUME IInv, CInv, NEW e \in DOMAIN event
               PROVE  /\ event[e].finished_dependencies <= event[e].total_dependencies
                      /\ event[e].finished_tasks <= event[e].total_tasks
                      /\ event[e].total_tasks > 0 =>
                           event[e].finished_dependencies = event[e].total_dependencies
                      /\ event[e].finished =>
                           /\ event[e].finished_dependencies = event[e].total_dependencies
                           /\ event[e].finished_tasks = event[e].total_tasks
    BY DEF CountersAgree
  <2> DEFINE F == FinishCalls(CallsIn(stack))
             X == Ending(CallsIn(stack))
             P == Pending(F, event, AllEvents, e)
  <2>1. executor.pc # "building"
    BY NoCalls DEF IInv, ExecInv, ObjectsInv
  <2>2. DOMAIN event = AllEvents /\ LinksNow(CallsIn(stack), event)
    BY <2>1, Counting
  <2>3. Links(F, X, event, AllEvents, Inserting, Dependencies)
    BY <2>2 DEF LinksNow
  <2> HIDE DEF F, X
  <2>4. /\ IsFiniteSet(P) /\ event[e].finished_dependencies + Cardinality(P) <= event[e].total_dependencies
        /\ EventInv(event, e)
    BY <2>2, <2>3 DEF Links, DependencyCount
  <2>5. event[e].total_tasks # 0 \/ event[e].finished =>
          event[e].finished_dependencies = event[e].total_dependencies
    BY <2>2, <2>3, AllCounted
  <2> HIDE DEF P
  <2>6. Cardinality(P) \in Nat
    BY <2>4, FS_CardinalityType
  <2> QED
    BY <2>4, <2>5, <2>6 DEF EventInv
<1> QED
  BY <1>1, CountsHold, PTL

\* No task is lost or done twice: as long as nothing fails and nobody cancels the
\* query, a task that was scheduled and has not been counted is in exactly one
\* place, and a descheduled one has a callback to come.
THEOREM TasksAreConserved == Spec => []NoTaskLost
<1>1. IInv /\ CInv => NoTaskLost
  <2> SUFFICES ASSUME IInv, CInv, executor.pc # "building", executor.pc # "ended",
                      ~executor.error, ~executor.cancelled, NEW e \in DOMAIN event
               PROVE  /\ event[e].total_tasks =
                           event[e].finished_tasks + tasks[e].queued + tasks[e].descheduled
                             + (IF executor.task = e THEN 1 ELSE 0) + Cardinality(InHand(e))
                      /\ tasks[e].descheduled <= tasks[e].callbacks
    BY DEF NoTaskLost
  <2> DEFINE C == CallsIn(stack)
  <2>1. DOMAIN event = AllEvents /\ TasksNow(C, event, tasks, executor)
    BY Counting
  <2>2. InHand(e) = HandsIn(C, e)
    BY DEF InHand, Calls, HandsIn, CallsIn, CallsOf
  <2> HIDE DEF C
  <2>3. /\ tasks[e].descheduled \in Nat /\ TaskCount(C, event, tasks, executor, e)
        /\ CallbackCount(C, tasks, executor, e) /\ IsFiniteSet(BlockedIn(C, e))
    BY <2>1 DEF TasksNow, TasksInv, Stock
  <2>4. Counted(C, event, tasks, executor, e) = event[e].total_tasks
    BY <2>3 DEF TaskCount
  <2>5. tasks[e].callbacks = tasks[e].descheduled + Blocked(C, e) /\ Blocked(C, e) \in Nat
    BY <2>3, FS_CardinalityType DEF CallbackCount, Blocked
  <2>6. tasks[e].descheduled <= tasks[e].callbacks
    BY <2>3, <2>5
  <2> QED
    BY <2>2, <2>4, <2>6 DEF Counted, Kept, Hands
<1> QED
  BY <1>1, CountsHold, PTL

\* The counters and sets of an execution stay in their bounds.
THEOREM ExecutorTypes == Spec => []TypeOK
<1>1. IInv /\ CInv => TypeOK
  <2> SUFFICES ASSUME IInv, CInv PROVE TypeOK
    OBVIOUS
  <2> DEFINE C == CallsIn(stack)
  <2>1. ClientInv(executor, AllEvents, Current) /\ IsFiniteSet(Scheduled) /\ Total \in Nat
    BY PlanGraph DEF CInv, IInv, Total
  <2>2. /\ executor.pc \in {"building", "scheduling", "client", "executing", "ready",
                            "cancelling", "waiting", "ended"}
        /\ executor.blocks \in 0..MaxBlocks
    BY <2>1 DEF ClientInv
  <2>3. executor.pipelines \cup executor.weak_references \subseteq Pipeline
    <3>1. Current \subseteq Pipeline /\ executor.pipelines \subseteq Current
      BY <2>1 DEF ClientInv, Current
    <3>2. executor.weak_references \subseteq Current
      BY DEF IInv, ExecInv, PipelinesInv
    <3> QED
      BY <3>1, <3>2
  <2>4. CASE executor.pc = "building"
    <3>1. event = <<>> /\ stack = [t \in Thread |-> <<>>] /\ executor.task = NoEvent
      BY <2>4 DEF IInv, ExecInv, ObjectsInv
    <3>2. DOMAIN event = {} /\ \A t \in Thread : DOMAIN stack[t] = {}
      BY <3>1, NoCalls
    <3>3. executor.completed_pipelines = 0 /\ executor.events = {}
      BY <2>1, <2>4 DEF ClientInv
    <3> QED
      BY <2>1, <2>2, <2>3, <3>1, <3>2, <3>3 DEF TypeOK
  <2>5. CASE executor.pc # "building"
    <3>1. /\ DOMAIN event = AllEvents /\ TasksNow(C, event, tasks, executor)
          /\ LinksNow(C, event) /\ ProgressNow(C, event, executor)
      BY <2>5, Counting
    <3>2. /\ EventsOK(event, AllEvents) /\ StacksOK(stack, AllEvents)
          /\ executor.task # NoEvent => executor.task \in TaskEvents
      BY <2>5, Executing
    <3> HIDE DEF C
    <3>3. executor.completed_pipelines \in 0..Total
      <4> DEFINE T == Completed(FinishCalls(C), event, Scheduled)
      <4>1. T \in SUBSET Scheduled /\ executor.completed_pipelines = Cardinality(T)
        BY <3>1 DEF ProgressNow, ProgressInv, Completed
      <4> HIDE DEF T
      <4>2. Cardinality(T) \in Nat /\ Cardinality(T) <= Total
        BY <2>1, <4>1, FS_Subset, FS_CardinalityType DEF Total
      <4> QED
        BY <2>1, <4>1, <4>2
    <3>4. executor.task \in {NoEvent} \cup DOMAIN event /\ executor.events \subseteq DOMAIN event
      BY <2>1, <3>1, <3>2 DEF ClientInv, TaskEvents
    <3>5. \A t \in Thread : \A i \in DOMAIN stack[t] : stack[t][i].event \in DOMAIN event
      BY <3>1, <3>2 DEF StacksOK, StackOK, FrameOK
    <3>6. ASSUME NEW e \in DOMAIN event
          PROVE  /\ event[e].total_tasks \in 0..MaxTasks
                 /\ \A d \in event[e].parents : d.event \in DOMAIN event
                 /\ tasks[e] \in [queued : 0..MaxTasks, descheduled : 0..MaxTasks, callbacks : 0..MaxBlocks]
      <4> DEFINE q == tasks[e].queued
                 s == tasks[e].descheduled
                 k == tasks[e].callbacks
                 i == event[e].finished_tasks
                 n == event[e].total_tasks
                 h == Hands(C, e)
                 a == Kept(executor, e)
      <4>1. EventInv(event, e) /\ \A d \in event[e].parents : d.event \in DOMAIN event
        BY <3>1, <3>2 DEF LinksNow, Links, EventsOK
      <4>2. /\ tasks[e] \in [queued : Nat, descheduled : Nat, callbacks : Nat]
            /\ TaskCount(C, event, tasks, executor, e) /\ CallbackCount(C, tasks, executor, e)
            /\ IsFiniteSet(HandsIn(C, e))
        BY <3>1 DEF TasksNow, TasksInv, Stock
      <4>3. h \in Nat /\ a \in Nat
        BY <4>2, FS_CardinalityType DEF Hands, Kept
      <4>4. q \in Nat /\ s \in Nat /\ k \in Nat
        BY <4>2
      <4>5. i + q + s + a + h <= n
        BY <4>2 DEF TaskCount, Counted
      <4>6. k <= executor.blocks /\ executor.blocks \in 0..MaxBlocks
        BY <2>2, <4>2 DEF CallbackCount
      <4>7. n \in 0..MaxTasks /\ i \in 0..n /\ MaxTasks \in Nat /\ MaxBlocks \in Nat
        BY <4>1, ExecutorAssumption DEF EventInv
      <4>8. q \in 0..MaxTasks /\ s \in 0..MaxTasks /\ k \in 0..MaxBlocks
        <5> HIDE DEF q, s, k, i, n, h, a
        <5> QED
          BY <4>3, <4>4, <4>5, <4>6, <4>7
      <4> QED
        BY <4>1, <4>2, <4>7, <4>8
    <3> QED
      BY <2>2, <2>3, <3>3, <3>4, <3>5, <3>6 DEF TypeOK
  <2> QED
    BY <2>4, <2>5
<1> QED
  BY <1>1, CountsHold, PTL

\* What an event that has started or finished waited for has finished, be it
\* told by the event it waited for or by the one that was inserted after that.
LEMMA DoneBefore ==
  ASSUME NEW F, NEW X, NEW ev, NEW E, NEW I, NEW D, Links(F, X, ev, E, I, D), GraphOK(E, I),
         NEW d \in D, d.event \in E, d.on \in E, ev[d.event].total_tasks # 0 \/ ev[d.event].finished
  PROVE  /\ ev[d.on].finished
         /\ d.event[1] # "finalize" /\ d.on \in I => ev[FinalizeEvent(d.on[2])].finished
<1> DEFINE x   == d.on
           new == FinalizeEvent(x[2])
<1>1. d \notin Waiting(F, ev, E)
  BY AllCounted
<1>2. d \in ev[x].parents \/ (x \in I /\ d \in ev[new].parents)
  BY DEF Links, HomeInv
<1>3. d \in ev[x].parents => ev[x].finished
  BY <1>1, WaitsWhere
<1>4. ASSUME x \in I, d \in ev[new].parents
      PROVE  ev[new].finished
  BY <1>1, <1>4, WaitsWhere DEF GraphOK
<1>5. ASSUME x \in I, ev[new].finished
      PROVE  ev[x].finished
  <2>1. new \in E /\ new[1] = "finalize" /\ new = FinalizeEvent(x[2])
    BY <1>5 DEF GraphOK, FinalizeEvent
  <2>2. /\ \/ ev[new].total_dependencies = 0 /\ ev[new].parents = {}
           \/ ev[new].total_dependencies = 1 /\ ev[x].parents = {Dependency(new, x, 0)}
    BY <1>5 DEF Links, InsertedInv
  <2>3. Dependency(new, x, 0).event = new
    BY DEF Dependency
  <2> HIDE DEF new
  <2>4. ev[new].total_dependencies # 0 /\ \A c \in Waiting(F, ev, E) : c.event # new
    BY <1>5, <2>1, AllCounted
  <2>5. Dependency(new, x, 0) \in ev[x].parents /\ Dependency(new, x, 0) \notin Waiting(F, ev, E)
    BY <2>2, <2>3, <2>4
  <2> QED
    BY <2>5, WaitsWhere
<1>6. ASSUME d.event[1] # "finalize", x \in I, d \in ev[x].parents
      PROVE  ev[new].finished
  <2>1. ev[x].finished
    BY <1>3, <1>6
  <2>2. InsertedInv(X, ev, x)
    BY <1>6 DEF Links
  <2>3. ev[new].total_dependencies = 1 /\ ev[x].parents = {Dependency(new, x, 0)}
    BY <2>1, <2>2 DEF InsertedInv
  <2>4. d.event = new
    BY <1>6, <2>3 DEF Dependency
  <2> QED
    BY <1>6, <2>4 DEF FinalizeEvent
<1> QED
  BY <1>2, <1>3, <1>4, <1>5, <1>6

\* The events of an execution, kind by kind.
LEMMA EventsByKind ==
  ASSUME Shape(build), NEW e \in AllEvents
  PROVE  /\ e[1] = "initialize" => \E m \in Scheduled : e = InitializeEvent(m)
         /\ e[1] = "complete" => \E m \in Scheduled : e = CompleteEvent(m)
         /\ e[1] = "event" => e[2] \in ScheduledPipeline /\ e = PipelineEvent(e[2])
         /\ e[1] = "finish" => \E p \in ScheduledPipeline :
              e = FinishEvent(p) /\ build.pipelines[e[2]].meta = build.pipelines[p].meta
         /\ e[1] = "finalize" => \E x \in Inserting : e = FinalizeEvent(x[2]) /\ e[2] = x[2]
<1>1. ASSUME NEW p \in ScheduledPipeline
      PROVE  /\ FinishEvent(p)[1] = "finish"
             /\ build.pipelines[FinishEvent(p)[2]].meta = build.pipelines[p].meta
  <2>1. p \in DOMAIN build.pipelines
    BY Numbered DEF ScheduledPipeline
  <2>2. PICK q : FinishEvent(p) = <<"finish", q>> /\ Belongs(build, q, build.pipelines[p].meta)
    BY <2>1, FinishBelongs
  <2> QED
    BY <2>2 DEF Belongs
<1>2. CASE \E m \in Scheduled : e = InitializeEvent(m)
  BY <1>2 DEF InitializeEvent
<1>3. CASE \E m \in Scheduled : e = CompleteEvent(m)
  BY <1>3 DEF CompleteEvent
<1>4. CASE \E p \in ScheduledPipeline : e = PipelineEvent(p)
  BY <1>4 DEF PipelineEvent
<1>5. CASE \E p \in ScheduledPipeline : e = FinishEvent(p)
  BY <1>1, <1>5
<1>6. CASE \E x \in Events : InsertsEvent(x) /\ e = FinalizeEvent(x[2])
  <2>1. PICK x \in Events : InsertsEvent(x) /\ e = FinalizeEvent(x[2])
    BY <1>6
  <2>2. x \in Inserting
    BY <2>1 DEF Inserting, AllEvents
  <2> QED
    BY <2>1, <2>2 DEF FinalizeEvent
<1> QED
  BY <1>2, <1>3, <1>4, <1>5, <1>6 DEF AllEvents, Events

\* A complete MetaPipeline has nothing left to do.
LEMMA MetaDone ==
  ASSUME IInv, CInv, executor.pc # "building", NEW m \in Scheduled, event[CompleteEvent(m)].finished
  PROVE  /\ event[InitializeEvent(m)].finished
         /\ \A p \in ScheduledPipeline : build.pipelines[p].meta = m =>
              /\ event[FinishEvent(p)].finished /\ event[PipelineEvent(p)].finished
              /\ FinishEvent(p) \in Inserting => event[FinalizeEvent(FinishEvent(p)[2])].finished
<1> DEFINE F == FinishCalls(CallsIn(stack))
           X == Ending(CallsIn(stack))
<1>1. Links(F, X, event, AllEvents, Inserting, Dependencies) /\ GraphOK(AllEvents, Inserting)
  BY Counting DEF LinksNow
<1> HIDE DEF F, X
<1>2. ASSUME NEW d \in Dependencies, d.on \in AllEvents, event[d.event].finished
      PROVE  /\ event[d.on].finished
             /\ d.event[1] # "finalize" /\ d.on \in Inserting => event[FinalizeEvent(d.on[2])].finished
  <2>1. d.event \in AllEvents
    BY DependenciesOfEvents
  <2> QED
    BY <1>1, <1>2, <2>1, DoneBefore
<1>3. ASSUME NEW p \in ScheduledPipeline, build.pipelines[p].meta = m
      PROVE  /\ event[FinishEvent(p)].finished /\ event[PipelineEvent(p)].finished
             /\ FinishEvent(p) \in Inserting => event[FinalizeEvent(FinishEvent(p)[2])].finished
  <2> DEFINE c == Dependency(CompleteEvent(m), FinishEvent(p), 0)
             d == Dependency(FinishEvent(p), PipelineEvent(p), 0)
  <2>1. c \in Dependencies /\ d \in Dependencies
    BY <1>3 DEF Dependencies, StackDependencies
  <2>2. /\ c.event = CompleteEvent(m) /\ c.on = FinishEvent(p) /\ c.event[1] = "complete"
        /\ d.event = FinishEvent(p) /\ d.on = PipelineEvent(p)
    BY DEF Dependency, CompleteEvent
  <2>3. FinishEvent(p) \in AllEvents /\ PipelineEvent(p) \in AllEvents
    BY DEF AllEvents, Events
  <2> HIDE DEF c, d
  <2>4. /\ event[FinishEvent(p)].finished
        /\ FinishEvent(p) \in Inserting => event[FinalizeEvent(FinishEvent(p)[2])].finished
    BY <1>2, <2>1, <2>2, <2>3
  <2>5. event[PipelineEvent(p)].finished
    BY <1>2, <2>1, <2>2, <2>3, <2>4
  <2> QED
    BY <2>4, <2>5
<1>4. event[InitializeEvent(m)].finished
  <2> DEFINE b == Base(m)
             d == Dependency(PipelineEvent(b), InitializeEvent(m), 0)
  <2>1. Belongs(build, b, m)
    BY BaseBelongs, Numbered DEF IInv, Scheduled
  <2>2. b \in ScheduledPipeline /\ build.pipelines[b].meta = m
    BY <2>1, Numbered DEF Belongs, IInv, ScheduledPipeline
  <2>3. d \in StackDependencies(b)
    BY <2>2 DEF StackDependencies
  <2>4. d \in Dependencies
    BY <2>2, <2>3 DEF Dependencies
  <2>5. d.event = PipelineEvent(b) /\ d.on = InitializeEvent(m)
    BY DEF Dependency
  <2>6. InitializeEvent(m) \in AllEvents
    BY DEF AllEvents, Events
  <2> HIDE DEF b, d
  <2> QED
    BY <1>2, <1>3, <2>2, <2>4, <2>5, <2>6
<1> QED
  BY <1>3, <1>4

\* An event that has finished has no task anywhere.
LEMMA NoTaskLeft ==
  ASSUME IInv, CInv, executor.pc # "building", executor.pc # "ended", ~executor.cancelled,
         NEW e \in AllEvents, event[e].finished
  PROVE  tasks[e] = NoTasks /\ executor.task # e
<1> DEFINE C == CallsIn(stack)
           q == tasks[e].queued
           s == tasks[e].descheduled
           k == tasks[e].callbacks
           i == event[e].finished_tasks
           n == event[e].total_tasks
           h == Hands(C, e)
           a == Kept(executor, e)
<1>1. /\ TasksNow(C, event, tasks, executor) /\ LinksNow(C, event)
  BY Counting
<1>2. /\ tasks[e] \in [queued : Nat, descheduled : Nat, callbacks : Nat]
      /\ TaskCount(C, event, tasks, executor, e) /\ CallbackCount(C, tasks, executor, e)
      /\ IsFiniteSet(HandsIn(C, e)) /\ IsFiniteSet(BlockedIn(C, e)) /\ EventInv(event, e)
  BY <1>1 DEF TasksNow, TasksInv, Stock, LinksNow, Links
<1>3. h \in Nat /\ a \in {0, 1} /\ q \in Nat /\ s \in Nat
  BY <1>2, FS_CardinalityType DEF Hands, Kept
<1>4. i + q + s + a + h <= n /\ i = n /\ i \in Nat
  BY <1>2 DEF TaskCount, Counted, EventInv
<1>5. q = 0 /\ s = 0 /\ a = 0 /\ h = 0
  <2> HIDE DEF q, s, i, n, h, a
  <2> QED
    BY <1>3, <1>4
<1>6. HandsIn(C, e) = {}
  BY <1>2, <1>5, FS_EmptySet DEF Hands
<1>7. BlockedIn(C, e) = {}
  <2> SUFFICES ASSUME NEW c \in BlockedIn(C, e) PROVE FALSE
    OBVIOUS
  <2>1. c \in C /\ c[3].fn = "Deschedule" /\ c[3].event = e
    BY DEF BlockedIn
  <2>2. Holds(c[3], e) = 1
    BY <2>1 DEF Holds
  <2> HIDE DEF C
  <2>3. <<c[1], c[2], 1>> \in HandsIn(C, e)
    BY <2>1, <2>2, InHands
  <2> QED
    BY <1>6, <2>3
<1>8. k = 0
  BY <1>2, <1>5, <1>7, FS_EmptySet DEF CallbackCount, Blocked
<1>9. executor.task # e
  BY <1>5 DEF Kept
<1> QED
  BY <1>2, <1>5, <1>8, <1>9 DEF NoTasks

\* When the client is told that the result is ready, all events have finished, those
\* that were inserted included, and no task is anywhere.
THEOREM ReadyResultIsComplete == Spec => []ReadyMeansDone
<1>1. IInv /\ CInv => ReadyMeansDone
  <2> SUFFICES ASSUME IInv, CInv, executor.pc = "ready"
               PROVE  /\ \A e \in DOMAIN event : event[e].finished /\ tasks[e] = NoTasks
                      /\ executor.task = NoEvent
    BY DEF ReadyMeansDone
  <2> DEFINE T == Completed(FinishCalls(CallsIn(stack)), event, Scheduled)
  <2>1. /\ DOMAIN event = AllEvents /\ ProgressNow(CallsIn(stack), event, executor)
        /\ ClientInv(executor, AllEvents, Current) /\ Shape(build) /\ executor.pc # "building"
    BY Counting DEF IInv
  <2>2. ~executor.cancelled
    BY <2>1 DEF ClientInv
  <2>3. \A m \in Scheduled : event[CompleteEvent(m)].finished
    <3>1. T \in SUBSET Scheduled /\ Cardinality(T) = Cardinality(Scheduled)
      BY <2>1 DEF ProgressNow, ProgressInv, Completed
    <3>2. IsFiniteSet(Scheduled)
      BY <2>1, PlanGraph
    <3>3. T = Scheduled
      <4> HIDE DEF T
      <4> QED
        BY <3>1, <3>2, FS_Subset
    <3> QED
      BY <3>3 DEF Completed
  <2>4. ASSUME NEW m \in Scheduled
        PROVE  /\ event[InitializeEvent(m)].finished
               /\ \A p \in ScheduledPipeline : build.pipelines[p].meta = m =>
                    /\ event[FinishEvent(p)].finished /\ event[PipelineEvent(p)].finished
                    /\ FinishEvent(p) \in Inserting => event[FinalizeEvent(FinishEvent(p)[2])].finished
    BY <2>1, <2>3, MetaDone
  <2>5. ASSUME NEW p \in ScheduledPipeline
        PROVE  /\ event[FinishEvent(p)].finished /\ event[PipelineEvent(p)].finished
               /\ FinishEvent(p) \in Inserting => event[FinalizeEvent(FinishEvent(p)[2])].finished
    BY <2>4 DEF ScheduledPipeline
  <2>6. ASSUME NEW e \in AllEvents
        PROVE  event[e].finished
    <3>1. CASE e[1] = "initialize"
      BY <2>1, <2>4, <3>1, EventsByKind
    <3>2. CASE e[1] = "complete"
      BY <2>1, <2>3, <3>2, EventsByKind
    <3>3. CASE e[1] = "event"
      BY <2>1, <2>5, <3>3, EventsByKind
    <3>4. CASE e[1] = "finish"
      BY <2>1, <2>5, <3>4, EventsByKind
    <3>5. CASE e[1] = "finalize"
      <4>1. PICK x \in Inserting : e = FinalizeEvent(x[2])
        BY <2>1, <3>5, EventsByKind
      <4>2. x \in AllEvents /\ x[1] = "finish"
        BY DEF Inserting, InsertsEvent
      <4>3. PICK p \in ScheduledPipeline : x = FinishEvent(p)
        BY <2>1, <4>2, EventsByKind
      <4> QED
        BY <2>5, <4>1, <4>3
    <3> QED
      BY <2>1, <3>1, <3>2, <3>3, <3>4, <3>5, EventsKeepPipelines DEF EventKinds
  <2>7. \A e \in AllEvents : tasks[e] = NoTasks /\ executor.task # e
    BY <2>1, <2>2, <2>6, NoTaskLeft
  <2>8. executor.task = NoEvent
    BY <2>1, <2>7, Executing DEF TaskEvents
  <2> QED
    BY <2>1, <2>6, <2>7, <2>8
<1> QED
  BY <1>1, CountsHold, PTL

-----------------------------------------------------------------------------
(* What a pipeline reads *)

\* A pipeline whose task runs has the events it awaits behind it.
LEMMA AwaitedAreDone ==
  ASSUME IInv, CInv, executor.pc # "building", NEW e \in AllEvents, event[e].total_tasks # 0
  PROVE  \A x \in AllEvents : x \in Awaits(e, Dependencies) => event[x].finished
<1> DEFINE F == FinishCalls(CallsIn(stack))
           X == Ending(CallsIn(stack))
           Z == {x : x \in {d.on : d \in Dependencies}} \ {x \in AllEvents : ~event[x].finished}
<1>1. Links(F, X, event, AllEvents, Inserting, Dependencies) /\ GraphOK(AllEvents, Inserting)
  BY Counting DEF LinksNow
<1> HIDE DEF F, X
<1>2. ASSUME NEW d \in Dependencies, d.event = e \/ d.event \in Z
      PROVE  d.on \in Z
  <2>1. d.event \in AllEvents
    BY DependenciesOfEvents
  <2>2. event[d.event].total_tasks # 0 \/ event[d.event].finished
    BY <1>2, <2>1
  <2>3. d.on \in AllEvents => event[d.on].finished
    BY <1>1, <2>1, <2>2, DoneBefore
  <2> QED
    BY <2>3
<1>3. IsFiniteSet(Dependencies)
  BY PlanDependencies DEF IInv
<1>4. \A x \in AllEvents : x \in Z => event[x].finished
  OBVIOUS
<1> HIDE DEF Z
<1>5. Awaits(e, Dependencies) \subseteq Z
  BY <1>2, <1>3, AwaitsClosed
<1> QED
  BY <1>4, <1>5

\* A task in hand has been counted in its event's total.
LEMMA InHandCounted ==
  ASSUME NEW C, NEW ev, NEW ts, NEW ex, NEW E, NEW x \in E, NEW c \in C, c[3].fn = "Execute", c[3].event = x,
         TasksInv(C, ev, ts, ex, E), EventInv(ev, x)
  PROVE  ev[x].total_tasks # 0
<1> DEFINE H == HandsIn(C, x)
           h == Hands(C, x)
           a == Kept(ex, x)
           q == ts[x].queued
           s == ts[x].descheduled
           i == ev[x].finished_tasks
           n == ev[x].total_tasks
<1>1. Holds(c[3], x) = 1
  BY DEF Holds
<1>4. H # {}
  <2>1. <<c[1], c[2], 1>> \in HandsIn(C, x)
    BY <1>1, InHands
  <2> QED
    BY <2>1
<1>5. /\ IsFiniteSet(H) /\ TaskCount(C, ev, ts, ex, x)
      /\ ts[x] \in [queued : Nat, descheduled : Nat, callbacks : Nat]
  BY DEF TasksInv, Stock
<1>6. h \in Nat /\ h # 0 /\ a \in Nat
  BY <1>4, <1>5, FS_CardinalityType, FS_EmptySet DEF Hands, Kept
<1>7. q \in Nat /\ s \in Nat
  BY <1>5
<1>8. i \in Nat /\ n \in Nat
  BY DEF EventInv
<1>9. i + q + s + a + h <= n
  BY <1>5 DEF TaskCount, Counted
<1>10. n # 0
  <2> HIDE DEF h, a, q, s, i, n
  <2> QED
    BY <1>6, <1>7, <1>8, <1>9
<1> QED
  BY <1>10

\* An event one of whose tasks runs has tasks.
LEMMA RunningHasTasks ==
  ASSUME IInv, CInv, executor.pc # "building", NEW t \in Thread, NEW i \in DOMAIN stack[t],
         stack[t][i].fn = "Execute"
  PROVE  event[stack[t][i].event].total_tasks # 0
<1> DEFINE C == CallsIn(stack)
           f == stack[t][i]
           x == f.event
           c == <<t, Len(stack[t]) - i, f>>
<1>1. /\ TasksInv(C, event, tasks, executor, AllEvents) /\ LinksNow(C, event)
      /\ StacksOK(stack, AllEvents)
  BY Counting, Executing DEF TasksNow
<1>2. x \in AllEvents
  BY <1>1 DEF StacksOK, StackOK, FrameOK
<1>3. c \in CallsOf(t, stack[t])
  BY DEF CallsOf
<1>4. c \in C
  <2> HIDE DEF c
  <2> QED
    BY <1>3, Zenon DEF CallsIn
<1>5. c[3].fn = "Execute" /\ c[3].event = x
  OBVIOUS
<1>6. EventInv(event, x)
  BY <1>1, <1>2 DEF LinksNow, Links
<1> HIDE DEF c, x, C, f
<1>7. event[x].total_tasks # 0
  BY <1>1, <1>2, <1>4, <1>5, <1>6, InHandCounted
<1> QED
  BY <1>7 DEF x, f

\* What pipeline p probes and reads.
InputsOf(p) ==
  (UNION {ToSet(plan[op].related) : op \in ToSet(build.pipelines[p].operators)})
    \cup {build.pipelines[p].source}

\* The event e completes a sink in S.
CompletesOneOf(e, S) ==
  \/ e[1] \in {"finish", "finalize"} /\ build.metas[build.pipelines[e[2]].meta].sink \in S
  \/ e[1] = "complete" /\ build.metas[e[2]].sink \in S

\* A task that runs a pipeline finds what it probes and reads complete.
LEMMA InputDone ==
  ASSUME IInv, CInv, FiltersBuiltBeforeUse, NEW t \in Thread, NEW i \in DOMAIN stack[t],
         stack[t][i].fn = "Execute", stack[t][i].event[1] = "event", NEW e \in DOMAIN event,
         CompletesOneOf(e, InputsOf(stack[t][i].event[2]))
  PROVE  event[e].finished
<1> DEFINE f == stack[t][i]
           p == f.event[2]
           needed == InputsOf(p)
           C == CallsIn(stack)
<1>1. executor.pc # "building" /\ phase = "scheduled" /\ Shape(build)
  BY NoCalls DEF IInv, ExecInv, ObjectsInv
<1>2. /\ DOMAIN event = AllEvents /\ TasksNow(C, event, tasks, executor) /\ LinksNow(C, event)
      /\ StacksOK(stack, AllEvents)
  BY <1>1, Counting, Executing
<1>3. f.event \in AllEvents
  BY <1>2 DEF StacksOK, StackOK, FrameOK
<1>4. p \in ScheduledPipeline /\ f.event = PipelineEvent(p)
  BY <1>1, <1>3, EventsByKind
<1>5. event[f.event].total_tasks # 0
  BY <1>1, RunningHasTasks
<1>6. \A m \in Scheduled : build.metas[m].sink \in needed => CompleteEvent(m) \in Awaits(PipelineEvent(p), Dependencies)
  BY <1>1, <1>4, Zenon DEF FiltersBuiltBeforeUse, InputsOf
<1>7. ASSUME NEW m \in Scheduled, build.metas[m].sink \in needed
      PROVE  event[CompleteEvent(m)].finished
  <2>1. CompleteEvent(m) \in AllEvents /\ CompleteEvent(m) \in Awaits(f.event, Dependencies)
    BY <1>4, <1>6, <1>7 DEF AllEvents, Events
  <2> QED
    BY <1>1, <1>3, <1>5, <2>1, AwaitedAreDone
<1>8. /\ e \in AllEvents
      /\ \/ e[1] \in {"finish", "finalize"} /\ build.metas[build.pipelines[e[2]].meta].sink \in needed
         \/ e[1] = "complete" /\ build.metas[e[2]].sink \in needed
  BY <1>2 DEF CompletesOneOf
<1> HIDE DEF needed, f, p
<1>9. CASE e[1] = "complete"
  <2>1. PICK m \in Scheduled : e = CompleteEvent(m)
    BY <1>1, <1>8, <1>9, EventsByKind
  <2> QED
    BY <1>7, <1>8, <1>9, <2>1 DEF CompleteEvent
<1>10. ASSUME NEW q \in ScheduledPipeline, build.metas[build.pipelines[q].meta].sink \in needed
       PROVE  /\ event[FinishEvent(q)].finished
              /\ FinishEvent(q) \in Inserting => event[FinalizeEvent(FinishEvent(q)[2])].finished
  <2>1. build.pipelines[q].meta \in Scheduled
    BY DEF ScheduledPipeline
  <2>2. event[CompleteEvent(build.pipelines[q].meta)].finished
    BY <1>7, <1>10, <2>1
  <2> QED
    BY <1>1, <2>1, <2>2, MetaDone
<1>11. CASE e[1] = "finish"
  <2>1. PICK q \in ScheduledPipeline :
          e = FinishEvent(q) /\ build.pipelines[e[2]].meta = build.pipelines[q].meta
    BY <1>1, <1>8, <1>11, EventsByKind
  <2> QED
    BY <1>8, <1>10, <1>11, <2>1
<1>12. CASE e[1] = "finalize"
  <2>1. PICK x \in Inserting : e = FinalizeEvent(x[2]) /\ e[2] = x[2]
    BY <1>1, <1>8, <1>12, EventsByKind
  <2>2. x \in AllEvents /\ x[1] = "finish"
    BY DEF Inserting, InsertsEvent
  <2>3. PICK q \in ScheduledPipeline :
          x = FinishEvent(q) /\ build.pipelines[x[2]].meta = build.pipelines[q].meta
    BY <1>1, <2>2, EventsByKind
  <2>4. build.metas[build.pipelines[q].meta].sink \in needed
    BY <1>8, <1>12, <2>1, <2>3
  <2> QED
    BY <1>10, <2>1, <2>3, <2>4
<1> QED
  BY <1>8, <1>9, <1>11, <1>12

\* If every pipeline waits for the filters it probes and the sinks it reads, which
\* FiltersBuiltBeforeUse says of the graph of the events, then their events, the
\* finalize events of a CreateBF included, have finished whenever one of its tasks runs.
THEOREM InputsFollowGraph == Spec => [](FiltersBuiltBeforeUse => InputsComplete)
<1>1. IInv /\ CInv => (FiltersBuiltBeforeUse => InputsComplete)
  <2>1. ASSUME IInv, CInv, FiltersBuiltBeforeUse, NEW t \in Thread, NEW i \in DOMAIN stack[t],
               stack[t][i].fn = "Execute", stack[t][i].event[1] = "event", NEW e \in DOMAIN event
        PROVE  CompletesOneOf(e, InputsOf(stack[t][i].event[2])) => event[e].finished
    BY <2>1, InputDone
  <2> QED
    BY <2>1, Zenon DEF InputsComplete, InputsOf, CompletesOneOf
<1> QED
  BY <1>1, CountsHold, PTL

-----------------------------------------------------------------------------
(* The graph that is executed *)

\* The pipelines of the query are built once, and what executes leaves them alone.
LEMMA NextBuilds ==
  ASSUME SInv, [Next]_vars
  PROVE  SInv'
<1>1. [BuildStep]_buildVars
  BY Zenon DEF Next, ClientStep, WorkerStep, Callback, vars
<1> QED
  BY <1>1, SinksStep

\* The invariant of building holds throughout.
LEMMA BuildHolds == Spec => []SInv
<1>1. Init => SInv
  BY SinksInit DEF Init
<1> QED
  BY <1>1, NextBuilds, PTL DEF Spec

\* Every operator is the sink of one MetaPipeline of the execution, however many
\* UseBFs lead to it: no row is added to a filter or a table twice.
THEOREM OneSinkForEach == Spec => []OneSinkPerOperator
<1>1. SInv => OneSinkPerOperator
  BY SinksSuffice
<1> QED
  BY <1>1, BuildHolds, PTL

\* ScheduleEventsInternal makes the event of every pipeline wait for the
\* MetaPipelines that fill what it probes and what it reads.
THEOREM FiltersAwaited == Spec => []FiltersBuiltBeforeUse
<1>1. SInv => FiltersBuiltBeforeUse
  BY SinksSuffice
<1> QED
  BY <1>1, BuildHolds, PTL

\* While a pipeline executes, on whatever thread, every Bloom filter it probes
\* and the operator it reads are finished: built, finalized and complete.
THEOREM InputsReady == Spec => []InputsComplete
BY InputsFollowGraph, FiltersAwaited, PTL

=============================================================================
