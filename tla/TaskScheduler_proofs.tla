------------------------- MODULE TaskScheduler_proofs -------------------------
(***************************************************************************)
(* Proofs about the TaskScheduler, for any number of threads, calls of     *)
(* SetThreads, queries and threads of the application: the type invariant, *)
(* that no thread is forgotten and that no wakeup is lost.                 *)
(***************************************************************************)
EXTENDS TaskScheduler, FiniteSetTheorems, TLAPS

\* A call of SetThreads stays within the vector: what it still has to do.
SetterInv ==
  /\ setter.pc # "idle" => setter.n >= 1
  /\ setter.pc = "clear" => setter.i \in 1..threads
  /\ setter.pc = "signal" => threads >= 1
  /\ setter.pc = "join" => setter.i \in 1..threads
  /\ setter.pc \in {"launch", "push_back"} => setter.i = threads + 1 /\ setter.i <= setter.n - 1

\* The client signals only for a task it has still to count.
ClientInv == client.pc \in {"enqueue", "signal"} => client.left >= 1

Running(t) == looper[t].marker /\ looper[t].pc # "exited"

\* Which background threads run while SetThreads is under way.  Clearing and
\* joining go through the vector in order; a launched thread is in it only after
\* push_back.
ThreadsInv ==
  \A t \in Background :
    /\ t > threads /\ ~(setter.pc = "push_back" /\ t = setter.i) => looper[t].pc = "exited"
    /\ setter.pc = "push_back" /\ t = setter.i => Running(t)
    /\ t <= threads /\ setter.pc \in {"idle", "launch", "push_back"} => Running(t)
    /\ t <= threads /\ setter.pc = "clear" /\ t >= setter.i => Running(t)
    /\ setter.pc = "join" /\ t < setter.i => looper[t].pc = "exited"

IInv == TypeOK /\ SetterInv /\ ClientInv /\ ThreadsInv

-----------------------------------------------------------------------------

\* A step of a thread leaves the vector and SetThreads alone, and a thread stops
\* only when its marker is cleared.
LEMMA LooperStep ==
  ASSUME TypeOK, NEW t \in Looper, ExecuteForever(t)
  PROVE  /\ TypeOK'
         /\ UNCHANGED <<threads, setter, client, sets>>
         /\ \A u \in Looper : /\ looper[u].pc = "exited" => looper'[u].pc = "exited"
                              /\ Running(u) => Running(u)'
<1>1. UNCHANGED <<threads, setter, client, sets>> /\ queue' \in Nat /\ semaphore' \in Nat
  BY DEF ExecuteForever, CheckMarker, Wait, Dequeue, Execute, TypeOK
<1>2. PICK to \in {"check", "wait", "dequeue", "execute", "ask", "exited"} :
        /\ looper' = [looper EXCEPT ![t].pc = to]
        /\ looper[t].pc # "exited"
        /\ to = "exited" => ~looper[t].marker
  BY DEF ExecuteForever, CheckMarker, Wait, Dequeue, Execute, Move, TypeOK
<1>3. looper' \in [Looper -> [marker : BOOLEAN, pc : {"check", "wait", "dequeue", "execute", "ask", "exited"}]]
  BY <1>2 DEF TypeOK
<1>4. TypeOK'
  BY <1>1, <1>3 DEF TypeOK
<1>5. ASSUME NEW u \in Looper
      PROVE  /\ looper[u].pc = "exited" => looper'[u].pc = "exited"
             /\ Running(u) => Running(u)'
  BY <1>2 DEF TypeOK, Running
<1> QED
  BY <1>1, <1>4, <1>5

\* The client does not touch the threads.
LEMMA ClientStep ==
  ASSUME TypeOK, ClientInv, Query
  PROVE  TypeOK' /\ ClientInv' /\ UNCHANGED <<threads, looper, setter, sets>>
<1>0. Cardinality(Externals) \in Nat
  BY FS_CardinalityType, SchedulerAssumption
<1>1. CASE Begin
  BY <1>0, <1>1, SchedulerAssumption DEF Begin, TypeOK, ClientInv
<1>2. CASE Enqueue
  <2>1. CASE client.pc = "enqueue"
    BY <1>2, <2>1 DEF Enqueue, TypeOK, ClientInv
  <2>2. CASE client.pc = "signal"
    <3>1. client' = [pc |-> IF client.left = 1 THEN "work" ELSE "enqueue", states |-> client.states,
                     left |-> client.left - 1, queries |-> client.queries]
      BY <1>2, <2>2 DEF Enqueue, TypeOK
    <3>2. client.left - 1 \in Nat /\ (client.left # 1 => client.left - 1 >= 1)
      BY <2>2 DEF TypeOK, ClientInv
    <3>3. semaphore' = semaphore + 1 /\ UNCHANGED <<queue, threads, looper, setter, sets>>
      BY <1>2, <2>2 DEF Enqueue
    <3>4. ClientInv'
      BY <3>1, <3>2 DEF ClientInv
    <3>5. client' \in [pc : {"idle", "enqueue", "signal", "work", "execute"}, states : Nat, left : Nat,
                       queries : 0..MaxQueries]
      BY <3>1, <3>2 DEF TypeOK
    <3> QED
      BY <3>3, <3>4, <3>5 DEF TypeOK
  <2> QED
    BY <1>2, <2>1, <2>2 DEF Enqueue
<1>3. CASE TakeTask
  BY <1>3 DEF TakeTask, TypeOK, ClientInv
<1>4. CASE EndTask
  BY <1>4 DEF EndTask, TypeOK, ClientInv
<1>5. CASE EndQuery
  BY <1>5 DEF EndQuery, TypeOK, ClientInv
<1> QED
  BY <1>1, <1>2, <1>3, <1>4, <1>5 DEF Query

\* SetThreads begins from threads that all run.
LEMMA SetThreadsStep ==
  ASSUME IInv, NEW n \in 1..MaxThreads, SetThreads(n)
  PROVE  IInv'
<1>1. TypeOK' /\ SetterInv'
  BY SchedulerAssumption DEF IInv, TypeOK, SetterInv, SetThreads, Idle
<1>2. ClientInv'
  BY DEF IInv, ClientInv, SetThreads
<1>3. ThreadsInv'
  <2> SUFFICES ASSUME NEW t \in Background
               PROVE  /\ t > threads => looper[t].pc = "exited"
                      /\ t <= threads => Running(t)
                      /\ setter'.pc \in {"idle", "clear", "launch"}
                      /\ UNCHANGED <<threads, looper>>
    BY DEF ThreadsInv, Running
  <2> QED
    BY DEF IInv, ThreadsInv, SetThreads, Idle
<1> QED
  BY <1>1, <1>2, <1>3 DEF IInv

\* The steps of SetThreads go through the vector in order.
LEMMA SetStepInv ==
  ASSUME IInv, SetStep
  PROVE  IInv'
<1> USE SchedulerAssumption
<1>a. ClientInv'
  BY DEF IInv, ClientInv, SetStep, ClearMarker, Signal, Join, Launch, PushBack
<1>1. CASE ClearMarker
  <2>a. looper' \in [Looper -> [marker : BOOLEAN, pc : {"check", "wait", "dequeue", "execute", "ask", "exited"}]]
    BY <1>1 DEF IInv, TypeOK, ClearMarker
  <2>1. TypeOK' /\ SetterInv'
    <3>1. CASE setter.i = threads
      BY <1>1, <2>a, <3>1 DEF IInv, TypeOK, SetterInv, ClearMarker
    <3>2. CASE setter.i # threads
      <4>1. setter' = [pc |-> "clear", n |-> setter.n, i |-> setter.i + 1]
        BY <1>1, <3>2 DEF IInv, TypeOK, ClearMarker
      <4>2. setter.i + 1 \in 1..threads
        BY <1>1, <3>2 DEF IInv, TypeOK, SetterInv, ClearMarker
      <4> QED
        BY <1>1, <2>a, <4>1, <4>2 DEF IInv, TypeOK, SetterInv, ClearMarker
    <3> QED
      BY <3>1, <3>2
  <2>2. ThreadsInv'
    BY <1>1 DEF IInv, TypeOK, SetterInv, ThreadsInv, Running, ClearMarker, Background, Looper
  <2> QED
    BY <1>a, <2>1, <2>2 DEF IInv
<1>2. CASE Signal
  <2>a. setter' = [pc |-> "join", n |-> setter.n, i |-> 1]
    BY <1>2 DEF IInv, TypeOK, Signal
  <2>1. TypeOK' /\ SetterInv'
    BY <1>2, <2>a DEF IInv, TypeOK, SetterInv, Signal
  <2>2. ThreadsInv'
    BY <1>2 DEF IInv, TypeOK, ThreadsInv, Running, Signal, Background
  <2> QED
    BY <1>a, <2>1, <2>2 DEF IInv
<1>3. CASE Join
  <2>1. CASE setter.i < threads
    <3>1. TypeOK' /\ SetterInv'
      BY <1>3, <2>1 DEF IInv, TypeOK, SetterInv, Join
    <3>2. ThreadsInv'
      BY <1>3, <2>1 DEF IInv, TypeOK, ThreadsInv, Running, Join, Background
    <3> QED
      BY <1>a, <3>1, <3>2 DEF IInv
  <2>2. CASE ~(setter.i < threads)
    <3>1. \A t \in Background : looper[t].pc = "exited"
      BY <1>3, <2>2 DEF IInv, TypeOK, SetterInv, ThreadsInv, Join, Background
    <3>2. TypeOK' /\ SetterInv'
      <4>1. CASE setter.n = 1
        BY <1>3, <2>2, <4>1 DEF IInv, TypeOK, SetterInv, Join, Idle
      <4>2. CASE setter.n # 1
        <5>1. setter' = [pc |-> "launch", n |-> setter.n, i |-> 1] /\ threads' = 0
          BY <1>3, <2>2, <4>2 DEF IInv, TypeOK, Join
        <5>2. 1 <= setter.n - 1 /\ 1 \in 0..(MaxThreads - 1)
          BY <1>3, <4>2 DEF IInv, TypeOK, SetterInv, Join
        <5> QED
          BY <1>3, <5>1, <5>2 DEF IInv, TypeOK, SetterInv, Join
      <4> QED
        BY <4>1, <4>2
    <3>3. ThreadsInv'
      <4>1. threads' = 0 /\ setter'.pc \in {"idle", "launch"} /\ looper' = looper
        <5>1. CASE setter.n = 1
          BY <1>3, <2>2, <5>1 DEF Join, Idle
        <5>2. CASE setter.n # 1
          BY <1>3, <2>2, <5>2 DEF IInv, TypeOK, Join
        <5> QED
          BY <5>1, <5>2
      <4> QED
        BY <3>1, <4>1 DEF ThreadsInv, Running, Background
    <3> QED
      BY <1>a, <3>2, <3>3 DEF IInv
  <2> QED
    BY <2>1, <2>2
<1>4. CASE Launch
  <2>1. TypeOK' /\ SetterInv'
    BY <1>4 DEF IInv, TypeOK, SetterInv, Launch, Background, Looper
  <2>2. ThreadsInv'
    BY <1>4 DEF IInv, TypeOK, SetterInv, ThreadsInv, Running, Launch, Background, Looper
  <2> QED
    BY <1>a, <2>1, <2>2 DEF IInv
<1>5. CASE PushBack
  <2>1. TypeOK' /\ SetterInv'
    <3>1. CASE setter.i = setter.n - 1
      BY <1>5, <3>1 DEF IInv, TypeOK, SetterInv, PushBack, Idle
    <3>2. CASE setter.i # setter.n - 1
      <4>1. setter' = [pc |-> "launch", n |-> setter.n, i |-> setter.i + 1]
        BY <1>5, <3>2 DEF IInv, TypeOK, PushBack
      <4>2. /\ setter.i = threads + 1
            /\ setter.i + 1 <= setter.n - 1
            /\ setter.i + 1 \in 0..(MaxThreads - 1)
        BY <1>5, <3>2 DEF IInv, TypeOK, SetterInv, PushBack
      <4> QED
        BY <1>5, <4>1, <4>2 DEF IInv, TypeOK, SetterInv, PushBack
    <3> QED
      BY <3>1, <3>2
  <2>2. ThreadsInv'
    BY <1>5 DEF IInv, TypeOK, SetterInv, ThreadsInv, Running, PushBack, Idle, Background
  <2> QED
    BY <1>a, <2>1, <2>2 DEF IInv
<1> QED
  BY <1>1, <1>2, <1>3, <1>4, <1>5 DEF SetStep

\* execute_count is a number.
LEMMA EnteredCount == Cardinality(Entered) \in Nat
<1>1. IsFiniteSet(Entered)
  BY FS_Subset, SchedulerAssumption DEF Entered
<1> QED
  BY <1>1, FS_CardinalityType

\* A thread of the application that comes is none of the background threads.
LEMMA EnterStep ==
  ASSUME IInv, NEW t \in Externals, ExecuteTasksState(t)
  PROVE  IInv'
<1>1. TypeOK'
  BY DEF IInv, TypeOK, ExecuteTasksState, Move, Looper
<1>2. \A u \in Background : looper'[u] = looper[u]
  BY SchedulerAssumption DEF IInv, TypeOK, ExecuteTasksState, Move, Looper
<1>3. SetterInv' /\ ClientInv' /\ ThreadsInv'
  BY <1>2 DEF IInv, SetterInv, ClientInv, ThreadsInv, Running, ExecuteTasksState
<1> QED
  BY <1>1, <1>3 DEF IInv

\* duckdb_finish_execution only clears the marker of the application's threads.
LEMMA FinishStep ==
  ASSUME IInv, FinishExecution
  PROVE  IInv'
<1>1. Cardinality(Entered) \in Nat
  BY EnteredCount
<1> DEFINE R == [marker : BOOLEAN, pc : {"check", "wait", "dequeue", "execute", "ask", "exited"}]
           new(t) == IF t \in Externals THEN [looper[t] EXCEPT !.marker = FALSE] ELSE looper[t]
<1>a. looper' \in [Looper -> R]
  <2>1. looper \in [Looper -> R]
    BY DEF IInv, TypeOK
  <2>2. \A r \in R : [r EXCEPT !.marker = FALSE] \in R
    OBVIOUS
  <2>3. \A t \in Looper : looper[t] \in R
    BY <2>1, Zenon
  <2>4. looper' = [t \in Looper |-> new(t)]
    BY DEF FinishExecution
  <2> HIDE DEF R
  <2>5. \A t \in Looper : new(t) \in R
    BY <2>2, <2>3
  <2> HIDE DEF new
  <2> QED
    BY <2>4, <2>5
<1>2. TypeOK'
  BY <1>1, <1>a DEF IInv, TypeOK, FinishExecution
<1>3. \A t \in Background : looper'[t] = looper[t]
  BY SchedulerAssumption DEF FinishExecution, Looper
<1>4. setter' = setter /\ client' = client /\ threads' = threads
  BY DEF FinishExecution
<1>5. SetterInv' /\ ClientInv'
  BY <1>4 DEF IInv, SetterInv, ClientInv
<1>6. ThreadsInv'
  BY <1>3, <1>4 DEF IInv, ThreadsInv, Running
<1> QED
  BY <1>2, <1>5, <1>6 DEF IInv

\* No thread runs yet.
LEMMA InitInv == Init => IInv
<1> SUFFICES ASSUME Init PROVE IInv
  OBVIOUS
<1>1. TypeOK
  BY SchedulerAssumption DEF Init, TypeOK, Idle
<1>2. SetterInv /\ ClientInv
  BY DEF Init, SetterInv, ClientInv, Idle
<1>3. ThreadsInv
  <2> SUFFICES ASSUME NEW t \in Background
               PROVE  /\ t > threads => looper[t].pc = "exited"
                      /\ t <= threads => Running(t)
                      /\ setter.pc = "idle"
    BY DEF ThreadsInv
  <2>1. looper[t] = [marker |-> TRUE, pc |-> IF t <= threads THEN "check" ELSE "exited"]
    BY DEF Init, Looper
  <2> QED
    BY <2>1 DEF Init, Idle, Running, Background
<1> QED
  BY <1>1, <1>2, <1>3 DEF IInv

\* Every step keeps the invariant.
LEMMA NextInv == IInv /\ [Next]_vars => IInv'
<1> SUFFICES ASSUME IInv, [Next]_vars PROVE IInv'
  OBVIOUS
<1>1. ASSUME NEW t \in Looper, ExecuteForever(t)
      PROVE  IInv'
  BY <1>1, LooperStep DEF IInv, SetterInv, ClientInv, ThreadsInv, Looper
<1>2. CASE Query
  BY <1>2, ClientStep DEF IInv, SetterInv, ThreadsInv, Running
<1>3. ASSUME NEW n \in 1..MaxThreads, SetThreads(n)
      PROVE  IInv'
  BY <1>3, SetThreadsStep
<1>4. CASE SetStep
  BY <1>4, SetStepInv
<1>5. CASE FinishExecution
  BY <1>5, FinishStep
<1>6. ASSUME NEW t \in Externals, ExecuteTasksState(t)
      PROVE  IInv'
  BY <1>6, EnterStep
<1>7. CASE UNCHANGED vars
  BY <1>7 DEF vars, IInv, TypeOK, SetterInv, ClientInv, ThreadsInv, Running
<1> QED
  BY <1>1, <1>2, <1>3, <1>4, <1>5, <1>6, <1>7 DEF Next

\* The type invariant of the scheduler, whatever the order of the steps of its
\* threads, of the client and of SetThreads.
THEOREM TypeCorrect == Spec => []TypeOK
<1>1. IInv => TypeOK
  BY DEF IInv
<1> QED
  BY <1>1, InitInv, NextInv, PTL DEF Spec

\* When SetThreads has returned, the vector holds exactly the threads that run:
\* no thread that was told to stop is still at work, and none was lost.
THEOREM ThreadsAgree == Spec => []NoThreadForgotten
<1>1. IInv => NoThreadForgotten
  BY DEF IInv, ThreadsInv, NoThreadForgotten, Running, Background, TypeOK
<1> QED
  BY <1>1, InitInv, NextInv, PTL DEF Spec

-----------------------------------------------------------------------------

\* The threads that have taken a signal and not yet looked into the queue.
Looking == {t \in Looper : looper[t].pc = "dequeue"}

\* The threads that look for a task can be counted.
LEMMA LookingFinite == IsFiniteSet(Looking) /\ Cardinality(Looking) \in Nat
<1>1. IsFiniteSet(Background)
  BY FS_Interval, SchedulerAssumption DEF Background
<1>2. IsFiniteSet(Looper)
  BY <1>1, FS_Union, SchedulerAssumption DEF Looper
<1>3. IsFiniteSet(Looking)
  BY <1>2, FS_Subset DEF Looking
<1> QED
  BY <1>3, FS_CardinalityType

\* A step of a thread that neither takes a signal nor has one moves no thread in
\* or out of Looking.
LEMMA LookingUnchanged ==
  ASSUME TypeOK, NEW t \in Looper, NEW to,
         looper' = [looper EXCEPT ![t].pc = to], looper[t].pc # "dequeue", to # "dequeue"
  PROVE  Looking' = Looking
BY DEF TypeOK, Looking

\* wait() takes a signal and becomes one that will look.
LEMMA WaitStep ==
  ASSUME TypeOK, NEW t \in Looper, Wait(t)
  PROVE  Cardinality(Looking') = Cardinality(Looking) + 1
<1>1. Looking' = Looking \cup {t} /\ t \notin Looking
  BY DEF TypeOK, Looking, Wait, Move
<1> QED
  BY <1>1, LookingFinite, FS_AddElement

\* try_dequeue gives the signal up.
LEMMA DequeueStep ==
  ASSUME TypeOK, NEW t \in Looper, Dequeue(t)
  PROVE  Cardinality(Looking') = Cardinality(Looking) - 1
<1>1. Looking' = Looking \ {t} /\ t \in Looking
  BY DEF TypeOK, Looking, Dequeue, Move
<1> QED
  BY <1>1, LookingFinite, FS_RemoveElement

\* The invariant with the threads that look by name.
Covered == queue <= semaphore + Cardinality(Looking) + (IF client.pc = "signal" THEN 1 ELSE 0)

\* A thread in ExecuteForever leaves no task without a signal.
LEMMA LooperCovered ==
  ASSUME TypeOK, Covered, NEW t \in Looper, ExecuteForever(t)
  PROVE  Covered'
<1> USE LookingFinite
<1>1. CASE CheckMarker(t)
  <2>1. Looking' = Looking
    BY <1>1, LookingUnchanged DEF CheckMarker, Move
  <2> QED
    BY <1>1, <2>1 DEF CheckMarker, Covered
<1>2. CASE Wait(t)
  <2>1. semaphore' = semaphore - 1 /\ UNCHANGED <<queue, client>>
    BY <1>2 DEF Wait
  <2>2. Cardinality(Looking') = Cardinality(Looking) + 1
    BY <1>2, WaitStep
  <2> QED
    BY <2>1, <2>2 DEF Covered, TypeOK
<1>3. CASE Dequeue(t)
  <2>1. queue' = (IF queue > 0 THEN queue - 1 ELSE 0) /\ UNCHANGED <<semaphore, client>>
    BY <1>3 DEF Dequeue
  <2>2. Cardinality(Looking') = Cardinality(Looking) - 1
    BY <1>3, DequeueStep
  <2>3. Cardinality(Looking) - 1 >= 0
    <3>1. t \in Looking
      BY <1>3 DEF Dequeue, Move, Looking
    <3> QED
      BY <3>1, FS_EmptySet
  <2> QED
    BY <2>1, <2>2, <2>3 DEF Covered, TypeOK
<1>4. CASE Execute(t)
  <2>1. Looking' = Looking
    BY <1>4, LookingUnchanged DEF Execute, Move
  <2> QED
    BY <1>4, <2>1 DEF Execute, Covered
<1> QED
  BY <1>1, <1>2, <1>3, <1>4 DEF ExecuteForever

\* Scheduling a task signals for it.
LEMMA ClientCovered ==
  ASSUME TypeOK, Covered, Query
  PROVE  Covered'
<1> USE LookingFinite
<1>a. Looking' = Looking
  BY DEF Query, Begin, Enqueue, TakeTask, EndTask, EndQuery, Looking
<1>1. CASE Begin
  BY <1>a, <1>1 DEF Begin, Covered
<1>2. CASE Enqueue
  <2>1. CASE client.pc = "enqueue"
    <3>1. client'.pc = "signal" /\ queue' = queue + 1 /\ semaphore' = semaphore
      BY <1>2, <2>1 DEF Enqueue, TypeOK
    <3> QED
      BY <1>a, <2>1, <3>1 DEF Covered, TypeOK
  <2>2. CASE client.pc = "signal"
    <3>1. client'.pc \in {"work", "enqueue"} /\ queue' = queue /\ semaphore' = semaphore + 1
      BY <1>2, <2>2 DEF Enqueue, TypeOK
    <3> QED
      BY <1>a, <2>2, <3>1 DEF Covered, TypeOK
  <2> QED
    BY <1>2, <2>1, <2>2 DEF Enqueue
<1>3. CASE TakeTask
  BY <1>a, <1>3 DEF TakeTask, Covered, TypeOK
<1>4. CASE EndTask
  BY <1>a, <1>4 DEF EndTask, Covered, TypeOK
<1>5. CASE EndQuery
  BY <1>a, <1>5 DEF EndQuery, Covered, TypeOK
<1> QED
  BY <1>1, <1>2, <1>3, <1>4, <1>5 DEF Query

\* SetThreads only adds signals, and the thread it starts was not running.
LEMMA SetterCovered ==
  ASSUME IInv, Covered, SetStep
  PROVE  Covered'
<1> USE LookingFinite
<1>1. CASE ClearMarker
  <2>1. Looking' = Looking
    BY <1>1 DEF ClearMarker, Looking, IInv, TypeOK
  <2> QED
    BY <1>1, <2>1 DEF ClearMarker, Covered
<1>2. CASE Signal
  <2>1. Looking' = Looking
    BY <1>2 DEF Signal, Looking
  <2> QED
    BY <1>2, <2>1 DEF Signal, Covered, IInv, TypeOK
<1>3. CASE Join
  BY <1>3 DEF Join, Covered, Looking
<1>4. CASE Launch
  <2>1. setter.i \in Background /\ looper[setter.i].pc = "exited"
    BY <1>4 DEF Launch, IInv, TypeOK, SetterInv, ThreadsInv, Background
  <2>2. Looking' = Looking
    BY <1>4, <2>1 DEF Launch, Looking, IInv, TypeOK
  <2> QED
    BY <1>4, <2>2 DEF Launch, Covered
<1>5. CASE PushBack
  BY <1>5 DEF PushBack, Covered, Looking
<1> QED
  BY <1>1, <1>2, <1>3, <1>4, <1>5 DEF SetStep

\* No step leaves a task without a signal.
LEMMA NextCovered == IInv /\ Covered /\ [Next]_vars => Covered'
<1> SUFFICES ASSUME IInv, Covered, [Next]_vars PROVE Covered'
  OBVIOUS
<1>1. ASSUME NEW t \in Looper, ExecuteForever(t)
      PROVE  Covered'
  BY <1>1, LooperCovered DEF IInv
<1>2. CASE Query
  BY <1>2, ClientCovered DEF IInv
<1>3. ASSUME NEW n \in 1..MaxThreads, SetThreads(n)
      PROVE  Covered'
  BY <1>3 DEF SetThreads, Covered, Looking
<1>4. CASE SetStep
  BY <1>4, SetterCovered
<1>5. CASE FinishExecution
  <2>1. Cardinality(Entered) \in Nat
    BY EnteredCount
  <2>2. Looking' = Looking
    BY <1>5 DEF FinishExecution, Looking, IInv, TypeOK
  <2> QED
    BY <1>5, <2>1, <2>2, LookingFinite DEF FinishExecution, Covered, IInv, TypeOK
<1>6. ASSUME NEW t \in Externals, ExecuteTasksState(t)
      PROVE  Covered'
  <2>1. Looking' = Looking
    BY <1>6 DEF ExecuteTasksState, Move, Looking, Looper, IInv, TypeOK
  <2> QED
    BY <1>6, <2>1 DEF ExecuteTasksState, Covered
<1>7. CASE UNCHANGED vars
  BY <1>7 DEF vars, Covered, Looking
<1> QED
  BY <1>1, <1>2, <1>3, <1>4, <1>5, <1>6, <1>7 DEF Next

\* However Enqueue, the waiting threads, tasks taken without a signal and
\* SetThreads interleave, a queued task always has a signal: it is never left
\* while all threads sleep.
THEOREM WakeupsSuffice == Spec => []NoLostWakeup
<1>1. Init => Covered
  BY LookingFinite DEF Init, Covered
<1>2. Covered => NoLostWakeup
  BY DEF Covered, Looking, NoLostWakeup
<1> QED
  BY <1>1, <1>2, InitInv, NextInv, NextCovered, PTL DEF Spec
=============================================================================
