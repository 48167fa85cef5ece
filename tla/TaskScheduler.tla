---------------------------- MODULE TaskScheduler ----------------------------
(***************************************************************************)
(* The TaskScheduler: a queue of tasks with a semaphore, background threads*)
(* that ExecuteForever, threads that the application brings itself, and    *)
(* SetThreads, which stops and starts background threads at any time.      *)
(*                                                                         *)
(* The tasks are the finalize tasks of a CreateBF: the number of threads   *)
(* is read when the filter is begun, and each task looks up its thread_id  *)
(* in the vector of background threads when it runs.                       *)
(***************************************************************************)
EXTENDS Integers, FiniteSets

CONSTANTS
  MaxThreads,    \* largest argument of SetThreads
  Externals,     \* threads of the application: duckdb_execute_tasks_state
  MaxSets,       \* how often SetThreads is called
  MaxQueries,    \* how many filters are built
  TasksAsk       \* whether a task may call NumberOfThreads

Background == 1..(MaxThreads - 1)
Looper     == Background \cup Externals

ASSUME SchedulerAssumption ==
  /\ MaxThreads \in Nat \ {0}
  /\ Externals \cap Background = {}
  /\ IsFiniteSet(Externals)
  /\ MaxSets \in Nat
  /\ MaxQueries \in Nat
  /\ TasksAsk \in BOOLEAN

VARIABLES
  queue,      \* number of tasks in the queue
  semaphore,  \* its count
  threads,    \* number of entries of the vector threads
  looper,     \* marker and place in ExecuteForever of every thread
  setter,     \* the call of SetThreads that holds thread_lock
  client,     \* the thread that runs the query
  sets        \* number of calls of SetThreads so far

vars == <<queue, semaphore, threads, looper, setter, client, sets>>

Idle    == [pc |-> "idle", n |-> 0, i |-> 0]
LockFree == setter.pc = "idle"

-----------------------------------------------------------------------------
(* ExecuteForever *)

Move(t, from, to) ==
  /\ looper[t].pc = from
  /\ looper' = [looper EXCEPT ![t].pc = to]

\* while (*marker)
CheckMarker(t) ==
  /\ Move(t, "check", IF looper[t].marker THEN "wait" ELSE "exited")
  /\ UNCHANGED <<queue, semaphore, threads, setter, client, sets>>

\* semaphore.wait()
Wait(t) ==
  /\ semaphore > 0
  /\ Move(t, "wait", "dequeue")
  /\ semaphore' = semaphore - 1
  /\ UNCHANGED <<queue, threads, setter, client, sets>>

\* try_dequeue; the task may be gone.
Dequeue(t) ==
  /\ Move(t, "dequeue", IF queue > 0 THEN "execute" ELSE "check")
  /\ queue' = IF queue > 0 THEN queue - 1 ELSE 0
  /\ UNCHANGED <<semaphore, threads, setter, client, sets>>

\* The task ends, or it calls NumberOfThreads, which needs thread_lock.
Execute(t) ==
  /\ \/ Move(t, "execute", "check")
     \/ TasksAsk /\ Move(t, "execute", "ask")
     \/ LockFree /\ Move(t, "ask", "check")
  /\ UNCHANGED <<queue, semaphore, threads, setter, client, sets>>

-----------------------------------------------------------------------------
(* The client: a query that builds filters *)

\* Finalize and Begin: a ThreadLocalState for each thread there is.
Begin ==
  /\ client.pc = "idle"
  /\ client.queries < MaxQueries
  /\ LockFree
  /\ LET n == threads + Cardinality(Externals) + 1
     IN  client' = [pc |-> "enqueue", states |-> n, left |-> n, queries |-> client.queries + 1]
  /\ UNCHANGED <<queue, semaphore, threads, looper, setter, sets>>

\* The signal comes before there is a task.
EnqueueSignalsFirst ==
  /\ \/ /\ client.pc = "enqueue"
        /\ semaphore' = semaphore + 1
        /\ client' = [client EXCEPT !.pc = "signal"]
        /\ UNCHANGED queue
     \/ /\ client.pc = "signal"
        /\ queue' = queue + 1
        /\ client' = [client EXCEPT !.pc = IF client.left = 1 THEN "work" ELSE "enqueue", !.left = @ - 1]
        /\ UNCHANGED semaphore
  /\ UNCHANGED <<threads, looper, setter, sets>>

\* ConcurrentQueue::Enqueue, once for each task.
Enqueue ==
  /\ \/ /\ client.pc = "enqueue"
        /\ queue' = queue + 1
        /\ client' = [client EXCEPT !.pc = "signal"]
        /\ UNCHANGED semaphore
     \/ /\ client.pc = "signal"
        /\ semaphore' = semaphore + 1
        /\ client' = [client EXCEPT !.pc = IF client.left = 1 THEN "work" ELSE "enqueue", !.left = @ - 1]
        /\ UNCHANGED queue
  /\ UNCHANGED <<threads, looper, setter, sets>>

\* GetTaskFromProducer leaves the semaphore alone.
TakeTask ==
  /\ client.pc = "work"
  /\ queue > 0
  /\ queue' = queue - 1
  /\ client' = [client EXCEPT !.pc = "execute"]
  /\ UNCHANGED <<semaphore, threads, looper, setter, sets>>

EndTask ==
  /\ client.pc = "execute"
  /\ client' = [client EXCEPT !.pc = "work"]
  /\ UNCHANGED <<queue, semaphore, threads, looper, setter, sets>>

Executing == {t \in Looper : looper[t].pc \in {"execute", "ask"}}

\* All tasks have been counted by the event.
EndQuery ==
  /\ client.pc = "work"
  /\ queue = 0
  /\ Executing = {}
  /\ client' = [client EXCEPT !.pc = "idle"]
  /\ UNCHANGED <<queue, semaphore, threads, looper, setter, sets>>

-----------------------------------------------------------------------------
(* SetThreads, by any connection *)

SetThreads(n) ==
  /\ setter.pc = "idle"
  /\ sets < MaxSets
  /\ sets' = sets + 1
  /\ setter' = CASE threads > n - 1 -> [pc |-> "clear", n |-> n, i |-> 1]
                 [] threads < n - 1 -> [pc |-> "launch", n |-> n, i |-> threads + 1]
                 [] OTHER -> Idle
  /\ UNCHANGED <<queue, semaphore, threads, looper, client>>

ClearMarker ==
  /\ setter.pc = "clear"
  /\ looper' = [looper EXCEPT ![setter.i].marker = FALSE]
  /\ setter' = IF setter.i = threads THEN [setter EXCEPT !.pc = "signal"] ELSE [setter EXCEPT !.i = @ + 1]
  /\ UNCHANGED <<queue, semaphore, threads, client, sets>>

\* Only the threads that are to go are woken.
SignalSurplus ==
  /\ setter.pc = "signal"
  /\ semaphore' = semaphore + threads - (setter.n - 1)
  /\ setter' = [setter EXCEPT !.pc = "join", !.i = 1]
  /\ UNCHANGED <<queue, threads, looper, client, sets>>

Signal ==
  /\ setter.pc = "signal"
  /\ semaphore' = semaphore + threads
  /\ setter' = [setter EXCEPT !.pc = "join", !.i = 1]
  /\ UNCHANGED <<queue, threads, looper, client, sets>>

\* The threads that come after the first are not waited for.
JoinFirst ==
  /\ setter.pc = "join"
  /\ looper[setter.i].pc = "exited"
  /\ threads' = 0
  /\ setter' = IF setter.n = 1 THEN Idle ELSE [setter EXCEPT !.pc = "launch", !.i = 1]
  /\ UNCHANGED <<queue, semaphore, looper, client, sets>>

\* join, one thread after the other, then threads.clear().
Join ==
  /\ setter.pc = "join"
  /\ looper[setter.i].pc = "exited"
  /\ IF setter.i < threads
     THEN setter' = [setter EXCEPT !.i = @ + 1] /\ UNCHANGED threads
     ELSE /\ threads' = 0
          /\ setter' = IF setter.n = 1 THEN Idle ELSE [setter EXCEPT !.pc = "launch", !.i = 1]
  /\ UNCHANGED <<queue, semaphore, looper, client, sets>>

\* The thread runs before push_back makes it known.
Launch ==
  /\ setter.pc = "launch"
  /\ looper' = [looper EXCEPT ![setter.i] = [marker |-> TRUE, pc |-> "check"]]
  /\ setter' = [setter EXCEPT !.pc = "push_back"]
  /\ UNCHANGED <<queue, semaphore, threads, client, sets>>

\* n background threads, although the client counts, too.
PushBackOneMore ==
  /\ setter.pc = "push_back"
  /\ threads' = threads + 1
  /\ setter' = IF setter.i = setter.n THEN Idle ELSE [setter EXCEPT !.pc = "launch", !.i = @ + 1]
  /\ UNCHANGED <<queue, semaphore, looper, client, sets>>

PushBack ==
  /\ setter.pc = "push_back"
  /\ threads' = threads + 1
  /\ setter' = IF setter.i = setter.n - 1 THEN Idle ELSE [setter EXCEPT !.pc = "launch", !.i = @ + 1]
  /\ UNCHANGED <<queue, semaphore, looper, client, sets>>

-----------------------------------------------------------------------------
(* The application's threads *)

\* duckdb_execute_tasks_state, before duckdb_finish_execution.
ExecuteTasksState(t) ==
  /\ looper[t].marker
  /\ Move(t, "exited", "check")
  /\ UNCHANGED <<queue, semaphore, threads, setter, client, sets>>

\* The threads that have called it: execute_count.
Entered == {t \in Externals : looper[t].pc # "exited"}

\* duckdb_finish_execution: the marker of the application's threads, then a
\* signal for each that has entered.
FinishExecution ==
  /\ \E t \in Externals : looper[t].marker
  /\ client.pc = "idle"
  /\ client.queries = MaxQueries
  /\ looper' = [t \in Looper |-> IF t \in Externals THEN [looper[t] EXCEPT !.marker = FALSE] ELSE looper[t]]
  /\ semaphore' = semaphore + Cardinality(Entered)
  /\ UNCHANGED <<queue, threads, setter, client, sets>>

-----------------------------------------------------------------------------

\* The database was opened with some number of threads; the application's have
\* not yet come.
Init ==
  /\ threads \in 0..(MaxThreads - 1)
  /\ looper = [t \in Looper |-> [marker |-> TRUE,
                                 pc |-> IF t \in Background /\ t <= threads THEN "check" ELSE "exited"]]
  /\ queue = 0
  /\ semaphore = 0
  /\ setter = Idle
  /\ client = [pc |-> "idle", states |-> 0, left |-> 0, queries |-> 0]
  /\ sets = 0

ExecuteForever(t) == CheckMarker(t) \/ Wait(t) \/ Dequeue(t) \/ Execute(t)
Query             == Begin \/ Enqueue \/ TakeTask \/ EndTask \/ EndQuery
SetStep           == ClearMarker \/ Signal \/ Join \/ Launch \/ PushBack

Next ==
  \/ \E t \in Looper : ExecuteForever(t)
  \/ Query
  \/ \E n \in 1..MaxThreads : SetThreads(n)
  \/ SetStep
  \/ \E t \in Externals : ExecuteTasksState(t)
  \/ FinishExecution

\* Every thread makes progress; nobody has to call SetThreads, and the
\* application need not bring threads.
Spec ==
  /\ Init /\ [][Next]_vars
  /\ \A t \in Looper : WF_vars(ExecuteForever(t))
  /\ WF_vars(Query)
  /\ WF_vars(SetStep)
  /\ WF_vars(FinishExecution)

-----------------------------------------------------------------------------
(* Properties *)

TypeOK ==
  /\ queue \in Nat
  /\ semaphore \in Nat
  /\ threads \in 0..(MaxThreads - 1)
  /\ looper \in [Looper -> [marker : BOOLEAN, pc : {"check", "wait", "dequeue", "execute", "ask", "exited"}]]
  /\ setter \in [pc : {"idle", "clear", "signal", "join", "launch", "push_back"},
                 n : 0..MaxThreads, i : 0..(MaxThreads - 1)]
  /\ client \in [pc : {"idle", "enqueue", "signal", "work", "execute"}, states : Nat, left : Nat,
                 queries : 0..MaxQueries]
  /\ sets \in 0..MaxSets

\* No wakeup is lost: there are never more tasks in the queue than signals that
\* are in the semaphore, about to be sent, or taken by a thread that will look.
\* The client, which takes tasks without signals, can only help.
NoLostWakeup ==
  queue <= semaphore + Cardinality({t \in Looper : looper[t].pc = "dequeue"})
             + (IF client.pc = "signal" THEN 1 ELSE 0)

\* Between two calls of SetThreads the vector and the running threads agree: the
\* threads in it run, and none of those it has forgotten does.
NoThreadForgotten ==
  setter.pc = "idle" =>
    \A t \in Background :
      IF t <= threads THEN looper[t].marker /\ looper[t].pc # "exited" ELSE looper[t].pc = "exited"

\* thread_id in CreateBFFinalizeTask::ExecuteTask: 0 for a thread that is not
\* found in the vector.
ThreadId(t) == IF t \in Background /\ t <= threads THEN t ELSE 0

\* The number of threads given to PartitionLocks::Init and to the vector of
\* ThreadLocalStates is the largest number that will access them, and no two
\* threads share a state.
EveryThreadHasItsState ==
  /\ \A t \in Executing : ThreadId(t) < client.states
  /\ \A t, u \in Executing : t # u => ThreadId(t) # ThreadId(u)
  /\ client.pc = "execute" => \A t \in Executing : ThreadId(t) # 0

\* SetThreads returns once it has begun to stop or to start threads, whatever the
\* threads are doing, unless a task then asks for the number of threads or a
\* thread of the application, which may take a signal, is there.
SetThreadsReturns ==
  (setter.pc \in {"clear", "launch"})
    ~> \/ setter.pc = "idle"
       \/ \E t \in Background : looper[t].pc = "ask"
       \/ Entered # {}

\* SetThreads returns, whatever the threads are doing when it is called.
SetThreadsAlwaysReturns == (setter.pc # "idle") ~> (setter.pc = "idle")

\* The threads of the application return after duckdb_finish_execution.
ExternalThreadsReturn ==
  \A t \in Externals : ~looper[t].marker ~> (looper[t].pc = "exited")
=============================================================================
