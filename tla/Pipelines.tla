------------------------------ MODULE Pipelines ------------------------------
(***************************************************************************)
(* From a physical plan to the pipelines of one execution: BuildPipelines  *)
(* of the operators and MetaPipeline, called by                            *)
(* Executor::InitializeInternal.                                           *)
(*                                                                         *)
(* A CreateBF is reached by several routes: from the operator above it and *)
(* from every UseBF that probes one of its filters.  Whoever comes first   *)
(* builds its pipeline, the others add a dependency on it.  The operator   *)
(* remembers the pipeline in this_pipeline, and it lives as long as the    *)
(* plan: a prepared statement executes the same plan many times.           *)
(*                                                                         *)
(* The calls of the recursive descent are a stack; one step is one call.   *)
(***************************************************************************)
EXTENDS Integers, Sequences, FiniteSets, SequencesExt

CONSTANTS
  Plans,          \* the physical plans that are executed
  MaxExecutions   \* how often the plan is executed

\* A plan maps its operators, numbered from the root 1, to records: kind,
\* child (a sequence), related (related_create_bf of a UseBF) and flag (a join
\* that is also a source, a union whose order matters).
Kinds == {"source", "streaming", "sink", "join", "iejoin", "union", "create_bf", "use_bf"}

\* How many children BuildPipelines of an operator visits.
Arity(kind) ==
  CASE kind = "source" -> 0
    [] kind \in {"join", "iejoin", "union"} -> 2
    [] OTHER -> 1

NoOperator == 0
NoPipeline == 0

\* A parent owns its children, vector<unique_ptr<PhysicalOperator>>.
IsTree(p) ==
  \A a \in DOMAIN p : \A k \in DOMAIN p[a].child :
    /\ p[a].child[k] # 1
    /\ \A x \in DOMAIN p : \A j \in DOMAIN p[x].child : p[a].child[k] = p[x].child[j] => a = x /\ k = j

\* A physical plan; a UseBF is linked to CreateBFs of the same plan.
IsPlan(p) ==
  /\ 1 \in DOMAIN p /\ NoOperator \notin DOMAIN p /\ IsTree(p)
  /\ \A op \in DOMAIN p :
       /\ p[op].kind \in Kinds
       /\ p[op].child \in Seq(DOMAIN p) /\ Len(p[op].child) >= Arity(p[op].kind)
       /\ p[op].related \in Seq(DOMAIN p)
       /\ \A c \in ToSet(p[op].related) : p[c].kind = "create_bf"
       /\ p[op].kind # "use_bf" => p[op].related = <<>>

ASSUME PipelinesAssumption ==
  /\ MaxExecutions \in Nat \ {0}
  /\ \A p \in Plans : IsPlan(p)

VARIABLES
  plan,       \* the physical plan
  execution,  \* number of executions so far
  phase,      \* idle, building, scheduled
  build       \* see BuildState

buildVars == <<plan, execution, phase, build>>

Op == DOMAIN plan

\* What building changes: this_pipeline of every operator, all pipelines and
\* MetaPipelines ever made, the root MetaPipeline of this execution and the
\* pending calls.
Pipeline == 1..Len(build.pipelines)
Meta     == 1..Len(build.metas)

\* The MetaPipelines below the root: root_pipeline->GetMetaPipelines(.., true, true).
Scheduled == {m \in Meta : m > build.root}

\* root_pipeline->GetPipelines(.., true).
Current == {p \in Pipeline : build.pipelines[p].meta >= build.root}

Base(m) == Head(build.metas[m].pipelines)

-----------------------------------------------------------------------------
(* MetaPipeline *)

NewPipeline(m) ==
  [meta |-> m, source |-> NoOperator, operators |-> <<>>, dependencies |-> <<>>,
   inner |-> <<>>, group |-> NoPipeline, ready |-> FALSE]

NewMeta(op, p) == [sink |-> op, children |-> <<>>, pipelines |-> <<p>>, finish |-> {}]

\* CreatePipeline, CreateUnionPipeline and CreateChildPipeline append to the
\* pipelines of a MetaPipeline.
AddPipeline(b, m, pipeline) ==
  [b EXCEPT !.pipelines = Append(@, pipeline),
            !.metas[m].pipelines = Append(@, Len(b.pipelines) + 1)]

AddDependency(b, p, dependency) == [b EXCEPT !.pipelines[p].dependencies = Append(@, dependency)]

\* The new MetaPipeline's base pipeline becomes a dependency of p.
CreateChildMetaPipeline(b, p, m, op) ==
  LET base  == Len(b.pipelines) + 1
      child == Len(b.metas) + 1
  IN  AddDependency(
        [b EXCEPT !.pipelines = Append(@, NewPipeline(child)),
                  !.metas = Append([b.metas EXCEPT ![m].children = Append(@, child)],
                                   NewMeta(op, base))],
        p, base)

SetPipelineSource(b, p, op)   == [b EXCEPT !.pipelines[p].source = op]
AddPipelineOperator(b, p, op) == [b EXCEPT !.pipelines[p].operators = Append(@, op)]

\* AddDependenciesFrom(dependant, start, false): the pipelines of m made after start.
CreatedAfter(b, m, start) ==
  LET pipelines == b.metas[m].pipelines
  IN  SubSeq(pipelines, SelectInSeq(pipelines, LAMBDA p : p = start) + 1, Len(pipelines))

\* The dependant waits for itself, too.
AddDependenciesFromAll(b, m, dependant, start) ==
  [b EXCEPT !.pipelines[dependant].inner = CreatedAfter(b, m, start) \o @]

AddDependenciesFrom(b, m, dependant, start) ==
  [b EXCEPT !.pipelines[dependant].inner =
     RemoveFirst(CreatedAfter(b, m, start), dependant) \o @]

\* The union pipeline copies the operators of p, and its dependencies, too.
CreateUnionPipeline(b, p, m, order_matters) ==
  AddPipeline(b, m,
    [NewPipeline(m) EXCEPT !.operators    = b.pipelines[p].operators,
                           !.dependencies = b.pipelines[p].dependencies,
                           !.inner = b.pipelines[p].inner \o (IF order_matters THEN <<p>> ELSE <<>>)])

\* The child pipeline starts at op, a join that becomes a source, and has the
\* operators of p above op.  It follows p and all pipelines made since last.
CreateChildPipeline(b, p, m, op, last) ==
  LET child == Len(b.pipelines) + 1
      ops   == b.pipelines[p].operators
      above == SubSeq(ops, 1, SelectInSeq(ops, LAMBDA o : o = op) - 1)
  IN  AddDependenciesFrom(
        AddPipeline(b, m, [NewPipeline(m) EXCEPT !.source = op, !.operators = above, !.inner = <<p>>]),
        m, child, last)

\* The pipelines made after p share its finish event.
AddFinishEvent(b, m, p) ==
  [b EXCEPT !.metas[m].finish = @ \cup {p},
            !.pipelines = [q \in DOMAIN @ |->
                             IF q > p /\ q \in ToSet(b.metas[m].pipelines)
                             THEN [b.pipelines[q] EXCEPT !.group = p] ELSE b.pipelines[q]]]

-----------------------------------------------------------------------------
(* BuildPipelines of the operators *)

Call(fn, op, p, m, last) == [fn |-> fn, op |-> op, pipe |-> p, meta |-> m, last |-> last]

\* MetaPipeline::Build for the newest MetaPipeline.
BuildNewest(b, op) == Call("BuildPipelines", op, Len(b.pipelines), Len(b.metas), NoPipeline)

\* The call on top of the stack is replaced by the calls it makes.
Replace(b, calls) == [b EXCEPT !.calls = calls \o Tail(@)]

Calling(fn, kind) ==
  /\ phase = "building"
  /\ build.calls # <<>>
  /\ Head(build.calls).fn = fn
  /\ plan[Head(build.calls).op].kind = kind

Build(b) ==
  /\ build' = b
  /\ UNCHANGED <<plan, execution, phase>>

\* PhysicalOperator::BuildPipelines of an operator without children.
BuildSource ==
  /\ Calling("BuildPipelines", "source")
  /\ LET c == Head(build.calls)
     IN  Build(Replace(SetPipelineSource(build, c.pipe, c.op), <<>>))

\* PhysicalOperator::BuildPipelines of an operator that is no sink.
BuildStreaming ==
  /\ Calling("BuildPipelines", "streaming")
  /\ LET c == Head(build.calls)
     IN  Build(Replace(AddPipelineOperator(build, c.pipe, c.op),
                      <<[c EXCEPT !.op = plan[c.op].child[1]]>>))

\* PhysicalOperator::BuildPipelines of a sink; also the result collector's.
BuildSink ==
  /\ Calling("BuildPipelines", "sink")
  /\ LET c == Head(build.calls)
         b == CreateChildMetaPipeline(SetPipelineSource(build, c.pipe, c.op), c.pipe, c.meta, c.op)
     IN  Build(Replace(b, <<BuildNewest(b, plan[c.op].child[1])>>))

\* Each route builds a pipeline of its own.
CreateBFPipelineAgain(b, c) ==
  LET made == CreateChildMetaPipeline(b, c.pipe, c.meta, c.op)
  IN  Replace(made, <<BuildNewest(made, plan[c.op].child[1])>>)

\* The part that BuildPipelines and BuildPipelinesFromRelated of a CreateBF share.
CreateBFPipeline(b, c) ==
  IF b.this_pipeline[c.op] = NoPipeline
  THEN LET made  == CreateChildMetaPipeline(b, c.pipe, c.meta, c.op)
           saved == [made EXCEPT !.this_pipeline[c.op] = Len(made.pipelines)]
       IN  Replace(saved, <<BuildNewest(saved, plan[c.op].child[1])>>)
  ELSE Replace(AddDependency(b, c.pipe, b.this_pipeline[c.op]), <<>>)

BuildCreateBF ==
  /\ Calling("BuildPipelines", "create_bf")
  /\ LET c == Head(build.calls)
     IN  Build(CreateBFPipeline(SetPipelineSource(build, c.pipe, c.op), c))

BuildPipelinesFromRelated ==
  /\ Calling("BuildPipelinesFromRelated", "create_bf")
  /\ Build(CreateBFPipeline(build, Head(build.calls)))

\* The UseBF forgets to visit the creators of its filters.
UseBFCallsChildOnly(c) == <<[c EXCEPT !.op = plan[c.op].child[1]]>>

\* The calls a UseBF makes: one for each related CreateBF, then its child.
UseBFCalls(c) ==
  [i \in DOMAIN plan[c.op].related |->
     [c EXCEPT !.fn = "BuildPipelinesFromRelated", !.op = plan[c.op].related[i]]]
  \o <<[c EXCEPT !.op = plan[c.op].child[1]]>>

BuildUseBF ==
  /\ Calling("BuildPipelines", "use_bf")
  /\ LET c == Head(build.calls)
     IN  Build(Replace(AddPipelineOperator(build, c.pipe, c.op), UseBFCalls(c)))

\* PhysicalJoin::BuildJoinPipelines: the build side in a MetaPipeline of its
\* own, the probe side in p, then the child pipeline of a join that is a source.
BuildJoin ==
  /\ Calling("BuildPipelines", "join")
  /\ LET c    == Head(build.calls)
         last == Last(build.metas[c.meta].pipelines)
         b    == CreateChildMetaPipeline(AddPipelineOperator(build, c.pipe, c.op), c.pipe, c.meta, c.op)
     IN  Build(Replace(b,
               <<BuildNewest(b, plan[c.op].child[2]), [c EXCEPT !.op = plan[c.op].child[1]]>>
               \o (IF plan[c.op].flag THEN <<[c EXCEPT !.fn = "CreateChildPipeline", !.last = last]>>
                   ELSE <<>>)))

BuildJoinSource ==
  /\ Calling("CreateChildPipeline", "join")
  /\ LET c == Head(build.calls)
     IN  Build(Replace(CreateChildPipeline(build, c.pipe, c.meta, c.op, c.last), <<>>))

\* PhysicalUnion::BuildPipelines.
BuildUnion ==
  /\ Calling("BuildPipelines", "union")
  /\ LET c  == Head(build.calls)
         u  == Len(build.pipelines) + 1
         b  == CreateUnionPipeline(build, c.pipe, c.meta, plan[c.op].flag)
     IN  Build(Replace(b,
               <<[c EXCEPT !.op = plan[c.op].child[1]]>>
               \o (IF plan[c.op].flag THEN <<[c EXCEPT !.fn = "AddDependenciesFrom", !.pipe = u]>> ELSE <<>>)
               \o <<[c EXCEPT !.op = plan[c.op].child[2], !.pipe = u]>>))

BuildUnionOrder ==
  /\ Calling("AddDependenciesFrom", "union")
  /\ LET c == Head(build.calls)
     IN  Build(Replace(AddDependenciesFrom(build, c.meta, c.pipe, c.pipe), <<>>))

\* PhysicalIEJoin::BuildPipelines: both sides sink into the join, one after the
\* other, and the second has a finish event of its own.
BuildIEJoin ==
  /\ Calling("BuildPipelines", "iejoin")
  /\ LET c == Head(build.calls)
         b == CreateChildMetaPipeline(SetPipelineSource(build, c.pipe, c.op), c.pipe, c.meta, c.op)
     IN  Build(Replace(b,
               <<BuildNewest(b, plan[c.op].child[1]), [c EXCEPT !.fn = "CreatePipeline", !.meta = Len(b.metas)]>>))

BuildIEJoinRight ==
  /\ Calling("CreatePipeline", "iejoin")
  /\ LET c == Head(build.calls)
         b == AddPipeline(build, c.meta, NewPipeline(c.meta))
         p == Len(b.pipelines)
     IN  Build(Replace(b, <<[c EXCEPT !.fn = "BuildPipelines", !.op = plan[c.op].child[2], !.pipe = p],
                           [c EXCEPT !.fn = "AddFinishEvent", !.pipe = p]>>))

BuildIEJoinFinish ==
  /\ Calling("AddFinishEvent", "iejoin")
  /\ LET c == Head(build.calls)
     IN  Build(Replace(AddFinishEvent(build, c.meta, c.pipe), <<>>))

-----------------------------------------------------------------------------
(* Executor::Initialize *)

\* A new Executor makes the root MetaPipeline, which has no sink, and builds the
\* plan into it.
InitializeInternal ==
  /\ phase = "idle"
  /\ execution < MaxExecutions
  /\ execution' = execution + 1
  /\ phase' = "building"
  /\ LET p == Len(build.pipelines) + 1
         m == Len(build.metas) + 1
     IN  build' = [build EXCEPT !.pipelines = Append(@, NewPipeline(m)),
                                !.metas = Append(@, NewMeta(NoOperator, p)),
                                !.root = m,
                                !.calls = <<Call("BuildPipelines", 1, p, m, NoPipeline)>>]
  /\ UNCHANGED plan

\* root_pipeline->Ready(), then the events are made from the result.
Ready ==
  /\ phase = "building"
  /\ build.calls = <<>>
  /\ phase' = "scheduled"
  /\ build' = [build EXCEPT !.pipelines = [p \in Pipeline |->
                 LET pipeline == build.pipelines[p]
                 IN  IF p \in Current /\ ~pipeline.ready
                     THEN [pipeline EXCEPT !.ready = TRUE, !.operators = Reverse(@)]
                     ELSE pipeline]]
  /\ UNCHANGED <<plan, execution>>

\* The statement has been executed; its plan stays.
EndExecution ==
  /\ phase = "scheduled"
  /\ phase' = "idle"
  /\ UNCHANGED <<plan, execution, build>>

NoPipelines == [this_pipeline |-> <<>>, pipelines |-> <<>>, metas |-> <<>>, root |-> 0, calls |-> <<>>]

BuildInit ==
  /\ plan \in Plans
  /\ execution = 0
  /\ phase = "idle"
  /\ build = [NoPipelines EXCEPT !.this_pipeline = [op \in DOMAIN plan |-> NoPipeline]]

BuildStep ==
  \/ InitializeInternal
  \/ BuildSource
  \/ BuildStreaming
  \/ BuildSink
  \/ BuildCreateBF
  \/ BuildPipelinesFromRelated
  \/ BuildUseBF
  \/ BuildJoin
  \/ BuildJoinSource
  \/ BuildUnion
  \/ BuildUnionOrder
  \/ BuildIEJoin
  \/ BuildIEJoinRight
  \/ BuildIEJoinFinish
  \/ Ready

-----------------------------------------------------------------------------
(* The events of an execution: SchedulePipeline and ScheduleEventsInternal *)

InitializeEvent(m) == <<"initialize", m>>
PipelineEvent(p)   == <<"event", p>>
CompleteEvent(m)   == <<"complete", m>>

\* Only a pipeline with a finish group or an own finish event does not use the
\* finish event of its MetaPipeline's base pipeline.
FinishEvent(p) ==
  LET pipeline == build.pipelines[p]
  IN  <<"finish", IF pipeline.group # NoPipeline THEN pipeline.group
                  ELSE IF p \in build.metas[pipeline.meta].finish THEN p
                  ELSE Base(pipeline.meta)>>

ScheduledPipeline == {p \in Pipeline : build.pipelines[p].meta \in Scheduled}

Events ==
  {InitializeEvent(m) : m \in Scheduled} \cup {CompleteEvent(m) : m \in Scheduled}
    \cup {PipelineEvent(p) : p \in ScheduledPipeline}
    \cup {FinishEvent(p) : p \in ScheduledPipeline}

\* e.AddDependency(on); the same dependency can be added several times.
Dependency(e, on, k) == [event |-> e, on |-> on, k |-> k]

\* initialize -> event -> finish -> complete, and where a pipeline differs.
StackDependencies(p) ==
  LET m    == build.pipelines[p].meta
      base == Base(m)
      late == FinishEvent(p) # FinishEvent(base)
  IN  {Dependency(PipelineEvent(p), IF late THEN FinishEvent(base) ELSE InitializeEvent(m), 0),
       Dependency(FinishEvent(p), PipelineEvent(p), 0),
       Dependency(CompleteEvent(m), FinishEvent(p), 0)}

\* Dependencies between the pipelines of a MetaPipeline.
InnerDependencies(p) ==
  {Dependency(PipelineEvent(p), PipelineEvent(build.pipelines[p].inner[k]), k) :
     k \in DOMAIN build.pipelines[p].inner}

\* Dependencies on other MetaPipelines, found through the event map.
OuterDependencies(p) ==
  {Dependency(PipelineEvent(p), CompleteEvent(build.pipelines[build.pipelines[p].dependencies[k]].meta), k) :
     k \in DOMAIN build.pipelines[p].dependencies}

Dependencies ==
  UNION {StackDependencies(p) \cup InnerDependencies(p) \cup OuterDependencies(p) : p \in ScheduledPipeline}

\* The events that must have finished before e can start, given all dependencies.
Awaits(e, dependencies) ==
  LET on(S) == {d.on : d \in {x \in dependencies : x.event \in S}}
      reached[n \in 0..Cardinality(dependencies)] ==
        IF n = 0 THEN on({e})
        ELSE LET before == reached[n - 1] IN before \cup on(before)
  IN  reached[Cardinality(dependencies)]

-----------------------------------------------------------------------------
(* Properties *)

BuildTypeOK ==
  /\ execution \in 0..MaxExecutions
  /\ phase \in {"idle", "building", "scheduled"}
  /\ \A op \in Op : build.this_pipeline[op] \in {NoPipeline} \cup Pipeline
  /\ \A p \in Pipeline :
       LET pipeline == build.pipelines[p]
       IN  /\ pipeline.meta \in Meta
           /\ pipeline.source \in {NoOperator} \cup Op
           /\ ToSet(pipeline.operators) \subseteq Op
           /\ ToSet(pipeline.dependencies) \cup ToSet(pipeline.inner) \subseteq Pipeline
  /\ \A m \in Meta : ToSet(build.metas[m].pipelines) \subseteq Pipeline

\* A pipeline that probes a filter waits for the CreateBF to be complete, also
\* when the pipeline was copied for a union or starts at a join, and whatever
\* route reached the CreateBF first.  A pipeline that reads a sink waits for it.
FiltersBuiltBeforeUse ==
  phase = "scheduled" =>
    LET dependencies == Dependencies IN
    \A p \in ScheduledPipeline :
      LET pipeline == build.pipelines[p]
          awaited  == Awaits(PipelineEvent(p), dependencies)
          needed   == (UNION {ToSet(plan[op].related) : op \in ToSet(pipeline.operators)})
                        \cup {pipeline.source}
      IN  \A m \in Scheduled : build.metas[m].sink \in needed => CompleteEvent(m) \in awaited

\* No event waits for itself, which VerifyScheduledEvents checks in debug builds
\* only; otherwise the query would never end.
NoCircularWait ==
  phase = "scheduled" =>
    LET dependencies == Dependencies IN \A e \in Events : e \notin Awaits(e, dependencies)

\* However many routes lead to an operator, its input runs once per execution:
\* a second MetaPipeline would add every row to the same sink again.
OneSinkPerOperator ==
  phase = "scheduled" =>
    \A m, n \in Scheduled : build.metas[m].sink = build.metas[n].sink => m = n

\* D_ASSERT(event_map_entry != event_map.end()) of ScheduleEventsInternal: all
\* dependencies of a pipeline belong to the same execution.
DependenciesAreScheduled ==
  phase = "scheduled" =>
    \A p \in ScheduledPipeline : ToSet(build.pipelines[p].dependencies) \subseteq ScheduledPipeline
=============================================================================
