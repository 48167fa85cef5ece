---------------------------- MODULE QueryPlanning ----------------------------
(***************************************************************************)
(* From the logical plan to the scheduled pipelines: the physical plan     *)
(* that PlanGenerator makes is the one whose pipelines are built.          *)
(***************************************************************************)
EXTENDS Pipelines, PlanGenerator

ASSUME QueryPlanningAssumption ==
  \A p \in LogicalPlans : \A op \in DOMAIN p :
    p[op].kind \in Kinds /\ Len(p[op].child) >= Arity(p[op].kind)

planningVars == <<planVars, buildVars>>

\* The physical operators, numbered from the root, which was made last.
PhysicalPlan ==
  LET number(o) == Len(heap) + 1 - o
  IN  [i \in DOMAIN heap |->
         LET o == heap[number(i)]
         IN  [kind    |-> logical[o.op].kind,
              child   |-> [k \in DOMAIN o.child |-> number(o.child[k])],
              related |-> [k \in DOMAIN o.related |-> number(o.related[k])],
              flag    |-> logical[o.op].flag]]

\* No plan while the descent over the logical plan goes on.
PlanningInit ==
  /\ PlanInit
  /\ plan = <<>>
  /\ execution = 0
  /\ phase = "idle"
  /\ build = NoPipelines

\* The logical plan is destroyed; the prepared statement keeps the physical one.
TakePlan ==
  /\ Planned
  /\ plan' = PhysicalPlan
  /\ build' = [NoPipelines EXCEPT !.this_pipeline = [op \in DOMAIN PhysicalPlan |-> NoPipeline]]
  /\ logical' = <<>>
  /\ physical' = <<>>
  /\ heap' = <<>>
  /\ UNCHANGED <<calls, execution, phase>>

PlanningNext ==
  \/ PlanStep /\ UNCHANGED buildVars
  \/ TakePlan
  \/ plan # <<>> /\ BuildStep /\ UNCHANGED planVars
  \/ EndExecution /\ UNCHANGED planVars

PlanningSpec == PlanningInit /\ [][PlanningNext]_planningVars
=============================================================================
