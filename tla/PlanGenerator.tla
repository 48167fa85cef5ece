---------------------------- MODULE PlanGenerator ----------------------------
(***************************************************************************)
(* From the logical plan to the physical one: PhysicalPlanGenerator for    *)
(* the operators that predicate transfer adds.                             *)
(*                                                                         *)
(* The logical plan is a tree, except that a UseBF has raw pointers to the *)
(* CreateBF operators elsewhere in the tree whose filters it probes.  The  *)
(* physical UseBF needs pointers to the physical operators, so planning a  *)
(* UseBF plans those first, from the side.  The operator made there is     *)
(* owned by nobody until planning reaches it through its parent, too.      *)
(*                                                                         *)
(* The calls of the recursive descent are a stack.                         *)
(***************************************************************************)
EXTENDS Integers, Sequences, FiniteSets, SequencesExt

CONSTANT LogicalPlans   \* each maps operators, from the root 1, to records kind, child, related

\* A parent owns its children, vector<unique_ptr<LogicalOperator>>.
OneParent(p) ==
  \A a \in DOMAIN p : \A k \in DOMAIN p[a].child :
    /\ p[a].child[k] # 1
    /\ \A x \in DOMAIN p : \A j \in DOMAIN p[x].child : p[a].child[k] = p[x].child[j] => a = x /\ k = j

\* The operators that the root owns, directly or not.
OwnedByRoot(p) ==
  LET owned[n \in 0..Cardinality(DOMAIN p)] ==
        IF n = 0 THEN {1}
        ELSE LET before == owned[n - 1] IN before \cup UNION {ToSet(p[op].child) : op \in before}
  IN  owned[Cardinality(DOMAIN p)]

\* The operators that lead to no circle of children and linked CreateBFs.
WithoutCircle(p) ==
  LET free[n \in 0..Cardinality(DOMAIN p)] ==
        IF n = 0 THEN {}
        ELSE LET before == free[n - 1]
             IN  {op \in DOMAIN p : ToSet(p[op].child) \cup ToSet(p[op].related) \subseteq before}
  IN  free[Cardinality(DOMAIN p)]

\* A logical plan; a UseBF is linked to CreateBFs that transfer reaches before it.
IsLogicalPlan(p) ==
  /\ 1 \in DOMAIN p /\ IsFiniteSet(DOMAIN p)
  /\ \A op \in DOMAIN p :
       /\ p[op].child \in Seq(DOMAIN p) /\ p[op].related \in Seq(DOMAIN p)
       /\ p[op].kind = "create_bf" => Len(p[op].child) = 1
       /\ p[op].kind # "use_bf" => p[op].related = <<>>
       /\ \A c \in ToSet(p[op].related) : p[c].kind = "create_bf"
  /\ OneParent(p)
  /\ OwnedByRoot(p) = DOMAIN p
  /\ WithoutCircle(p) = DOMAIN p

ASSUME PlanGeneratorAssumption == \A p \in LogicalPlans : IsLogicalPlan(p)

NotPlanned == 0

VARIABLES
  logical,    \* the logical plan
  physical,   \* LogicalCreateBF::physical of each operator
  heap,       \* the physical operators made so far
  calls       \* the pending calls, the innermost first; `got` are their results so far

planVars == <<logical, physical, heap, calls>>

PlanCall(fn, op) == [fn |-> fn, op |-> op, got |-> <<>>]

TopCall == Head(calls)
TopOp   == logical[TopCall.op]
Needed  == Len(TopOp.child) + Len(TopOp.related)

\* A CreateBF that already has a physical operator is not planned again.
AlreadyPlanned == TopCall.got = <<>> /\ physical[TopCall.op] # NotPlanned

Push(call) == calls' = <<call>> \o calls

\* The call on top returns the operator o.
Return(o) ==
  calls' = IF Len(calls) = 1 THEN <<>>
           ELSE <<[calls[2] EXCEPT !.got = Append(@, o)]>> \o SubSeq(calls, 3, Len(calls))

\* CreatePlan(*op.children[i])
PlanChild ==
  /\ calls # <<>>
  /\ ~AlreadyPlanned
  /\ Len(TopCall.got) < Len(TopOp.child)
  /\ Push(PlanCall("CreatePlan", TopOp.child[Len(TopCall.got) + 1]))
  /\ UNCHANGED <<logical, physical, heap>>

\* CreatePlanfromRelated(*cell) for the related CreateBFs of a UseBF, whose child
\* is planned already.
PlanRelated ==
  /\ calls # <<>>
  /\ Len(TopCall.got) >= Len(TopOp.child)
  /\ Len(TopCall.got) < Needed
  /\ Push(PlanCall("CreatePlanfromRelated", TopOp.related[Len(TopCall.got) - Len(TopOp.child) + 1]))
  /\ UNCHANGED <<logical, physical, heap>>

\* The operator made by a call; only that of CreatePlan is a unique_ptr.
NewOperator(call) ==
  LET n == Len(logical[call.op].child)
  IN  [op |-> call.op, child |-> SubSeq(call.got, 1, n),
       related |-> SubSeq(call.got, n + 1, Len(call.got)),
       owners |-> IF call.fn = "CreatePlan" THEN 1 ELSE 0]

Made(o) ==
  /\ heap' = Append(heap, o)
  /\ Return(Len(heap) + 1)
  /\ UNCHANGED logical

\* What CreatePlanfromRelated makes is not remembered.
MakeCreateBFFromTreeOnly ==
  /\ calls # <<>>
  /\ TopOp.kind = "create_bf"
  /\ Len(TopCall.got) = Needed
  /\ physical' = [physical EXCEPT ![TopCall.op] = IF TopCall.fn = "CreatePlan" THEN Len(heap) + 1 ELSE @]
  /\ Made(NewOperator(TopCall))

\* The physical CreateBF, after its child.
MakeCreateBF ==
  /\ calls # <<>>
  /\ TopOp.kind = "create_bf"
  /\ Len(TopCall.got) = Needed
  /\ physical' = [physical EXCEPT ![TopCall.op] = Len(heap) + 1]
  /\ Made(NewOperator(TopCall))

\* Any other operator, after its children and the CreateBFs it is related to.
MakeOperator ==
  /\ calls # <<>>
  /\ TopOp.kind # "create_bf"
  /\ Len(TopCall.got) = Needed
  /\ Made(NewOperator(TopCall))
  /\ UNCHANGED physical

\* CreatePlan returns the operator without owning it.
ReuseWithoutOwning ==
  /\ calls # <<>>
  /\ AlreadyPlanned
  /\ Return(physical[TopCall.op])
  /\ UNCHANGED <<logical, physical, heap>>

\* The CreateBF exists: CreatePlan takes it into a unique_ptr, CreatePlanfromRelated
\* returns the pointer.
Reuse ==
  /\ calls # <<>>
  /\ AlreadyPlanned
  /\ heap' = IF TopCall.fn = "CreatePlan" THEN [heap EXCEPT ![physical[TopCall.op]].owners = @ + 1] ELSE heap
  /\ Return(physical[TopCall.op])
  /\ UNCHANGED <<logical, physical>>

\* The optimized logical plan has no physical operators yet.
PlanInit ==
  /\ logical \in LogicalPlans
  /\ physical = [op \in DOMAIN logical |-> NotPlanned]
  /\ heap = <<>>
  /\ calls = <<PlanCall("CreatePlan", 1)>>

PlanStep ==
  \/ PlanChild
  \/ PlanRelated
  \/ MakeCreateBF
  \/ MakeOperator
  \/ Reuse

-----------------------------------------------------------------------------
(* Properties *)

\* The descent is over, and the plan has not yet been taken.
Planned == calls = <<>> /\ heap # <<>>

\* The operators in the tree below o.
Tree(o) ==
  LET reached[n \in 0..Len(heap)] ==
        IF n = 0 THEN {o}
        ELSE LET before == reached[n - 1]
             IN  before \cup UNION {ToSet(heap[x].child) : x \in before}
  IN  reached[Len(heap)]

\* When the plan is complete, every operator made for it has exactly one owner:
\* none leaks, and none is freed twice when the plan is destroyed.
OwnedOnce == Planned => \A o \in DOMAIN heap : heap[o].owners = 1

\* The operators are those of the tree that planning returns, one for each
\* logical operator: each UseBF is linked to operators that run as a part of the
\* same plan, and no CreateBF builds its filters twice.
OneOperatorInTree ==
  Planned =>
    /\ Tree(Len(heap)) = DOMAIN heap
    /\ \A o, x \in DOMAIN heap : heap[o].op = heap[x].op => o = x
=============================================================================
