--------------------------- MODULE MCQueryPlanning ---------------------------
(***************************************************************************)
(* Planning the sample plans and building their pipelines.                 *)
(***************************************************************************)
EXTENDS QueryPlanning, SamplePlans

MCLogicalPlans == SamplePlansOf(BOOLEAN)
=============================================================================
