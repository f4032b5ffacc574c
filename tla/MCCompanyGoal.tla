--------------------------- MODULE MCCompanyGoal ---------------------------
(***************************************************************************)
(* The plan for TLC: a scout and a lead at the top, a worker the lead may  *)
(* hand off to, and a build with a review that follows everything.         *)
(***************************************************************************)
EXTENDS CompanyGoal

CONSTANTS scout, lead, worker, build, review

MCDependsOn ==
  [a \in Assignments |-> IF a = review THEN {scout, lead, worker, build} ELSE {}]

MCParentOf == [a \in Assignments |-> IF a = worker THEN lead ELSE NoParent]
=============================================================================
