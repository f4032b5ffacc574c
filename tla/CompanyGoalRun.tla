--------------------------- MODULE CompanyGoalRun ---------------------------
(***************************************************************************)
(* The record of a company goal and what its journal accepts.              *)
(*                                                                         *)
(* A goal is a plan of assignments, each worked on by a child agent or,    *)
(* with others, by a team.  Every update writes the whole record as the    *)
(* next line of a journal of one goal; the store parses it (what one       *)
(* record may say) and compares it with the one before (what may follow).  *)
(*                                                                         *)
(* Requests are counted in allowances, one for each assignment, so that    *)
(* the number of assignments started is also the number of requests that   *)
(* are reserved; the cost is a flag, TRUE above the ceiling.               *)
(***************************************************************************)
EXTENDS Integers, FiniteSets, FiniteSetsExt

CONSTANTS Assignments,    \* the assignments of the plan
          Implementers,   \* those of a role that implements
          Reviewers,      \* those of an independent reviewer
          DependsOn,      \* what an assignment depends on
          ParentOf,       \* the assignment whose agent may hand it off
          NoParent,       \* the parent of an assignment of the root role
          MaxStarts       \* assignments the budget allows

ASSUME PlanAssumption ==
  /\ IsFiniteSet(Assignments)
  /\ Implementers \subseteq Assignments
  /\ Reviewers \subseteq Assignments \ Implementers
  /\ DependsOn \in [Assignments -> SUBSET Assignments]
  /\ NoParent \notin Assignments
  /\ ParentOf \in [Assignments -> Assignments \union {NoParent}]
  /\ \A a \in Reviewers : ParentOf[a] = NoParent
  /\ MaxStarts \in Nat

(***************************************************************************)
(* Records.                                                                *)
(***************************************************************************)
WorkStatus == {"pending", "running", "completed", "failed", "cancelled", "blocked"}

Unresolved == {"created", "running", "interrupted"}

GoalStatus == Unresolved \union {"none", "completed", "failed", "cancelled"}

\* How often the use of an assignment has been added to the total.
Bill == [Assignments -> Nat]

Book == [started : Nat, used : Bill, over : BOOLEAN]

Run == [status : GoalStatus,
        work   : [Assignments -> WorkStatus],
        team   : SUBSET Assignments,      \* executed by a team
        book   : Book]

NoBook == [started |-> 0, used |-> [a \in Assignments |-> 0], over |-> FALSE]

NewRun == [status |-> "created",
           work   |-> [a \in Assignments |-> "pending"],
           team   |-> {},
           book   |-> NoBook]

NoRun == [NewRun EXCEPT !.status = "none"]

Used(book) == Cardinality(UNION {{a} \X (1..book.used[a]) : a \in Assignments})

(***************************************************************************)
(* What the journal accepts.                                               *)
(***************************************************************************)
WellFormed(r) ==
  /\ r.book.started <= MaxStarts
  /\ Used(r.book) <= r.book.started

NextGoal(status) ==
  CASE status = "created" -> {"running", "failed", "cancelled"}
    [] status = "running" -> {"running", "completed", "failed", "cancelled", "interrupted"}
    [] status = "interrupted" -> {"running", "failed", "cancelled"}
    [] OTHER -> {}

NextWork(status) ==
  CASE status = "pending" -> {"pending", "running", "failed", "cancelled", "blocked"}
    [] status = "running" -> {"running", "completed", "failed", "cancelled", "blocked"}
    [] OTHER -> {status}

NotLess(book, next) ==
  /\ next.started >= book.started
  /\ Used(next) >= Used(book)
  /\ book.over => next.over

MayFollow(r, next) ==
  /\ WellFormed(next)
  /\ next.status \in NextGoal(r.status)
  /\ NotLess(r.book, next.book)
  /\ \A a \in Assignments : next.work[a] \in NextWork(r.work[a])

(***************************************************************************)
(* Which assignments are next.                                             *)
(***************************************************************************)
In(r, status) == {a \in Assignments : r.work[a] = status}

Ready(r, a) ==
  /\ r.work[a] = "pending"
  /\ ParentOf[a] # NoParent => r.work[ParentOf[a]] = "completed"
  /\ DependsOn[a] \subseteq In(r, "completed")

\* A handoff may also start while the agent that asks for it still runs.
MayHandOff(r, a) ==
  /\ r.work[a] = "pending"
  /\ ParentOf[a] # NoParent => r.work[ParentOf[a]] \in {"completed", "running"}
  /\ DependsOn[a] \subseteq In(r, "completed")

ReadyImplementers(r) == {a \in Implementers : Ready(r, a)}

EligibleReviewers(r) ==
  {a \in Reviewers : /\ r.work[a] = "pending"
                     /\ DependsOn[a] \subseteq In(r, "completed") \union ReadyImplementers(r)}

Reviewed(r) ==
  {a \in ReadyImplementers(r) : \E b \in EligibleReviewers(r) : a \in DependsOn[b]}

\* The implementers whose review can follow at once, and their reviewers.
Frontier(r) ==
  Reviewed(r) \union
  {b \in EligibleReviewers(r) : DependsOn[b] \intersect Reviewed(r) # {}}

ReadyDirect(r) == {a \in Assignments \ Implementers : Ready(r, a)}
=============================================================================
