----------------------------- MODULE TeamRunState -----------------------------
(***************************************************************************)
(* The journal of a team run: reduceTeamRunRecord of                       *)
(* packages/core/src/team-run-state.ts.                                    *)
(*                                                                         *)
(* As in module SessionState there is one operator pair per record type:   *)
(* MayX is the conjunction of the reducer's checks, X the accepted record; *)
(* a rejected append throws and changes nothing.                           *)
(*                                                                         *)
(* Every check but that of a ready candidate, which takes a staged         *)
(* candidate of any claim, looks only at the children, links and the last  *)
(* review of the current claim; the children of earlier claims count       *)
(* against the limit and nothing else, so they are a number.  Requests are *)
(* reserved in equal shares (childRequestAllowance is the request limit    *)
(* divided by the child limit), so the child limit stands for both.  The   *)
(* contents of handles, findings, evidence, costs and times are left out.  *)
(***************************************************************************)
EXTENDS Naturals, FiniteSets

CONSTANTS Tasks,             \* request.tasks.length
          InitialReviewers,  \* policy.workflow.team.initialReviewers
          MaxReviewers,      \* ... .maxReviewers
          MaxRepairs,        \* ... .maxRepairRounds
          MaxChildren        \* allocation.maxChildren

ASSUME TeamAssumption ==
  /\ Tasks \in Nat \ {0}
  /\ InitialReviewers \in Nat \ {0}
  /\ MaxReviewers \in Nat /\ InitialReviewers <= MaxReviewers
  /\ MaxRepairs \in Nat
  /\ MaxChildren \in Nat

VARIABLES
  status,        \* status
  phase,         \* phase, none before the first claim has begun
  round,         \* round
  epoch,         \* claim.claimEpoch, 0 without a claim
  spent,         \* children reserved by earlier claims
  children,      \* children of this claim
  linked,        \* tasks whose worker artifact this claim has linked
  staged,        \* a staged candidate has been linked, by any claim
  review,        \* the last review of this claim
  stalled,       \* the last record is repair_stalled
  candidate,     \* candidate # null
  apply,         \* none, prepared or committed
  cancelled,     \* cancellation # null
  interruption   \* none, resumable or manual (manualAttentionRequired)

work == <<children, linked, staged, review, stalled>>
journal == <<status, phase, round, epoch, spent, work, candidate, apply, cancelled, interruption>>

Roles == {"implement", "review", "repair"}
Phases == Roles \cup {"none", "stage", "apply"}
Results == {"completed", "failed", "cancelled"}
Verdicts == {"approved", "changes_requested", "unverified"}
Terminal == {"approved", "changes_requested", "unverified", "failed", "cancelled"}
Statuses == Terminal \cup {"created", "running", "ready_to_apply", "applying", "interrupted"}

Child == [role : Roles, round : Nat, index : Nat, result : Results \cup {"none"}]
NoReview == [round |-> 0, verdict |-> "none"]

Created ==
  /\ status = "created"
  /\ phase = "none"
  /\ round = 0
  /\ epoch = 0
  /\ spent = 0
  /\ children = {}
  /\ linked = {}
  /\ staged = FALSE
  /\ review = NoReview
  /\ stalled = FALSE
  /\ candidate = FALSE
  /\ apply = "none"
  /\ cancelled = FALSE
  /\ interruption = "none"

-----------------------------------------------------------------------------
Of(role, r) == {c \in children : c.role = role /\ c.round = r}
AllCompleted(cs) == cs # {} /\ \A c \in cs : c.result = "completed"
AllFinished(cs) == cs # {} /\ \A c \in cs : c.result # "none"
Mutable == status \notin Terminal
Running(p) == status = "running" /\ phase = p

(* run_claimed: the first claim of a created run, or the next one of an    *)
(* interrupted run.  It clears the interruption, not the status.           *)
MayClaim ==
  \/ status = "created" /\ epoch = 0
  \/ status = "interrupted" /\ interruption # "manual"

Claimed ==
  /\ MayClaim
  /\ epoch' = epoch + 1
  /\ spent' = spent + Cardinality(children)
  /\ children' = {} /\ linked' = {} /\ review' = NoReview /\ stalled' = FALSE
  /\ interruption' = "none"
  /\ UNCHANGED <<status, phase, round, staged, candidate, apply, cancelled>>

(* phase_started.                                                          *)
MayStartPhase(p, r) ==
  /\ Mutable /\ epoch > 0 /\ ~cancelled
  /\ \/ p = "implement" /\ r = 0 /\ status \in {"created", "interrupted"}
     \/ p = "stage" /\ r = 0 /\ Running("implement") /\ linked = 1 .. Tasks
     \/ p = "review" /\ r = 0 /\ Running("stage")
     \/ p = "review" /\ r > 0 /\ r = round /\ Running("repair") /\ AllCompleted(Of("repair", r))
     \/ /\ p = "repair" /\ Running("review")
        /\ review.verdict = "changes_requested" /\ r = review.round + 1 /\ r <= MaxRepairs
     \/ p = "apply" /\ r = round /\ status = "ready_to_apply" /\ candidate

PhaseStarted(p, r) ==
  /\ MayStartPhase(p, r)
  /\ status' = IF p = "apply" THEN "applying" ELSE "running"
  /\ phase' = p
  /\ round' = r
  /\ apply' = "none"
  /\ stalled' = FALSE
  /\ UNCHANGED <<epoch, spent, children, linked, staged, review, candidate, cancelled, interruption>>

Limit == [implement |-> Tasks, review |-> MaxReviewers, repair |-> 1]
ChildrenReserved == spent + Cardinality(children)

(* child_reserved: the next index of the role the phase is for.            *)
MayReserve(role, index) ==
  /\ ~cancelled
  /\ Running(role)
  /\ index = Cardinality(Of(role, round)) + 1
  /\ index <= Limit[role]
  /\ ChildrenReserved < MaxChildren

ChildReserved(role, index) ==
  /\ MayReserve(role, index)
  /\ children' = children \cup {[role |-> role, round |-> round, index |-> index, result |-> "none"]}
  /\ stalled' = FALSE
  /\ UNCHANGED <<status, phase, round, epoch, spent, linked, staged, review, candidate, apply,
                 cancelled, interruption>>

(* child_finished: one result per reserved child.                          *)
ChildFinished(child, result) ==
  /\ Mutable /\ child \in children /\ child.result = "none"
  /\ children' = (children \ {child}) \cup {[child EXCEPT !.result = result]}
  /\ stalled' = FALSE
  /\ UNCHANGED <<status, phase, round, epoch, spent, linked, staged, review, candidate, apply,
                 cancelled, interruption>>

(* artifact_linked, of a completed worker and of the staged candidate.     *)
WorkerLinked(index) ==
  /\ Running("implement")
  /\ \E c \in Of("implement", round) : c.index = index /\ c.result = "completed"
  /\ linked' = linked \cup {index}
  /\ stalled' = FALSE
  /\ UNCHANGED <<status, phase, round, epoch, spent, children, staged, review, candidate, apply,
                 cancelled, interruption>>

CandidateLinked ==
  /\ Running("review") /\ review.verdict = "approved"
  /\ staged' = TRUE
  /\ stalled' = FALSE
  /\ UNCHANGED <<status, phase, round, epoch, spent, children, linked, review, candidate, apply,
                 cancelled, interruption>>

(* review_recorded: once per round and claim.  A verdict needs the initial *)
(* reviewers, all completed; unverified needs every reviewer's end.        *)
MayReview(verdict) ==
  LET reviewers == Of("review", round)
  IN  /\ Running("review")
      /\ review.verdict = "none" \/ review.round # round
      /\ IF verdict = "unverified"
         THEN AllFinished(reviewers)
         ELSE Cardinality(reviewers) >= InitialReviewers /\ AllCompleted(reviewers)

(* Mutant: every review counts as the first one.                           *)
ReviewRecordedAsFirst(verdict) ==
  /\ MayReview(verdict)
  /\ review' = [round |-> 0, verdict |-> verdict]
  /\ stalled' = FALSE
  /\ UNCHANGED <<status, phase, round, epoch, spent, children, linked, staged, candidate, apply,
                 cancelled, interruption>>

ReviewRecorded(verdict) ==
  /\ MayReview(verdict)
  /\ review' = [round |-> round, verdict |-> verdict]
  /\ stalled' = FALSE
  /\ UNCHANGED <<status, phase, round, epoch, spent, children, linked, staged, candidate, apply,
                 cancelled, interruption>>

(* repair_stalled: a completed repair that changed nothing.                *)
RepairStalled ==
  /\ Running("repair")
  /\ review.verdict = "changes_requested" /\ round = review.round + 1
  /\ AllCompleted(Of("repair", round))
  /\ stalled' = TRUE
  /\ UNCHANGED <<status, phase, round, epoch, spent, children, linked, staged, review, candidate,
                 apply, cancelled, interruption>>

MayBeReady == Running("review") /\ review.verdict = "approved" /\ staged

CandidateReady ==
  /\ MayBeReady
  /\ status' = "ready_to_apply"
  /\ candidate' = TRUE
  /\ stalled' = FALSE
  /\ UNCHANGED <<phase, round, epoch, spent, children, linked, staged, review, apply, cancelled,
                 interruption>>

-----------------------------------------------------------------------------
(* Mutant: a prepared apply may be cancelled.                              *)
MayCancelPrepared == Mutable /\ ~cancelled

(* cancel_requested: never while a prepared apply is undecided.            *)
MayCancel == Mutable /\ ~cancelled /\ apply # "prepared"

CancelRequested ==
  /\ MayCancel
  /\ cancelled' = TRUE
  /\ stalled' = FALSE
  /\ UNCHANGED <<status, phase, round, epoch, spent, children, linked, staged, review, candidate,
                 apply, interruption>>

ApplyRecord(newStatus, newApply) ==
  /\ status' = newStatus
  /\ apply' = newApply
  /\ stalled' = FALSE
  /\ UNCHANGED <<phase, round, epoch, spent, children, linked, staged, review, candidate, cancelled>>

MayPrepare == status = "applying" /\ phase = "apply" /\ candidate /\ apply = "none" /\ ~cancelled

ApplyPrepared == MayPrepare /\ ApplyRecord("applying", "prepared") /\ UNCHANGED interruption

(* apply_reset: back to a ready candidate, from a clean base.              *)
MayReset ==
  /\ status \in {"applying", "interrupted"} /\ phase = "apply" /\ candidate
  /\ ~cancelled /\ apply # "committed"

ApplyReset == MayReset /\ ApplyRecord("ready_to_apply", "none") /\ interruption' = "none"

MayCommit ==
  /\ status \in {"applying", "interrupted"}
  /\ apply # "none" /\ ~cancelled /\ candidate

ApplyCommitted == MayCommit /\ ApplyRecord("approved", "committed") /\ interruption' = "none"

(* run_interrupted: an uncertain apply needs manual attention.             *)
MayInterrupt(how) ==
  /\ Mutable /\ status \notin {"interrupted", "ready_to_apply"}
  /\ apply # "none" => how = "manual"

RunInterrupted(how) ==
  /\ MayInterrupt(how)
  /\ ApplyRecord("interrupted", apply)
  /\ interruption' = how

(* run_terminal, with every outcome but approved.                          *)
MayEnd(how) ==
  /\ Mutable /\ apply # "prepared"
  /\ how = "cancelled" => cancelled
  /\ how = "unverified" => review.verdict = "unverified"
  /\ how = "changes_requested" =>
       /\ review.verdict = "changes_requested"
       /\ \/ review.round >= MaxRepairs
          \/ phase = "repair" /\ stalled
          \/ phase = "repair" /\ \E c \in Of("repair", round) : c.result = "failed"

Ended(how) ==
  /\ MayEnd(how)
  /\ ApplyRecord(how, apply)
  /\ UNCHANGED interruption

-----------------------------------------------------------------------------
(* What any writer of the journal can do to it.                            *)
Record ==
  \/ Claimed
  \/ \E p \in Phases \ {"none"}, r \in 0 .. MaxRepairs : PhaseStarted(p, r)
  \/ \E role \in Roles, index \in Nat : ChildReserved(role, index)
  \/ \E child \in children, result \in Results : ChildFinished(child, result)
  \/ \E index \in 1 .. Tasks : WorkerLinked(index)
  \/ CandidateLinked
  \/ \E verdict \in Verdicts : ReviewRecorded(verdict)
  \/ RepairStalled
  \/ CandidateReady
  \/ CancelRequested
  \/ ApplyPrepared
  \/ ApplyReset
  \/ ApplyCommitted
  \/ \E how \in {"resumable", "manual"} : RunInterrupted(how)
  \/ \E how \in Terminal \ {"approved"} : Ended(how)

JournalSpec == Created /\ [][Record]_journal

-----------------------------------------------------------------------------
(* Every variable of the journal has its type.                             *)
JournalTypeOK ==
  /\ status \in Statuses /\ phase \in Phases /\ round \in 0 .. MaxRepairs
  /\ epoch \in Nat /\ spent \in Nat
  /\ children \subseteq Child /\ IsFiniteSet(children)
  /\ linked \subseteq 1 .. Tasks /\ staged \in BOOLEAN
  /\ review \in [round : 0 .. MaxRepairs, verdict : Verdicts \cup {"none"}]
  /\ stalled \in BOOLEAN /\ candidate \in BOOLEAN /\ cancelled \in BOOLEAN
  /\ apply \in {"none", "prepared", "committed"}
  /\ interruption \in {"none", "resumable", "manual"}

(* A cancelled run has no prepared apply and is never approved, wherever   *)
(* between the records of the apply the cancellation came.                 *)
CancelledNeverApplies == cancelled => apply = "none" /\ status # "approved"

(* The children of all claims together stay within the frozen allocation:  *)
(* no claim, no repair round and no escalated review exceeds it.           *)
WithinAllocation == ChildrenReserved <= MaxChildren
=============================================================================
