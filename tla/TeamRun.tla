------------------------------- MODULE TeamRun -------------------------------
(***************************************************************************)
(* A team run from its claim to its end: the supervisor (#run, cancel,     *)
(* resume and apply of packages/core/src/team-run-supervisor.ts, with the  *)
(* review panel of agent-review-panel.ts), the recovery a starting process *)
(* does (team-run-recovery.ts), the candidate and the parent's workspace   *)
(* (git-patch-artifacts.ts) and the checkpoint of the apply.               *)
(*                                                                         *)
(* The journal is module TeamRunState's.  Whoever writes it holds the      *)
(* owner lease of the run, one operation at a time (module Lease states    *)
(* what the lease promises): op is that operation and pc where it is.      *)
(* Meanwhile the user may abort the run or edit the workspace, an append   *)
(* may fail, and the process may die: its lease is then free.              *)
(***************************************************************************)
EXTENDS TeamRunState, Sequences

CONSTANTS FirstReviewers,  \* initialReviewers, or the company goal's reviews when they are more
          MaxClaims,       \* bound: claims of the run
          MaxCrashes,      \* bound: crashes
          MaxFaults        \* bound: failing appends and steps of a recovery

ASSUME PanelAssumption == FirstReviewers \in InitialReviewers .. MaxReviewers

ASSUME TeamBoundsAssumption == MaxClaims \in Nat /\ MaxCrashes \in Nat /\ MaxFaults \in Nat

(* requiredChildren of #prepare and #prepareResume; every operating mode   *)
(* and every company goal allocates at least as many.                      *)
RequiredChildren == Tasks + (MaxRepairs + 1) * MaxReviewers + MaxRepairs
ASSUME AllocationAssumption == RequiredChildren <= MaxChildren

VARIABLES
  background,  \* descriptor.execution = background: not applied when ready
  op,          \* the operation that holds the owner lease
  pc,          \* where it is
  opinions,    \* of the reviewers of this panel
  aborted,     \* parentAbortObserved
  refused,     \* cancelPromise has rejected
  workspace,   \* the parent's: clean base, exactly the candidate, or other
  checkpoint,  \* none, prepared, or what it was completed with
  artifact,    \* the candidate's patch is stored
  doubted,     \* history: an append has failed after its bytes were durable
  crashes,
  faults

owner == <<op, pc, opinions, aborted, refused>>
disk == <<workspace, checkpoint, artifact>>
bounds == <<doubted, crashes, faults>>
vars == <<journal, background, owner, disk, bounds>>

Init ==
  /\ Created
  /\ background \in BOOLEAN
  /\ op = "run" /\ pc = "claim"
  /\ opinions = <<>>
  /\ aborted = FALSE /\ refused = FALSE
  /\ workspace = "base" /\ checkpoint = "none" /\ artifact = FALSE
  /\ doubted = FALSE /\ crashes = 0 /\ faults = 0

-----------------------------------------------------------------------------
(* Appending (RunJournal, RecoveryJournal).                                *)

(* Where an operation goes on after an error.                              *)
Handler == [run |-> "catching", apply |-> "catching", recover |-> "marking", cancel |-> "release"]

Throw == pc' = Handler[op] /\ UNCHANGED <<journal, doubted, faults>>
Fault == faults < MaxFaults /\ faults' = faults + 1

(* Mutant: a ready candidate is discarded with the others.                 *)
RetainedUnlessReady == status = "approved" \/ apply = "prepared"

(* The finally of #run keeps the candidate only of a ready or undecided    *)
(* run, by the state its journal knows.                                    *)
Retained == status \in {"approved", "ready_to_apply"} \/ apply = "prepared"

(* A record is appended and the operation goes on; or the reducer rejects  *)
(* it; or the write fails; or it fails after the bytes are durable, and    *)
(* every later append of this journal is refused for its sequence: #run    *)
(* then leaves with what it knew before, recovery loads the state anew.    *)
Append_(May, Appended, next) ==
  \/ Appended /\ pc' = next /\ UNCHANGED <<doubted, faults>>
  \/ ~May /\ Throw
  \/ May /\ Fault /\ pc' = Handler[op] /\ UNCHANGED <<journal, doubted>>
  \/ /\ Appended /\ Fault /\ doubted' = TRUE
     /\ pc' = IF op = "recover" THEN "marking"
              ELSE IF op = "run" /\ ~Retained THEN "drop" ELSE "release"

(* cancellationBoundary of a run: an abort is noticed between two steps.   *)
Interrupted == op = "run" /\ (aborted \/ refused \/ cancelled)
Boundary(step) == IF Interrupted THEN Throw ELSE step

(* Steps that append and change no more than pc.                           *)
Appending == UNCHANGED <<background, op, opinions, aborted, refused, disk, crashes>>

-----------------------------------------------------------------------------
(* The run, from its claim to the staged candidate.                        *)

Claim ==
  /\ pc = "claim"
  /\ Boundary(Append_(MayClaim, Claimed, "begin"))
  /\ Appending

Begin ==
  /\ pc = "begin"
  /\ Boundary(Append_(MayStartPhase("implement", 0), PhaseStarted("implement", 0), "reserve"))
  /\ Appending

Workers == Of("implement", 0)

ReserveWorker ==
  LET next == Cardinality(Workers) + 1
  IN  /\ pc = "reserve" /\ next <= Tasks
      /\ Boundary(Append_(MayReserve("implement", next), ChildReserved("implement", next), "reserve"))
      /\ Appending

(* All workers have settled.  An abort that is recorded does not keep      *)
(* their results from being recorded, in order.                            *)
WorkersSettle ==
  /\ pc = "reserve" /\ Cardinality(Workers) = Tasks
  /\ IF refused THEN Throw ELSE pc' = "work" /\ UNCHANGED <<journal, doubted, faults>>
  /\ Appending

Unsettled == {c \in children : c.result = "none"}
First(cs) == {c \in cs : \A d \in cs : c.index <= d.index}

RecordWorker ==
  /\ pc = "work"
  /\ \E c \in First(Unsettled), result \in Results :
       Append_(TRUE, ChildFinished(c, result), "work")
  /\ Appending

WorkersEnded ==
  /\ pc = "work" /\ Unsettled = {}
  /\ pc' = IF cancelled THEN "cancelled" ELSE IF AllCompleted(Workers) THEN "link" ELSE "failed"
  /\ UNCHANGED <<journal, doubted, faults>> /\ Appending

LinkWorker ==
  LET next == Cardinality(linked) + 1
  IN  /\ pc = "link" /\ next <= Tasks
      /\ Append_(TRUE, WorkerLinked(next), "link")
      /\ Appending

Stage ==
  /\ pc = "link" /\ Cardinality(linked) = Tasks
  /\ Boundary(Append_(MayStartPhase("stage", 0), PhaseStarted("stage", 0), "review"))
  /\ Appending

-----------------------------------------------------------------------------
(* Review and repair.                                                      *)

StartReview ==
  /\ pc = "review"
  /\ Boundary(Append_(MayStartPhase("review", round), PhaseStarted("review", round), "panel"))
  /\ opinions' = <<>>
  /\ UNCHANGED <<background, op, aborted, refused, disk, crashes>>

Held == {opinions[i] : i \in DOMAIN opinions}
FirstHeld == {opinions[i] : i \in DOMAIN opinions \cap 1 .. FirstReviewers}

(* The panel grows when the first reviewers neither all approve nor ask    *)
(* for changes; it stops at a reviewer that may not be started.            *)
Wanted ==
  /\ "barred" \notin Held
  /\ \/ Len(opinions) < FirstReviewers
     \/ /\ Len(opinions) < MaxReviewers
        /\ FirstHeld # {"approve"} /\ "changes" \notin FirstHeld

(* Mutant: one reviewer that could not be understood is overlooked.        *)
LenientVerdict ==
  IF "changes" \in Held THEN "changes_requested"
  ELSE IF "approve" \in Held THEN "approved" ELSE "unverified"

Verdict ==
  IF Held \cap {"unclear", "barred"} # {} THEN "unverified"
  ELSE IF "changes" \in Held THEN "changes_requested" ELSE "approved"

ReserveReviewer ==
  LET next == Len(opinions) + 1
  IN  /\ pc = "panel" /\ Unsettled = {} /\ Wanted
      /\ Append_(MayReserve("review", next), ChildReserved("review", next), "panel")
      /\ Appending

BarReviewer ==
  /\ pc = "panel" /\ Unsettled = {} /\ Wanted
  /\ opinions' = Append(opinions, "barred")
  /\ UNCHANGED <<journal, background, op, pc, aborted, refused, disk, bounds>>

(* A reviewer ends: failed, completed without a valid verdict, or with one.*)
RecordReviewer ==
  /\ pc = "panel"
  /\ \E c \in Unsettled, result \in Results, opinion \in {"approve", "changes", "unclear"} :
       /\ result # "completed" => opinion = "unclear"
       /\ Append_(TRUE, ChildFinished(c, result), "panel")
       /\ opinions' = Append(opinions, opinion)
  /\ UNCHANGED <<background, op, aborted, refused, disk, crashes>>

(* Together the reviewers who ask for changes may have more findings than  *)
(* a review may carry; it is then unverified.                              *)
Unbounded == {v \in {"unverified"} : \E i, j \in DOMAIN opinions :
                i # j /\ opinions[i] = "changes" /\ opinions[j] = "changes"}

RecordVerdict ==
  /\ pc = "panel" /\ Unsettled = {} /\ ~Wanted
  /\ \E verdict \in {Verdict} \cup Unbounded :
       Boundary(Append_(MayReview(verdict), ReviewRecorded(verdict),
         CASE verdict = "approved" -> "capture"
           [] verdict = "changes_requested" /\ round < MaxRepairs -> "repair"
           [] OTHER -> verdict))
  /\ Appending

StartRepair ==
  /\ pc = "repair"
  /\ Boundary(Append_(MayStartPhase("repair", round + 1), PhaseStarted("repair", round + 1), "mend"))
  /\ Appending

ReserveRepair ==
  /\ pc = "mend" /\ Unsettled = {}
  /\ Append_(MayReserve("repair", 1), ChildReserved("repair", 1), "mend")
  /\ Appending

(* A failed repair ends the run unless it was cancelled.                   *)
RecordRepair ==
  /\ pc = "mend"
  /\ \E c \in Unsettled, result \in Results :
       Append_(TRUE, ChildFinished(c, result),
         CASE result = "completed" -> "mended"
           [] result = "failed" /\ ~cancelled -> "changes_requested"
           [] OTHER -> "catching")
  /\ Appending

RepairChanged ==
  /\ pc = "mended"
  /\ pc' = "review"
  /\ UNCHANGED <<journal, doubted, faults>> /\ Appending

RepairChangedNothing ==
  /\ pc = "mended"
  /\ Append_(TRUE, RepairStalled, "changes_requested")
  /\ Appending

-----------------------------------------------------------------------------
(* The candidate.                                                          *)

Capture ==
  /\ pc = "capture"
  /\ IF Interrupted
     THEN Throw /\ UNCHANGED artifact
     ELSE pc' = "linkCandidate" /\ artifact' = TRUE /\ UNCHANGED <<journal, doubted, faults>>
  /\ UNCHANGED <<background, op, opinions, aborted, refused, workspace, checkpoint, crashes>>

LinkCandidate ==
  /\ pc = "linkCandidate"
  /\ Boundary(Append_(TRUE, CandidateLinked, "announce"))
  /\ Appending

Announce ==
  /\ pc = "announce"
  /\ Boundary(Append_(MayBeReady, CandidateReady, "ready"))
  /\ Appending

BecomeReady ==
  /\ pc = "ready"
  /\ Boundary(pc' = (IF background THEN "finally" ELSE "prepare") /\ UNCHANGED <<journal, doubted, faults>>)
  /\ Appending

-----------------------------------------------------------------------------
(* The apply, by a foreground run or by apply().                           *)

(* prepareCandidateApply: a clean base, and the stored patch.              *)
PrepareCandidate ==
  /\ pc = "prepare"
  /\ IF ~Interrupted /\ workspace = "base" /\ artifact
     THEN pc' = "enter" /\ checkpoint' = "prepared" /\ UNCHANGED <<journal, doubted, faults>>
     ELSE Throw /\ UNCHANGED checkpoint
  /\ UNCHANGED <<background, op, opinions, aborted, refused, workspace, artifact, crashes>>

EnterApply ==
  /\ pc = "enter"
  /\ Append_(MayStartPhase("apply", round), PhaseStarted("apply", round), "intend")
  /\ Appending

RecordPrepared ==
  /\ pc = "intend"
  /\ Append_(MayPrepare, ApplyPrepared, "mutate")
  /\ Appending

(* The abort comes while apply_prepared is appended: the cancellation was  *)
(* asked for before and is rejected after it.                              *)
RecordPreparedAborted ==
  /\ pc = "intend" /\ op = "run" /\ ~aborted
  /\ ApplyPrepared /\ pc' = "mutate"
  /\ aborted' = TRUE /\ refused' = TRUE
  /\ UNCHANGED <<background, op, opinions, disk, bounds>>

(* applyCandidate: again a clean base; an error may leave part of it.      *)
ApplyCandidate ==
  /\ pc = "mutate"
  /\ \/ /\ Interrupted \/ workspace # "base"
        /\ Throw /\ UNCHANGED workspace
     \/ /\ ~Interrupted /\ workspace = "base"
        /\ \/ workspace' = "candidate" /\ pc' = "complete" /\ UNCHANGED <<journal, doubted, faults>>
           \/ workspace' \in {"base", "other", "candidate"} /\ Throw
  /\ UNCHANGED <<background, op, opinions, aborted, refused, checkpoint, artifact, crashes>>

(* Mutant: a completed checkpoint is taken for the candidate's.            *)
CompleteUnverified ==
  /\ pc = "complete"
  /\ checkpoint' = IF checkpoint = "prepared" THEN workspace ELSE checkpoint
  /\ pc' = "commit"
  /\ UNCHANGED <<journal, background, op, opinions, aborted, refused, workspace, artifact, bounds>>

(* completeCandidateApply: the first completion records the workspace as   *)
(* it is and stays; what it recorded is compared with the candidate.       *)
CompleteCandidate ==
  /\ pc = "complete"
  /\ checkpoint' = IF checkpoint = "prepared" THEN workspace ELSE checkpoint
  /\ IF checkpoint' = "candidate" /\ artifact
     THEN pc' = "commit" /\ UNCHANGED <<journal, doubted, faults>>
     ELSE Throw
  /\ UNCHANGED <<background, op, opinions, aborted, refused, workspace, artifact, crashes>>

Commit ==
  /\ pc = "commit"
  /\ Append_(MayCommit, ApplyCommitted, "discard")
  /\ Appending

Discard ==
  /\ pc = "discard"
  /\ pc' = "release" /\ artifact' = FALSE
  /\ UNCHANGED <<journal, background, op, opinions, aborted, refused, workspace, checkpoint, bounds>>

-----------------------------------------------------------------------------
(* Ends and errors.                                                        *)

(* pc names the outcome that is to be recorded.                            *)
EndRun ==
  /\ pc \in Terminal
  /\ Append_(MayEnd(pc), Ended(pc), IF op = "run" THEN "finally" ELSE "discard")
  /\ Appending

(* The last append of a handler: whatever becomes of it, the operation     *)
(* ends.                                                                   *)
LastAppend(May, Appended, next) ==
  \/ Appended /\ pc' = next /\ UNCHANGED <<doubted, faults>>
  \/ ~May /\ pc' = next /\ UNCHANGED <<journal, doubted, faults>>
  \/ May /\ Fault /\ pc' = next /\ UNCHANGED <<journal, doubted>>
  \/ /\ Appended /\ Fault /\ doubted' = TRUE
     /\ pc' = IF op = "run" /\ ~Retained THEN "drop" ELSE "release"

(* The catch of #run and the first two branches of apply()'s.              *)
Catch ==
  /\ pc = "catching"
  /\ \/ /\ status = "applying" /\ apply = "none"
        /\ LastAppend(MayReset, ApplyReset, "finally")
     \/ /\ apply = "prepared"
        /\ LastAppend(MayInterrupt("manual"), RunInterrupted("manual"), "finally")
     \/ /\ op = "run" /\ cancelled /\ Mutable /\ status # "applying"
        /\ LastAppend(MayEnd("cancelled"), Ended("cancelled"), "finally")
     \/ /\ op = "run" /\ ~cancelled /\ Mutable /\ status \notin {"applying", "ready_to_apply"}
        /\ apply = "none"
        /\ LastAppend(MayEnd("failed"), Ended("failed"), "finally")
     \/ /\ ~Mutable \/ (status = "ready_to_apply" /\ (op = "apply" \/ ~cancelled))
        /\ pc' = "finally" /\ UNCHANGED <<journal, doubted, faults>>
  /\ Appending

Finally ==
  /\ pc \in {"finally", "drop"}
  /\ pc' = "release"
  /\ artifact' = (artifact /\ (op = "apply" \/ (pc = "finally" /\ Retained)))
  /\ UNCHANGED <<journal, background, op, opinions, aborted, refused, workspace, checkpoint, bounds>>

Freed ==
  /\ op' = "none" /\ pc' = "free"
  /\ opinions' = <<>> /\ aborted' = FALSE /\ refused' = FALSE

Release ==
  /\ pc = "release"
  /\ Freed
  /\ UNCHANGED <<journal, background, disk, bounds>>

(* Anything outside the journal may fail: a child, git, a worktree lease,  *)
(* the capture of a patch, a signal that is aborted.  A recovery that      *)
(* fails is tried again at the next start, so its failures are bounded.    *)
Fail ==
  /\ pc \in {"reserve", "work", "link", "review", "panel", "mended", "capture", "linkCandidate",
             "announce", "prepare", "complete", "settle", "reconcile"}
  /\ \/ op # "recover" /\ Throw
     \/ op = "recover" /\ Fault /\ pc' = Handler[op] /\ UNCHANGED <<journal, doubted>>
  /\ Appending

-----------------------------------------------------------------------------
(* The control operations.                                                 *)

Acquire(operation, at) ==
  /\ op = "none"
  /\ op' = operation /\ pc' = at
  /\ UNCHANGED <<journal, background, opinions, aborted, refused, disk, bounds>>

(* Mutant: what is left of the children is not compared with the need.     *)
MayResumeAnyway ==
  status = "interrupted" /\ interruption = "resumable" /\ background /\ ~cancelled /\ apply = "none"

MayResume == MayResumeAnyway /\ MaxChildren - ChildrenReserved >= RequiredChildren

Resume == epoch < MaxClaims /\ MayResume /\ Acquire("run", "claim")

Apply == status = "ready_to_apply" /\ candidate /\ ~cancelled /\ Acquire("apply", "prepare")

(* cancel() of a run no operation of this process is active on.            *)
Cancel ==
  /\ status \in {"ready_to_apply", "interrupted"}
  /\ ~(status = "interrupted" /\ phase = "apply")
  /\ apply # "prepared"
  /\ Acquire("cancel", IF cancelled THEN "cancelled" ELSE "cancelling")

RecordCancel ==
  /\ pc = "cancelling"
  /\ Append_(MayCancel, CancelRequested, "cancelled")
  /\ Appending

(* The parent's signal is aborted, or cancel() finds the run active: the   *)
(* cancellation is appended between two records of the run, if it may be.  *)
Abort ==
  /\ op = "run" /\ ~aborted /\ pc \notin {"drop", "release"}
  /\ aborted' = TRUE
  /\ \/ MayCancel /\ CancelRequested /\ UNCHANGED <<refused, faults>>
     \/ MayCancel /\ Fault /\ refused' = TRUE /\ UNCHANGED journal
     \/ ~MayCancel /\ UNCHANGED <<journal, refused, faults>>
  /\ UNCHANGED <<background, op, pc, opinions, disk, doubted, crashes>>

-----------------------------------------------------------------------------
(* Recovery, when a process starts.                                        *)

RecoverTerminal ==
  /\ op = "none" /\ ~Mutable /\ artifact
  /\ artifact' = FALSE
  /\ UNCHANGED <<journal, background, owner, workspace, checkpoint, bounds>>

(* Mutant: a ready run is left alone, cancelled or not.                    *)
ReadyAnyway == status = "ready_to_apply"

Ready == status = "ready_to_apply" /\ ~cancelled

Recover == Mutable /\ ~Ready /\ Acquire("recover", "settle")

SettleChild ==
  /\ pc = "settle"
  /\ \E c \in Unsettled, result \in Results : Append_(TRUE, ChildFinished(c, result), "settle")
  /\ Appending

ChildrenSettled == Unsettled = {}

(* The children are settled and stale worktrees removed.                   *)
RecoverSettled ==
  /\ pc = "settle" /\ ChildrenSettled
  /\ \/ /\ phase # "apply" \/ status = "ready_to_apply"
        /\ status # "interrupted" /\ cancelled
        /\ pc' = "cancelled" /\ UNCHANGED <<journal, doubted, faults>>
     \/ /\ status \in {"created", "running"} /\ ~cancelled
        /\ Append_(MayInterrupt("resumable"), RunInterrupted("resumable"), "discard")
     \/ /\ phase = "apply" /\ status \in {"applying", "interrupted"}
        /\ pc' = "reconcile" /\ UNCHANGED <<journal, doubted, faults>>
     \/ /\ phase # "apply" /\ status = "interrupted"
        /\ pc' = "discard" /\ UNCHANGED <<journal, doubted, faults>>
  /\ Appending

(* #reconcileApply: the stored patch is needed to judge the workspace.     *)
Reconcile ==
  /\ pc = "reconcile"
  /\ \/ ~artifact /\ Throw
     \/ artifact /\ workspace = "base" /\ Append_(MayReset, ApplyReset, "release")
     \/ /\ artifact /\ workspace = "candidate" /\ apply # "none"
        /\ pc' = "complete" /\ UNCHANGED <<journal, doubted, faults>>
     \/ /\ artifact /\ (workspace = "other" \/ (workspace = "candidate" /\ apply = "none"))
        /\ \/ status = "applying"
              /\ Append_(MayInterrupt("manual"), RunInterrupted("manual"), "release")
           \/ status # "applying" /\ pc' = "release" /\ UNCHANGED <<journal, doubted, faults>>
  /\ Appending

(* #markRecoveryFailure.                                                   *)
Mark ==
  /\ pc = "marking"
  /\ IF Mutable /\ status \notin {"ready_to_apply", "interrupted"}
     THEN LastAppend(MayInterrupt("manual"), RunInterrupted("manual"), "release")
     ELSE pc' = "release" /\ UNCHANGED <<journal, doubted, faults>>
  /\ Appending

-----------------------------------------------------------------------------
(* The environment.                                                        *)

(* The user edits, cleans up, or takes back an edit of the candidate.      *)
Edit ==
  /\ workspace' \in {"base", "other"} \cup (IF apply = "none" THEN {} ELSE {"candidate"})
  /\ workspace' # workspace
  /\ UNCHANGED <<journal, background, owner, checkpoint, artifact, bounds>>

(* The process of the operation dies; git may have been at work.           *)
Crash ==
  /\ op # "none" /\ crashes < MaxCrashes
  /\ crashes' = crashes + 1
  /\ Freed
  /\ IF pc = "mutate" /\ workspace = "base" /\ ~Interrupted
     THEN workspace' \in {"base", "other", "candidate"}
     ELSE UNCHANGED workspace
  /\ UNCHANGED <<journal, background, checkpoint, artifact, doubted, faults>>

Implement ==
  Claim \/ Begin \/ ReserveWorker \/ WorkersSettle \/ RecordWorker \/ WorkersEnded \/ LinkWorker \/ Stage

Review ==
  \/ StartReview \/ ReserveReviewer \/ BarReviewer \/ RecordReviewer \/ RecordVerdict
  \/ StartRepair \/ ReserveRepair \/ RecordRepair \/ RepairChanged \/ RepairChangedNothing

Deliver ==
  \/ Capture \/ LinkCandidate \/ Announce \/ BecomeReady
  \/ PrepareCandidate \/ EnterApply \/ RecordPrepared \/ RecordPreparedAborted
  \/ ApplyCandidate \/ CompleteCandidate \/ Commit \/ Discard

Conclude == EndRun \/ Catch \/ Finally \/ Release \/ Fail \/ RecordCancel

Recovering == RecoverTerminal \/ Recover \/ SettleChild \/ RecoverSettled \/ Reconcile \/ Mark

Next ==
  \/ Implement \/ Review \/ Deliver \/ Conclude \/ Recovering
  \/ Resume \/ Apply \/ Cancel \/ Abort \/ Edit \/ Crash

Spec == Init /\ [][Next]_vars

(* An operation goes on as long as its process lives, and after a crash    *)
(* some process of the project is started again.                           *)
FairSpec == Spec /\ WF_vars(Implement \/ Review \/ Deliver \/ Conclude \/ Recovering)

-----------------------------------------------------------------------------
Points == {"free", "claim", "begin", "reserve", "work", "link", "review", "panel", "repair", "mend",
           "mended", "capture", "linkCandidate", "announce", "ready", "prepare", "enter", "intend",
           "mutate", "complete", "commit", "discard", "catching", "finally", "drop", "release",
           "cancelling", "settle", "reconcile", "marking"} \cup (Terminal \ {"approved"})
Opinions == {"approve", "changes", "unclear", "barred"}

(* Every variable has its type.                                            *)
TypeOK ==
  /\ JournalTypeOK
  /\ background \in BOOLEAN
  /\ op \in {"none", "run", "apply", "cancel", "recover"} /\ pc \in Points
  /\ opinions \in Seq(Opinions)
  /\ aborted \in BOOLEAN /\ refused \in BOOLEAN
  /\ workspace \in {"base", "candidate", "other"}
  /\ checkpoint \in {"none", "prepared", "base", "candidate", "other"}
  /\ artifact \in BOOLEAN /\ doubted \in BOOLEAN
  /\ crashes \in Nat /\ faults \in Nat

(* A run is approved only when the checkpoint of its apply records exactly *)
(* the candidate: a partial apply, an edit between the steps of the apply  *)
(* or a restart in the middle of it never passes for an approval.          *)
ApprovedIsExact == status = "approved" => checkpoint = "candidate"

(* What is ready to be applied, is being applied or was applied has been   *)
(* approved in its last round by enough reviewers of the claim that made   *)
(* it, all of them completed, after the work of every task was linked.     *)
CandidateWasReviewed ==
  status \in {"ready_to_apply", "applying", "approved"} =>
    /\ review = [round |-> round, verdict |-> "approved"]
    /\ Cardinality(Of("review", round)) >= InitialReviewers
    /\ AllCompleted(Of("review", round))
    /\ linked = 1 .. Tasks

(* The work approved was approved by everybody who reviewed it: while the  *)
(* run that held the review goes on, no reviewer of it thought otherwise.  *)
ApprovalIsUnanimous ==
  op = "run" /\ pc \in {"capture", "linkCandidate", "announce", "ready", "prepare", "enter", "mutate"} =>
    Held = {"approve"}

(* The stored patch of a run that is ready or whose apply is undecided is  *)
(* there, unless an append failed after its bytes were durable: nobody     *)
(* discards what a journal still offers to apply.                          *)
ReadyCandidateKept ==
  (status = "ready_to_apply" \/ apply = "prepared") /\ ~doubted => artifact

(* A run that was allowed to start or to resume never finds its share of   *)
(* children used up when it needs the next one.                            *)
NeverStarved ==
  op = "run" /\ ( \/ pc = "reserve" /\ Cardinality(Workers) < Tasks
                  \/ pc = "panel" /\ Unsettled = {} /\ Wanted
                  \/ pc = "mend" /\ Unsettled = {}) =>
    ChildrenReserved < MaxChildren

(* A run always comes to rest again: ended, interrupted, or ready and not  *)
(* cancelled; a cancellation that came when its run was ready is honoured. *)
RunsComeToRest ==
  []<>(~Mutable \/ status = "interrupted" \/ (status = "ready_to_apply" /\ ~cancelled))
=============================================================================
