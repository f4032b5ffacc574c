---------------------------- MODULE TeamRunProofs ----------------------------
(* First the journal of a team run under every sequence of accepted        *)
(* records: its types, the frozen allocation, and what a cancellation and  *)
(* an end mean.  Then the program: supervisor, control operations and      *)
(* recovery append only records the reducer accepts; what they make of a   *)
(* run, its candidate and its apply holds for any team, any number of      *)
(* claims, crashes and faults.                                             *)
EXTENDS TeamRun, FiniteSetTheorems, TLAPS

USE TeamAssumption, TeamBoundsAssumption DEF TeamAssumption, TeamBoundsAssumption

(***************************************************************************)
(* The journal.                                                            *)
(***************************************************************************)
(* The variables by the records that disturb them.                         *)
StatusOK ==
  /\ status \in Statuses
  /\ apply \in {"none", "prepared", "committed"}
  /\ interruption \in {"none", "resumable", "manual"}
  /\ epoch \in Nat

PhaseOK ==
  /\ phase \in Phases
  /\ round \in 0 .. MaxRepairs
  /\ review \in [round : 0 .. MaxRepairs, verdict : Verdicts \cup {"none"}]

FlagsOK == stalled \in BOOLEAN /\ candidate \in BOOLEAN /\ cancelled \in BOOLEAN /\ staged \in BOOLEAN

ChildrenOK == spent \in Nat /\ children \subseteq Child /\ IsFiniteSet(children)

LinkedOK == linked \subseteq 1 .. Tasks

LEMMA TypeParts == JournalTypeOK <=> StatusOK /\ PhaseOK /\ FlagsOK /\ ChildrenOK /\ LinkedOK
BY DEF JournalTypeOK, StatusOK, PhaseOK, FlagsOK, ChildrenOK, LinkedOK

LEMMA TypeInit == ASSUME Created PROVE JournalTypeOK
<1>1. StatusOK BY DEF Created, StatusOK, Statuses, Terminal
<1>2. PhaseOK BY DEF Created, PhaseOK, Phases, NoReview
<1>3. FlagsOK BY DEF Created, FlagsOK
<1>4. ChildrenOK BY FS_EmptySet DEF Created, ChildrenOK
<1>5. LinkedOK BY DEF Created, LinkedOK
<1>6. QED BY <1>1, <1>2, <1>3, <1>4, <1>5, TypeParts

LEMMA StatusStep == ASSUME StatusOK, [Record]_journal PROVE StatusOK'
<1> USE DEF StatusOK, Statuses, Terminal
<1>1. CASE UNCHANGED journal BY <1>1 DEF journal
<1>2. CASE Claimed BY <1>2 DEF Claimed
<1>3. CASE \E p \in Phases \ {"none"}, r \in 0 .. MaxRepairs : PhaseStarted(p, r)
  BY <1>3 DEF PhaseStarted
<1>4. CASE \E role \in Roles, index \in Nat : ChildReserved(role, index) BY <1>4 DEF ChildReserved
<1>5. CASE \E child \in children, result \in Results : ChildFinished(child, result)
  BY <1>5 DEF ChildFinished
<1>6. CASE \/ \E index \in 1 .. Tasks : WorkerLinked(index)
           \/ CandidateLinked \/ CandidateReady \/ RepairStalled \/ CancelRequested
           \/ \E verdict \in Verdicts : ReviewRecorded(verdict)
  BY <1>6 DEF WorkerLinked, CandidateLinked, CandidateReady, RepairStalled, CancelRequested, ReviewRecorded
<1>7. CASE ApplyPrepared \/ ApplyReset \/ ApplyCommitted
  BY <1>7 DEF ApplyPrepared, ApplyReset, ApplyCommitted, ApplyRecord
<1>8. CASE \E how \in {"resumable", "manual"} : RunInterrupted(how)
  BY <1>8 DEF RunInterrupted, ApplyRecord
<1>9. CASE \E how \in Terminal \ {"approved"} : Ended(how) BY <1>9 DEF Ended, ApplyRecord
<1>10. QED BY <1>1, <1>2, <1>3, <1>4, <1>5, <1>6, <1>7, <1>8, <1>9 DEF Record

LEMMA PhaseStep == ASSUME PhaseOK, [Record]_journal PROVE PhaseOK'
<1> USE DEF PhaseOK
<1>1. CASE UNCHANGED journal BY <1>1 DEF journal, work
<1>2. CASE Claimed BY <1>2 DEF Claimed, NoReview
<1>3. CASE \E p \in Phases \ {"none"}, r \in 0 .. MaxRepairs : PhaseStarted(p, r)
  BY <1>3 DEF PhaseStarted
<1>4. CASE \E role \in Roles, index \in Nat : ChildReserved(role, index) BY <1>4 DEF ChildReserved
<1>5. CASE \E child \in children, result \in Results : ChildFinished(child, result)
  BY <1>5 DEF ChildFinished
<1>6. CASE \/ \E index \in 1 .. Tasks : WorkerLinked(index)
           \/ CandidateLinked \/ CandidateReady \/ RepairStalled \/ CancelRequested
  BY <1>6 DEF WorkerLinked, CandidateLinked, CandidateReady, RepairStalled, CancelRequested
<1>7. CASE \E verdict \in Verdicts : ReviewRecorded(verdict) BY <1>7 DEF ReviewRecorded
<1>8. CASE \/ ApplyPrepared \/ ApplyReset \/ ApplyCommitted
           \/ \E how \in {"resumable", "manual"} : RunInterrupted(how)
           \/ \E how \in Terminal \ {"approved"} : Ended(how)
  BY <1>8 DEF ApplyPrepared, ApplyReset, ApplyCommitted, RunInterrupted, Ended, ApplyRecord
<1>9. QED BY <1>1, <1>2, <1>3, <1>4, <1>5, <1>6, <1>7, <1>8 DEF Record

LEMMA FlagsStep == ASSUME FlagsOK, [Record]_journal PROVE FlagsOK'
<1>1. UNCHANGED stalled \/ stalled' = FALSE \/ stalled' = TRUE
  BY DEF Record, journal, work, Claimed, PhaseStarted, ChildReserved, ChildFinished, WorkerLinked,
    CandidateLinked, ReviewRecorded, RepairStalled, CandidateReady, CancelRequested, ApplyPrepared,
    ApplyReset, ApplyCommitted, RunInterrupted, Ended, ApplyRecord
<1>2. UNCHANGED candidate \/ candidate' = TRUE
  BY DEF Record, journal, work, Claimed, PhaseStarted, ChildReserved, ChildFinished, WorkerLinked,
    CandidateLinked, ReviewRecorded, RepairStalled, CandidateReady, CancelRequested, ApplyPrepared,
    ApplyReset, ApplyCommitted, RunInterrupted, Ended, ApplyRecord
<1>3. UNCHANGED cancelled \/ cancelled' = TRUE
  BY DEF Record, journal, work, Claimed, PhaseStarted, ChildReserved, ChildFinished, WorkerLinked,
    CandidateLinked, ReviewRecorded, RepairStalled, CandidateReady, CancelRequested, ApplyPrepared,
    ApplyReset, ApplyCommitted, RunInterrupted, Ended, ApplyRecord
<1>4. UNCHANGED staged \/ staged' = TRUE
  BY DEF Record, journal, work, Claimed, PhaseStarted, ChildReserved, ChildFinished, WorkerLinked,
    CandidateLinked, ReviewRecorded, RepairStalled, CandidateReady, CancelRequested, ApplyPrepared,
    ApplyReset, ApplyCommitted, RunInterrupted, Ended, ApplyRecord
<1>5. QED BY <1>1, <1>2, <1>3, <1>4 DEF FlagsOK

LEMMA LinkedStep == ASSUME LinkedOK, [Record]_journal PROVE LinkedOK'
<1>1. CASE \E index \in 1 .. Tasks : WorkerLinked(index) BY <1>1 DEF WorkerLinked, LinkedOK
<1>2. CASE ~ \E index \in 1 .. Tasks : WorkerLinked(index)
  <2>1. linked' = linked \/ linked' = {}
    BY <1>2 DEF Record, journal, work, Claimed, PhaseStarted, ChildReserved, ChildFinished,
      CandidateLinked, ReviewRecorded, RepairStalled, CandidateReady, CancelRequested, ApplyPrepared,
      ApplyReset, ApplyCommitted, RunInterrupted, Ended, ApplyRecord
  <2>2. QED BY <2>1 DEF LinkedOK
<1>3. QED BY <1>1, <1>2

-----------------------------------------------------------------------------
(* The children: what a record does to their set and to their number.      *)
LEMMA ChildrenStep ==
  ASSUME ChildrenOK, PhaseOK, WithinAllocation, [Record]_journal
  PROVE  ChildrenOK' /\ WithinAllocation'
<1> USE DEF ChildrenOK, ChildrenReserved, WithinAllocation
<1>0. Cardinality(children) \in Nat BY FS_CardinalityType
<1>1. CASE Claimed
  <2>1. spent' = spent + Cardinality(children) /\ children' = {} BY <1>1 DEF Claimed
  <2>2. IsFiniteSet(children') /\ Cardinality(children') = 0 BY <2>1, FS_EmptySet
  <2>3. QED BY <1>0, <2>1, <2>2
<1>2. CASE \E role \in Roles, index \in Nat : ChildReserved(role, index)
  <2>1. PICK role \in Roles, index \in Nat : ChildReserved(role, index) BY <1>2
  <2> DEFINE c == [role |-> role, round |-> round, index |-> index, result |-> "none"]
  <2>2. c \in Child BY DEF Child, PhaseOK
  <2>3. children' = children \cup {c} /\ spent' = spent BY <2>1 DEF ChildReserved
  <2>4. spent + Cardinality(children) < MaxChildren BY <2>1 DEF ChildReserved, MayReserve
  <2>5. IsFiniteSet(children') /\ Cardinality(children') \in {Cardinality(children), Cardinality(children) + 1}
    BY <2>3, FS_AddElement
  <2>6. QED BY <1>0, <2>2, <2>3, <2>4, <2>5
<1>3. CASE \E child \in children, result \in Results : ChildFinished(child, result)
  <2>1. PICK child \in children, result \in Results : ChildFinished(child, result) BY <1>3
  <2> DEFINE rest == children \ {child}
             c == [child EXCEPT !.result = result]
  <2>2. children' = rest \cup {c} /\ spent' = spent BY <2>1 DEF ChildFinished
  <2>3. c \in Child BY DEF Child
  <2>4. IsFiniteSet(rest) /\ Cardinality(rest) = Cardinality(children) - 1 BY FS_RemoveElement
  <2>5. IsFiniteSet(children') /\ Cardinality(children') \in {Cardinality(rest), Cardinality(rest) + 1}
    BY <2>2, <2>4, FS_AddElement
  <2>6. QED BY <1>0, <2>2, <2>3, <2>4, <2>5
<1>4. CASE children' = children /\ spent' = spent BY <1>4
<1>5. QED
  BY <1>1, <1>2, <1>3, <1>4
  DEF Record, journal, work, Claimed, PhaseStarted, WorkerLinked, CandidateLinked, ReviewRecorded,
    RepairStalled, CandidateReady, CancelRequested, ApplyPrepared, ApplyReset, ApplyCommitted,
    RunInterrupted, Ended, ApplyRecord

LEMMA JournalTypeStep ==
  ASSUME JournalTypeOK, WithinAllocation, [Record]_journal
  PROVE  JournalTypeOK' /\ WithinAllocation'
<1>1. StatusOK /\ PhaseOK /\ FlagsOK /\ ChildrenOK /\ LinkedOK BY TypeParts
<1>2. StatusOK' /\ PhaseOK' /\ FlagsOK' /\ ChildrenOK' /\ LinkedOK' /\ WithinAllocation'
  BY <1>1, StatusStep, PhaseStep, FlagsStep, ChildrenStep, LinkedStep
<1>3. QED BY <1>2 DEF JournalTypeOK, StatusOK, PhaseOK, FlagsOK, ChildrenOK, LinkedOK

LEMMA AllocationInit == ASSUME Created PROVE WithinAllocation
BY FS_EmptySet DEF Created, WithinAllocation, ChildrenReserved

(* The reducer keeps the types and, over any number of claims, the frozen  *)
(* allocation of children.                                                 *)
THEOREM AllocationHolds == JournalSpec => [](JournalTypeOK /\ WithinAllocation)
BY TypeInit, AllocationInit, JournalTypeStep, PTL DEF JournalSpec

-----------------------------------------------------------------------------
(* How status, phase, apply and cancellation depend on each other.         *)
Consistent ==
  /\ status = "created" => phase = "none"
  /\ status = "applying" => phase = "apply"
  /\ status = "running" => phase \in {"implement", "stage", "review", "repair"}
  /\ status \in {"ready_to_apply", "applying", "approved"} => candidate
  /\ apply = "prepared" =>
       phase = "apply" /\ ~cancelled /\ candidate /\ status \in {"applying", "interrupted"}
  /\ apply = "committed" <=> status = "approved"
  /\ cancelled => apply = "none"

LEMMA ConsistentInit == ASSUME Created PROVE Consistent
BY DEF Created, Consistent

LEMMA ConsistentStep == ASSUME JournalTypeOK, Consistent, [Record]_journal PROVE Consistent'
<1> USE DEF JournalTypeOK, Consistent, Mutable, Terminal, Running, Statuses
<1>1. CASE UNCHANGED journal BY <1>1 DEF journal
<1>2. CASE Claimed BY <1>2 DEF Claimed
<1>3. CASE \E p \in Phases \ {"none"}, r \in 0 .. MaxRepairs : PhaseStarted(p, r)
  BY <1>3 DEF PhaseStarted, MayStartPhase, Phases, Roles
<1>4. CASE \/ \E role \in Roles, index \in Nat : ChildReserved(role, index)
           \/ \E child \in children, result \in Results : ChildFinished(child, result)
           \/ \E index \in 1 .. Tasks : WorkerLinked(index)
           \/ CandidateLinked \/ RepairStalled
           \/ \E verdict \in Verdicts : ReviewRecorded(verdict)
  BY <1>4 DEF ChildReserved, ChildFinished, WorkerLinked, CandidateLinked, RepairStalled, ReviewRecorded
<1>5. CASE CandidateReady BY <1>5 DEF CandidateReady, MayBeReady
<1>6. CASE CancelRequested BY <1>6 DEF CancelRequested, MayCancel
<1>7. CASE ApplyPrepared BY <1>7 DEF ApplyPrepared, MayPrepare, ApplyRecord
<1>8. CASE ApplyReset BY <1>8 DEF ApplyReset, MayReset, ApplyRecord
<1>9. CASE ApplyCommitted BY <1>9 DEF ApplyCommitted, MayCommit, ApplyRecord
<1>10. CASE \E how \in {"resumable", "manual"} : RunInterrupted(how)
  BY <1>10 DEF RunInterrupted, MayInterrupt, ApplyRecord
<1>11. CASE \E how \in Terminal \ {"approved"} : Ended(how) BY <1>11 DEF Ended, MayEnd, ApplyRecord
<1>12. QED
  BY <1>1, <1>2, <1>3, <1>4, <1>5, <1>6, <1>7, <1>8, <1>9, <1>10, <1>11 DEF Record

JournalInv == JournalTypeOK /\ WithinAllocation /\ Consistent

LEMMA JournalInvInit == ASSUME Created PROVE JournalInv
BY TypeInit, AllocationInit, ConsistentInit DEF JournalInv

LEMMA JournalInvStep == ASSUME JournalInv, [Record]_journal PROVE JournalInv'
BY JournalTypeStep, ConsistentStep DEF JournalInv

(* No accepted sequence of records prepares or commits the apply of a      *)
(* cancelled run.                                                          *)
THEOREM CancelledStays == JournalSpec => []CancelledNeverApplies
<1>1. JournalInv => CancelledNeverApplies BY DEF JournalInv, Consistent, CancelledNeverApplies
<1>2. QED BY <1>1, JournalInvInit, JournalInvStep, PTL DEF JournalSpec

(* An ended run never changes again, and a cancellation is never undone.   *)
THEOREM EndsAreFinal ==
  JournalSpec => [][ /\ ~Mutable => UNCHANGED <<status, apply, candidate, cancelled>>
                     /\ cancelled => cancelled' ]_journal
<1>1. ASSUME JournalInv, [Record]_journal
      PROVE  [ /\ ~Mutable => UNCHANGED <<status, apply, candidate, cancelled>>
               /\ cancelled => cancelled' ]_journal
  <2>1. cancelled => cancelled'
    BY <1>1 DEF Record, journal, work, Claimed, PhaseStarted, ChildReserved, ChildFinished, WorkerLinked,
      CandidateLinked, ReviewRecorded, RepairStalled, CandidateReady, CancelRequested, ApplyPrepared,
      ApplyReset, ApplyCommitted, RunInterrupted, Ended, ApplyRecord
  <2>2. ASSUME ~Mutable PROVE UNCHANGED journal
    BY <1>1, <2>2 DEF Record, Mutable, Terminal, Running, Claimed, MayClaim, PhaseStarted, MayStartPhase,
      ChildReserved, MayReserve, ChildFinished, WorkerLinked, CandidateLinked, ReviewRecorded, MayReview,
      RepairStalled, CandidateReady, MayBeReady, CancelRequested, MayCancel, ApplyPrepared, MayPrepare,
      ApplyReset, MayReset, ApplyCommitted, MayCommit, RunInterrupted, MayInterrupt, Ended, MayEnd
  <2>3. QED BY <2>1, <2>2 DEF journal
<1>2. QED BY <1>1, JournalInvInit, JournalInvStep, PTL DEF JournalSpec

-----------------------------------------------------------------------------
(***************************************************************************)
(* The program.                                                            *)
(***************************************************************************)
Ops == {"none", "run", "apply", "cancel", "recover"}

(* Which operation can be where.                                           *)
Placed ==
  /\ op \in Ops /\ pc \in Points
  /\ op = "none" <=> pc = "free"
  /\ pc \in {"settle", "reconcile", "marking"} => op = "recover"
  /\ pc = "cancelling" => op = "cancel"

LEMMA OfIsFinite ==
  ASSUME JournalTypeOK, NEW role, NEW r
  PROVE  IsFiniteSet(Of(role, r)) /\ Cardinality(Of(role, r)) \in Nat
<1>1. Of(role, r) \subseteq children BY DEF Of
<1>2. IsFiniteSet(children) BY DEF JournalTypeOK
<1>3. IsFiniteSet(Of(role, r)) BY <1>1, <1>2, FS_Subset
<1>4. QED BY <1>3, FS_CardinalityType

LEMMA LinkedIsFinite == ASSUME JournalTypeOK PROVE Cardinality(linked) \in Nat
<1>1. IsFiniteSet(1 .. Tasks) BY FS_Interval
<1>2. IsFiniteSet(linked) BY <1>1, FS_Subset DEF JournalTypeOK
<1>3. QED BY <1>2, FS_CardinalityType

LEMMA ImplementAppends == ASSUME JournalTypeOK, Implement PROVE [Record]_journal
<1> USE DEF Append_, Throw, Fault, Boundary
<1>1. CASE Claim BY <1>1 DEF Claim, Record
<1>2. CASE Begin
  <2>1. "implement" \in Phases \ {"none"} /\ 0 \in 0 .. MaxRepairs BY DEF Phases, Roles
  <2>2. PhaseStarted("implement", 0) \/ UNCHANGED journal BY <1>2 DEF Begin
  <2>3. QED BY <2>1, <2>2 DEF Record
<1>3. CASE ReserveWorker
  <2> DEFINE next == Cardinality(Workers) + 1
  <2>1. next \in Nat /\ "implement" \in Roles BY OfIsFinite DEF Workers, Roles
  <2>2. ChildReserved("implement", next) \/ UNCHANGED journal BY <1>3 DEF ReserveWorker
  <2> HIDE DEF next
  <2>3. QED BY <2>1, <2>2 DEF Record
<1>4. CASE RecordWorker
  <2>1. PICK c \in First(Unsettled), result \in Results : ChildFinished(c, result) \/ UNCHANGED journal
    BY <1>4 DEF RecordWorker
  <2>2. c \in children BY DEF First, Unsettled
  <2>3. QED BY <2>1, <2>2 DEF Record
<1>5. CASE LinkWorker
  <2> DEFINE next == Cardinality(linked) + 1
  <2>1. next \in 1 .. Tasks BY <1>5, LinkedIsFinite DEF LinkWorker
  <2>2. WorkerLinked(next) \/ UNCHANGED journal BY <1>5 DEF LinkWorker
  <2> HIDE DEF next
  <2>3. QED BY <2>1, <2>2 DEF Record
<1>6. CASE Stage
  <2>1. "stage" \in Phases \ {"none"} /\ 0 \in 0 .. MaxRepairs BY DEF Phases, Roles
  <2>2. PhaseStarted("stage", 0) \/ UNCHANGED journal BY <1>6 DEF Stage
  <2>3. QED BY <2>1, <2>2 DEF Record
<1>7. CASE WorkersSettle \/ WorkersEnded BY <1>7 DEF WorkersSettle, WorkersEnded
<1>8. QED BY <1>1, <1>2, <1>3, <1>4, <1>5, <1>6, <1>7 DEF Implement

(* What a panel may conclude.                                              *)
LEMMA VerdictChoice == {Verdict} \cup Unbounded \subseteq Verdicts /\ "approved" \notin Unbounded
BY DEF Verdict, Unbounded, Verdicts

LEMMA ReviewAppends ==
  ASSUME JournalTypeOK, opinions \in Seq(Opinions), Review PROVE [Record]_journal
<1> USE DEF Append_, Throw, Fault, Boundary
<1>1. CASE StartReview
  <2>1. "review" \in Phases \ {"none"} /\ round \in 0 .. MaxRepairs BY DEF Phases, Roles, JournalTypeOK
  <2>2. PhaseStarted("review", round) \/ UNCHANGED journal BY <1>1 DEF StartReview
  <2>3. QED BY <2>1, <2>2 DEF Record
<1>2. CASE ReserveReviewer
  <2> DEFINE next == Len(opinions) + 1
  <2>1. next \in Nat /\ "review" \in Roles BY DEF Roles
  <2>2. ChildReserved("review", next) \/ UNCHANGED journal BY <1>2 DEF ReserveReviewer
  <2> HIDE DEF next
  <2>3. QED BY <2>1, <2>2 DEF Record
<1>3. CASE RecordReviewer
  <2>1. PICK c \in Unsettled, result \in Results : ChildFinished(c, result) \/ UNCHANGED journal
    BY <1>3 DEF RecordReviewer
  <2>2. c \in children BY DEF Unsettled
  <2>3. QED BY <2>1, <2>2 DEF Record
<1>4. CASE RecordVerdict
  <2>1. PICK verdict \in Verdicts : ReviewRecorded(verdict) \/ UNCHANGED journal
    BY <1>4, VerdictChoice DEF RecordVerdict
  <2>2. QED BY <2>1 DEF Record
<1>5. CASE StartRepair
  <2>1. PhaseStarted("repair", round + 1) \/ UNCHANGED journal BY <1>5 DEF StartRepair
  <2>2. CASE PhaseStarted("repair", round + 1)
    <3>1. "repair" \in Phases \ {"none"} BY DEF Phases, Roles
    <3>2. round + 1 \in 0 .. MaxRepairs
      BY <2>2 DEF PhaseStarted, MayStartPhase, JournalTypeOK
    <3>3. QED BY <2>2, <3>1, <3>2 DEF Record
  <2>3. QED BY <2>1, <2>2
<1>6. CASE ReserveRepair
  <2>1. "repair" \in Roles /\ 1 \in Nat BY DEF Roles
  <2>2. ChildReserved("repair", 1) \/ UNCHANGED journal BY <1>6 DEF ReserveRepair
  <2>3. QED BY <2>1, <2>2 DEF Record
<1>7. CASE RecordRepair
  <2>1. PICK c \in Unsettled, result \in Results : ChildFinished(c, result) \/ UNCHANGED journal
    BY <1>7 DEF RecordRepair
  <2>2. c \in children BY DEF Unsettled
  <2>3. QED BY <2>1, <2>2 DEF Record
<1>8. CASE RepairChangedNothing BY <1>8 DEF RepairChangedNothing, Record
<1>9. CASE BarReviewer \/ RepairChanged BY <1>9 DEF BarReviewer, RepairChanged
<1>10. QED
  BY <1>1, <1>2, <1>3, <1>4, <1>5, <1>6, <1>7, <1>8, <1>9 DEF Review

LEMMA DeliverAppends == ASSUME JournalTypeOK, Deliver PROVE [Record]_journal
<1> USE DEF Append_, Throw, Fault, Boundary
<1>1. CASE LinkCandidate BY <1>1 DEF LinkCandidate, Record
<1>2. CASE Announce BY <1>2 DEF Announce, Record
<1>3. CASE EnterApply
  <2>1. "apply" \in Phases \ {"none"} /\ round \in 0 .. MaxRepairs BY DEF Phases, JournalTypeOK
  <2>2. PhaseStarted("apply", round) \/ UNCHANGED journal BY <1>3 DEF EnterApply
  <2>3. QED BY <2>1, <2>2 DEF Record
<1>4. CASE RecordPrepared \/ RecordPreparedAborted
  BY <1>4 DEF RecordPrepared, RecordPreparedAborted, Record
<1>5. CASE Commit BY <1>5 DEF Commit, Record
<1>6. CASE Capture \/ BecomeReady \/ PrepareCandidate \/ ApplyCandidate \/ CompleteCandidate \/ Discard
  BY <1>6 DEF Capture, BecomeReady, PrepareCandidate, ApplyCandidate, CompleteCandidate, Discard
<1>7. QED BY <1>1, <1>2, <1>3, <1>4, <1>5, <1>6 DEF Deliver

LEMMA ConcludeAppends == ASSUME Placed, Conclude PROVE [Record]_journal
<1> USE DEF Append_, Throw, Fault, LastAppend
<1>1. CASE EndRun
  <2>1. pc \in Terminal \ {"approved"} BY <1>1 DEF EndRun, Placed, Points, Terminal
  <2>2. Ended(pc) \/ UNCHANGED journal BY <1>1 DEF EndRun
  <2>3. QED BY <2>1, <2>2 DEF Record
<1>2. CASE Catch
  <2>1. "cancelled" \in Terminal \ {"approved"} /\ "failed" \in Terminal \ {"approved"} BY DEF Terminal
  <2>2. \/ ApplyReset \/ RunInterrupted("manual") \/ Ended("cancelled") \/ Ended("failed")
        \/ UNCHANGED journal
    BY <1>2 DEF Catch
  <2>3. QED BY <2>1, <2>2 DEF Record
<1>3. CASE RecordCancel BY <1>3 DEF RecordCancel, Record
<1>4. CASE Finally \/ Release \/ Fail BY <1>4 DEF Finally, Release, Fail
<1>5. QED BY <1>1, <1>2, <1>3, <1>4 DEF Conclude

LEMMA RecoveringAppends == ASSUME Recovering PROVE [Record]_journal
<1> USE DEF Append_, Throw, Fault, LastAppend
<1>1. CASE SettleChild
  <2>1. PICK c \in Unsettled, result \in Results : ChildFinished(c, result) \/ UNCHANGED journal
    BY <1>1 DEF SettleChild
  <2>2. c \in children BY DEF Unsettled
  <2>3. QED BY <2>1, <2>2 DEF Record
<1>2. CASE RecoverSettled BY <1>2 DEF RecoverSettled, Record
<1>3. CASE Reconcile BY <1>3 DEF Reconcile, Record
<1>4. CASE Mark BY <1>4 DEF Mark, Record
<1>5. CASE RecoverTerminal \/ Recover BY <1>5 DEF RecoverTerminal, Recover, Acquire
<1>6. QED BY <1>1, <1>2, <1>3, <1>4, <1>5 DEF Recovering

(* Every step appends one record the reducer accepts, or none.             *)
LEMMA StepAppends ==
  ASSUME JournalTypeOK, Placed, opinions \in Seq(Opinions), [Next]_vars PROVE [Record]_journal
<1>1. CASE UNCHANGED vars BY <1>1 DEF vars
<1>2. CASE Resume \/ Apply \/ Cancel BY <1>2 DEF Resume, Apply, Cancel, Acquire
<1>3. CASE Abort BY <1>3 DEF Abort, Record
<1>4. CASE Edit \/ Crash BY <1>4 DEF Edit, Crash
<1>5. QED
  BY <1>1, <1>2, <1>3, <1>4, ImplementAppends, ReviewAppends, DeliverAppends, ConcludeAppends,
     RecoveringAppends DEF Next

-----------------------------------------------------------------------------
(* Types.                                                                  *)
LEMMA PlacedStep == ASSUME Placed, [Next]_vars PROVE Placed'
<1> USE DEF Placed, Ops, Points, Terminal, Append_, Throw, Fault, Boundary, Handler, Appending
<1>1. CASE UNCHANGED vars BY <1>1 DEF vars, owner
<1>2. CASE Claim \/ Begin \/ ReserveWorker \/ WorkersSettle BY <1>2 DEF Claim, Begin, ReserveWorker, WorkersSettle
<1>3. CASE RecordWorker \/ WorkersEnded \/ LinkWorker \/ Stage
  BY <1>3 DEF RecordWorker, WorkersEnded, LinkWorker, Stage
<1>4. CASE StartReview \/ ReserveReviewer \/ BarReviewer \/ RecordReviewer
  BY <1>4 DEF StartReview, ReserveReviewer, BarReviewer, RecordReviewer
<1>5. CASE RecordVerdict
  <2>1. {Verdict} \cup Unbounded \subseteq Verdicts BY VerdictChoice
  <2>2. QED BY <1>5, <2>1 DEF RecordVerdict, Verdicts
<1>6. CASE StartRepair \/ ReserveRepair \/ RecordRepair \/ RepairChanged \/ RepairChangedNothing
  BY <1>6 DEF StartRepair, ReserveRepair, RecordRepair, RepairChanged, RepairChangedNothing
<1>7. CASE Capture \/ LinkCandidate \/ Announce \/ BecomeReady
  BY <1>7 DEF Capture, LinkCandidate, Announce, BecomeReady
<1>8. CASE PrepareCandidate \/ EnterApply \/ RecordPrepared \/ RecordPreparedAborted
  BY <1>8 DEF PrepareCandidate, EnterApply, RecordPrepared, RecordPreparedAborted
<1>9. CASE ApplyCandidate \/ CompleteCandidate \/ Commit \/ Discard
  BY <1>9 DEF ApplyCandidate, CompleteCandidate, Commit, Discard
<1>10. CASE EndRun \/ Finally \/ Release \/ Fail \/ RecordCancel
  BY <1>10 DEF EndRun, Finally, Release, Fail, RecordCancel, Freed
<1>11. CASE Catch BY <1>11 DEF Catch, LastAppend
<1>12. CASE RecoverTerminal \/ Recover \/ SettleChild BY <1>12 DEF RecoverTerminal, Recover, Acquire, SettleChild, owner
<1>13. CASE RecoverSettled BY <1>13 DEF RecoverSettled
<1>14. CASE Reconcile \/ Mark BY <1>14 DEF Reconcile, Mark, LastAppend
<1>15. CASE Resume \/ Apply \/ Cancel \/ Abort \/ Edit \/ Crash
  BY <1>15 DEF Resume, Apply, Cancel, Acquire, Abort, Edit, Crash, Freed, owner
<1>16. QED
  BY <1>1, <1>2, <1>3, <1>4, <1>5, <1>6, <1>7, <1>8, <1>9, <1>10, <1>11, <1>12, <1>13, <1>14, <1>15
     DEF Next, Implement, Review, Deliver, Conclude, Recovering

OpinionsOK == opinions \in Seq(Opinions)

LEMMA OpinionsStep == ASSUME OpinionsOK, [Next]_vars PROVE OpinionsOK'
<1> USE DEF OpinionsOK
<1>1. CASE BarReviewer
  <2>1. "barred" \in Opinions BY DEF Opinions
  <2>2. QED BY <1>1, <2>1 DEF BarReviewer
<1>2. CASE RecordReviewer
  <2>1. PICK opinion \in {"approve", "changes", "unclear"} : opinions' = Append(opinions, opinion)
    BY <1>2 DEF RecordReviewer
  <2>2. opinion \in Opinions BY DEF Opinions
  <2>3. QED BY <2>1, <2>2
<1>3. CASE StartReview \/ Release \/ Crash
  <2>1. opinions' = <<>> BY <1>3 DEF StartReview, Release, Crash, Freed
  <2>2. QED BY <2>1
<1>4. CASE UNCHANGED opinions BY <1>4
<1>5. QED
  BY <1>1, <1>2, <1>3, <1>4
  DEF Next, Implement, Review, Deliver, Conclude, Recovering, vars, owner, Appending,
    Claim, Begin, ReserveWorker, WorkersSettle, RecordWorker, WorkersEnded, LinkWorker, Stage,
    ReserveReviewer, RecordVerdict, StartRepair, ReserveRepair, RecordRepair, RepairChanged,
    RepairChangedNothing, Capture, LinkCandidate, Announce, BecomeReady, PrepareCandidate, EnterApply,
    RecordPrepared, RecordPreparedAborted, ApplyCandidate, CompleteCandidate, Commit, Discard, EndRun,
    Catch, Finally, Fail, RecordCancel, RecoverTerminal, Recover, SettleChild, RecoverSettled,
    Reconcile, Mark, Resume, Apply, Cancel, Acquire, Abort, Edit

LEMMA OpinionsInit == ASSUME Init PROVE OpinionsOK
BY DEF Init, OpinionsOK

LEMMA PlacedInit == ASSUME Init PROVE Placed
BY DEF Init, Placed, Ops, Points

(* The supervisor and the recovery implement the reducer's state machine:  *)
(* every theorem of TeamRunStateProofs holds of the journals they write.   *)
THEOREM AppendsRecords == Spec => JournalSpec
<1>1. ASSUME Init PROVE JournalInv /\ Placed /\ OpinionsOK /\ Created
  BY <1>1, JournalInvInit, PlacedInit, OpinionsInit DEF Init
<1>2. ASSUME JournalInv, Placed, OpinionsOK, [Next]_vars
      PROVE  [Record]_journal /\ JournalInv' /\ Placed' /\ OpinionsOK'
  <2>1. [Record]_journal BY <1>2, StepAppends DEF JournalInv, OpinionsOK
  <2>2. QED BY <1>2, <2>1, JournalInvStep, PlacedStep, OpinionsStep
<1>3. QED BY <1>1, <1>2, PTL DEF Spec, JournalSpec

-----------------------------------------------------------------------------
ProcessOK ==
  /\ background \in BOOLEAN /\ aborted \in BOOLEAN /\ refused \in BOOLEAN
  /\ artifact \in BOOLEAN /\ doubted \in BOOLEAN

CountersOK == crashes \in Nat /\ faults \in Nat

WorkspaceOK == workspace \in {"base", "candidate", "other"}

CheckpointOK == checkpoint \in {"none", "prepared", "base", "candidate", "other"}

LEMMA ProcessStep == ASSUME ProcessOK, [Next]_vars PROVE ProcessOK'
<1>1. background' = background
  BY DEF Next, Implement, Review, Deliver, Conclude, Recovering, vars, owner, disk, bounds, Appending,
    Append_, Throw, Fault, Boundary, LastAppend, Freed,
    Claim, Begin, ReserveWorker, WorkersSettle, RecordWorker, WorkersEnded, LinkWorker, Stage,
    StartReview, ReserveReviewer, BarReviewer, RecordReviewer, RecordVerdict, StartRepair,
    ReserveRepair, RecordRepair, RepairChanged, RepairChangedNothing, Capture, LinkCandidate,
    Announce, BecomeReady, PrepareCandidate, EnterApply, RecordPrepared, RecordPreparedAborted,
    ApplyCandidate, CompleteCandidate, Commit, Discard, EndRun, Catch, Finally, Release, Fail,
    RecordCancel, RecoverTerminal, Recover, SettleChild, RecoverSettled, Reconcile, Mark,
    Resume, Apply, Cancel, Acquire, Abort, Edit, Crash
<1>2. aborted' = aborted \/ aborted' = TRUE \/ aborted' = FALSE
  BY DEF Next, Implement, Review, Deliver, Conclude, Recovering, vars, owner, disk, bounds, Appending,
    Append_, Throw, Fault, Boundary, LastAppend, Freed,
    Claim, Begin, ReserveWorker, WorkersSettle, RecordWorker, WorkersEnded, LinkWorker, Stage,
    StartReview, ReserveReviewer, BarReviewer, RecordReviewer, RecordVerdict, StartRepair,
    ReserveRepair, RecordRepair, RepairChanged, RepairChangedNothing, Capture, LinkCandidate,
    Announce, BecomeReady, PrepareCandidate, EnterApply, RecordPrepared, RecordPreparedAborted,
    ApplyCandidate, CompleteCandidate, Commit, Discard, EndRun, Catch, Finally, Release, Fail,
    RecordCancel, RecoverTerminal, Recover, SettleChild, RecoverSettled, Reconcile, Mark,
    Resume, Apply, Cancel, Acquire, Abort, Edit, Crash
<1>3. refused' = refused \/ refused' = TRUE \/ refused' = FALSE
  BY DEF Next, Implement, Review, Deliver, Conclude, Recovering, vars, owner, disk, bounds, Appending,
    Append_, Throw, Fault, Boundary, LastAppend, Freed,
    Claim, Begin, ReserveWorker, WorkersSettle, RecordWorker, WorkersEnded, LinkWorker, Stage,
    StartReview, ReserveReviewer, BarReviewer, RecordReviewer, RecordVerdict, StartRepair,
    ReserveRepair, RecordRepair, RepairChanged, RepairChangedNothing, Capture, LinkCandidate,
    Announce, BecomeReady, PrepareCandidate, EnterApply, RecordPrepared, RecordPreparedAborted,
    ApplyCandidate, CompleteCandidate, Commit, Discard, EndRun, Catch, Finally, Release, Fail,
    RecordCancel, RecoverTerminal, Recover, SettleChild, RecoverSettled, Reconcile, Mark,
    Resume, Apply, Cancel, Acquire, Abort, Edit, Crash
<1>4. doubted' = doubted \/ doubted' = TRUE
  BY DEF Next, Implement, Review, Deliver, Conclude, Recovering, vars, owner, disk, bounds, Appending,
    Append_, Throw, Fault, Boundary, LastAppend, Freed,
    Claim, Begin, ReserveWorker, WorkersSettle, RecordWorker, WorkersEnded, LinkWorker, Stage,
    StartReview, ReserveReviewer, BarReviewer, RecordReviewer, RecordVerdict, StartRepair,
    ReserveRepair, RecordRepair, RepairChanged, RepairChangedNothing, Capture, LinkCandidate,
    Announce, BecomeReady, PrepareCandidate, EnterApply, RecordPrepared, RecordPreparedAborted,
    ApplyCandidate, CompleteCandidate, Commit, Discard, EndRun, Catch, Finally, Release, Fail,
    RecordCancel, RecoverTerminal, Recover, SettleChild, RecoverSettled, Reconcile, Mark,
    Resume, Apply, Cancel, Acquire, Abort, Edit, Crash
<1>5. CASE Finally
  <2>1. artifact' = (artifact /\ (op = "apply" \/ (pc = "finally" /\ Retained))) BY <1>5 DEF Finally
  <2>2. artifact' \in BOOLEAN BY <2>1
  <2>3. QED BY <1>1, <1>2, <1>3, <1>4, <2>2 DEF ProcessOK
<1>6. CASE ~Finally
  <2>1. artifact' = artifact \/ artifact' = TRUE \/ artifact' = FALSE
    BY <1>6 DEF Next, Implement, Review, Deliver, Conclude, Recovering, vars, owner, disk, bounds, Appending,
    Append_, Throw, Fault, Boundary, LastAppend, Freed,
    Claim, Begin, ReserveWorker, WorkersSettle, RecordWorker, WorkersEnded, LinkWorker, Stage,
    StartReview, ReserveReviewer, BarReviewer, RecordReviewer, RecordVerdict, StartRepair,
    ReserveRepair, RecordRepair, RepairChanged, RepairChangedNothing, Capture, LinkCandidate,
    Announce, BecomeReady, PrepareCandidate, EnterApply, RecordPrepared, RecordPreparedAborted,
    ApplyCandidate, CompleteCandidate, Commit, Discard, EndRun, Catch, Release, Fail,
    RecordCancel, RecoverTerminal, Recover, SettleChild, RecoverSettled, Reconcile, Mark,
    Resume, Apply, Cancel, Acquire, Abort, Edit, Crash
  <2>2. QED BY <1>1, <1>2, <1>3, <1>4, <2>1 DEF ProcessOK
<1>7. QED BY <1>5, <1>6

LEMMA CountersStep == ASSUME CountersOK, [Next]_vars PROVE CountersOK'
<1>1. crashes' \in {crashes, crashes + 1}
  BY DEF Next, Implement, Review, Deliver, Conclude, Recovering, vars, owner, disk, bounds, Appending,
    Append_, Throw, Fault, Boundary, LastAppend, Freed,
    Claim, Begin, ReserveWorker, WorkersSettle, RecordWorker, WorkersEnded, LinkWorker, Stage,
    StartReview, ReserveReviewer, BarReviewer, RecordReviewer, RecordVerdict, StartRepair,
    ReserveRepair, RecordRepair, RepairChanged, RepairChangedNothing, Capture, LinkCandidate,
    Announce, BecomeReady, PrepareCandidate, EnterApply, RecordPrepared, RecordPreparedAborted,
    ApplyCandidate, CompleteCandidate, Commit, Discard, EndRun, Catch, Finally, Release, Fail,
    RecordCancel, RecoverTerminal, Recover, SettleChild, RecoverSettled, Reconcile, Mark,
    Resume, Apply, Cancel, Acquire, Abort, Edit, Crash
<1>2. faults' \in {faults, faults + 1}
  BY DEF Next, Implement, Review, Deliver, Conclude, Recovering, vars, owner, disk, bounds, Appending,
    Append_, Throw, Fault, Boundary, LastAppend, Freed,
    Claim, Begin, ReserveWorker, WorkersSettle, RecordWorker, WorkersEnded, LinkWorker, Stage,
    StartReview, ReserveReviewer, BarReviewer, RecordReviewer, RecordVerdict, StartRepair,
    ReserveRepair, RecordRepair, RepairChanged, RepairChangedNothing, Capture, LinkCandidate,
    Announce, BecomeReady, PrepareCandidate, EnterApply, RecordPrepared, RecordPreparedAborted,
    ApplyCandidate, CompleteCandidate, Commit, Discard, EndRun, Catch, Finally, Release, Fail,
    RecordCancel, RecoverTerminal, Recover, SettleChild, RecoverSettled, Reconcile, Mark,
    Resume, Apply, Cancel, Acquire, Abort, Edit, Crash
<1>3. QED BY <1>1, <1>2 DEF CountersOK

LEMMA WorkspaceStep == ASSUME WorkspaceOK, [Next]_vars PROVE WorkspaceOK'
BY DEF WorkspaceOK, Next, Implement, Review, Deliver, Conclude, Recovering, vars, owner, disk, bounds, Appending,
    Append_, Throw, Fault, Boundary, LastAppend, Freed,
    Claim, Begin, ReserveWorker, WorkersSettle, RecordWorker, WorkersEnded, LinkWorker, Stage,
    StartReview, ReserveReviewer, BarReviewer, RecordReviewer, RecordVerdict, StartRepair,
    ReserveRepair, RecordRepair, RepairChanged, RepairChangedNothing, Capture, LinkCandidate,
    Announce, BecomeReady, PrepareCandidate, EnterApply, RecordPrepared, RecordPreparedAborted,
    ApplyCandidate, CompleteCandidate, Commit, Discard, EndRun, Catch, Finally, Release, Fail,
    RecordCancel, RecoverTerminal, Recover, SettleChild, RecoverSettled, Reconcile, Mark,
    Resume, Apply, Cancel, Acquire, Abort, Edit, Crash

LEMMA CheckpointStep == ASSUME WorkspaceOK, CheckpointOK, [Next]_vars PROVE CheckpointOK'
BY DEF WorkspaceOK, CheckpointOK, Next, Implement, Review, Deliver, Conclude, Recovering, vars, owner, disk, bounds, Appending,
    Append_, Throw, Fault, Boundary, LastAppend, Freed,
    Claim, Begin, ReserveWorker, WorkersSettle, RecordWorker, WorkersEnded, LinkWorker, Stage,
    StartReview, ReserveReviewer, BarReviewer, RecordReviewer, RecordVerdict, StartRepair,
    ReserveRepair, RecordRepair, RepairChanged, RepairChangedNothing, Capture, LinkCandidate,
    Announce, BecomeReady, PrepareCandidate, EnterApply, RecordPrepared, RecordPreparedAborted,
    ApplyCandidate, CompleteCandidate, Commit, Discard, EndRun, Catch, Finally, Release, Fail,
    RecordCancel, RecoverTerminal, Recover, SettleChild, RecoverSettled, Reconcile, Mark,
    Resume, Apply, Cancel, Acquire, Abort, Edit, Crash

LEMMA ProcessTypeParts ==
  TypeOK <=> /\ JournalTypeOK /\ op \in Ops /\ pc \in Points /\ OpinionsOK
             /\ ProcessOK /\ CountersOK /\ WorkspaceOK /\ CheckpointOK
BY DEF TypeOK, Ops, OpinionsOK, ProcessOK, CountersOK, WorkspaceOK, CheckpointOK

TypeInv ==
  JournalInv /\ Placed /\ OpinionsOK /\ ProcessOK /\ CountersOK /\ WorkspaceOK /\ CheckpointOK

LEMMA TypeInvInit == ASSUME Init PROVE TypeInv
<1>1. JournalInv /\ Placed /\ OpinionsOK
  BY JournalInvInit, PlacedInit, OpinionsInit DEF Init
<1>2. ProcessOK /\ CountersOK /\ WorkspaceOK /\ CheckpointOK
  BY DEF Init, ProcessOK, CountersOK, WorkspaceOK, CheckpointOK
<1>3. QED BY <1>1, <1>2 DEF TypeInv

LEMMA TypeInvStep == ASSUME TypeInv, [Next]_vars PROVE TypeInv' /\ [Record]_journal
<1>1. [Record]_journal BY StepAppends DEF TypeInv, JournalInv, OpinionsOK
<1>2. JournalInv' BY <1>1, JournalInvStep DEF TypeInv
<1>3. Placed' /\ OpinionsOK' BY PlacedStep, OpinionsStep DEF TypeInv
<1>4. ProcessOK' /\ CountersOK' /\ WorkspaceOK' /\ CheckpointOK'
  BY ProcessStep, CountersStep, WorkspaceStep, CheckpointStep DEF TypeInv
<1>5. QED BY <1>1, <1>2, <1>3, <1>4 DEF TypeInv

(* Every variable keeps its type.                                          *)
THEOREM TypeCorrect == Spec => []TypeOK
<1>1. TypeInv => TypeOK BY ProcessTypeParts DEF TypeInv, JournalInv, Placed
<1>2. QED BY <1>1, TypeInvInit, TypeInvStep, PTL DEF Spec

(* A cancelled run is never applied, wherever between the records of an    *)
(* apply the cancellation comes.                                           *)
THEOREM CancellationHolds == Spec => []CancelledNeverApplies
BY AppendsRecords, CancelledStays, PTL

-----------------------------------------------------------------------------
(* The apply.                                                              *)

(* Before the apply a run is not applying; when it is about to prepare one *)
(* it is ready.                                                            *)
Before == {"claim", "begin", "reserve", "work", "link", "review", "panel", "repair", "mend", "mended",
           "capture", "linkCandidate", "announce", "cancelling"} \cup Terminal

Timely ==
  /\ pc \in Before => status # "applying"
  /\ pc \in {"ready", "prepare", "enter"} => status = "ready_to_apply"

LEMMA TimelyInit == ASSUME Init PROVE Timely
BY DEF Init, Created, Timely, Before, Terminal

LEMMA TimelyStep == ASSUME TypeInv, Timely, [Next]_vars PROVE Timely'
<1> USE DEF TypeInv, JournalInv, Placed, Ops, Points, Timely, Before, Terminal, Append_, Throw, Fault,
            Boundary, Handler, Appending
<1>1. CASE UNCHANGED vars BY <1>1 DEF vars, owner, journal
<1>2. CASE Claim BY <1>2 DEF Claim, Claimed, journal
<1>3. CASE Begin BY <1>3 DEF Begin, PhaseStarted, journal
<1>4. CASE ReserveWorker BY <1>4 DEF ReserveWorker, ChildReserved, journal
<1>5. CASE WorkersSettle \/ WorkersEnded BY <1>5 DEF WorkersSettle, WorkersEnded, journal
<1>6. CASE RecordWorker
  <2>1. UNCHANGED status BY <1>6 DEF RecordWorker, ChildFinished, journal
  <2>2. pc' \in {"work", "marking", "drop", "release"} \cup {Handler[op]} BY <1>6 DEF RecordWorker
  <2>3. QED BY <1>6, <2>1, <2>2 DEF RecordWorker
<1>7. CASE LinkWorker BY <1>7 DEF LinkWorker, WorkerLinked, journal
<1>8. CASE Stage \/ StartReview BY <1>8 DEF Stage, StartReview, PhaseStarted, journal
<1>9. CASE ReserveReviewer \/ BarReviewer
  BY <1>9 DEF ReserveReviewer, BarReviewer, ChildReserved, journal
<1>10. CASE RecordReviewer
  <2>1. UNCHANGED status BY <1>10 DEF RecordReviewer, ChildFinished, journal
  <2>2. pc' \in {"panel", "drop", "release"} \cup {Handler[op]} BY <1>10 DEF RecordReviewer
  <2>3. QED BY <1>10, <2>1, <2>2 DEF RecordReviewer
<1>11. CASE RecordVerdict
  <2>1. {Verdict} \cup Unbounded \subseteq Verdicts BY VerdictChoice
  <2>2. UNCHANGED status BY <1>11 DEF RecordVerdict, ReviewRecorded, journal
  <2>3. QED BY <1>11, <2>1, <2>2 DEF RecordVerdict, Verdicts
<1>12. CASE StartRepair BY <1>12 DEF StartRepair, PhaseStarted, journal
<1>13. CASE ReserveRepair BY <1>13 DEF ReserveRepair, ChildReserved, journal
<1>14. CASE RecordRepair
  <2>1. UNCHANGED status BY <1>14 DEF RecordRepair, ChildFinished, journal
  <2>2. pc' \in {"mended", "changes_requested", "catching", "drop", "release"} \cup {Handler[op]}
    BY <1>14 DEF RecordRepair
  <2>3. QED BY <1>14, <2>1, <2>2 DEF RecordRepair
<1>15. CASE RepairChanged \/ RepairChangedNothing
  BY <1>15 DEF RepairChanged, RepairChangedNothing, RepairStalled, journal
<1>16. CASE Capture \/ LinkCandidate BY <1>16 DEF Capture, LinkCandidate, CandidateLinked, journal
<1>17. CASE Announce \/ BecomeReady BY <1>17 DEF Announce, BecomeReady, CandidateReady, journal
<1>18. CASE PrepareCandidate BY <1>18 DEF PrepareCandidate, journal
<1>19. CASE EnterApply \/ RecordPrepared \/ RecordPreparedAborted
  BY <1>19 DEF EnterApply, RecordPrepared, RecordPreparedAborted
<1>20. CASE ApplyCandidate \/ CompleteCandidate \/ Commit \/ Discard
  BY <1>20 DEF ApplyCandidate, CompleteCandidate, Commit, Discard
<1>21. CASE EndRun \/ Finally \/ Release BY <1>21 DEF EndRun, Finally, Release, Freed
<1>22. CASE Fail BY <1>22 DEF Fail, journal
<1>23. CASE RecordCancel
  <2>1. UNCHANGED status BY <1>23 DEF RecordCancel, CancelRequested, journal
  <2>2. op = "cancel" BY <1>23 DEF RecordCancel
  <2>3. QED BY <1>23, <2>1, <2>2 DEF RecordCancel
<1>24. CASE Catch BY <1>24 DEF Catch, LastAppend
<1>25. CASE RecoverTerminal \/ Recover
  BY <1>25 DEF RecoverTerminal, Recover, Acquire, owner, journal
<1>26. CASE SettleChild BY <1>26 DEF SettleChild
<1>27. CASE RecoverSettled BY <1>27 DEF RecoverSettled, Consistent, journal
<1>28. CASE Reconcile \/ Mark BY <1>28 DEF Reconcile, Mark, LastAppend
<1>29. CASE Resume \/ Apply \/ Cancel
  BY <1>29 DEF Resume, MayResume, MayResumeAnyway, Apply, Cancel, Acquire, journal
<1>30. CASE Abort BY <1>30 DEF Abort, CancelRequested, journal
<1>31. CASE Edit \/ Crash BY <1>31 DEF Edit, Crash, Freed, owner, journal
<1>32. QED
  BY <1>1, <1>2, <1>3, <1>4, <1>5, <1>6, <1>7, <1>8, <1>9, <1>10, <1>11, <1>12, <1>13, <1>14, <1>15, <1>16,
     <1>17, <1>18, <1>19, <1>20, <1>21, <1>22, <1>23, <1>24, <1>25, <1>26, <1>27, <1>28, <1>29, <1>30, <1>31
     DEF Next, Implement, Review, Deliver, Conclude, Recovering

(* Where a run becomes ready or approved and where an apply is prepared.   *)
Moves ==
  /\ status' = "approved" => status = "approved" \/ pc = "commit"
  /\ status' = "ready_to_apply" /\ status # "ready_to_apply" =>
       \/ pc = "announce"
       \/ pc = "catching" /\ status = "applying"
       \/ pc = "reconcile" /\ artifact /\ status \in {"applying", "interrupted"}
  /\ apply' = "prepared" => apply = "prepared" \/ pc = "intend"

LEMMA StepMoves == ASSUME TypeInv, [Next]_vars PROVE Moves
<1> USE DEF Moves, Append_, Throw, Fault, Boundary
<1>1. CASE UNCHANGED <<status, apply>> BY <1>1
<1>2. CASE Implement \/ Review
  <2>1. \/ UNCHANGED <<status, apply>>
        \/ \E p \in {"implement", "stage", "review", "repair"}, r \in Int : PhaseStarted(p, r)
    <3>1. CASE Claim BY <3>1 DEF Claim, Claimed, journal
    <3>2. CASE Begin BY <3>2 DEF Begin, journal
    <3>3. CASE ReserveWorker BY <3>3 DEF ReserveWorker, ChildReserved, journal
    <3>4. CASE WorkersSettle \/ WorkersEnded \/ LinkWorker
      BY <3>4 DEF WorkersSettle, WorkersEnded, LinkWorker, WorkerLinked, journal
    <3>5. CASE RecordWorker BY <3>5 DEF RecordWorker, ChildFinished, journal
    <3>6. CASE Stage BY <3>6 DEF Stage, journal
    <3>7. CASE StartReview \/ StartRepair
      <4>1. round \in Int /\ round + 1 \in Int BY DEF TypeInv, JournalInv, JournalTypeOK
      <4>2. QED BY <3>7, <4>1 DEF StartReview, StartRepair, journal
    <3>8. CASE ReserveReviewer \/ ReserveRepair \/ BarReviewer
      BY <3>8 DEF ReserveReviewer, ReserveRepair, BarReviewer, ChildReserved, journal
    <3>9. CASE RecordReviewer BY <3>9 DEF RecordReviewer, ChildFinished, journal
    <3>10. CASE RecordVerdict BY <3>10 DEF RecordVerdict, ReviewRecorded, journal
    <3>11. CASE RecordRepair BY <3>11 DEF RecordRepair, ChildFinished, journal
    <3>12. CASE RepairChanged \/ RepairChangedNothing
      BY <3>12 DEF RepairChanged, RepairChangedNothing, RepairStalled, journal
    <3>13. QED
      BY <1>2, <3>1, <3>2, <3>3, <3>4, <3>5, <3>6, <3>7, <3>8, <3>9, <3>10, <3>11, <3>12
         DEF Implement, Review
  <2>2. QED BY <2>1, <1>1 DEF PhaseStarted
<1>3. CASE Announce BY <1>3 DEF Announce, CandidateReady, journal
<1>4. CASE EnterApply BY <1>4 DEF EnterApply, PhaseStarted, journal
<1>5. CASE RecordPrepared \/ RecordPreparedAborted
  BY <1>5 DEF RecordPrepared, RecordPreparedAborted, ApplyPrepared, ApplyRecord, journal
<1>6. CASE Commit BY <1>6 DEF Commit, ApplyCommitted, ApplyRecord, journal
<1>7. CASE LinkCandidate BY <1>7 DEF LinkCandidate, CandidateLinked, journal
<1>8. CASE Capture \/ BecomeReady \/ PrepareCandidate \/ ApplyCandidate \/ CompleteCandidate \/ Discard
  BY <1>8 DEF Capture, BecomeReady, PrepareCandidate, ApplyCandidate, CompleteCandidate, Discard, journal
<1>9. CASE EndRun
  <2>1. pc \in Terminal \ {"approved"} BY <1>9 DEF EndRun, TypeInv, Placed, Points, Terminal
  <2>2. QED BY <1>9, <2>1 DEF EndRun, Ended, ApplyRecord, Terminal, journal
<1>10. CASE Catch BY <1>10 DEF Catch, LastAppend, ApplyReset, RunInterrupted, Ended, ApplyRecord, journal
<1>11. CASE Finally \/ Release \/ Fail \/ RecordCancel \/ Abort
  BY <1>11 DEF Finally, Release, Fail, RecordCancel, Abort, CancelRequested, journal
<1>12. CASE RecoverTerminal \/ Recover \/ Resume \/ Apply \/ Cancel \/ Edit \/ Crash
  BY <1>12 DEF RecoverTerminal, Recover, Resume, Apply, Cancel, Acquire, Edit, Crash, journal
<1>13. CASE SettleChild BY <1>13 DEF SettleChild, ChildFinished, journal
<1>14. CASE RecoverSettled BY <1>14 DEF RecoverSettled, RunInterrupted, ApplyRecord, journal
<1>15. CASE Reconcile BY <1>15 DEF Reconcile, ApplyReset, MayReset, RunInterrupted, ApplyRecord, journal
<1>16. CASE Mark BY <1>16 DEF Mark, LastAppend, RunInterrupted, ApplyRecord, journal
<1>17. QED
  BY <1>1, <1>2, <1>3, <1>4, <1>5, <1>6, <1>7, <1>8, <1>9, <1>10, <1>11, <1>12, <1>13, <1>14, <1>15, <1>16
     DEF Next, Deliver, Conclude, Recovering, vars, journal

Exact ==
  /\ pc = "commit" => checkpoint = "candidate"
  /\ status = "approved" => checkpoint = "candidate"

LEMMA ExactStep == ASSUME TypeInv, Timely, Exact, [Next]_vars PROVE Exact'
<1>1. status' = "approved" => status = "approved" \/ pc = "commit" BY StepMoves DEF Moves
<1>2. CASE PrepareCandidate
  <2>1. status = "ready_to_apply" BY <1>2 DEF PrepareCandidate, Timely
  <2>2. pc' # "commit" BY <1>2 DEF PrepareCandidate, Throw, Handler, TypeInv, Placed, Ops
  <2>3. QED BY <1>1, <1>2, <2>1, <2>2 DEF PrepareCandidate, Exact
<1>3. CASE CompleteCandidate
  <2>1. pc' = "commit" => checkpoint' = "candidate"
    BY <1>3 DEF CompleteCandidate, Throw, Handler, TypeInv, Placed, Ops
  <2>2. checkpoint = "candidate" => checkpoint' = "candidate" BY <1>3 DEF CompleteCandidate
  <2>3. pc # "commit" BY <1>3 DEF CompleteCandidate
  <2>4. QED BY <1>1, <2>1, <2>2, <2>3 DEF Exact
<1>4. CASE UNCHANGED checkpoint /\ (pc' = "commit" => pc = "commit") BY <1>1, <1>4 DEF Exact
<1>5. ASSUME ~PrepareCandidate, ~CompleteCandidate PROVE UNCHANGED checkpoint
  BY <1>5 DEF Next, Implement, Review, Deliver, Conclude, Recovering, vars, owner, disk, bounds, Appending,
    Append_, Throw, Fault, Boundary, LastAppend, Freed,
    Claim, Begin, ReserveWorker, WorkersSettle, RecordWorker, WorkersEnded, LinkWorker, Stage,
    StartReview, ReserveReviewer, BarReviewer, RecordReviewer, RecordVerdict, StartRepair,
    ReserveRepair, RecordRepair, RepairChanged, RepairChangedNothing, Capture, LinkCandidate,
    Announce, BecomeReady, EnterApply, RecordPrepared, RecordPreparedAborted,
    ApplyCandidate, Commit, Discard, EndRun, Catch, Finally, Release, Fail,
    RecordCancel, RecoverTerminal, Recover, SettleChild, RecoverSettled, Reconcile, Mark,
    Resume, Apply, Cancel, Acquire, Abort, Edit, Crash
<1>6. ASSUME ~PrepareCandidate, ~CompleteCandidate, pc' = "commit" PROVE pc = "commit"
  <2> USE DEF Append_, Throw, Fault, Boundary, Handler, TypeInv, Placed, Ops, Points, Terminal
  <2>1. CASE RecordVerdict
    <3>1. {Verdict} \cup Unbounded \subseteq Verdicts BY VerdictChoice
    <3>2. QED BY <1>6, <2>1, <3>1 DEF RecordVerdict, Verdicts
  <2>2. CASE Implement
    BY <1>6, <2>2 DEF Implement, Claim, Begin, ReserveWorker, WorkersSettle, RecordWorker, WorkersEnded,
      LinkWorker, Stage
  <2>3. CASE Review /\ ~RecordVerdict
    BY <1>6, <2>3 DEF Review, StartReview, ReserveReviewer, BarReviewer, RecordReviewer, StartRepair,
      ReserveRepair, RecordRepair, RepairChanged, RepairChangedNothing
  <2>4. CASE Deliver
    BY <1>6, <2>4 DEF Deliver, Capture, LinkCandidate, Announce, BecomeReady, EnterApply, RecordPrepared,
      RecordPreparedAborted, ApplyCandidate, Commit, Discard
  <2>5. CASE Conclude
    BY <1>6, <2>5 DEF Conclude, EndRun, Catch, LastAppend, Finally, Release, Freed, Fail, RecordCancel
  <2>6. CASE Recovering
    BY <1>6, <2>6 DEF Recovering, RecoverTerminal, Recover, Acquire, SettleChild, RecoverSettled,
      Reconcile, Mark, LastAppend, owner
  <2>7. CASE Resume \/ Apply \/ Cancel \/ Abort \/ Edit \/ Crash \/ UNCHANGED vars
    BY <1>6, <2>7 DEF Resume, Apply, Cancel, Acquire, Abort, Edit, Crash, Freed, owner, vars
  <2>8. QED BY <2>1, <2>2, <2>3, <2>4, <2>5, <2>6, <2>7 DEF Next
<1>7. QED BY <1>2, <1>3, <1>4, <1>5, <1>6

(* A run is approved only with exactly the candidate in its checkpoint.    *)
THEOREM ApprovalsAreExact == Spec => []ApprovedIsExact
<1>1. Init => Exact BY DEF Init, Created, Exact
<1>2. Exact => ApprovedIsExact BY DEF Exact, ApprovedIsExact
<1>3. QED BY <1>1, <1>2, TypeInvInit, TypeInvStep, TimelyInit, TimelyStep, ExactStep, PTL DEF Spec

-----------------------------------------------------------------------------
(* The stored patch of the candidate.                                      *)
Stored == {"linkCandidate", "announce", "ready", "enter", "intend", "mutate", "complete", "commit"}

Kept ==
  /\ pc \in Stored => artifact
  /\ pc = "drop" => doubted
  /\ pc = "discard" => status # "ready_to_apply" /\ apply # "prepared"
  /\ pc = "catching" /\ status = "applying" => artifact
  /\ ReadyCandidateKept

(* Where the patch may go: at the end of a run, or when it has ended.      *)
LEMMA ArtifactMoves ==
  ASSUME TypeInv, [Next]_vars, artifact, ~artifact'
  PROVE  /\ UNCHANGED <<status, apply, doubted>>
         /\ pc' \in {"release", "free"}
         /\ \/ pc \in {"discard", "drop"}
            \/ pc = "finally" /\ ~Retained
            \/ ~Mutable
<1>1. CASE Discard BY <1>1 DEF Discard, bounds, journal
<1>2. CASE Finally
  <2>1. /\ UNCHANGED <<status, apply, doubted>>
        /\ pc' = "release" /\ pc \in {"finally", "drop"}
    BY <1>2 DEF Finally, bounds, journal
  <2>2. artifact' = (artifact /\ (op = "apply" \/ (pc = "finally" /\ Retained)))
    BY <1>2 DEF Finally
  <2>3. ~(pc = "finally" /\ Retained) BY <2>2, Zenon
  <2>4. pc = "drop" \/ (pc = "finally" /\ ~Retained) BY <2>1, <2>3
  <2>5. QED BY <2>1, <2>4
<1>3. CASE RecoverTerminal BY <1>3 DEF RecoverTerminal, bounds, journal, owner, TypeInv, Placed
<1>4. ASSUME ~Discard, ~Finally, ~RecoverTerminal PROVE artifact' = artifact \/ artifact' = TRUE
  BY <1>4 DEF Next, Implement, Review, Deliver, Conclude, Recovering, vars, owner, disk, bounds, Appending,
    Append_, Throw, Fault, Boundary, LastAppend, Freed,
    Claim, Begin, ReserveWorker, WorkersSettle, RecordWorker, WorkersEnded, LinkWorker, Stage,
    StartReview, ReserveReviewer, BarReviewer, RecordReviewer, RecordVerdict, StartRepair,
    ReserveRepair, RecordRepair, RepairChanged, RepairChangedNothing, Capture, LinkCandidate,
    Announce, BecomeReady, PrepareCandidate, EnterApply, RecordPrepared, RecordPreparedAborted,
    ApplyCandidate, CompleteCandidate, Commit, EndRun, Catch, Release, Fail,
    RecordCancel, Recover, SettleChild, RecoverSettled, Reconcile, Mark,
    Resume, Apply, Cancel, Acquire, Abort, Edit, Crash
<1>5. QED BY <1>1, <1>2, <1>3, <1>4

LEMMA DoubtsStay == ASSUME [Next]_vars, doubted PROVE doubted'
BY DEF Next, Implement, Review, Deliver, Conclude, Recovering, vars, owner, disk, bounds, Appending,
    Append_, Throw, Fault, Boundary, LastAppend, Freed,
    Claim, Begin, ReserveWorker, WorkersSettle, RecordWorker, WorkersEnded, LinkWorker, Stage,
    StartReview, ReserveReviewer, BarReviewer, RecordReviewer, RecordVerdict, StartRepair,
    ReserveRepair, RecordRepair, RepairChanged, RepairChangedNothing, Capture, LinkCandidate,
    Announce, BecomeReady, PrepareCandidate, EnterApply, RecordPrepared, RecordPreparedAborted,
    ApplyCandidate, CompleteCandidate, Commit, EndRun, Catch, Release, Fail,
    RecordCancel, Recover, SettleChild, RecoverSettled, Reconcile, Mark,
    Resume, Apply, Cancel, Acquire, Abort, Edit, Crash, Discard, Finally, RecoverTerminal

(* How the places Kept speaks of are reached.                              *)
Reached ==
  /\ pc' \in Stored => (pc \in Stored \/ artifact \/ artifact')
  /\ pc' = "drop" => doubted' \/ pc = "drop"
  /\ pc' = "discard" => pc = "discard" \/ (status' # "ready_to_apply" /\ apply' # "prepared")
  /\ pc' = "discard" /\ pc = "discard" => UNCHANGED <<status, apply>>
  /\ pc' = "catching" =>
       UNCHANGED status /\ pc \in Before \cup Stored \cup {"prepare", "catching"}

LEMMA StepReached == ASSUME TypeInv, [Next]_vars PROVE Reached
<1> USE DEF Reached, Stored, Before, Append_, Throw, Fault, Boundary, Handler, Appending, TypeInv,
            Placed, Ops, Points, Terminal
<1>1. CASE UNCHANGED vars \/ Edit \/ Crash \/ Abort
  BY <1>1 DEF vars, owner, journal, Edit, Crash, Freed, Abort, CancelRequested
<1>2. CASE Claim \/ Begin \/ ReserveWorker \/ WorkersSettle \/ WorkersEnded \/ LinkWorker \/ Stage
  BY <1>2 DEF Claim, Begin, ReserveWorker, WorkersSettle, WorkersEnded, LinkWorker, Stage, journal
<1>3. CASE RecordWorker
  <2>1. UNCHANGED status BY <1>3 DEF RecordWorker, ChildFinished, journal
  <2>2. QED BY <1>3, <2>1 DEF RecordWorker
<1>4. CASE StartReview \/ ReserveReviewer \/ BarReviewer
  BY <1>4 DEF StartReview, ReserveReviewer, BarReviewer, journal
<1>5. CASE RecordReviewer
  <2>1. UNCHANGED status BY <1>5 DEF RecordReviewer, ChildFinished, journal
  <2>2. QED BY <1>5, <2>1 DEF RecordReviewer
<1>6. CASE RecordVerdict
  <2>1. {Verdict} \cup Unbounded \subseteq Verdicts BY VerdictChoice
  <2>2. UNCHANGED status BY <1>6 DEF RecordVerdict, ReviewRecorded, journal
  <2>3. QED BY <1>6, <2>1, <2>2 DEF RecordVerdict, Verdicts
<1>7. CASE StartRepair \/ ReserveRepair \/ RepairChanged \/ RepairChangedNothing
  BY <1>7 DEF StartRepair, ReserveRepair, RepairChanged, RepairChangedNothing, journal
<1>8. CASE RecordRepair
  <2>1. UNCHANGED status BY <1>8 DEF RecordRepair, ChildFinished, journal
  <2>2. QED BY <1>8, <2>1 DEF RecordRepair
<1>9. CASE Capture \/ LinkCandidate \/ Announce \/ BecomeReady
  BY <1>9 DEF Capture, LinkCandidate, Announce, BecomeReady, journal
<1>10. CASE PrepareCandidate \/ EnterApply \/ RecordPrepared \/ RecordPreparedAborted
  BY <1>10 DEF PrepareCandidate, EnterApply, RecordPrepared, RecordPreparedAborted, journal
<1>11. CASE ApplyCandidate \/ CompleteCandidate \/ Discard
  BY <1>11 DEF ApplyCandidate, CompleteCandidate, Discard, journal
<1>12. CASE Commit BY <1>12 DEF Commit, ApplyCommitted, ApplyRecord, journal
<1>13. CASE EndRun
  <2>1. pc' = "discard" => Ended(pc) BY <1>13 DEF EndRun
  <2>2. Ended(pc) => status' \in Terminal /\ apply' # "prepared" BY <1>13 DEF EndRun, Ended, MayEnd, ApplyRecord
  <2>3. pc' = "catching" => UNCHANGED status BY <1>13 DEF EndRun, journal
  <2>4. pc' \in {"finally", "discard", "catching", "marking", "drop", "release"} BY <1>13 DEF EndRun
  <2>5. pc' = "drop" => doubted' BY <1>13 DEF EndRun
  <2>6. QED BY <1>13, <2>1, <2>2, <2>3, <2>4, <2>5 DEF EndRun
<1>14. CASE Catch BY <1>14 DEF Catch, LastAppend
<1>15. CASE Finally \/ Release \/ Fail \/ RecordCancel
  BY <1>15 DEF Finally, Release, Freed, Fail, RecordCancel, journal
<1>16. CASE RecoverTerminal \/ Recover \/ SettleChild
  BY <1>16 DEF RecoverTerminal, Recover, Acquire, SettleChild, owner
<1>17. CASE RecoverSettled
  BY <1>17 DEF RecoverSettled, RunInterrupted, MayInterrupt, ApplyRecord, JournalInv, Consistent, journal
<1>18. CASE Reconcile \/ Mark BY <1>18 DEF Reconcile, Mark, LastAppend
<1>19. CASE Resume \/ Apply \/ Cancel
  BY <1>19 DEF Resume, Apply, Cancel, Acquire
<1>20. QED
  BY <1>1, <1>2, <1>3, <1>4, <1>5, <1>6, <1>7, <1>8, <1>9, <1>10, <1>11, <1>12, <1>13, <1>14, <1>15, <1>16,
     <1>17, <1>18, <1>19 DEF Next, Implement, Review, Deliver, Conclude, Recovering

LEMMA KeptStep == ASSUME TypeInv, Timely, Kept, [Next]_vars PROVE Kept'
<1>1. Reached /\ Moves BY StepReached, StepMoves
<1>2. pc' \in Stored => artifact'
  <2>1. pc' \in Stored => artifact \/ artifact' BY <1>1 DEF Reached, Kept
  <2>2. QED BY <2>1, ArtifactMoves DEF Stored
<1>3. pc' = "drop" => doubted' BY <1>1, DoubtsStay DEF Reached, Kept
<1>4. pc' = "discard" => status' # "ready_to_apply" /\ apply' # "prepared" BY <1>1 DEF Reached, Kept
<1>5. pc' = "catching" /\ status' = "applying" => artifact'
  <2>1. pc' = "catching" /\ status' = "applying" => artifact
    BY <1>1 DEF Reached, Kept, Timely, Before, Stored
  <2>2. QED BY <2>1, ArtifactMoves
<1>6. ReadyCandidateKept'
  <2>1. SUFFICES ASSUME status' = "ready_to_apply" \/ apply' = "prepared", ~doubted' PROVE artifact'
    BY DEF ReadyCandidateKept
  <2>2. ~doubted BY <2>1, DoubtsStay
  <2>3. artifact BY <1>1, <2>1, <2>2 DEF Moves, Kept, ReadyCandidateKept, Stored
  <2>4. ASSUME ~artifact' PROVE FALSE
    <3>1. /\ UNCHANGED <<status, apply, doubted>>
          /\ \/ pc \in {"discard", "drop"}
             \/ pc = "finally" /\ ~Retained
             \/ ~Mutable
      BY <2>3, <2>4, ArtifactMoves
    <3>2. ~Mutable BY <2>1, <2>2, <3>1 DEF Kept, Retained
    <3>3. QED BY <2>1, <3>1, <3>2 DEF Mutable, Terminal, TypeInv, JournalInv, Consistent
  <2>5. QED BY <2>4
<1>7. QED BY <1>2, <1>3, <1>4, <1>5, <1>6 DEF Kept

(* Nobody discards the patch a journal still offers to apply.              *)
THEOREM CandidatesAreKept == Spec => []ReadyCandidateKept
<1>1. Init => Kept BY DEF Init, Created, Kept, Stored, ReadyCandidateKept
<1>2. Kept => ReadyCandidateKept BY DEF Kept
<1>3. QED BY <1>1, <1>2, TypeInvInit, TypeInvStep, TimelyInit, TimelyStep, KeptStep, PTL DEF Spec

-----------------------------------------------------------------------------
(* The opinions of the panel.                                              *)
Approving == {"capture", "linkCandidate", "announce", "ready", "prepare", "enter", "intend", "mutate"}

Unanimous == op = "run" /\ pc \in Approving => Held = {"approve"}

LEMMA ApprovedByAll ==
  ASSUME opinions \in Seq(Opinions), ~Wanted, Verdict = "approved" PROVE Held = {"approve"}
<1>1. Held \cap {"unclear", "barred"} = {} BY DEF Verdict
<1>2. "changes" \notin Held BY <1>1 DEF Verdict
<1>3. Held \subseteq Opinions BY DEF Held
<1>4. Held \subseteq {"approve"} BY <1>1, <1>2, <1>3 DEF Opinions
<1>5. Len(opinions) >= FirstReviewers /\ Len(opinions) \in Nat /\ FirstReviewers \in Nat \ {0}
  BY <1>1, TeamAssumption, PanelAssumption DEF Wanted
<1>6. 1 \in DOMAIN opinions BY <1>5
<1>7. opinions[1] \in Held BY <1>6 DEF Held
<1>8. QED BY <1>4, <1>7

LEMMA UnanimousStep == ASSUME TypeInv, Unanimous, [Next]_vars PROVE Unanimous'
<1> SUFFICES ASSUME op' = "run", pc' \in Approving PROVE Held' = {"approve"} BY DEF Unanimous
<1> USE DEF Append_, Throw, Fault, Boundary, Handler, TypeInv, Placed, Ops, Points, Terminal, Approving,
            Appending
<1>1. CASE RecordVerdict
  <2>1. {Verdict} \cup Unbounded \subseteq Verdicts BY VerdictChoice
  <2>2. ~Wanted /\ UNCHANGED opinions BY <1>1 DEF RecordVerdict
  <2>3. Verdict = "approved" BY <1>1, <2>1 DEF RecordVerdict, Verdicts, Unbounded
  <2>4. Held = {"approve"} BY <2>2, <2>3, ApprovedByAll DEF OpinionsOK
  <2>5. QED BY <2>2, <2>4 DEF Held
<1>2. ASSUME ~RecordVerdict PROVE op = "run" /\ pc \in Approving /\ UNCHANGED opinions
  <2>1. CASE Implement
    BY <2>1 DEF Implement, Claim, Begin, ReserveWorker, WorkersSettle, RecordWorker, WorkersEnded,
      LinkWorker, Stage
  <2>2. CASE Review
    BY <1>2, <2>2 DEF Review, StartReview, ReserveReviewer, BarReviewer, RecordReviewer, StartRepair,
      ReserveRepair, RecordRepair, RepairChanged, RepairChangedNothing
  <2>3. CASE Deliver
    BY <2>3 DEF Deliver, Capture, LinkCandidate, Announce, BecomeReady, PrepareCandidate, EnterApply,
      RecordPrepared, RecordPreparedAborted, ApplyCandidate, CompleteCandidate, Commit, Discard
  <2>4. CASE Conclude
    BY <2>4 DEF Conclude, EndRun, Catch, LastAppend, Finally, Release, Freed, Fail, RecordCancel
  <2>5. CASE Recovering
    BY <2>5 DEF Recovering, RecoverTerminal, Recover, Acquire, SettleChild, RecoverSettled,
      Reconcile, Mark, LastAppend, owner
  <2>6. CASE Resume \/ Apply \/ Cancel \/ Abort \/ Edit \/ Crash \/ UNCHANGED vars
    BY <2>6 DEF Resume, Apply, Cancel, Acquire, Abort, Edit, Crash, Freed, owner, vars
  <2>7. QED BY <2>1, <2>2, <2>3, <2>4, <2>5, <2>6 DEF Next
<1>3. QED BY <1>1, <1>2 DEF Unanimous, Held

(* Whoever reviewed the work of the run that goes on with it approved it.  *)
THEOREM ApprovalsAreUnanimous == Spec => []ApprovalIsUnanimous
<1>1. Init => Unanimous BY DEF Init, Unanimous, Approving
<1>2. Unanimous => ApprovalIsUnanimous BY DEF Unanimous, Approving, ApprovalIsUnanimous
<1>3. QED BY <1>1, <1>2, TypeInvInit, TypeInvStep, UnanimousStep, PTL DEF Spec

-----------------------------------------------------------------------------
(* What was reviewed: the review stands and the work is linked.            *)
Standing ==
  /\ review = [round |-> round, verdict |-> "approved"]
  /\ Cardinality(Of("review", round)) >= InitialReviewers
  /\ AllCompleted(Of("review", round))
  /\ linked = 1 .. Tasks

(* An interrupted apply waits for a person and is never claimed again.     *)
Applying == status = "interrupted" /\ phase = "apply"

Offered ==
  /\ Applying => interruption = "manual"
  /\ status \in {"ready_to_apply", "applying", "approved"} \/ Applying => Standing

(* A child that ends late is none of the reviewers the verdict counts.     *)
LEMMA LateChildren ==
  ASSUME Standing, children \subseteq Child, NEW c \in children, NEW result \in Results, ChildFinished(c, result)
  PROVE  Standing'
<1>1. c.result = "none" /\ c \in Child BY DEF ChildFinished
<1>2. c \notin Of("review", round) BY <1>1 DEF Standing, AllCompleted
<1>3. ~(c.role = "review" /\ c.round = round) BY <1>2 DEF Of
<1>4. LET d == [c EXCEPT !.result = result] IN d.role = c.role /\ d.round = c.round
  BY <1>1 DEF Child
<1>5. children' = (children \ {c}) \cup {[c EXCEPT !.result = result]} /\ UNCHANGED <<round, review, linked>>
  BY DEF ChildFinished
<1>6. Of("review", round)' = Of("review", round)
  <2>1. \A d : d \in children' /\ d.role = "review" /\ d.round = round <=>
               d \in children /\ d.role = "review" /\ d.round = round
    BY <1>3, <1>4, <1>5
  <2>2. QED BY <2>1, <1>5 DEF Of
<1>7. QED BY <1>5, <1>6 DEF Standing, AllCompleted

LEMMA OfferedStep ==
  ASSUME JournalTypeOK, Consistent, Offered, [Record]_journal,
         status = "running" /\ status' = "ready_to_apply" => Standing,
         status = "applying" /\ status' = "interrupted" => interruption' = "manual"
  PROVE  Offered'
<1> USE DEF JournalTypeOK, Consistent, Offered, Applying, Mutable, Running, Terminal
<1>1. CASE UNCHANGED journal BY <1>1 DEF journal, work, Standing, Of, AllCompleted
<1>2. CASE Claimed BY <1>2 DEF Claimed, MayClaim
<1>3. CASE \E p \in Phases \ {"none"}, r \in 0 .. MaxRepairs : PhaseStarted(p, r)
  <2>1. PICK p \in Phases \ {"none"}, r \in 0 .. MaxRepairs : PhaseStarted(p, r) BY <1>3
  <2>2. CASE p = "apply"
    <3>1. Standing /\ UNCHANGED <<round, children, linked, review>>
      BY <2>1, <2>2 DEF PhaseStarted, MayStartPhase
    <3>2. Standing' BY <3>1 DEF Standing, Of, AllCompleted
    <3>3. QED BY <2>1, <2>2, <3>2 DEF PhaseStarted
  <2>3. QED BY <2>1, <2>2 DEF PhaseStarted
<1>4. CASE \E role \in Roles, index \in Nat : ChildReserved(role, index)
  BY <1>4 DEF ChildReserved, MayReserve
<1>5. CASE \E child \in children, result \in Results : ChildFinished(child, result)
  <2>1. PICK child \in children, result \in Results : ChildFinished(child, result) BY <1>5
  <2>2. Standing => Standing' BY <2>1, LateChildren
  <2>3. UNCHANGED <<status, phase, interruption>> BY <2>1 DEF ChildFinished
  <2>4. QED BY <2>2, <2>3
<1>6. CASE \/ \E index \in 1 .. Tasks : WorkerLinked(index)
           \/ \E verdict \in Verdicts : ReviewRecorded(verdict)
           \/ CandidateLinked \/ RepairStalled
  BY <1>6 DEF WorkerLinked, ReviewRecorded, MayReview, CandidateLinked, RepairStalled
<1>7. CASE CandidateReady \/ CancelRequested \/ ApplyPrepared \/ ApplyReset \/ ApplyCommitted
  <2>1. UNCHANGED <<round, children, linked, review, phase>>
    BY <1>7 DEF CandidateReady, CancelRequested, ApplyPrepared, ApplyReset, ApplyCommitted, ApplyRecord
  <2>2. Standing => Standing' BY <2>1 DEF Standing, Of, AllCompleted
  <2>3. QED
    BY <1>7, <2>1, <2>2 DEF CandidateReady, MayBeReady, CancelRequested, ApplyPrepared, MayPrepare,
      ApplyReset, MayReset, ApplyCommitted, MayCommit, ApplyRecord
<1>8. CASE \E how \in {"resumable", "manual"} : RunInterrupted(how)
  <2>1. UNCHANGED <<round, children, linked, review, phase>> BY <1>8 DEF RunInterrupted, ApplyRecord
  <2>2. Standing => Standing' BY <2>1 DEF Standing, Of, AllCompleted
  <2>3. status' = "interrupted" /\ status \in {"created", "running", "applying"}
    BY <1>8 DEF RunInterrupted, MayInterrupt, ApplyRecord, Statuses
  <2>4. QED BY <2>1, <2>2, <2>3
<1>9. CASE \E how \in Terminal \ {"approved"} : Ended(how) BY <1>9 DEF Ended, ApplyRecord
<1>10. QED BY <1>1, <1>2, <1>3, <1>4, <1>5, <1>6, <1>7, <1>8, <1>9 DEF Record

(* Where the work of every task is linked, and where it stands approved.   *)
Linking == {"review", "panel", "repair", "mend", "mended"}
Delivering == {"capture", "linkCandidate", "announce"}

Reviewed ==
  /\ Offered
  /\ pc \in Linking => linked = 1 .. Tasks
  /\ pc \in Delivering => Standing

LEMMA StepInterrupts ==
  ASSUME TypeInv, [Next]_vars, status = "applying", status' = "interrupted"
  PROVE  interruption' = "manual"
<1> USE DEF Append_, Throw, Fault, Boundary
<1>1. CASE UNCHANGED status BY <1>1
<1>2. CASE Implement \/ Review
  BY <1>2 DEF Implement, Review, journal, Claim, Begin, ReserveWorker, WorkersSettle, RecordWorker,
    WorkersEnded, LinkWorker, Stage, StartReview, ReserveReviewer, BarReviewer, RecordReviewer,
    RecordVerdict, StartRepair, ReserveRepair, RecordRepair, RepairChanged, RepairChangedNothing,
    Claimed, PhaseStarted, ChildReserved, ChildFinished, WorkerLinked, ReviewRecorded, RepairStalled
<1>3. CASE Deliver
  BY <1>3 DEF Deliver, journal, Capture, LinkCandidate, Announce, BecomeReady, PrepareCandidate,
    EnterApply, RecordPrepared, RecordPreparedAborted, ApplyCandidate, CompleteCandidate, Commit, Discard,
    CandidateLinked, CandidateReady, PhaseStarted, ApplyPrepared, ApplyCommitted, ApplyRecord
<1>4. CASE EndRun
  <2>1. pc \in Terminal \ {"approved"} BY <1>4 DEF EndRun, TypeInv, Placed, Points, Terminal
  <2>2. QED BY <1>4, <2>1 DEF EndRun, Ended, ApplyRecord, Terminal, journal
<1>5. CASE Catch BY <1>5 DEF Catch, LastAppend, ApplyReset, RunInterrupted, Ended, ApplyRecord, journal
<1>6. CASE Finally \/ Release \/ Fail \/ RecordCancel \/ Abort
  BY <1>6 DEF Finally, Release, Fail, RecordCancel, Abort, CancelRequested, journal
<1>7. CASE RecoverTerminal \/ Recover \/ Resume \/ Apply \/ Cancel \/ Edit \/ Crash
  BY <1>7 DEF RecoverTerminal, Recover, Resume, Apply, Cancel, Acquire, Edit, Crash, journal
<1>8. CASE SettleChild BY <1>8 DEF SettleChild, ChildFinished, journal
<1>9. CASE RecoverSettled BY <1>9 DEF RecoverSettled, RunInterrupted, ApplyRecord, journal
<1>10. CASE Reconcile BY <1>10 DEF Reconcile, ApplyReset, RunInterrupted, ApplyRecord, journal
<1>11. CASE Mark BY <1>11 DEF Mark, LastAppend, RunInterrupted, ApplyRecord, journal
<1>12. QED
  BY <1>1, <1>2, <1>3, <1>4, <1>5, <1>6, <1>7, <1>8, <1>9, <1>10, <1>11
     DEF Next, Conclude, Recovering, vars, journal

LEMMA DeliveringStep ==
  ASSUME TypeInv, Reviewed, [Next]_vars, pc' \in Delivering PROVE Standing'
<1> USE DEF Append_, Throw, Fault, Boundary, Handler, TypeInv, Placed, Ops, Points, Terminal, Delivering
<1>1. CASE RecordVerdict
  <2>1. {Verdict} \cup Unbounded \subseteq Verdicts BY VerdictChoice
  <2>2. ReviewRecorded("approved") BY <1>1, <2>1 DEF RecordVerdict, Verdicts
  <2>3. pc \in Linking BY <1>1 DEF RecordVerdict, Linking
  <2>4. QED BY <2>2, <2>3 DEF ReviewRecorded, MayReview, Reviewed, Standing, Of, AllCompleted
<1>2. ASSUME ~RecordVerdict PROVE pc \in Delivering /\ UNCHANGED <<round, children, linked, review>>
  <2>1. CASE Implement
    BY <2>1 DEF Implement, Claim, Begin, ReserveWorker, WorkersSettle, RecordWorker, WorkersEnded,
      LinkWorker, Stage
  <2>2. CASE Review
    BY <1>2, <2>2 DEF Review, StartReview, ReserveReviewer, BarReviewer, RecordReviewer, StartRepair,
      ReserveRepair, RecordRepair, RepairChanged, RepairChangedNothing
  <2>3. CASE Deliver
    BY <2>3 DEF Deliver, Capture, LinkCandidate, Announce, BecomeReady, PrepareCandidate, EnterApply,
      RecordPrepared, RecordPreparedAborted, ApplyCandidate, CompleteCandidate, Commit, Discard,
      CandidateLinked, journal, work
  <2>4. CASE Conclude
    BY <2>4 DEF Conclude, EndRun, Catch, LastAppend, Finally, Release, Freed, Fail, RecordCancel
  <2>5. CASE Recovering
    BY <2>5 DEF Recovering, RecoverTerminal, Recover, Acquire, SettleChild, RecoverSettled,
      Reconcile, Mark, LastAppend, owner
  <2>6. CASE Resume \/ Apply \/ Cancel \/ Abort \/ Edit \/ Crash \/ UNCHANGED vars
    BY <2>6 DEF Resume, Apply, Cancel, Acquire, Abort, CancelRequested, Edit, Crash, Freed, owner, vars,
      journal, work
  <2>7. QED BY <2>1, <2>2, <2>3, <2>4, <2>5, <2>6 DEF Next
<1>3. QED BY <1>1, <1>2 DEF Reviewed, Standing, Of, AllCompleted

LEMMA LinkingStep ==
  ASSUME TypeInv, Reviewed, [Next]_vars, pc' \in Linking PROVE linked' = 1 .. Tasks
<1> USE DEF Append_, Throw, Fault, Boundary, Handler, TypeInv, Placed, Ops, Points, Terminal, Linking,
            Reviewed
<1>1. CASE Stage BY <1>1 DEF Stage, PhaseStarted, MayStartPhase
<1>2. CASE RecordVerdict
  <2>1. {Verdict} \cup Unbounded \subseteq Verdicts BY VerdictChoice
  <2>2. QED BY <1>2, <2>1 DEF RecordVerdict, ReviewRecorded, journal, work
<1>3. CASE Implement /\ ~Stage
  BY <1>3 DEF Implement, Claim, Begin, ReserveWorker, WorkersSettle, RecordWorker, WorkersEnded, LinkWorker
<1>4. CASE RecordReviewer \/ RecordRepair
  BY <1>4 DEF RecordReviewer, RecordRepair, ChildFinished, journal, work
<1>5. CASE StartReview \/ StartRepair BY <1>5 DEF StartReview, StartRepair, PhaseStarted, journal, work
<1>6. CASE ReserveReviewer \/ ReserveRepair \/ BarReviewer
  BY <1>6 DEF ReserveReviewer, ReserveRepair, BarReviewer, ChildReserved, journal, work
<1>7. CASE RepairChanged \/ RepairChangedNothing
  BY <1>7 DEF RepairChanged, RepairChangedNothing, RepairStalled, journal, work
<1>8. CASE Deliver
  BY <1>8 DEF Deliver, Capture, LinkCandidate, Announce, BecomeReady, PrepareCandidate, EnterApply,
    RecordPrepared, RecordPreparedAborted, ApplyCandidate, CompleteCandidate, Commit, Discard
<1>9. CASE Conclude
  BY <1>9 DEF Conclude, EndRun, Catch, LastAppend, Finally, Release, Freed, Fail, RecordCancel
<1>10. CASE Recovering
  BY <1>10 DEF Recovering, RecoverTerminal, Recover, Acquire, SettleChild, RecoverSettled,
    Reconcile, Mark, LastAppend, owner
<1>11. CASE Resume \/ Apply \/ Cancel \/ Abort \/ Edit \/ Crash \/ UNCHANGED vars
  BY <1>11 DEF Resume, Apply, Cancel, Acquire, Abort, CancelRequested, Edit, Crash, Freed, owner, vars,
    journal, work
<1>12. QED
  BY <1>1, <1>2, <1>3, <1>4, <1>5, <1>6, <1>7, <1>8, <1>9, <1>10, <1>11 DEF Next, Review

LEMMA ReviewedStep == ASSUME TypeInv, Reviewed, [Next]_vars PROVE Reviewed'
<1>1. [Record]_journal BY StepAppends DEF TypeInv, JournalInv, OpinionsOK
<1>2. status = "running" /\ status' = "ready_to_apply" => Standing
  <2>1. status = "running" /\ status' = "ready_to_apply" => pc = "announce" BY StepMoves DEF Moves
  <2>2. QED BY <2>1 DEF Reviewed, Delivering
<1>3. Offered' BY <1>1, <1>2, StepInterrupts, OfferedStep DEF TypeInv, JournalInv, Reviewed
<1>4. QED BY <1>3, DeliveringStep, LinkingStep DEF Reviewed

(* What is offered, applied or approved was reviewed in its last round by  *)
(* enough reviewers, all completed, after the work of every task.          *)
THEOREM CandidatesAreReviewed == Spec => []CandidateWasReviewed
<1>1. Init => Reviewed
  BY DEF Init, Created, Reviewed, Offered, Applying, Linking, Delivering
<1>2. Reviewed => CandidateWasReviewed BY DEF Reviewed, Offered, Standing, CandidateWasReviewed
<1>3. QED BY <1>1, <1>2, TypeInvInit, TypeInvStep, ReviewedStep, PTL DEF Spec

-----------------------------------------------------------------------------
(* The children a run may still need.  Up to its round r it has had the    *)
(* workers and, for each round before, a full panel and a repair.          *)
Quota(r) == Tasks + r * (MaxReviewers + 1)

Within(n) == Cardinality(children) <= n

Chain == {"begin", "reserve", "work", "link", "review", "panel", "repair", "mend", "mended"}

Frugal ==
  op = "run" =>
    /\ pc = "claim" => ChildrenReserved + RequiredChildren <= MaxChildren
    /\ pc \in Chain => spent + RequiredChildren <= MaxChildren
    /\ pc = "begin" => children = {}
    /\ pc = "reserve" => round = 0 /\ children = Workers
    /\ pc \in {"reserve", "work", "link"} => Within(Tasks)
    /\ pc \in {"link", "review", "repair", "mended"} => Unsettled = {}
    /\ pc \in {"panel", "mend"} => \A c, d \in Unsettled : c = d
    /\ pc \in {"review", "mend", "mended"} => Within(Quota(round))
    /\ pc = "panel" => Len(opinions) <= MaxReviewers /\ Within(Quota(round) + Len(opinions) + 1)
    /\ pc = "panel" /\ Unsettled = {} => Within(Quota(round) + Len(opinions))
    /\ pc = "panel" /\ Unsettled # {} => Len(opinions) < MaxReviewers
    /\ pc = "repair" => Within(Quota(round) + MaxReviewers)
    /\ pc = "mend" /\ Unsettled = {} => Within(Quota(round) - 1)

LEMMA RequiredIsNat == RequiredChildren \in Nat /\ Tasks <= RequiredChildren
<1>1. MaxRepairs + 1 \in Nat /\ MaxReviewers \in Nat OBVIOUS
<1>2. (MaxRepairs + 1) * MaxReviewers \in Nat BY <1>1
<1>3. QED BY <1>2 DEF RequiredChildren

LEMMA QuotaGrows ==
  ASSUME NEW r \in Nat
  PROVE  Quota(r) \in Nat /\ Quota(0) = Tasks /\ Quota(r + 1) = Quota(r) + MaxReviewers + 1
<1>1. r * (MaxReviewers + 1) \in Nat OBVIOUS
<1>2. (r + 1) * (MaxReviewers + 1) = r * (MaxReviewers + 1) + (MaxReviewers + 1) OBVIOUS
<1>3. 0 * (MaxReviewers + 1) = 0 OBVIOUS
<1>4. QED BY <1>1, <1>2, <1>3 DEF Quota

LEMMA QuotaIsAllocated == ASSUME NEW r \in 0 .. MaxRepairs PROVE Quota(r) + MaxReviewers <= RequiredChildren
<1> DEFINE m == MaxReviewers + 1
<1>1. r * m + (MaxRepairs - r) * m = MaxRepairs * m OBVIOUS
<1>2. (MaxRepairs - r) * m \in Nat
  <2>1. MaxRepairs - r \in Nat /\ m \in Nat OBVIOUS
  <2>2. \A a, b \in Nat : a * b \in Nat OBVIOUS
  <2>3. QED BY <2>1, <2>2
<1>3. r * m \in Nat /\ MaxRepairs * m \in Nat OBVIOUS
<1>4. MaxRepairs * m = MaxRepairs * MaxReviewers + MaxRepairs OBVIOUS
<1>5. (MaxRepairs + 1) * MaxReviewers = MaxRepairs * MaxReviewers + MaxReviewers OBVIOUS
<1>6. MaxRepairs * MaxReviewers \in Nat OBVIOUS
<1>7. RequiredChildren = Tasks + MaxRepairs * m + MaxReviewers
  BY <1>4, <1>5, <1>6 DEF RequiredChildren
<1>8. Quota(r) = Tasks + r * m BY DEF Quota
<1> HIDE DEF m
<1>9. QED BY <1>1, <1>2, <1>3, <1>7, <1>8

LEMMA ReservesOne ==
  ASSUME TypeInv, NEW role \in Roles, NEW index \in Nat, ChildReserved(role, index)
  PROVE  /\ Cardinality(children) \in Nat /\ Cardinality(children') \in Nat
         /\ Cardinality(children') <= Cardinality(children) + 1
         /\ \E c \in children' : children' = children \cup {c} /\ Unsettled' = Unsettled \cup {c}
                                  /\ c.role = role /\ c.round = round
<1> USE DEF TypeInv, JournalInv, JournalTypeOK
<1> DEFINE c == [role |-> role, round |-> round, index |-> index, result |-> "none"]
<1>1. children' = children \cup {c} BY DEF ChildReserved
<1>2. Unsettled' = Unsettled \cup {c} BY <1>1 DEF Unsettled
<1>3. Cardinality(children) \in Nat BY FS_CardinalityType
<1>4. Cardinality(children') = Cardinality(children) \/ Cardinality(children') = Cardinality(children) + 1
  BY <1>1, FS_AddElement
<1>5. c \in children' /\ c.role = role /\ c.round = round BY <1>1
<1> HIDE DEF c
<1>6. \E d \in children' : children' = children \cup {d} /\ Unsettled' = Unsettled \cup {d}
                           /\ d.role = role /\ d.round = round
  BY <1>1, <1>2, <1>5
<1>7. QED BY <1>3, <1>4, <1>6

LEMMA FinishesOne ==
  ASSUME TypeInv, NEW c \in children, NEW result \in Results, ChildFinished(c, result)
  PROVE  /\ Cardinality(children) \in Nat /\ Cardinality(children') \in Nat
         /\ Cardinality(children') <= Cardinality(children)
         /\ Unsettled' = Unsettled \ {c}
<1> USE DEF TypeInv, JournalInv, JournalTypeOK
<1> DEFINE rest == children \ {c}
           d == [c EXCEPT !.result = result]
<1>1. children' = rest \cup {d} /\ c.result = "none" BY DEF ChildFinished
<1>2. d.result = result BY DEF Child
<1>3. Unsettled' = Unsettled \ {c} BY <1>1, <1>2 DEF Unsettled, Results
<1>4. Cardinality(children) \in Nat BY FS_CardinalityType
<1>5. IsFiniteSet(rest) /\ Cardinality(rest) = Cardinality(children) - 1 BY FS_RemoveElement
<1>6. Cardinality(children') = Cardinality(rest) \/ Cardinality(children') = Cardinality(rest) + 1
  BY <1>1, <1>5, FS_AddElement
<1>7. /\ Cardinality(children') \in Nat /\ Cardinality(children') <= Cardinality(children)
  <2> HIDE DEF rest, d
  <2>1. Cardinality(rest) \in Nat BY <1>5, FS_CardinalityType
  <2>2. QED BY <1>4, <1>5, <1>6, <2>1
<1>8. QED BY <1>3, <1>4, <1>7

LEMMA FrugalImplement ==
  ASSUME TypeInv, Frugal, Implement, op' = "run", pc' \in Chain \cup {"claim"} PROVE Frugal'
<1> USE DEF Append_, Throw, Fault, Boundary, Handler, Chain, Frugal, Within, Appending
<1>0. /\ round \in Nat /\ spent \in Nat /\ IsFiniteSet(children) /\ Cardinality(children) \in Nat
      /\ MaxChildren \in Nat /\ RequiredChildren \in Nat /\ Quota(0) = Tasks
  BY FS_CardinalityType, RequiredIsNat, QuotaGrows DEF TypeInv, JournalInv, JournalTypeOK
<1>1. CASE Claim
  <2>1. Claimed /\ pc = "claim" /\ pc' = "begin" /\ op = "run" BY <1>1 DEF Claim
  <2>2. spent' = spent + Cardinality(children) /\ children' = {} BY <2>1 DEF Claimed
  <2>3. QED BY <1>0, <2>1, <2>2 DEF ChildrenReserved
<1>2. CASE Begin
  <2>1. PhaseStarted("implement", 0) /\ pc = "begin" /\ pc' = "reserve" /\ op = "run" BY <1>2 DEF Begin
  <2>2. round' = 0 /\ children = {} /\ UNCHANGED <<children, spent>> BY <2>1 DEF PhaseStarted
  <2>3. Cardinality(children') = 0 BY <2>2, FS_EmptySet
  <2>4. QED BY <1>0, <2>1, <2>2, <2>3 DEF Workers, Of
<1>3. CASE ReserveWorker
  <2> DEFINE next == Cardinality(Workers) + 1
  <2>1. ChildReserved("implement", next) /\ pc = "reserve" /\ pc' = "reserve" /\ op = "run" /\ next <= Tasks
    BY <1>3 DEF ReserveWorker
  <2>2. next \in Nat BY OfIsFinite DEF Workers, TypeInv, JournalInv
  <2>3. /\ Cardinality(children') \in Nat /\ Cardinality(children') <= next
        /\ \E c \in children' : children' = children \cup {c} /\ c.role = "implement" /\ c.round = round
    BY <2>1, <2>2, ReservesOne DEF Roles
  <2>4. round = 0 /\ UNCHANGED <<round, spent>> BY <2>1 DEF ChildReserved
  <2>5. children' = Workers' BY <2>1, <2>3, <2>4 DEF Workers, Of
  <2> HIDE DEF next
  <2>6. QED BY <1>0, <2>1, <2>2, <2>3, <2>4, <2>5
<1>4. CASE WorkersSettle
  <2>1. pc' = "work" /\ pc = "reserve" /\ op = "run" /\ UNCHANGED journal BY <1>4 DEF WorkersSettle
  <2>2. QED BY <1>0, <2>1 DEF journal, work
<1>5. CASE RecordWorker
  <2>1. PICK c \in First(Unsettled), result \in Results : ChildFinished(c, result)
    BY <1>5 DEF RecordWorker
  <2>2. pc = "work" /\ pc' = "work" /\ op = "run" BY <1>5 DEF RecordWorker
  <2>3. c \in children BY <2>1 DEF ChildFinished
  <2>4. Cardinality(children') <= Cardinality(children) /\ Cardinality(children') \in Nat
    BY <2>1, <2>3, FinishesOne
  <2>5. UNCHANGED <<spent, round>> BY <2>1 DEF ChildFinished
  <2>6. QED BY <1>0, <2>2, <2>4, <2>5
<1>6. CASE WorkersEnded
  <2>1. pc' = "link" /\ pc = "work" /\ op = "run" /\ Unsettled = {} /\ UNCHANGED journal
    BY <1>6 DEF WorkersEnded
  <2>2. QED BY <1>0, <2>1 DEF journal, work, Unsettled
<1>7. CASE LinkWorker
  <2>1. pc' = "link" /\ pc = "link" /\ op = "run" /\ UNCHANGED <<spent, children, round>>
    BY <1>7 DEF LinkWorker, WorkerLinked, journal, work
  <2>2. QED BY <1>0, <2>1 DEF Unsettled
<1>8. CASE Stage
  <2>1. pc' = "review" /\ pc = "link" /\ op = "run" /\ PhaseStarted("stage", 0) BY <1>8 DEF Stage
  <2>2. round' = 0 /\ UNCHANGED <<spent, children>> BY <2>1 DEF PhaseStarted
  <2>3. QED BY <1>0, <2>1, <2>2 DEF Unsettled
<1>9. QED BY <1>1, <1>2, <1>3, <1>4, <1>5, <1>6, <1>7, <1>8 DEF Implement

LEMMA FrugalReview ==
  ASSUME TypeInv, Frugal, Review, op' = "run", pc' \in Chain \cup {"claim"} PROVE Frugal'
<1> USE DEF Append_, Throw, Fault, Boundary, Handler, Chain, Frugal, Within, Appending
<1>0. /\ round \in Nat /\ spent \in Nat /\ IsFiniteSet(children) /\ Cardinality(children) \in Nat
      /\ MaxChildren \in Nat /\ RequiredChildren \in Nat /\ Quota(round) \in Nat
      /\ Quota(round + 1) = Quota(round) + MaxReviewers + 1
      /\ opinions \in Seq(Opinions) /\ Len(opinions) \in Nat
  <2>1. round \in 0 .. MaxRepairs /\ opinions \in Seq(Opinions) BY DEF TypeInv, JournalInv, JournalTypeOK, OpinionsOK
  <2>2. round \in Nat /\ Len(opinions) \in Nat BY <2>1
  <2>3. Quota(round) \in Nat /\ Quota(round + 1) = Quota(round) + MaxReviewers + 1 BY <2>2, QuotaGrows
  <2>4. spent \in Nat /\ IsFiniteSet(children) BY DEF TypeInv, JournalInv, JournalTypeOK
  <2>5. QED BY <2>1, <2>2, <2>3, <2>4, FS_CardinalityType, RequiredIsNat
<1>1. CASE StartReview
  <2>1. pc' = "panel" /\ pc = "review" /\ op = "run" /\ PhaseStarted("review", round) /\ opinions' = <<>>
    BY <1>1 DEF StartReview
  <2>2. UNCHANGED <<round, spent, children>> BY <2>1 DEF PhaseStarted
  <2>3. QED BY <1>0, <2>1, <2>2 DEF Unsettled
<1>2. CASE ReserveReviewer
  <2> DEFINE next == Len(opinions) + 1
  <2>1. /\ ChildReserved("review", next) /\ pc = "panel" /\ pc' = "panel" /\ op = "run"
        /\ Unsettled = {} /\ Wanted /\ UNCHANGED opinions
    BY <1>2 DEF ReserveReviewer
  <2>2. next \in Nat BY <1>0
  <2>3. /\ Cardinality(children') \in Nat /\ Cardinality(children') <= Cardinality(children) + 1
        /\ \E c \in children' : Unsettled' = Unsettled \cup {c}
    BY <2>1, <2>2, ReservesOne DEF Roles
  <2>4. UNCHANGED <<round, spent>> BY <2>1 DEF ChildReserved
  <2>5. Len(opinions) < MaxReviewers BY <1>0, <2>1, PanelAssumption DEF Wanted
  <2> HIDE DEF next
  <2>6. QED BY <1>0, <2>1, <2>3, <2>4, <2>5
<1>3. CASE BarReviewer
  <2>1. /\ pc = "panel" /\ pc' = "panel" /\ op = "run" /\ Unsettled = {} /\ Wanted
        /\ opinions' = Append(opinions, "barred") /\ UNCHANGED <<spent, children, round>>
    BY <1>3 DEF BarReviewer, journal, work
  <2>2. Len(opinions) < MaxReviewers BY <1>0, <2>1, PanelAssumption DEF Wanted
  <2>3. Len(opinions') = Len(opinions) + 1 BY <1>0, <2>1
  <2>4. QED BY <1>0, <2>1, <2>2, <2>3 DEF Unsettled
<1>4. CASE RecordReviewer
  <2>1. PICK c \in Unsettled, result \in Results, opinion \in {"approve", "changes", "unclear"} :
          ChildFinished(c, result) /\ opinions' = Append(opinions, opinion)
    BY <1>4 DEF RecordReviewer
  <2>2. pc = "panel" /\ pc' = "panel" /\ op = "run" BY <1>4 DEF RecordReviewer
  <2>3. c \in children BY <2>1 DEF ChildFinished
  <2>4. /\ Cardinality(children') <= Cardinality(children) /\ Cardinality(children') \in Nat
        /\ Unsettled' = Unsettled \ {c}
    BY <2>1, <2>3, FinishesOne
  <2>5. UNCHANGED <<spent, round>> BY <2>1 DEF ChildFinished
  <2>6. Unsettled' = {} /\ Len(opinions) < MaxReviewers BY <2>1, <2>2, <2>4
  <2>7. Len(opinions') = Len(opinions) + 1 BY <1>0, <2>1
  <2>8. QED BY <1>0, <2>2, <2>4, <2>5, <2>6, <2>7
<1>5. CASE RecordVerdict
  <2>1. op = "run" /\ pc = "panel" /\ Unsettled = {} BY <1>5 DEF RecordVerdict
  <2>2. PICK verdict \in Verdicts :
          \/ ReviewRecorded(verdict) /\ pc' \in {"capture", "repair", verdict}
          \/ pc' \in {"catching", "drop", "release"}
    BY <1>5, <2>1, VerdictChoice DEF RecordVerdict
  <2>3. ReviewRecorded(verdict) /\ pc' = "repair" BY <2>2 DEF Verdicts
  <2>4. UNCHANGED <<round, spent, children>> BY <2>3 DEF ReviewRecorded
  <2>5. QED BY <1>0, <2>1, <2>3, <2>4 DEF Unsettled
<1>6. CASE StartRepair
  <2>1. pc' = "mend" /\ pc = "repair" /\ op = "run" /\ PhaseStarted("repair", round + 1)
    BY <1>6 DEF StartRepair
  <2>2. round' = round + 1 /\ UNCHANGED <<spent, children>> BY <2>1 DEF PhaseStarted
  <2>3. Quota(round') = Quota(round) + MaxReviewers + 1 BY <1>0, <2>2
  <2>4. QED BY <1>0, <2>1, <2>2, <2>3 DEF Unsettled
<1>7. CASE ReserveRepair
  <2>1. ChildReserved("repair", 1) /\ pc = "mend" /\ pc' = "mend" /\ op = "run" /\ Unsettled = {}
    BY <1>7 DEF ReserveRepair
  <2>2. /\ Cardinality(children') \in Nat /\ Cardinality(children') <= Cardinality(children) + 1
        /\ \E c \in children' : Unsettled' = Unsettled \cup {c}
    BY <2>1, ReservesOne DEF Roles
  <2>3. UNCHANGED <<round, spent>> BY <2>1 DEF ChildReserved
  <2>4. QED BY <1>0, <2>1, <2>2, <2>3
<1>8. CASE RecordRepair
  <2>1. PICK c \in Unsettled, result \in Results : ChildFinished(c, result) BY <1>8 DEF RecordRepair
  <2>2. pc = "mend" /\ pc' = "mended" /\ op = "run" BY <1>8 DEF RecordRepair, Results
  <2>3. c \in children BY <2>1 DEF ChildFinished
  <2>4. /\ Cardinality(children') <= Cardinality(children) /\ Cardinality(children') \in Nat
        /\ Unsettled' = Unsettled \ {c}
    BY <2>1, <2>3, FinishesOne
  <2>5. UNCHANGED <<spent, round>> BY <2>1 DEF ChildFinished
  <2>6. Unsettled' = {} BY <2>1, <2>2, <2>4
  <2>7. QED BY <1>0, <2>2, <2>4, <2>5, <2>6
<1>9. CASE RepairChanged
  <2>1. pc' = "review" /\ pc = "mended" /\ op = "run" /\ UNCHANGED <<spent, children, round>>
    BY <1>9 DEF RepairChanged, journal, work
  <2>2. QED BY <1>0, <2>1 DEF Unsettled
<1>10. CASE RepairChangedNothing BY <1>10 DEF RepairChangedNothing
<1>11. QED
  BY <1>1, <1>2, <1>3, <1>4, <1>5, <1>6, <1>7, <1>8, <1>9, <1>10 DEF Review

LEMMA FrugalStep == ASSUME TypeInv, Frugal, [Next]_vars PROVE Frugal'
<1> SUFFICES ASSUME op' = "run", pc' \in Chain \cup {"claim"} PROVE Frugal'
  BY DEF Frugal, Chain
<1> USE DEF Append_, Throw, Fault, Boundary, Handler, TypeInv, Placed, Ops, Points, Terminal, Chain,
            Appending
<1>1. CASE Implement BY <1>1, FrugalImplement
<1>2. CASE Review BY <1>2, FrugalReview
<1>3. CASE Resume
  <2>1. MayResume /\ pc' = "claim" /\ UNCHANGED journal BY <1>3 DEF Resume, Acquire
  <2>2. ChildrenReserved \in Nat BY FS_CardinalityType DEF ChildrenReserved, JournalInv, JournalTypeOK
  <2>3. ChildrenReserved + RequiredChildren <= MaxChildren BY <2>1, <2>2, RequiredIsNat DEF MayResume
  <2>4. QED BY <2>1, <2>3 DEF Frugal, ChildrenReserved, journal, work
<1>4. CASE Abort
  <2>1. UNCHANGED <<op, pc, opinions, children, spent, round>>
    BY <1>4 DEF Abort, CancelRequested, journal, work
  <2>2. QED BY <2>1 DEF Frugal, ChildrenReserved, Workers, Of, Unsettled, Within
<1>5. CASE Edit \/ UNCHANGED vars \/ RecoverTerminal
  <2>1. UNCHANGED <<op, pc, opinions, children, spent, round>>
    BY <1>5 DEF Edit, RecoverTerminal, vars, owner, journal, work
  <2>2. QED BY <2>1 DEF Frugal, ChildrenReserved, Workers, Of, Unsettled, Within
<1>6. CASE Deliver
  BY <1>6 DEF Deliver, Capture, LinkCandidate, Announce, BecomeReady, PrepareCandidate, EnterApply,
    RecordPrepared, RecordPreparedAborted, ApplyCandidate, CompleteCandidate, Commit, Discard
<1>7. CASE Conclude
  BY <1>7 DEF Conclude, EndRun, Catch, LastAppend, Finally, Release, Freed, Fail, RecordCancel
<1>8. CASE Recovering /\ ~RecoverTerminal
  BY <1>8 DEF Recovering, Recover, Acquire, SettleChild, RecoverSettled, Reconcile, Mark, LastAppend
<1>9. CASE Apply \/ Cancel \/ Crash BY <1>9 DEF Apply, Cancel, Acquire, Crash, Freed
<1>10. QED BY <1>1, <1>2, <1>3, <1>4, <1>5, <1>6, <1>7, <1>8, <1>9 DEF Next

LEMMA FrugalInit == Init => Frugal
<1> SUFFICES ASSUME Init PROVE Frugal OBVIOUS
<1>1. ChildrenReserved = 0 BY FS_EmptySet DEF Init, Created, ChildrenReserved
<1>2. QED BY <1>1, RequiredIsNat, AllocationAssumption DEF Init, Frugal, Chain

LEMMA FrugalSuffices == ASSUME TypeInv, Frugal PROVE NeverStarved
<1> USE DEF Frugal, Chain, Within, ChildrenReserved
<1>1. /\ round \in 0 .. MaxRepairs /\ round \in Nat /\ spent \in Nat /\ Cardinality(children) \in Nat
      /\ opinions \in Seq(Opinions) /\ Len(opinions) \in Nat
  BY FS_CardinalityType DEF TypeInv, JournalInv, JournalTypeOK, OpinionsOK
<1>2. /\ RequiredChildren \in Nat /\ Tasks <= RequiredChildren /\ Quota(round) \in Nat
      /\ Quota(round) + MaxReviewers <= RequiredChildren
  BY <1>1, RequiredIsNat, QuotaGrows, QuotaIsAllocated
<1>3. ASSUME op = "run", pc = "reserve", Cardinality(Workers) < Tasks PROVE ChildrenReserved < MaxChildren
  BY <1>1, <1>2, <1>3
<1>4. ASSUME op = "run", pc = "panel", Unsettled = {}, Wanted PROVE ChildrenReserved < MaxChildren
  <2>1. Len(opinions) < MaxReviewers BY <1>1, <1>4, PanelAssumption DEF Wanted
  <2>2. QED BY <1>1, <1>2, <1>4, <2>1
<1>5. ASSUME op = "run", pc = "mend", Unsettled = {} PROVE ChildrenReserved < MaxChildren
  <2>1. Cardinality(children) <= Quota(round) - 1 /\ spent + RequiredChildren <= MaxChildren BY <1>5
  <2>2. QED BY <1>1, <1>2, <2>1
<1>6. QED BY <1>3, <1>4, <1>5 DEF NeverStarved

(* A run that was allowed to start or to resume finds a child left whenever *)
(* it needs one, whatever rounds, aborts and restarts came before.         *)
THEOREM RunsAreNeverStarved == Spec => []NeverStarved
BY FrugalInit, FrugalStep, FrugalSuffices, TypeInvInit, TypeInvStep, PTL DEF Spec
=============================================================================
