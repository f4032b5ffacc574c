-------------------------- MODULE SessionStateProofs --------------------------
(* The invariants of SessionState for any tool calls, queue ids and        *)
(* limits, and with them its two action properties.                        *)
EXTENDS SessionState, TLAPS

USE MaxQueuedAssumption, MaxSequenceAssumption

(* The parts of the type invariant that no step of a record can disturb    *)
(* together: one lemma for the Boolean variables, one for the rest.        *)
FlagsOK == open \in BOOLEAN /\ completion \in BOOLEAN

RestOK ==
  /\ role \in Roles
  /\ backend \in Backends
  /\ lifecycle \in {"ready", "running"} \cup Ended
  /\ pending \subseteq Calls
  /\ asked \subseteq Calls
  /\ queue \in Seq(QueueIds)
  /\ Len(queue) <= MaxQueued
  /\ compaction \in {"none", "idle", "overflow"}
  /\ tip \in Handles
  /\ prior \in Handles

LEMMA TypeParts == StateTypeOK <=> FlagsOK /\ RestOK
BY DEF StateTypeOK, FlagsOK, RestOK

LEMMA FlagsInit == Created => FlagsOK
BY DEF Created, FlagsOK

LEMMA FlagsStep == ASSUME FlagsOK, [Record]_state PROVE FlagsOK'
<1> USE DEF FlagsOK, kind, turn, tools, continuation, state
<1>1. CASE UNCHANGED state BY <1>1
<1>2. CASE TurnRecord
  BY <1>2 DEF TurnRecord, TurnStarted, TurnCompleted, TurnFailed, TurnInterrupted, AgentRunEnded, CloseTurn
<1>3. CASE QueueRecord BY <1>3 DEF QueueRecord, PromptQueued, PromptQueueCleared
<1>4. CASE ToolRecord BY <1>4 DEF ToolRecord, ModelCompleted, ToolStarted, ToolEnded
<1>5. CASE RuntimeRecord
  BY <1>5 DEF RuntimeRecord, ContinuationUpdated, RuntimeCompleted, ContinuationReconciled
<1>6. CASE CompactionRecord
  BY <1>6 DEF CompactionRecord, CompactionStarted, SessionCompacted, CompactionAbandoned
<1>7. QED BY <1>1, <1>2, <1>3, <1>4, <1>5, <1>6 DEF Record

(* Every handle the records write has its type.                            *)
LEMMA HandleTypes ==
  ASSUME NEW n \in 0..MaxSequence
  PROVE  NoHandle \in Handles /\ Committed(n) \in Handles /\ Uncertain(n) \in Handles
BY DEF Handles, NoHandle, Committed, Uncertain

LEMMA RestInit == Created => RestOK
<1>1. NoHandle \in Handles BY DEF Handles, NoHandle
<1>2. QED BY <1>1 DEF Created, RestOK

LEMMA RestStep == ASSUME RestOK, [Record]_state PROVE RestOK'
<1> USE DEF RestOK, kind, turn, tools, continuation, state
<1>1. CASE UNCHANGED state BY <1>1
<1>2. ASSUME NEW q \in {{}} \cup {{id} : id \in QueueIds}, TurnStarted(q) PROVE RestOK'
  <2>1. queue' \in Seq(QueueIds) /\ Len(queue') <= MaxQueued
    <3>1. CASE q = {} BY <1>2, <3>1 DEF TurnStarted
    <3>2. CASE q # {}
      <4>1. queue # <<>> BY <1>2, <3>2 DEF TurnStarted, MayStartTurn, QueueHead
      <4>2. queue' = Tail(queue) BY <1>2, <3>2 DEF TurnStarted
      <4>3. QED BY <4>1, <4>2
    <3>3. QED BY <3>1, <3>2
  <2>2. QED BY <1>2, <2>1 DEF TurnStarted
<1>3. CASE TurnCompleted BY <1>3 DEF TurnCompleted, CloseTurn, Ended
<1>4. ASSUME NEW how \in {"failed", "cancelled"}, NEW carries \in BOOLEAN, TurnFailed(how, carries)
      PROVE  RestOK'
  BY <1>4 DEF TurnFailed, CloseTurn, Ended
<1>5. CASE TurnInterrupted BY <1>5 DEF TurnInterrupted, CloseTurn, Ended
<1>6. ASSUME NEW how \in {"failed", "cancelled"}, AgentRunEnded(how) PROVE RestOK'
  BY <1>6 DEF AgentRunEnded, Ended
<1>7. ASSUME NEW id \in QueueIds, NEW sourced \in BOOLEAN, PromptQueued(id, sourced) PROVE RestOK'
  <2>1. queue' \in Seq(QueueIds) /\ Len(queue') <= MaxQueued
    BY <1>7 DEF PromptQueued, MayQueuePrompt
  <2>2. QED BY <1>7, <2>1 DEF PromptQueued
<1>8. CASE PromptQueueCleared BY <1>8 DEF PromptQueueCleared
<1>9. CASE ToolRecord BY <1>9 DEF ToolRecord, ModelCompleted, ToolStarted, ToolEnded
<1>10. CASE ContinuationUpdated
  <2>1. tip.sequence + 1 \in 0..MaxSequence BY <1>10 DEF ContinuationUpdated, Handles
  <2>2. QED BY <1>10, <2>1, HandleTypes DEF ContinuationUpdated
<1>11. ASSUME NEW commits \in BOOLEAN, RuntimeCompleted(commits) PROVE RestOK'
  <2>1. NoHandle \in Handles /\ Committed(tip.sequence) \in Handles BY HandleTypes DEF Handles
  <2>2. QED BY <1>11, <2>1 DEF RuntimeCompleted
<1>12. ASSUME NEW committed \in BOOLEAN, ContinuationReconciled(committed) PROVE RestOK'
  <2>1. NoHandle \in Handles /\ Committed(tip.sequence) \in Handles BY HandleTypes DEF Handles
  <2>2. QED BY <1>12, <2>1 DEF ContinuationReconciled
<1>13. ASSUME NEW trigger \in {"idle", "overflow"}, CompactionStarted(trigger) PROVE RestOK'
  BY <1>13 DEF CompactionStarted
<1>14. ASSUME NEW retained \in SUBSET Calls, SessionCompacted(retained) PROVE RestOK'
  BY <1>14 DEF SessionCompacted
<1>15. CASE CompactionAbandoned BY <1>15 DEF CompactionAbandoned
<1>16. QED
  BY <1>1, <1>2, <1>3, <1>4, <1>5, <1>6, <1>7, <1>8, <1>9, <1>10, <1>11, <1>12, <1>13, <1>14, <1>15
     DEF Record, TurnRecord, QueueRecord, RuntimeRecord, CompactionRecord

(* Every reachable session state has its types, the durable queue within   *)
(* MAX_PENDING_QUEUED_TURNS among them.                                    *)
THEOREM StateTypeCorrect == StateSpec => []StateTypeOK
<1>1. Created => StateTypeOK BY FlagsInit, RestInit, TypeParts
<1>2. StateTypeOK /\ [Record]_state => StateTypeOK'
  <2> SUFFICES ASSUME StateTypeOK, [Record]_state PROVE StateTypeOK' OBVIOUS
  <2>1. FlagsOK /\ RestOK BY TypeParts
  <2>2. FlagsOK' /\ RestOK' BY <2>1, FlagsStep, RestStep
  <2>3. QED BY <2>2 DEF StateTypeOK, FlagsOK, RestOK
<1>3. QED BY <1>1, <1>2, PTL DEF StateSpec

(* The safety invariants are inductive together with the types: a turn     *)
(* cannot close over a pending call, nothing leaves an open turn without   *)
(* its running agent, and a completion is reached only from a tip that its *)
(* own record settles.                                                     *)
Safety ==
  /\ PendingOnlyInTurn
  /\ RunsWhileOpen
  /\ NoTurnDuringIdleCompaction
  /\ CompletionIsSettled
  /\ UncertainFollowsPrior

LEMMA SafetyInit == Created => Safety
BY DEF Created, Safety, PendingOnlyInTurn, RunsWhileOpen, NoTurnDuringIdleCompaction,
       CompletionIsSettled, UncertainFollowsPrior, NoHandle

LEMMA SafetyStep == ASSUME StateTypeOK, Safety, [Record]_state PROVE Safety'
<1> USE DEF Safety, PendingOnlyInTurn, RunsWhileOpen, NoTurnDuringIdleCompaction,
            CompletionIsSettled, UncertainFollowsPrior,
            kind, turn, tools, continuation, state
<1>1. CASE UNCHANGED state BY <1>1
<1>2. ASSUME NEW q \in {{}} \cup {{id} : id \in QueueIds}, TurnStarted(q) PROVE Safety'
  BY <1>2 DEF TurnStarted, MayStartTurn
<1>3. CASE TurnCompleted
  BY <1>3 DEF TurnCompleted, MayCompleteTurn, MayCloseTurn, CloseTurn
<1>4. ASSUME NEW how \in {"failed", "cancelled"}, NEW carries \in BOOLEAN, TurnFailed(how, carries)
      PROVE  Safety'
  BY <1>4 DEF TurnFailed, MayFailTurn, MayCloseTurn, CloseTurn
<1>5. CASE TurnInterrupted
  BY <1>5 DEF TurnInterrupted, MayInterruptTurn, MayCloseTurn, CloseTurn
<1>6. ASSUME NEW how \in {"failed", "cancelled"}, AgentRunEnded(how) PROVE Safety'
  BY <1>6 DEF AgentRunEnded
<1>7. CASE QueueRecord BY <1>7 DEF QueueRecord, PromptQueued, PromptQueueCleared
<1>8. CASE ToolRecord BY <1>8 DEF ToolRecord, ModelCompleted, ToolStarted, ToolEnded
<1>9. CASE ContinuationUpdated
  <2>1. tip.sequence + 1 = tip'.sequence /\ tip'.status = "uncertain"
    BY <1>9 DEF ContinuationUpdated, Uncertain
  <2>2. QED
    BY <1>9, <2>1 DEF ContinuationUpdated, MayUpdateContinuation, NoHandle
<1>10. ASSUME NEW commits \in BOOLEAN, RuntimeCompleted(commits) PROVE Safety'
  <2>1. tip'.status # "uncertain"
    BY <1>10 DEF RuntimeCompleted, MayCompleteRuntime, Committed
  <2>2. QED BY <1>10, <2>1 DEF RuntimeCompleted, MayCompleteRuntime, NoHandle
<1>11. ASSUME NEW committed \in BOOLEAN, ContinuationReconciled(committed) PROVE Safety'
  <2>1. tip'.status # "uncertain"
    BY <1>11 DEF ContinuationReconciled, Committed
  <2>2. QED BY <1>11, <2>1 DEF ContinuationReconciled, MayReconcile, NoHandle
<1>12. ASSUME NEW trigger \in {"idle", "overflow"}, CompactionStarted(trigger) PROVE Safety'
  BY <1>12 DEF CompactionStarted, MayCompact
<1>13. ASSUME NEW retained \in SUBSET Calls, SessionCompacted(retained) PROVE Safety'
  BY <1>13 DEF SessionCompacted
<1>14. CASE CompactionAbandoned BY <1>14 DEF CompactionAbandoned
<1>15. QED
  BY <1>1, <1>2, <1>3, <1>4, <1>5, <1>6, <1>7, <1>8, <1>9, <1>10, <1>11, <1>12, <1>13, <1>14
     DEF Record, TurnRecord, RuntimeRecord, CompactionRecord

LEMMA SafetyInvariant == StateSpec => []Safety
<1>1. Created => Safety BY SafetyInit
<1>2. StateTypeOK /\ Safety /\ [Record]_state => Safety' BY SafetyStep
<1>3. QED BY <1>1, <1>2, StateTypeCorrect, PTL DEF StateSpec

(* A tool call is pending, the agent runs and an idle compaction is over   *)
(* exactly as the open turn says, in every reachable session state.        *)
THEOREM TurnConsistent ==
  StateSpec => [](PendingOnlyInTurn /\ RunsWhileOpen /\ NoTurnDuringIdleCompaction)
<1>1. Safety => PendingOnlyInTurn /\ RunsWhileOpen /\ NoTurnDuringIdleCompaction
  BY DEF Safety
<1>2. QED BY <1>1, SafetyInvariant, PTL

(* The delegated continuation, its predecessor and the durable completion  *)
(* agree in every reachable session state.                                 *)
THEOREM ContinuationConsistent ==
  StateSpec => [](CompletionIsSettled /\ UncertainFollowsPrior)
<1>1. Safety => CompletionIsSettled /\ UncertainFollowsPrior BY DEF Safety
<1>2. QED BY <1>1, SafetyInvariant, PTL

(* No record loses a committed continuation: it is succeeded, or kept as   *)
(* the predecessor a lost turn falls back to.                              *)
THEOREM CommittedSurvives == StateSpec => CommittedTipSurvives
<1>1. [Record]_state =>
        (tip' # tip =>
           \/ tip'.status = "uncertain" /\ tip.status # "uncertain" /\ prior' = tip
           \/ tip.status = "uncertain" /\ tip' \in {Committed(tip.sequence), prior})
  <2> SUFFICES ASSUME [Record]_state, tip' # tip
               PROVE  \/ tip'.status = "uncertain" /\ tip.status # "uncertain" /\ prior' = tip
                      \/ tip.status = "uncertain" /\ tip' \in {Committed(tip.sequence), prior}
    OBVIOUS
  <2> USE DEF kind, turn, tools, continuation, state
  <2>1. CASE RuntimeRecord
    BY <2>1 DEF RuntimeRecord, ContinuationUpdated, MayUpdateContinuation, RuntimeCompleted,
                MayCompleteRuntime, ContinuationReconciled, MayReconcile, Uncertain
  <2>2. CASE TurnRecord
    BY <2>2 DEF TurnRecord, TurnStarted, TurnCompleted, TurnFailed, TurnInterrupted,
                AgentRunEnded, CloseTurn
  <2>3. CASE QueueRecord BY <2>3 DEF QueueRecord, PromptQueued, PromptQueueCleared
  <2>4. CASE ToolRecord BY <2>4 DEF ToolRecord, ModelCompleted, ToolStarted, ToolEnded
  <2>5. CASE CompactionRecord
    BY <2>5 DEF CompactionRecord, CompactionStarted, SessionCompacted, CompactionAbandoned
  <2>6. QED BY <2>1, <2>2, <2>3, <2>4, <2>5 DEF Record
<1>2. QED BY <1>1, PTL DEF StateSpec, CommittedTipSurvives

(* An ended child stays ended, however the log goes on.                    *)
THEOREM ChildEndsOnce == StateSpec => ChildRunsOnce
<1>1. Safety /\ [Record]_state =>
        (role = "child" /\ lifecycle \in Ended => lifecycle' = lifecycle /\ ~open')
  <2> SUFFICES ASSUME Safety, [Record]_state, role = "child", lifecycle \in Ended
               PROVE  lifecycle' = lifecycle /\ ~open'
    OBVIOUS
  <2>1. ~open /\ lifecycle # "ready" BY DEF Safety, RunsWhileOpen, Ended
  <2> USE DEF kind, turn, tools, continuation, state
  <2>2. CASE TurnRecord
    BY <2>1, <2>2 DEF TurnRecord, TurnStarted, MayStartTurn, TurnCompleted, MayCompleteTurn,
                TurnFailed, MayFailTurn, TurnInterrupted, MayInterruptTurn, MayCloseTurn,
                AgentRunEnded
  <2>3. CASE QueueRecord BY <2>1, <2>3 DEF QueueRecord, PromptQueued, PromptQueueCleared
  <2>4. CASE ToolRecord BY <2>1, <2>4 DEF ToolRecord, ModelCompleted, ToolStarted, ToolEnded
  <2>5. CASE RuntimeRecord
    BY <2>1, <2>5 DEF RuntimeRecord, ContinuationUpdated, RuntimeCompleted, ContinuationReconciled
  <2>6. CASE CompactionRecord
    BY <2>1, <2>6 DEF CompactionRecord, CompactionStarted, SessionCompacted, CompactionAbandoned
  <2>7. CASE UNCHANGED state BY <2>1, <2>7
  <2>8. QED BY <2>2, <2>3, <2>4, <2>5, <2>6, <2>7 DEF Record
<1>2. QED BY <1>1, SafetyInvariant, PTL DEF StateSpec, ChildRunsOnce
===============================================================================
