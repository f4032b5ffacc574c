----------------------------- MODULE SessionState -----------------------------
(***************************************************************************)
(* The state of a pinned (version 2) session and the records that change   *)
(* it: reduceSessionRecordV2 of packages/core/src/session-v2.ts.           *)
(*                                                                         *)
(* A session IS its log of records; the reducer rejects (throws on) every  *)
(* record its state does not allow.  One operator pair per record type:    *)
(* MayX is the conjunction of the reducer's checks, X the accepted record. *)
(* A writer that appends X when ~MayX gets the error and changes nothing;  *)
(* the modules that extend this one use both.                              *)
(*                                                                         *)
(* A record's turnId is checked against the open turn; every writer names  *)
(* the turn it holds open, so an open turn is a flag here.  Records that   *)
(* change none of these variables (steering, usage, goal, mode, policy,    *)
(* changed files, evidence, approvals) are left out.  Ids of tool calls    *)
(* and queued prompts are fresh in the code; here an id may be used again  *)
(* once nothing refers to it.                                              *)
(***************************************************************************)
EXTENDS Naturals, Sequences

CONSTANTS Calls,        \* tool-call ids
          QueueIds,     \* ids of queued prompts
          MaxQueued,    \* MAX_PENDING_QUEUED_TURNS
          MaxSequence   \* bound: runtime continuations of a session

ASSUME MaxQueuedAssumption == MaxQueued \in Nat \ {0}
ASSUME MaxSequenceAssumption == MaxSequence \in Nat

VARIABLES
  role,        \* agent.role
  backend,     \* backend.pin.kind: model_provider or agent_runtime
  open,        \* openTurnId # null
  lifecycle,   \* agentLifecycle.status
  pending,     \* pendingToolCalls: started, no outcome yet
  asked,       \* calls in assistant messages that have no tool message
  queue,       \* queuedTurns
  compaction,  \* pendingCompaction: none, of an idle session, or in a turn
  tip,         \* runtimeContinuation
  prior,       \* runtimeContinuationPredecessor
  completion   \* pendingRuntimeCompletion # null

kind == <<role, backend>>
turn == <<open, lifecycle>>
tools == <<pending, asked>>
continuation == <<tip, prior, completion>>
state == <<kind, turn, tools, queue, compaction, continuation>>

Roles == {"parent", "child"}
Backends == {"model", "runtime"}
Ended == {"completed", "failed", "cancelled"}

NoHandle == [sequence |-> 0, status |-> "none"]
Committed(n) == [sequence |-> n, status |-> "committed"]
Uncertain(n) == [sequence |-> n, status |-> "uncertain"]

(* session_created at sequence zero.                                       *)
Created ==
  /\ role \in Roles
  /\ backend \in Backends
  /\ open = FALSE
  /\ lifecycle = "ready"
  /\ pending = {}
  /\ asked = {}
  /\ queue = <<>>
  /\ compaction = "none"
  /\ tip = NoHandle
  /\ prior = NoHandle
  /\ completion = FALSE

-----------------------------------------------------------------------------
(* Turns.                                                                  *)

QueueHead == {queue[i] : i \in DOMAIN queue \cap {1}}

(* queuedInput is the id of the queued prompt that is started, none ({})   *)
(* for a prompt of its own.                                                *)
MayStartTurn(queuedInput) ==
  /\ ~open
  /\ compaction = "none"
  /\ ~completion
  /\ tip.status # "uncertain"
  /\ role = "child" => lifecycle = "ready"
  /\ queuedInput = QueueHead

TurnStarted(queuedInput) ==
  /\ MayStartTurn(queuedInput)
  /\ open' = TRUE
  /\ lifecycle' = "running"
  /\ queue' = IF queuedInput = {} THEN queue ELSE Tail(queue)
  /\ UNCHANGED <<kind, tools, compaction, continuation>>

(* Mutant: the pending tool calls are not looked at.                       *)
MayCloseAnyTurn == open

MayCloseTurn == open /\ pending = {}

(* terminalLifecycle: a parent is ready again, a child has ended.          *)
CloseTurn(how) ==
  /\ open' = FALSE
  /\ lifecycle' = IF role = "child" THEN how ELSE "ready"
  /\ UNCHANGED <<kind, tools, queue, compaction, tip, prior>>

(* A delegated turn completes only on the durable runtime completion whose *)
(* result it repeats.                                                      *)
MayCompleteTurn == MayCloseTurn /\ (completion \/ backend = "model")

TurnCompleted ==
  /\ MayCompleteTurn
  /\ CloseTurn("completed")
  /\ completion' = FALSE

(* turn_failed and turn_cancelled must carry exactly the uncertain tip.    *)
MayFailTurn(carries) ==
  /\ MayCloseTurn
  /\ ~completion
  /\ carries = (tip.status = "uncertain")

TurnFailed(how, carries) ==
  /\ MayFailTurn(carries)
  /\ CloseTurn(how)
  /\ UNCHANGED completion

MayInterruptTurn == MayCloseTurn /\ ~completion

TurnInterrupted ==
  /\ MayInterruptTurn
  /\ CloseTurn("failed")
  /\ UNCHANGED completion

(* agent_run_failed and agent_run_cancelled: a child that never started.   *)
AgentRunEnded(how) ==
  /\ role = "child" /\ ~open /\ lifecycle = "ready"
  /\ lifecycle' = how
  /\ UNCHANGED <<kind, open, tools, queue, compaction, continuation>>

-----------------------------------------------------------------------------
(* The queue of prompts; sourced tells whether the record names a turn.    *)

MayQueuePrompt(id, sourced) ==
  /\ role = "parent"
  /\ sourced = open
  /\ Len(queue) < MaxQueued
  /\ \A i \in DOMAIN queue : queue[i] # id

PromptQueued(id, sourced) ==
  /\ MayQueuePrompt(id, sourced)
  /\ queue' = Append(queue, id)
  /\ UNCHANGED <<kind, turn, tools, compaction, continuation>>

(* The record lists the exact queue.                                       *)
PromptQueueCleared ==
  /\ ~open
  /\ queue' = <<>>
  /\ UNCHANGED <<kind, turn, tools, compaction, continuation>>

-----------------------------------------------------------------------------
(* Model replies and tool calls of the open turn.                          *)

ModelCompleted(calls) ==
  /\ open
  /\ asked' = asked \cup calls
  /\ UNCHANGED <<kind, turn, pending, queue, compaction, continuation>>

ToolStarted(call) ==
  /\ open
  /\ call \notin pending
  /\ pending' = pending \cup {call}
  /\ UNCHANGED <<kind, turn, asked, queue, compaction, continuation>>

MayEndTool(call) == open /\ call \in pending

(* tool_completed and tool_failed: the call's tool message.                *)
ToolEnded(call) ==
  /\ MayEndTool(call)
  /\ pending' = pending \ {call}
  /\ asked' = asked \ {call}
  /\ UNCHANGED <<kind, turn, queue, compaction, continuation>>

-----------------------------------------------------------------------------
(* Delegated runtimes.                                                     *)

(* Mutant: an uncertain tip may be replaced by its successor.              *)
MayReplaceUncertain == open /\ backend = "runtime" /\ ~completion

(* assertRuntimeContinuationSuccessor.                                     *)
MayUpdateContinuation ==
  /\ open
  /\ backend = "runtime"
  /\ ~completion
  /\ prior = NoHandle
  /\ tip.status # "uncertain"

ContinuationUpdated ==
  /\ MayUpdateContinuation
  /\ tip.sequence < MaxSequence
  /\ prior' = tip
  /\ tip' = Uncertain(tip.sequence + 1)
  /\ UNCHANGED <<kind, turn, tools, queue, compaction, completion>>

(* commits: the record carries the committed form of the uncertain tip.    *)
MayCompleteRuntime(commits) ==
  /\ open
  /\ backend = "runtime"
  /\ ~completion
  /\ commits = (tip.status = "uncertain")

RuntimeCompleted(commits) ==
  /\ MayCompleteRuntime(commits)
  /\ tip' = IF commits THEN Committed(tip.sequence) ELSE tip
  /\ prior' = NoHandle
  /\ completion' = TRUE
  /\ UNCHANGED <<kind, turn, tools, queue, compaction>>

MayReconcile ==
  /\ ~open
  /\ compaction = "none"
  /\ ~completion
  /\ backend = "runtime"
  /\ tip.status = "uncertain"

(* Mutant: a turn that is gone takes the whole continuation with it.       *)
GoneForgetsPrior(committed) ==
  /\ MayReconcile
  /\ tip' = IF committed THEN Committed(tip.sequence) ELSE NoHandle
  /\ prior' = NoHandle
  /\ UNCHANGED <<kind, turn, tools, queue, compaction, completion>>

(* Committed: the tip is the committed handle.  Gone: its predecessor is   *)
(* the tip again.                                                          *)
ContinuationReconciled(committed) ==
  /\ MayReconcile
  /\ tip' = IF committed THEN Committed(tip.sequence) ELSE prior
  /\ prior' = NoHandle
  /\ UNCHANGED <<kind, turn, tools, queue, compaction, completion>>

-----------------------------------------------------------------------------
(* Compaction of an idle session (manual, proactive) or, after a context   *)
(* overflow, of the open turn.                                             *)

MayCompact(trigger) ==
  /\ compaction = "none"
  /\ trigger = IF open THEN "overflow" ELSE "idle"

CompactionStarted(trigger) ==
  /\ MayCompact(trigger)
  /\ compaction' = trigger
  /\ UNCHANGED <<kind, turn, tools, queue, continuation>>

(* Messages of the turns that are not retained leave, and the calls of     *)
(* their assistant messages with them.                                     *)
SessionCompacted(retained) ==
  /\ compaction # "none"
  /\ compaction' = "none"
  /\ asked' = asked \cap retained
  /\ UNCHANGED <<kind, turn, pending, queue, continuation>>

(* compaction_failed and compaction_interrupted.                           *)
CompactionAbandoned ==
  /\ compaction # "none"
  /\ compaction' = "none"
  /\ UNCHANGED <<kind, turn, tools, queue, continuation>>

-----------------------------------------------------------------------------
TurnRecord ==
  \/ \E q \in {{}} \cup {{id} : id \in QueueIds} : TurnStarted(q)
  \/ TurnCompleted
  \/ \E how \in {"failed", "cancelled"}, carries \in BOOLEAN : TurnFailed(how, carries)
  \/ TurnInterrupted
  \/ \E how \in {"failed", "cancelled"} : AgentRunEnded(how)

QueueRecord ==
  \/ \E id \in QueueIds, sourced \in BOOLEAN : PromptQueued(id, sourced)
  \/ PromptQueueCleared

ToolRecord ==
  \/ \E calls \in SUBSET Calls : ModelCompleted(calls)
  \/ \E call \in Calls : ToolStarted(call) \/ ToolEnded(call)

RuntimeRecord ==
  \/ ContinuationUpdated
  \/ \E commits \in BOOLEAN : RuntimeCompleted(commits)
  \/ \E committed \in BOOLEAN : ContinuationReconciled(committed)

CompactionRecord ==
  \/ \E trigger \in {"idle", "overflow"} : CompactionStarted(trigger)
  \/ \E retained \in SUBSET Calls : SessionCompacted(retained)
  \/ CompactionAbandoned

(* reduceSessionRecordV2: any record the reducer accepts.                  *)
Record == TurnRecord \/ QueueRecord \/ ToolRecord \/ RuntimeRecord \/ CompactionRecord

StateSpec == Created /\ [][Record]_state

-----------------------------------------------------------------------------
Handles == [sequence: 0..MaxSequence, status: {"none", "committed", "uncertain"}]

(* Every variable has its type; the durable queue stays within its limit.  *)
StateTypeOK ==
  /\ role \in Roles
  /\ backend \in Backends
  /\ open \in BOOLEAN
  /\ lifecycle \in {"ready", "running"} \cup Ended
  /\ pending \subseteq Calls
  /\ asked \subseteq Calls
  /\ queue \in Seq(QueueIds)
  /\ Len(queue) <= MaxQueued
  /\ compaction \in {"none", "idle", "overflow"}
  /\ tip \in Handles
  /\ prior \in Handles
  /\ completion \in BOOLEAN

(* Whatever records are appended in whatever order, a tool call is pending *)
(* only inside an open turn (else nothing could ever end it: its outcome   *)
(* needs the open turn), ...                                               *)
PendingOnlyInTurn == pending # {} => open

(* ... the child or parent runs exactly while a turn is open, and a parent *)
(* never ends, ...                                                         *)
RunsWhileOpen ==
  /\ lifecycle = "running" <=> open
  /\ role = "parent" => lifecycle \in {"ready", "running"}

(* ... no turn is open while the idle session is compacted (the summary    *)
(* would hide the newer turn), ...                                         *)
NoTurnDuringIdleCompaction == compaction = "idle" => ~open

(* ... and a durable runtime completion always has its turn open to close, *)
(* with nothing left uncertain.                                            *)
CompletionIsSettled ==
  completion => open /\ backend = "runtime" /\ tip.status # "uncertain" /\ prior = NoHandle

(* The predecessor that a "gone" turn falls back to is a committed handle  *)
(* (or none), the one right before the uncertain tip, and is kept exactly  *)
(* as long as the tip is uncertain.                                        *)
UncertainFollowsPrior ==
  /\ prior.status # "uncertain"
  /\ tip.status = "uncertain" => tip.sequence = prior.sequence + 1
  /\ tip.status # "uncertain" => prior = NoHandle

(* A committed continuation is never lost: it stays the tip until the next *)
(* turn's handle keeps it as predecessor, and the tip that follows an      *)
(* uncertain one is that one committed or that predecessor.                *)
CommittedTipSurvives ==
  [][tip' # tip =>
       \/ tip'.status = "uncertain" /\ tip.status # "uncertain" /\ prior' = tip
       \/ tip.status = "uncertain" /\ tip' \in {Committed(tip.sequence), prior}]_state

(* A child agent runs one turn: once it has ended, nothing changes how it  *)
(* ended or starts it again.                                               *)
ChildRunsOnce ==
  [][role = "child" /\ lifecycle \in Ended => lifecycle' = lifecycle /\ ~open']_state
===============================================================================
