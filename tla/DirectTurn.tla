------------------------------ MODULE DirectTurn ------------------------------
(***************************************************************************)
(* One turn after the other of a session on a direct model provider:       *)
(* runAgentLoopUnlocked of packages/core/src/agent-loop.ts, with the       *)
(* overflow and manual compactions of compaction.ts and the recovery a     *)
(* restarted process does first (recoverInterruptedOperations).            *)
(*                                                                         *)
(* The session is the one of module SessionState, and every append here is *)
(* one of its records: an append the reducer rejects throws.  Every append *)
(* is followed by an emit that may throw, and the process may die between  *)
(* any two steps.  The lease of the session is held throughout (module     *)
(* SessionJournal); the queue of prompts is module TurnQueue's.            *)
(***************************************************************************)
EXTENDS SessionState, FiniteSets

CONSTANTS MaxSteps,     \* input.maxSteps: model requests of a turn
          MaxParallel,  \* MAX_PARALLEL_TOOL_CALLS
          MaxFaults     \* bound: crashes and throwing emits

ASSUME MaxStepsAssumption == MaxSteps \in Nat \ {0}
ASSUME MaxParallelAssumption == MaxParallel \in Nat \ {0}
ASSUME MaxFaultsAssumption == MaxFaults \in Nat

VARIABLES
  pc,          \* where the process is
  todo,        \* calls of the last reply whose group has not come yet
  group,       \* calls of the group that is run
  steps,       \* model requests of this turn
  overflowed,  \* contextOverflowRecoveryAttempted
  touched,     \* calls whose tool may have run and whose outcome is not recorded
  faults       \* crashes and throwing emits so far

loop == <<pc, todo, group, steps, overflowed>>
vars == <<state, loop, touched, faults>>

Init ==
  /\ Created /\ backend = "model"
  /\ pc = "idle"
  /\ todo = {}
  /\ group = {}
  /\ steps = 0
  /\ overflowed = FALSE
  /\ touched = {}
  /\ faults = 0

Fault == faults < MaxFaults /\ faults' = faults + 1

(* An append has succeeded; its emit succeeds and the loop goes on, or     *)
(* throws.                                                                 *)
Emitted(next, thrown) ==
  \/ pc' = next /\ UNCHANGED faults
  \/ pc' = thrown /\ Fault

-----------------------------------------------------------------------------
(* A run begins: runAgentLoop, under the session's lease.                  *)
Begin ==
  /\ pc = "idle"
  /\ pc' = "recovering"
  /\ todo' = {} /\ group' = {}
  /\ UNCHANGED <<state, steps, overflowed, touched, faults>>

(* Mutant: only the pending calls count.                                   *)
UnresolvedPending == {}

(* unresolvedToolCalls: asked for by the model, without a tool message.    *)
Unresolved == asked

(* Mutant: a run gives up when it finds a pending call.                    *)
RejectPending ==
  /\ pc = "recovering"
  /\ pending # {}
  /\ pc' = "idle"
  /\ UNCHANGED <<state, todo, group, steps, overflowed, touched, faults>>

(* The calls that were pending get a failed outcome first, ...             *)
RecoverPending ==
  /\ pc = "recovering"
  /\ \E call \in pending :
       /\ ToolEnded(call)
       /\ touched' = touched \ {call}
  /\ Emitted("recovering", "idle")
  /\ UNCHANGED <<todo, group, steps, overflowed>>

(* ... then the other unresolved calls: the reducer rejects an outcome for *)
(* a call that is not pending, and without an open turn the loop throws    *)
(* before it tries.                                                        *)
RecoverUnstarted ==
  /\ pc = "recovering"
  /\ pending = {} /\ Unresolved # {}
  /\ pc' = "idle"
  /\ UNCHANGED <<state, todo, group, steps, overflowed, touched, faults>>

Settled == pending = {} /\ Unresolved = {}

InterruptTurn ==
  /\ pc = "recovering"
  /\ Settled /\ TurnInterrupted
  /\ Emitted("recovering", "idle")
  /\ UNCHANGED <<todo, group, steps, overflowed, touched>>

StartTurn ==
  /\ pc = "recovering"
  /\ Settled /\ ~open
  /\ \/ /\ TurnStarted({})
        /\ Emitted("looping", "idle")
     \/ /\ ~MayStartTurn({})
        /\ pc' = "idle"
        /\ UNCHANGED <<state, faults>>
  /\ steps' = 0
  /\ overflowed' = FALSE
  /\ UNCHANGED <<todo, group, touched>>

-----------------------------------------------------------------------------
(* The signal is aborted, the provider fails or stops with a reason that   *)
(* does not fit its reply, the tools are stuck in a loop, a source of      *)
(* steering or queued prompts throws.                                      *)
Throw ==
  /\ pc \in {"looping", "asking", "grouping", "finishing"}
  /\ pc' = "catching"
  /\ UNCHANGED <<state, todo, group, steps, overflowed, touched, faults>>

(* Mutant: the steps are not counted.                                      *)
AskForever ==
  /\ pc = "looping"
  /\ pc' = "asking"
  /\ UNCHANGED <<state, todo, group, steps, overflowed, touched, faults>>

Ask ==
  /\ pc = "looping"
  /\ IF steps < MaxSteps
       THEN pc' = "asking" /\ steps' = steps + 1
       ELSE pc' = "catching" /\ UNCHANGED steps
  /\ UNCHANGED <<state, todo, group, overflowed, touched, faults>>

(* model_completed with the calls of the reply.                            *)
Reply ==
  /\ pc = "asking"
  /\ \E calls \in SUBSET Calls :
       /\ ModelCompleted(calls)
       /\ todo' = calls
       /\ Emitted(IF calls = {} THEN "finishing" ELSE "grouping", "catching")
  /\ UNCHANGED <<group, steps, overflowed, touched>>

(* context_overflow: once a turn, in a parent's session, the open turn is  *)
(* compacted and the request made again.                                   *)
Overflow ==
  /\ pc = "asking"
  /\ ~overflowed /\ role = "parent"
  /\ CompactionStarted("overflow")
  /\ pc' = "compacting"
  /\ overflowed' = TRUE
  /\ UNCHANGED <<todo, group, steps, touched, faults>>

OverflowCompacted ==
  /\ pc = "compacting"
  /\ \/ \E retained \in SUBSET asked : SessionCompacted(retained) /\ Emitted("asking", "catching")
     \/ CompactionAbandoned /\ pc' = "catching" /\ UNCHANGED faults
  /\ UNCHANGED <<todo, group, steps, overflowed, touched>>

-----------------------------------------------------------------------------
(* The tool calls of a reply, in groups of calls that can run at once.     *)
NextGroup ==
  /\ pc = "grouping"
  /\ \/ /\ \E calls \in SUBSET todo \ {{}} :
             /\ Cardinality(calls) <= MaxParallel
             /\ group' = calls
             /\ todo' = todo \ calls
        /\ pc' = "starting"
     \/ /\ todo = {}
        /\ pc' = "looping"
        /\ UNCHANGED <<todo, group>>
  /\ UNCHANGED <<state, steps, overflowed, touched, faults>>

(* Mutant: a call runs as soon as the first of its group is recorded.      *)
StartFirstCall ==
  /\ pc = "starting"
  /\ \E call \in group \ pending :
       ToolStarted(call) /\ Emitted("calling", "catching")
  /\ UNCHANGED <<todo, group, steps, overflowed, touched>>

(* tool_started for every call of the group, ...                           *)
StartCall ==
  /\ pc = "starting"
  /\ \E call \in group \ pending :
       /\ ToolStarted(call)
       /\ Emitted(IF group \subseteq pending \cup {call} THEN "calling" ELSE "starting", "catching")
  /\ UNCHANGED <<todo, group, steps, overflowed, touched>>

(* Mutant: a tool that fails rejects the whole group.                      *)
InvokeOrThrow ==
  /\ pc = "calling"
  /\ pc' \in {"ending", "catching"}
  /\ touched' = touched \cup group
  /\ UNCHANGED <<state, todo, group, steps, overflowed, faults>>

(* ... then all of them run: invokeToolCall turns every error into a       *)
(* result, ...                                                             *)
Invoke ==
  /\ pc = "calling"
  /\ pc' = "ending"
  /\ touched' = touched \cup group
  /\ UNCHANGED <<state, todo, group, steps, overflowed, faults>>

(* ... and when all have ended, tool_completed or tool_failed for each.    *)
EndCall ==
  /\ pc = "ending"
  /\ \E call \in group \cap pending :
       /\ ToolEnded(call)
       /\ touched' = touched \ {call}
       /\ Emitted(IF group \cap pending = {call} THEN "grouping" ELSE "ending", "catching")
  /\ UNCHANGED <<todo, group, steps, overflowed>>

-----------------------------------------------------------------------------
(* A reply without calls: late steering continues the turn, otherwise it   *)
(* is complete.                                                            *)
Finish ==
  /\ pc = "finishing"
  /\ \/ pc' = "looping" /\ UNCHANGED <<state, faults>>
     \/ TurnCompleted /\ Emitted("idle", "catching")
  /\ UNCHANGED <<todo, group, steps, overflowed, touched>>

(* catch: turn_cancelled or turn_failed; when the reducer rejects it the   *)
(* rejection leaves the run instead of the error.                          *)
Catch ==
  /\ pc = "catching"
  /\ \/ \E how \in {"failed", "cancelled"} : TurnFailed(how, FALSE)
     \/ ~MayFailTurn(FALSE) /\ UNCHANGED state
  /\ pc' = "idle"
  /\ UNCHANGED <<todo, group, steps, overflowed, touched, faults>>

-----------------------------------------------------------------------------
(* Manual compaction of the idle session.                                  *)
Compact ==
  /\ pc = "idle"
  /\ ~open /\ CompactionStarted("idle")
  /\ pc' = "shrinking"
  /\ UNCHANGED <<todo, group, steps, overflowed, touched, faults>>

Compacted ==
  /\ pc = "shrinking"
  /\ \/ \E retained \in SUBSET asked : SessionCompacted(retained)
     \/ CompactionAbandoned
  /\ pc' = "idle"
  /\ UNCHANGED <<todo, group, steps, overflowed, touched, faults>>

Crash ==
  /\ Fault
  /\ pc # "down"
  /\ pc' = "down"
  /\ todo' = {} /\ group' = {}
  /\ UNCHANGED <<state, steps, overflowed, touched>>

(* Mutant: what was compacted is not looked at.                            *)
RestartClosing ==
  /\ pc = "down"
  /\ \/ CompactionAbandoned /\ pc' = "closing"
     \/ compaction = "none" /\ pc' = "idle" /\ UNCHANGED state
  /\ UNCHANGED <<todo, group, steps, overflowed, touched, faults>>

(* A new process: recoverInterruptedOperations first gives an interrupted  *)
(* compaction its outcome, ...                                             *)
Restart ==
  /\ pc = "down"
  /\ \/ /\ CompactionAbandoned
        /\ pc' = IF compaction = "overflow" /\ open THEN "closing" ELSE "idle"
     \/ /\ compaction = "none"
        /\ pc' = "idle"
        /\ UNCHANGED state
  /\ UNCHANGED <<todo, group, steps, overflowed, touched, faults>>

(* ... then the turn that was compacted.                                   *)
CloseCompactedTurn ==
  /\ pc = "closing"
  /\ TurnInterrupted
  /\ pc' = "idle"
  /\ UNCHANGED <<todo, group, steps, overflowed, touched, faults>>

Recover == RecoverPending \/ RecoverUnstarted \/ InterruptTurn \/ StartTurn
CallModel == Throw \/ Ask \/ Reply \/ Overflow \/ OverflowCompacted
CallTools == NextGroup \/ StartCall \/ Invoke \/ EndCall
Advance ==
  Recover \/ CallModel \/ CallTools \/ Finish \/ Catch \/ Compacted \/ Restart \/ CloseCompactedTurn

Next == Begin \/ Advance \/ Compact \/ Crash

Spec == Init /\ [][Next]_vars

(* Promises settle (the provider and the tools answer, fail or are timed   *)
(* out), a dead process is started again, and the user of an open turn     *)
(* comes back with a prompt.                                               *)
FairSpec == Spec /\ WF_vars(Advance) /\ WF_vars(Begin)

-----------------------------------------------------------------------------
InTry == {"looping", "asking", "compacting", "grouping", "starting", "calling", "ending", "finishing"}

(* Every variable has its type.                                            *)
TypeOK ==
  /\ StateTypeOK
  /\ pc \in InTry \cup {"down", "closing", "idle", "recovering", "catching", "shrinking"}
  /\ todo \subseteq Calls
  /\ group \subseteq Calls
  /\ steps \in 0..MaxSteps
  /\ overflowed \in BOOLEAN
  /\ touched \subseteq Calls
  /\ faults \in 0..MaxFaults

(* Every request the provider is sent has the outcome of every tool call   *)
(* in its messages (providers reject a conversation that lacks one),       *)
(* whatever was interrupted, compacted, cancelled or crashed before.       *)
RequestsAreComplete == pc = "asking" => pending = {} /\ asked = {}

(* A tool that may have had an effect is pending in the durable log until  *)
(* its outcome is, so no crash hides that it ran.                          *)
EffectsArePending == touched \subseteq pending

(* Without a crash or a throwing emit no run returns with its turn open,   *)
(* however it is cancelled, fails or is stuck.                             *)
RunsCloseTheirTurn == faults = 0 /\ pc = "idle" => ~open

(* The startup recovery's own records are always accepted: a process never *)
(* fails to start because of an interrupted compaction.                    *)
StartupSucceeds == pc = "closing" => MayInterruptTurn

(* Every run ends: the step budget bounds the turn.                        *)
RunsEnd == pc \in InTry ~> pc \in {"idle", "down"}

(* A turn left open whose calls have all been started is closed by the     *)
(* next run.                                                               *)
StartedTurnIsRecovered ==
  role = "parent" /\ pc = "idle" /\ open /\ asked \subseteq pending ~> ~open

(* agent-loop.ts line 1055: "A pinned session has a pending tool without   *)
(* an open turn" is an error the loop's own records never cause.           *)
ClosedTurnHasNoCalls == role = "parent" /\ pc = "recovering" /\ ~open => Unresolved = {}
===============================================================================
