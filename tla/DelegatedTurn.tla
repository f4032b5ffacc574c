----------------------------- MODULE DelegatedTurn -----------------------------
(***************************************************************************)
(* The turns of a session on a delegated runtime (an agent of its own, run *)
(* over ACP): BackendRunCoordinator of packages/core/src/run-coordinator.ts *)
(* reconciles what an earlier turn left uncertain, DelegatedAgentExecutor  *)
(* of delegated-agent-executor.ts runs the turn, and the runtime's private *)
(* state is kept by ProcessScopedRuntimeContinuationStore of               *)
(* runtime-continuation-store.ts, in memory.                               *)
(*                                                                         *)
(* The store and the durable log agree by a two-phase protocol: the store  *)
(* stages a continuation, a record makes it uncertain in the log, the      *)
(* store prepares an outcome, a record decides it, the store is told.      *)
(* Any append or acknowledgement may fail, the user may abort between any  *)
(* two steps, time may pass what was stored, and the process may die.      *)
(*                                                                         *)
(* The session is that of module SessionState.  One session has one lane   *)
(* of the store.  A continuation is identified by its sequence: the store  *)
(* deletes one that is gone before the next of that sequence is put.       *)
(* Left out: the store's limits, approvals, the content of events.         *)
(***************************************************************************)
EXTENDS SessionState

CONSTANT MaxFaults  \* bound: crashes, failed appends and acknowledgements

ASSUME MaxFaultsAssumption == MaxFaults \in Nat

VARIABLES
  pc,        \* where the process is
  update,    \* the continuation_updated events: none, invalid, or noted
  staged,    \* sequence of the continuation this turn's runtime has put; 0: none
  expired,   \* time has passed the capability of this turn's writer
  terminal,  \* the runtime's last event: none, done, stopped
  bad,       \* protocolInvalid, iteratorError or callbackFailure
  used,      \* this turn's host tool calls, the current one last
  stored,    \* status of every continuation in the store
  latest,    \* latestByLane
  prepared,  \* finalizations in the store: of, outcome, and whether no record
             \*   has been appended since
  receipt,   \* the finalization this process has prepared last
  lost,      \* history: the store has dropped a continuation of the log
  faults

run == <<pc, update, staged, expired, terminal, bad, used>>
store == <<stored, latest, prepared>>
vars == <<state, run, store, receipt, lost, faults>>

Finalizations ==
  [of: 1..MaxSequence, outcome: {"committed", "gone"}, now: BOOLEAN]
NoReceipt == [of |-> 0, outcome |-> "committed", now |-> FALSE]
Nothing == [n \in 1..MaxSequence |-> "none"]

Init ==
  /\ Created /\ backend = "runtime"
  /\ pc = "idle"
  /\ update = "none" /\ staged = 0 /\ expired = FALSE
  /\ terminal = "none" /\ bad = FALSE /\ used = <<>>
  /\ stored = Nothing /\ latest = 0 /\ prepared = {}
  /\ receipt = NoReceipt
  /\ lost = FALSE
  /\ faults = 0

InTurn == {"running", "calling", "settling", "committing", "completing", "confirming", "closing", "catching"}

Fault == faults < MaxFaults /\ faults' = faults + 1

(* A record is in the log: what was prepared lies before it.               *)
Logged ==
  /\ prepared' = {[f EXCEPT !.now = FALSE] : f \in prepared}
  /\ UNCHANGED <<stored, latest, faults>>

(* An append fails: the reducer does not accept the record, or the disk.   *)
Refused(accepted) ==
  /\ IF accepted THEN Fault ELSE UNCHANGED faults
  /\ UNCHANGED <<state, store>>

-----------------------------------------------------------------------------
(* The continuation store.                                                 *)

(* The sequence that is active once f is decided.                          *)
Active(f) == IF f.outcome = "committed" THEN f.of ELSE f.of - 1

(* Mutant: the predecessor does not come back as the latest.               *)
MaterializedEmpty(f) ==
  /\ stored' = [stored EXCEPT ![f.of] = IF f.outcome = "committed" THEN "committed" ELSE "none"]
  /\ latest' = IF f.outcome = "committed" THEN f.of ELSE 0
  /\ prepared' = {g \in prepared : g.of # f.of}

(* materializePreparedFinalization: a committed continuation replaces its  *)
(* predecessor, one that is gone gives way to it.                          *)
Materialized(f) ==
  /\ stored' = IF f.outcome = "committed"
                 THEN [n \in 1..MaxSequence |->
                         IF n = f.of THEN "committed" ELSE IF n = f.of - 1 THEN "none" ELSE stored[n]]
                 ELSE [stored EXCEPT ![f.of] = "none"]
  /\ latest' = Active(f)
  /\ prepared' = {g \in prepared : g.of # f.of}

(* preparedRunView and preparedEmptyLane: an outcome that was decided in   *)
(* the log but whose acknowledgement never came.                           *)
Views(n) ==
  {f \in prepared : /\ ~f.now
                    /\ Active(f) = n
                    /\ f.of = latest /\ stored[f.of] = "uncertain"}

Stands(n) == latest = n /\ (n > 0 => stored[n] = "committed")

(* storedRunView, validatePredecessor: the store accepts n as the session's *)
(* active continuation (0: it has none).                                   *)
MayRun(n) == Stands(n) \/ Views(n) # {}

Viewed(n) ==
  \/ Stands(n) /\ UNCHANGED store
  \/ ~Stands(n) /\ \E f \in Views(n) : Materialized(f)

(* storedExact: continuation n is the uncertain one the store holds.       *)
MayFinalize(n) == n > 0 /\ latest = n /\ stored[n] = "uncertain"

(* Mutant: the outcome takes effect before it is recorded.                 *)
PrepareAndCommit(n, outcome) ==
  /\ MayFinalize(n)
  /\ receipt' = [of |-> n, outcome |-> outcome, now |-> TRUE]
  /\ stored' = [stored EXCEPT ![n] = IF outcome = "committed" THEN "committed" ELSE "none"]
  /\ UNCHANGED <<latest, prepared>>

(* prepareFinalization replaces what was prepared at the same record.      *)
Prepare(n, outcome) ==
  /\ MayFinalize(n)
  /\ outcome = "gone" /\ n > 1 => stored[n - 1] = "committed"
  /\ LET f == [of |-> n, outcome |-> outcome, now |-> TRUE]
     IN /\ receipt' = f
        /\ prepared' = {g \in prepared : ~(g.of = n /\ g.now)} \cup {f}
  /\ UNCHANGED <<stored, latest>>

(* acknowledgeFinalization, whose errors are swallowed.                    *)
Acknowledged ==
  \/ /\ MayFinalize(receipt.of)
     /\ Materialized(receipt)
     /\ UNCHANGED faults
  \/ /\ IF MayFinalize(receipt.of) THEN Fault ELSE UNCHANGED faults
     /\ UNCHANGED store

-----------------------------------------------------------------------------
(* A run begins: BackendRunCoordinator.#start.                             *)
Begin ==
  /\ pc = "idle"
  /\ pc' = IF tip.status = "uncertain" THEN "reconciling" ELSE "minting"
  /\ update' = "none" /\ terminal' = "none" /\ bad' = FALSE /\ used' = <<>>
  /\ UNCHANGED <<state, store, staged, expired, receipt, lost, faults>>

(* #reconcileRuntimeContinuation: the runtime tells what became of the     *)
(* uncertain turn, ...                                                     *)
Reconcile ==
  /\ pc = "reconciling"
  /\ \E outcome \in {"committed", "gone"} : Prepare(tip.sequence, outcome)
  /\ pc' = "deciding"
  /\ UNCHANGED <<state, update, staged, expired, terminal, bad, used, lost, faults>>

(* ... cannot tell or has no state to tell from, or the user aborts;       *)
(* later checks of the coordinator and the executor end a run likewise.    *)
GiveUp ==
  /\ pc \in {"reconciling", "deciding", "minting", "starting"}
  /\ pc' = "idle"
  /\ UNCHANGED <<state, update, staged, expired, terminal, bad, used, store, receipt, lost, faults>>

(* Its answer is recorded ...                                              *)
RecordReconciled ==
  /\ pc = "deciding"
  /\ \/ /\ ContinuationReconciled(receipt.outcome = "committed")
        /\ Logged
        /\ pc' = "acknowledging"
     \/ Refused(MayReconcile) /\ pc' = "idle"
  /\ UNCHANGED <<update, staged, expired, terminal, bad, used, receipt, lost>>

(* ... and acknowledged.                                                   *)
AcknowledgeReconciled ==
  /\ pc = "acknowledging"
  /\ Acknowledged
  /\ pc' \in {"minting", "idle"}
  /\ UNCHANGED <<state, update, staged, expired, terminal, bad, used, receipt, lost>>

(* #preflight, then the capabilities for reading the active continuation   *)
(* and for writing its successor.                                          *)
Mint ==
  /\ pc = "minting"
  /\ ~open /\ ~completion
  /\ Viewed(tip.sequence)
  /\ staged' = 0
  /\ expired' = FALSE
  /\ pc' = "starting"
  /\ UNCHANGED <<state, update, terminal, bad, used, receipt, lost, faults>>

StartTurn ==
  /\ pc = "starting"
  /\ \/ TurnStarted({}) /\ Logged /\ pc' = "running"
     \/ Refused(MayStartTurn({})) /\ pc' = "idle"
  /\ UNCHANGED <<update, staged, expired, terminal, bad, used, receipt, lost>>

-----------------------------------------------------------------------------
(* The runtime works.  Its events and its host tool calls go through one   *)
(* serial queue; what it puts into the store does not.                     *)

(* put consumes the writer and checks its predecessor again.               *)
Put ==
  /\ pc \in {"running", "calling"}
  /\ staged = 0 /\ ~expired
  /\ tip.sequence < MaxSequence /\ Stands(tip.sequence)
  /\ staged' = tip.sequence + 1
  /\ stored' = [stored EXCEPT ![staged'] = "uncertain"]
  /\ latest' = staged'
  /\ UNCHANGED <<state, pc, update, expired, terminal, bad, used, prepared, receipt, lost, faults>>

(* recoverStaged: null, the staged handle, or an error once time has       *)
(* passed the writer or the continuation.                                  *)
MayRecover == IF staged = 0 THEN ~expired ELSE MayFinalize(staged)

(* The staged handle is noted and recorded.                                *)
Note(next, failed) ==
  /\ staged > 0 /\ MayRecover
  /\ update' = "noted"
  /\ \/ ContinuationUpdated /\ Logged /\ pc' = next
     \/ Refused(MayUpdateContinuation) /\ pc' = failed

(* continuation_updated: only the first counts, and only when it names the *)
(* staged handle.                                                          *)
Update ==
  /\ pc = "running"
  /\ terminal = "none" /\ update = "none"
  /\ Note("running", "running")
  /\ bad' = (bad \/ tip' = tip)
  /\ UNCHANGED <<staged, expired, terminal, used, receipt, lost>>

(* An event that breaks the protocol, or is one too many.                  *)
BadEvent ==
  /\ pc = "running"
  /\ ~bad
  /\ bad' = TRUE
  /\ update' \in {update, IF update = "none" THEN "invalid" ELSE update}
  /\ UNCHANGED <<state, pc, staged, expired, terminal, used, store, receipt, lost, faults>>

StartHostTool ==
  /\ pc = "running"
  /\ terminal = "none"
  /\ \E call \in Calls \ {used[i] : i \in DOMAIN used} :
       /\ used' = Append(used, call)
       /\ \/ ToolStarted(call) /\ Logged /\ pc' = "calling" /\ UNCHANGED bad
          \/ Refused(TRUE) /\ pc' = "running" /\ bad' = TRUE
  /\ UNCHANGED <<update, staged, expired, terminal, receipt, lost>>

(* Mutant: the error of a tool call's record is returned to the runtime    *)
(* only.                                                                   *)
EndHostToolUnheard ==
  /\ pc = "calling"
  /\ pc' = "running"
  /\ \/ ToolEnded(used[Len(used)]) /\ Logged
     \/ Refused(TRUE)
  /\ UNCHANGED <<update, staged, expired, terminal, bad, used, receipt, lost>>

(* The tool has run, failed or been cancelled; cancelled, the callback     *)
(* fails as well.                                                          *)
EndHostTool ==
  /\ pc = "calling"
  /\ pc' = "running"
  /\ \/ ToolEnded(used[Len(used)]) /\ Logged /\ bad' \in {bad, TRUE}
     \/ Refused(TRUE) /\ bad' = TRUE
  /\ UNCHANGED <<update, staged, expired, terminal, used, receipt, lost>>

(* done, or cancelled and failed.                                          *)
Terminal ==
  /\ pc = "running"
  /\ terminal = "none"
  /\ terminal' \in {"done", "stopped"}
  /\ UNCHANGED <<state, pc, update, staged, expired, bad, used, store, receipt, lost, faults>>

(* The iterator ends or throws, and the queue is drained.                  *)
IteratorEnd ==
  /\ pc = "running"
  /\ pc' = "settling"
  /\ bad' \in {bad, TRUE}
  /\ UNCHANGED <<state, update, staged, expired, terminal, used, store, receipt, lost, faults>>

-----------------------------------------------------------------------------
(* The user aborts, the runtime changes its capabilities, the store has    *)
(* forgotten the staged state.                                             *)
Throw ==
  /\ pc \in {"settling", "committing"}
  /\ pc' = "catching"
  /\ UNCHANGED <<state, update, staged, expired, terminal, bad, used, store, receipt, lost, faults>>

(* A handle that the runtime staged and kept from the executor.            *)
SettleKept ==
  /\ pc = "settling"
  /\ update # "noted"
  /\ Note("catching", "catching")
  /\ UNCHANGED <<staged, expired, terminal, bad, used, receipt, lost>>

Settle ==
  /\ pc = "settling"
  /\ MayRecover /\ (staged > 0 => update = "noted")
  /\ pc' = IF bad \/ terminal # "done" THEN "catching"
           ELSE IF update = "noted" THEN "committing" ELSE "completing"
  /\ UNCHANGED <<state, update, staged, expired, terminal, bad, used, store, receipt, lost, faults>>

Commit ==
  /\ pc = "committing"
  /\ Prepare(staged, "committed")
  /\ pc' = "completing"
  /\ UNCHANGED <<state, update, staged, expired, terminal, bad, used, lost, faults>>

(* runtime_completed carries the result and the committed handle, ...      *)
RecordCompletion ==
  /\ pc = "completing"
  /\ \/ /\ RuntimeCompleted(update = "noted")
        /\ Logged
        /\ pc' = IF update = "noted" THEN "confirming" ELSE "closing"
     \/ Refused(MayCompleteRuntime(update = "noted")) /\ pc' = "catching"
  /\ UNCHANGED <<update, staged, expired, terminal, bad, used, receipt, lost>>

(* ... the store is told, ...                                              *)
AcknowledgeCompletion ==
  /\ pc = "confirming"
  /\ Acknowledged
  /\ pc' = "closing"
  /\ UNCHANGED <<state, update, staged, expired, terminal, bad, used, receipt, lost>>

(* ... and the turn ends.                                                  *)
CompleteTurn ==
  /\ pc = "closing"
  /\ \/ TurnCompleted /\ Logged /\ pc' = "idle"
     \/ Refused(MayCompleteTurn) /\ pc' = "catching"
  /\ UNCHANGED <<update, staged, expired, terminal, bad, used, receipt, lost>>

(* catch: what was staged and not noted is recorded first, ...             *)
CatchKept ==
  /\ pc = "catching"
  /\ update # "noted"
  /\ \/ Note("catching", "idle")
     \/ ~MayRecover /\ pc' = "idle" /\ UNCHANGED <<state, update, store, faults>>
  /\ UNCHANGED <<staged, expired, terminal, bad, used, receipt, lost>>

(* Mutant: the record does not carry the uncertain handle.                 *)
FailTurnBare ==
  /\ pc = "catching"
  /\ update = "noted" \/ (staged = 0 /\ MayRecover)
  /\ \/ \E how \in {"failed", "cancelled"} : TurnFailed(how, FALSE) /\ Logged
     \/ Refused(MayFailTurn(FALSE))
  /\ pc' = "idle"
  /\ UNCHANGED <<update, staged, expired, terminal, bad, used, receipt, lost>>

(* ... then turn_cancelled or turn_failed carries the uncertain handle;    *)
(* any error here is swallowed.                                            *)
FailTurn ==
  /\ pc = "catching"
  /\ update = "noted" \/ (staged = 0 /\ MayRecover)
  /\ \/ \E how \in {"failed", "cancelled"} : TurnFailed(how, update = "noted") /\ Logged
     \/ Refused(MayFailTurn(update = "noted"))
  /\ pc' = "idle"
  /\ UNCHANGED <<update, staged, expired, terminal, bad, used, receipt, lost>>

-----------------------------------------------------------------------------
(* A command (mode, goal, ...) appends a record of no concern here.        *)
Command ==
  /\ pc = "idle"
  /\ \E f \in prepared : f.now
  /\ Logged
  /\ UNCHANGED <<state, run, receipt, lost>>

Forget ==
  /\ stored' = Nothing /\ latest' = 0 /\ prepared' = {}
  /\ lost' = (lost \/ tip # NoHandle \/ (pc \in InTurn /\ staged # 0))

(* pruneExpired: more time passes than any capability or stored payload is *)
(* kept (15 minutes).                                                      *)
Expire ==
  /\ ~expired
  /\ expired' = TRUE
  /\ Forget
  /\ UNCHANGED <<state, pc, update, staged, terminal, bad, used, receipt, faults>>

Crash ==
  /\ pc # "down"
  /\ Fault
  /\ pc' = "down"
  /\ Forget
  /\ UNCHANGED <<state, update, staged, expired, terminal, bad, used, receipt>>

(* Mutant: startup ends an open turn as interrupted, whatever it recorded. *)
RestartInterrupting ==
  /\ pc = "down"
  /\ \/ TurnInterrupted
     \/ ~open /\ UNCHANGED state
  /\ pc' = "idle"
  /\ UNCHANGED <<update, staged, expired, terminal, bad, used, store, receipt, lost, faults>>

(* A new process, with an empty store: recoverInterruptedOperations closes *)
(* the open turn, with the result when that is in the log.                 *)
Restart ==
  /\ pc = "down"
  /\ \/ completion /\ TurnCompleted
     \/ open /\ ~completion /\ TurnInterrupted
     \/ ~open /\ UNCHANGED state
  /\ pc' = "idle"
  /\ UNCHANGED <<update, staged, expired, terminal, bad, used, store, receipt, lost, faults>>

(* The recovery's record is rejected: the new process ends again.          *)
RestartFails ==
  /\ pc = "down"
  /\ open /\ ~(IF completion THEN MayCompleteTurn ELSE MayInterruptTurn)
  /\ UNCHANGED vars

Prepares == Reconcile \/ GiveUp \/ RecordReconciled \/ AcknowledgeReconciled \/ Mint \/ StartTurn
Works == Put \/ Update \/ BadEvent \/ StartHostTool \/ EndHostTool \/ Terminal \/ IteratorEnd
Ends ==
  \/ Throw \/ SettleKept \/ Settle \/ Commit \/ RecordCompletion
  \/ AcknowledgeCompletion \/ CompleteTurn \/ CatchKept \/ FailTurn
Advance == Prepares \/ Works \/ Ends \/ Restart

Next == Begin \/ Advance \/ Command \/ Expire \/ Crash \/ RestartFails

Spec == Init /\ [][Next]_vars

(* Promises settle, the runtime's iterator ends (its requests are timed),  *)
(* a dead process is started again.                                        *)
FairSpec == Spec /\ WF_vars(Prepares \/ Ends \/ Restart) /\ WF_vars(EndHostTool) /\ WF_vars(IteratorEnd)

-----------------------------------------------------------------------------
(* Every variable has its type.                                            *)
TypeOK ==
  /\ StateTypeOK
  /\ pc \in InTurn \cup {"idle", "down", "reconciling", "deciding", "acknowledging", "minting", "starting"}
  /\ update \in {"none", "invalid", "noted"}
  /\ staged \in 0..MaxSequence
  /\ expired \in BOOLEAN
  /\ terminal \in {"none", "done", "stopped"}
  /\ bad \in BOOLEAN
  /\ used \in Seq(Calls)
  /\ stored \in [1..MaxSequence -> {"none", "uncertain", "committed"}]
  /\ latest \in 0..MaxSequence
  /\ prepared \subseteq Finalizations
  /\ receipt \in Finalizations \cup {NoReceipt}
  /\ lost \in BOOLEAN
  /\ faults \in 0..MaxFaults

(* Whichever append or acknowledgement failed and wherever a run was       *)
(* aborted, as long as the store has dropped nothing the next run can take *)
(* the conversation up where the log says it is: the store accepts the     *)
(* log's active continuation, or can decide the uncertain one either way.  *)
StoreFollowsLog ==
  pc = "idle" /\ ~open /\ ~lost =>
    IF tip.status = "uncertain"
      THEN MayFinalize(tip.sequence) /\ (prior # NoHandle => stored[prior.sequence] = "committed")
      ELSE MayRun(tip.sequence)

(* docs/superpowers/specs/2026-07-11-provider-auth-matrix-design.md line   *)
(* 87: "A staged uncertain continuation is committed only with its matching *)
(* durable terminal."                                                      *)
CommittedOnlyDurably ==
  \A n \in 1..MaxSequence :
    stored[n] = "committed" => n <= (IF tip.status = "uncertain" THEN prior ELSE tip).sequence

(* A durable result can always be delivered: no tool call is pending that  *)
(* would have turn_completed rejected, now or after a restart.             *)
CompletionCanClose == completion => pending = {}

(* Unless the disk, the process or the clock fails, no run returns with    *)
(* its turn open, whatever the runtime does and whenever it is aborted.    *)
RunsCloseTheirTurn == faults = 0 /\ ~expired /\ pc = "idle" => ~open

(* ... 2026-07-10-recurs-provider-auth-design.md line 2548: recovery       *)
(* "copies that record's exact RunResult into turn_completed": a result    *)
(* that was recorded before the process died is not lost.                  *)
CompletionIsDelivered ==
  pc = "down" /\ completion ~> ~open /\ ~completion

(* ... line 2548: "Otherwise recovery appends `turn_interrupted`" to an    *)
(* open turn: the reducer accepts it.                                      *)
StartupSucceeds ==
  pc = "down" /\ open => IF completion THEN MayCompleteTurn ELSE MayInterruptTurn
===============================================================================
