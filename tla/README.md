# TLA+ models of recurs

recurs is a TypeScript coding-agent harness: a command line starts one Node.js
process that runs agents on a direct model provider or on a delegated vendor
runtime, keeps every session as an append-only log, and orchestrates child agents,
teams and company goals on top. This directory holds TLA+ models of the part
everything else rests on (the session log, the lock that guards it, and the two
ways a turn is run) and of what is built on it and survives a restart (team runs,
worktree leases, company goals), the TLC runs that check them on small instances,
and proofs of their most important properties for every instance.

Paths below are relative to the repository; `core/` is `packages/core/src/`.
Run a model with `tlc -config X.cfg M`, a proof with `tlapm M.tla`.

## 1. Inventory

| Component | State | Operations | What is hard | What makes it correct |
|---|---|---|---|---|
| Session mutation lock (`core/session-mutation-lease.ts`) | lock directory with an owner file, fence file | acquire, reclaim a dead owner, issue a fencing token, assertOwned, release | processes interleave at every file-system call; crash in a half-done removal or reclaim | one owner; tokens go up; a dead owner never blocks |
| JSONL session store (`core/jsonl-session-store.ts`) | one file of records, its torn tail | load, create, mutate, append, repair, startup recovery | torn writes, failed appends, power loss, readers without the lock | the log always loads; an acknowledged record stays; no lost update |
| Session state reducer (`core/session-v2.ts`) | open turn, agent lifecycle, pending and asked tool calls, prompt queue, compaction, runtime continuation and its predecessor, durable completion | `reduceSessionRecordV2`: one case for each record type | long sequences of legal records | no accepted sequence reaches a state that nothing can close |
| Direct agent loop (`core/agent-loop.ts`, `core/direct-model-executor.ts`) | position in the turn, calls of the last reply, step budget | recover, request, run groups of tools, finish, catch | crash between effect and record, throwing event sink, cancellation between groups | requests are complete; effects are visible after a crash; turns close |
| Compaction (`core/compaction.ts`) | `pendingCompaction` of the log | manual, proactive and overflow compaction | a crash leaves a compaction, and perhaps its turn, open | startup closes both, in an order the reducer accepts |
| Queued turns (`core/turn-queue.ts`, `persistQueuedTurns`, `cli/src/runtime.ts`) | admission queue of a turn, durable queue, promises | enqueue, drain, persist, close, start next, resume, clear | the user types while the loop awaits; one append of a batch fails | first come first served; what the user is told is true |
| Run coordinator (`core/run-coordinator.ts`) | none of its own | resolve the backend, reconcile an uncertain continuation, choose the executor | abort between the store's and the log's half of a decision | a session is never stuck on an undecided continuation |
| Delegated executor (`core/delegated-agent-executor.ts`) | protocol state of one run | mint, events, host tools, settle, completion, catch | event stream, callbacks and appends race; each of six awaits may fail | runs close their turn; a durable result is delivered |
| Continuation store (`core/runtime-continuation-store.ts`) | continuations, prepared finalizations, capabilities, in memory | mint, put, recoverStaged, prepare, acknowledge, expire | must agree with the log although either side may fail alone | committed in the store only if durable; the log's handle is there |
| Private owner lock (`core/private-owner-lock.ts`) | owner record, chains of claims | acquire, reclaim, abandon, release | compare, then rename; claimants die in the middle of a chain | a slow process never overwrites the record of a living one; the chain is bounded |
| Team run state (`core/team-run-state.ts`) | phase, round, claim, children, review, apply, cancellation of a run | `reduceTeamRunRecord`: one case for each record type | long sequences of legal records over several claims | limits hold; ends are final; a cancelled run is never applied |
| Team run supervisor, review panel, artifacts, recovery (`core/team-run-supervisor.ts`, `agent-review-panel.ts`, `git-patch-artifacts.ts`, `team-run-recovery.ts`) | position of the operation that holds the owner lease, opinions, workspace, checkpoint, stored patch | run, launch, cancel, resume, apply, recover | cancel against settle; crash between workspace, checkpoint and journal | an apply is exact or reported; the candidate is not lost; every run comes to rest |
| Git worktree leases (`core/git-worktree-leases.ts`) | worktree, HEAD, owner lock | create, release, recover | death between lock and `git worktree add`; recovery of a lease that is taken at the same time | an active worktree stays; no directory is left without an owner; moved work is kept |
| Company goals (`core/company-goal-supervisor.ts`) | journal of a goal: work, team, budget | start, hand off, execute, settle a team, resume | concurrent executions share a budget and a journal; resume of half-done work | work starts once; the record is true; the budget covers the work; a goal ends |
| Child agents (`core/child-agent-*.ts`, `core/team-agent-manager.ts`) | reservations, delegation budget | delegate, batch, cancel | the budget is shared by agents that end at any time | budgets and outcomes account for every child |
| Connection registry (`packages/app/src/connection-registry*.ts`) | a JSON document with a revision, a lock file | read, update, take over a stale lock | two contenders take over | no lost update |
| Providers, runtimes, tools, CLI, hooks, MCP, contracts | requests and processes of the outside world | | | |

How they interact: the coordinator opens a *mutation* of the session (lock, then
load, then repair), gives the lease to an executor, and every state change of the
turn is one appended record that the reducer must accept; an append the reducer
rejects throws in the writer. The reducer therefore is the shared state, and the
executors are its clients. The delegated executor has the continuation store as a
second, volatile participant. A process that starts runs `recoverInterruptedOperations`
before anything else. The prompt queue is written by the turn and read by the
runtime between turns. Teams and goals start sessions of child agents through the
coordinator and keep journals of the same kind: a reducer or validator decides what
may follow, a supervisor appends, a recovery or a resume picks up what it finds. A
team's journal is guarded by an owner lease that consists of two session locks; its
workers write in worktrees that are leased under the private owner lock, of which
any process of the project may reclaim what a dead one held. A goal executes its
assignments as child agents or as a team and only looks at how they end.

`PROJECT.json` lists every component with what is left out of it, and every hazard
with the properties that cover it.

## 2. Modules

| Layer | Modules |
|---|---|
| Locks | `Lease` (abstract) <- `SessionLock`; `PrivateOwnerLock` |
| Journals | `SessionJournal` (the file); `SessionState`, `TeamRunState`, `CompanyGoalRun` (what may be appended) |
| Clients | `DirectTurn` and `DelegatedTurn` extend `SessionState`, `TeamRun` extends `TeamRunState`, `CompanyGoal` extends `CompanyGoalRun`, `WorktreeLease` extends `PrivateOwnerLock`; `TurnQueue` stands beside `DirectTurn` (their theorems share a module, so their names differ) |
| TLC | `MCSessionState` (symmetry), `MCCompanyGoal` (the plan) |
| Proofs | `SessionLockProofs`, `SessionStateProofs`, `SessionJournalProofs`, `DirectTurnProofs`, `DelegatedTurnProofs`, `TeamRunProofs`, `WorktreeLeaseProofs`, `CompanyGoalProofs` |

A reducer's module has a pair of operators for each record type: `MayX`, the
conjunction of the checks, and `X`, the accepted record. `StateSpec` (and
`JournalSpec` for teams) is any sequence of accepted records; that the programs
implement it is proved, so what holds of the machine holds of what they write.

**Lease**: what the lock promises: at most one holder, and a token that goes up with
every lease. The abstract specification.

**SessionLock**: one action per file-system call of `acquireSessionLock` that another
process can see: `Publish` (rename of the candidate onto the lock path, which POSIX
lets succeed on nothing or an empty directory), `PublishBlocked`, `Observe` and
`Reclaim` (`reclaimDeadOwner`), `FenceRead` and `FenceWrite` (`nextFence`), `FenceFail`,
`Finish`, `ReleaseRead`, `Unlink`, `Rmdir`, and a `Crash` at any of them. An owner
record names a process and one of its lives, since a restarted process has a new pid;
that a pid may be given to another program is left out (the lock is then busy until
that program ends). `stolen` is a history variable: a reclaim has taken a live
owner's directory. The properties are stated up to that event, and the run
`session_lock_steal` shows it.

**SessionState**: the reducer. `asked` is the part of the messages that matters:
calls in assistant messages that have no tool message. A turn id is a flag because
each writer names the turn it holds open. Records that change nothing here (usage,
goal, mode, evidence, approvals, steering, changed files) are left out. A
continuation handle is its sequence and status.

**SessionJournal**: the file. A line is its sequence number, its writer and whether it
parses; the tail is what follows the last newline. `LockFor`, `Load` (a read without
the lock), `LockedLoad`, `Quarantine` and `Truncate` (repair of a torn tail),
`StartAppend`, `FinishAppend` and `Sync`, `FailAppend`, `Crash`, `PowerLoss` (lines
that were not synced may vanish or tear), and `Steal`, what `SessionLock`'s reclaim can
do to a holder.

**DirectTurn**: `runAgentLoopUnlocked`, one action per append, request or effect.
Each append is followed by an emit that may throw (`Emitted`), which sends the loop to
its catch, and the process may die anywhere. `touched` holds the calls whose tool may
have had its effect. Tool calls of a reply run in groups of at most `MaxParallel`, in
any order of starting and ending. What compaction retains is nondeterministic, within
what the code guarantees about the open turn.

**TurnQueue**: the admission queue of a turn, the loop's drains at its three places,
`persistQueuedTurns` with the append and the emit of each prompt apart, `Complete`
and `Fail`, the runtime that starts the next prompt, and a user who types, resumes
or clears at any moment the program accepts it. `misled` and `stranded` name the two
ways a promise is not kept, and the properties except exactly those (section 4).

**DelegatedTurn**: the coordinator's reconciliation (`Begin`, `Reconcile`,
`RecordReconciled`, `AcknowledgeReconciled`, `GiveUp`), the executor (`Mint` to
`FailTurn`), and the store (`stored`, `latest`, `prepared`, and the operators between).
The far side, the vendor's agent, may put its state, send events, call host tools
and end in any order. `Refused` is an append that fails: freely when the reducer
would not accept the record, as a counted fault when the disk does. `Logged` ages the
prepared finalizations: the store only trusts one that lies before the record that is
last (`expectedSessionRecordSequence`). Left out: the store's limits on number and
bytes, approvals, a host tool call that arrives after the queue is drained, and items
that expire one by one (everything expires together, `Expire`); a continuation is
identified with its sequence, which is sound because the store deletes one that is
gone before the next of that sequence is put.

**PrivateOwnerLock**: the owner lock of a worktree. `owner.json` is replaced by a
plain rename, so only the claim chains (published with link(2), which one process
wins) keep a slow process from overwriting a newer record. `claims` maps a record to
its chain; a link is an active claim or the mark that releases the one before.
`Look`, `Claim`, `Compare`, `Swap` and the rest are the calls another process can see;
each may fail, and the process may die before it. What an error leaves behind of a
living process (a record after the rename, a claim that is not released) is
remembered in `lost`: nobody else gets in before that process ends.

**WorktreeLease**: `create` (`Create`, `Own`, `Add`, and the undoing after an error),
`release`, and `recoverStale`'s treatment of one lease: list, reclaim, look again,
remove or preserve. The worktree is absent, a directory Git does not list (`partial`),
one it lists (`registered`), or listed without a directory (`stale`): `Torn` and `Started`
say what `git worktree remove` and `add` leave of it when they fail or die. A dead process stays dead, a new one has a new pid; the processes
of the model are all that ever live. `MaxLeases` bounds how often the id is created,
which the code does at most once for each random id.

**TeamRunState**: the reducer of a team's journal. Every check of the reducer looks at
the children, links and the last review of the current claim, and the children of
earlier claims only count against the limit (`spent`). The request limit is divided
equally among children, so the child limit stands for both. `RequiredChildren` is
what `#prepare` requires; it is an assumption, met with equality in the run.

**TeamRun**: `op` is the operation that holds the owner lease and `pc` where it is:
a claimed run through workers, panel, repair, candidate and apply to the `catch`
and the `finally`; `cancel` while the run is active (it aborts it and waits) or at
rest; `resume`; `apply` with its checkpoint; the recovery of a starting process.
Every append may be refused or fail, before or after its bytes are durable
(`doubted`). `FirstReviewers` is the policy's `initialReviewers`, or the number of reviews
of the company goal when that is larger; `Unbounded` are the findings of several
reviewers that are too many for one record. The workspace is the base, exactly the candidate, or anything else, and the
user may edit it whenever an edit is possible. Reviewers agree, want changes, are
unclear or barred.

**CompanyGoalRun**: the record of a goal, which is written whole: `WellFormed` is what a
record may say, `MayFollow` what may follow. **CompanyGoal**: the supervisor. One
execution of an assignment goes through `Claim`, `Mark`, `Launch`, `EndTurn` and
`Complete`, or `Catch` and `Fail`; several run at once inside one runtime, share the
budget `tally` and take turns at the journal. `cur` is the record the supervisor
believes to be last and `behind` that it is not. The loop (`Decide`, `EngageTeam`,
`StartBatch`, `BlockPending`, `Conclude`) and the resume (`RecoverTeam`,
`RecoverAgent`) are the rest. `outcome` is what the log of an agent or of a team says, and
a call may reject although that log ended well, or leave it open (`EndTurnUnheard`,
`EndTeamUnheard` followed by `LoseTeam`): `belied` names those it happened to.
Abstractions: the owner lease admits one runtime at a
time; one run for each parent; requests are counted in allowances (one for each
assignment), and the cost is a flag, above the ceiling, below which a cost that has reached
it may refuse a start (`MayBeSpent`); `delegate` checks the shared budget and raises it in
one step, though its preparation awaits in between; the plan is one the policy accepts; batches are
taken in any order; a team is `TeamRun` seen from outside; a journal update is one
step. Left out: execution identities, escalations, knowledge, learning and adaptation
after the end, events; the status `waiting_for_approval`, which no code writes.

Operators introduced by "Mutant:" are plausible bugs. None is used by a
specification: they document which change of the code each property would notice.

## 3. Runs

| Run | Question | Properties | Bounds |
|---|---|---|---|
| `session_lock` | Do processes that acquire, crash, restart and release at every call keep exclusion and the abstract lease, and is a dead owner always cleared? | `ExclusiveUnlessStolen`, `ImplementsLease`, `DeadOwnerCleared` | 2 processes, 3 lives each, fence limit 3 |
| `session_lock_steal` | Is exclusion unconditional? No. | `MutualExclusion` | 2 processes |
| `session_state` | Can any sequence of accepted records reach a state the design rules out? | `PendingOnlyInTurn`, `UncertainFollowsPrior`, `CommittedTipSurvives` | 2 calls, 3 prompts with a queue of 2, continuations to sequence 3, symmetric |
| `session_journal` | Is the log readable, are acknowledged records kept and updates not lost through torn writes, failures, crashes, power loss and robbery? Is a torn tail repaired? | `AlwaysReadable`, `AcknowledgedSurvive`, `NoLostUpdate`, `TornTailRepaired` | 2 processes, 2 records, 2 faults |
| `direct_turn` | Requests, effects, closing, recovery and termination of the direct loop. | `RequestsAreComplete`, `EffectsArePending`, `RunsCloseTheirTurn`, `StartupSucceeds`, `RunsEnd`, `StartedTurnIsRecovered` | 3 calls in groups of 2, 2 requests a turn, 2 faults |
| `direct_turn_orphans` | Is "a pending tool without an open turn" impossible, as the loop says? No, without any fault. | `ClosedTurnHasNoCalls` | 2 calls |
| `turn_queue` | Is what the user was told true, are prompts started once and in order, does every admission get an answer? | `AnswersAreTrue`, `FirstComeFirstServed`, `AdmissionsSettle` | 4 prompts, queues of 2, 1 fault |
| `delegated_turn` | Do log and continuation store agree through every failure, do runs close their turn, is a durable result delivered? | `StoreFollowsLog`, `CommittedOnlyDurably`, `CompletionCanClose`, `RunsCloseTheirTurn`, `CompletionIsDelivered` | 2 host tool calls a turn, continuations to sequence 3, 3 faults |
| `delegated_turn_startup` | Is the record of the startup recovery accepted? Not after a crash during a host tool call. | `StartupSucceeds` | 1 crash |
| `team_run` | Is an apply exact, reviewed, unanimous and never after a cancellation; is a ready candidate kept; does the budget last; does a run come to rest? | `ApprovedIsExact`, `CandidateWasReviewed`, `ApprovalIsUnanimous`, `CancelledNeverApplies`, `ReadyCandidateKept`, `NeverStarved`, `RunsComeToRest` | 2 tasks, 2 to 3 reviewers, 1 repair, 10 children, 2 claims, 2 crashes, 1 failing append or recovery step |
| `worktree_lease` | Does a living holder keep lock and worktree, is no directory left without an owner, is moved work kept, are dead leases recovered? | `HolderIsOwner`, `ActiveWorktreeStays`, `LeftoversAreOwned`, `MovedWorkIsKept`, `DeadLeasesAreRecovered` | 3 processes, chains of 4 links (32 in the code), 2 errors, 2 handles |
| `company_goal` | Does work start once and on record, is the record true, does the budget cover the work, does a goal that is resumed end? | `WorkStartsOnce`, `OutcomesAreTrue`, `BudgetCoversWork`, `GoalsAreResolved` | 5 assignments (agents, a handoff, a team), 5 starts, 2 at once, 2 upsets |

Each module states its properties in full, with what they say of the code. Type
invariants are not in the runs: they are proved (section 5).

Why the bounds are enough. Every interesting interleaving of the lock needs two
contenders and one dead predecessor: with two processes the predecessor is an
earlier life of one of them, and the third life lets a crash during a reclaim be
followed by another. In the journal, two faults let a repair itself be interrupted,
and two records distinguish "the last line" from "a line before it". Groups of
two out of three calls give a started, an unstarted and a finished call at once;
two requests let the step budget end a turn with calls open; two faults let a crash
interrupt the recovery from a crash. The queues' limit is reached with two entries
and exceeded by the next prompt, and the fourth prompt is typed when two are durable
and one is admitted. Sequence 3 lets a committed continuation have a predecessor and
a lost successor; three faults let an acknowledgement, an append and a further one
fail in consecutive runs. In the team, two tasks tell "one linked" from "all linked",
a third reviewer makes an escalation possible, the child limit is exactly what a
run requires so that one child too many would be noticed, and the second claim and
crash let a recovery follow a resume. In the worktree lease the third process
watches two that fight over a dead one's lease; four links are two reclaims that are
taken back, after which the chain is full. The goal's plan has every kind of
assignment once and a budget of exactly as many starts; two upsets let a crash
interrupt a resume. The bounds are guards in the modules; the limits of the code
(`MAX_PENDING_QUEUED_TURNS`, `MAX_PARALLEL_TOOL_CALLS`, `MAX_CLAIM_DEPTH`, the step
budget, `Number.MAX_SAFE_INTEGER`) are constants given small values, so that they
are reached.

Three runs do not check for deadlock, because the system really may stop:
`session_lock` (after its last life a process stays down), `worktree_lease` (all
processes may die) and `company_goal` (a goal ends, or the user does not return
to one that no resume gets past).

### Fairness

`SessionLock` and `SessionJournal` assume that a process that runs goes on to its next
call, and that a process that stopped comes back (weak fairness of each process):
file-system promises settle, and both properties say what happens *when* somebody
returns to the session. `DirectTurn` assumes weak fairness of the loop: provider
requests and tools have timeouts, so their promises settle; and of `Begin`: the user
comes back. No fairness is assumed for what the model answers or which tool ends
first. `TurnQueue` assumes weak fairness of the loop only, never of the user.
`DelegatedTurn` assumes it of the executor's own steps, of a running host tool
(`EndHostTool`) and of the end of the runtime's event stream, whose requests are
timed; and of the restart after a crash. `TeamRun` assumes it of the steps of the
operation that holds the lease and of the recovery, which a starting process does
before anything else. `WorktreeLease` assumes it of each process that lives, for its
operation and for the recovery it does when it starts. `CompanyGoal` assumes it of
the supervisor and its executions (an agent's turn ends, see `RunsEnd`), and, since
nothing else resumes a goal, of the user who returns to a goal and to a team it
waits for. Crashes, aborts, faults, expiry, edits and the vendor's choices are never
fair.

## 4. What disagrees with the documentation

Three runs end in a counterexample; each is listed under "findings" with the line it
contradicts.

1. `session_lock_steal`: `reclaimDeadOwner` renames the lock path away without
   checking that the directory is still the one whose owner it found dead. The slower
   of two reclaimers takes the faster one's live lock; both hold a lease.
2. `direct_turn_orphans`: a turn cancelled between two groups of a reply's calls closes
   with calls that never get an outcome; the next run finds them "without an open
   turn" and throws, and so does every later one.
3. `delegated_turn_startup`: a crash during a host tool call leaves a pending call that
   makes startup recovery's `turn_interrupted` unacceptable at every start.

The other exceptions are named by history variables or by conditions of the
properties, which hold in all other cases:

- `SessionJournal`, `reused` and `strayed`: after a failed append the lease goes on with
  the sequence number it had, although bytes of the failed record may be in the file;
  and a robbed holder appends without looking at the lock again.
- `TurnQueue`, `stranded` and `misled`: when one prompt of a drained batch cannot be
  persisted, the ones behind it are neither persisted nor rejected when the turn
  closes; and a prompt that is persisted although its emit failed is reported rejected.
- `DelegatedTurn`, `expired`: a turn that outlives its 15-minute capability fails on it
  at its end and again in the catch, and stays open until a restart.
- `TeamRun`, `doubted`: when an append fails after its bytes were durable, the `finally`
  of the run discards the candidate of a run the journal calls ready. While a run is
  being applied, its candidate may be discarded too, where
  `docs/superpowers/specs/2026-07-18-durable-team-runtime-v2-design.md:141` keeps it.
- `TeamRun`, what `RunsComeToRest` counts as rest: a crash between the claim of a resume and
  its first record leaves a run interrupted without a reason that can be resumed; an
  abort during the record of `apply_prepared` leaves it interrupted for manual attention
  until the next start; a run is not resumable once a child is reserved when its
  allocation is exactly what a run requires; a cancellation after the last boundary of
  a background run leaves it ready and cancelled until the next cancel or start.
- `PrivateOwnerLock`, `lost`, and `WorktreeLease`, `Stranded` and `Full`: an error after
  the rename of the owner record, or before a claim is released, leaves record or
  claim of a process that lives, and the lease is closed until it ends; likewise a
  handle that is dropped. A reclaim that is taken back costs two links, and a full
  chain is closed for good. A directory Git does not know is never collected, and a
  worktree whose HEAD has moved is left alone.
- `WorktreeLease`, `LeftoversAreOwned` speaks of directories only: the undoing of a failed
  `create` swallows a failure of `git worktree remove` and releases the lock once the
  directory is gone (`core/git-worktree-leases.ts:445`), so Git may go on listing a worktree
  that has neither directory nor owner. No recovery accounts for it.
- `CompanyGoal`, `disturbed`: the catch of one execution takes the budget from a record in
  which a sibling is started that is not yet in the shared budget, which can make the
  sibling's start or completion fail. `exposed`: an assignment found running by a
  resume is billed although it was billed before the crash; a failed one never is.
- `CompanyGoal`, `belied`: `delegate` may reject after the agent's `turn_completed` is durable
  (the event behind it throws in `core/agent-loop.ts:1285`, the release of the session
  fails), and `startCompanyForeground` after the team's run has ended (its last append is
  reported failed, or the release of its owner lock in the `finally` is). The goal then
  records good work as failed, and the cost of that agent is not billed.
- `CompanyGoal`, `BeyondRecovery`: a crash while a child works leaves a goal that no resume
  accepts (the child has no end), and so do a child without evidence or above the
  ceiling and a team that was never created. Such a goal blocks new ones, where
  `docs/CLI.md:401` promises a resume.

## 5. Proofs

TLAPS proves, for any processes, calls, limits, plans, continuations and faults, from
the assumptions on the constants only (limits are natural numbers, lives and a few
limits at least one; the plan's relations are on its assignments; a team's allocation
is at least what it requires):

| Theorem | Statement | Argument |
|---|---|---|
| `SessionLockProofs!TypeCorrect`, `Exclusion`, `TokenIsCurrent` | the lock's invariants | inductive invariant `IInv` |
| `SessionLockProofs!FenceMonotone`, `Refinement` | the fence never goes back; every step is a step of `Lease` or a stutter | step facts under `IInv` |
| `SessionStateProofs!StateTypeCorrect`, `TurnConsistent`, `ContinuationConsistent` | the reducer's invariants | `Safety`, inductive with the types |
| `SessionStateProofs!CommittedSurvives`, `ChildEndsOnce` | its two action properties | one case for each record type |
| `SessionJournalProofs!TypeCorrect`, `LogStaysReadable`, `AcknowledgedStay`, `UpdatesAreKept` | the file's invariants | `IInv` |
| `DirectTurnProofs!AppendsRecords` | `Spec => StateSpec`: the loop implements the reducer's machine | every step is a record or a stutter |
| `DirectTurnProofs!TypeCorrect`, `CompleteRequests`, `PendingEffects` | the loop's invariants | `CallsKnown` |
| `DirectTurnProofs!ClosedTurns`, `Startup` | fault-free runs close their turn; startup's records are accepted | `TurnKnown` |
| `DirectTurnProofs!QueueTypeCorrect`, `AnswersHold`, `AdmissionOrder` | the queue's limits and invariants | `Line`, `Order`, `Answers` |
| `DirectTurnProofs!QueueRecordsAccepted` | the queue changes only as the reducer allows | a step fact under the same invariant |
| `DelegatedTurnProofs!AppendsRecords`, `TypeCorrect` | the same refinement, and types, for delegated runs | every step is a record or a stutter |
| `DelegatedTurnProofs!ResultsCanClose` | no call is pending once a result is durable | `CallsKnown` |
| `DelegatedTurnProofs!ClosedTurns` | on time and without a fault, runs close their turn | `PlaceKnown` and `TurnKnown` |
| `DelegatedTurnProofs!StoreIsCurrent`, `CommitsAreDurable` | store and log agree through every failure | `Together` |
| `TeamRunProofs!AllocationHolds`, `CancelledStays`, `EndsAreFinal` | of any accepted sequence of a team's records | `JournalInv` by record type |
| `TeamRunProofs!AppendsRecords`, `TypeCorrect`, `CancellationHolds` | supervisor and recovery append only such records | every step is a record or a stutter |
| `TeamRunProofs!ApprovalsAreExact`, `CandidatesAreReviewed`, `ApprovalsAreUnanimous`, `CandidatesAreKept` | the invariants of the run | what each place of the run presupposes |
| `TeamRunProofs!RunsAreNeverStarved` | a run never lacks a child it is entitled to | `Frugal` |
| `WorktreeLeaseProofs!HoldersOwn`, `SwapsAreSighted` | of the owner lock alone: a holder owns; a record is only replaced by who saw it | `LockInv` |
| `WorktreeLeaseProofs!LeasesUseTheLock` | the lease takes only steps of the lock | every step is a lock step or a stutter |
| `WorktreeLeaseProofs!TypeCorrect`, `LeaseHoldersOwn`, `WorktreesStay`, `LeftoversHaveOwners`, `MovedWorkStays` | the lease's invariants | `LeaseInv` |
| `CompanyGoalProofs!TypeCorrect`, `WorkIsStartedOnce`, `CompletionsHold` | work starts once and in order; completions are true | `IInv` |
| `CompanyGoalProofs!AppendsRecords` | every line of the journal may follow the one before it | `Agree`: what is admitted follows the last record |
| `CompanyGoalProofs!AccountsHold`, `OutcomesHold`, `BudgetsCoverWork` | outcomes are true, but for what is `disturbed` or `belied` or above the ceiling; the budget covers the work | `Accounts`, on top of `IInv` |

None of the safety properties is inductive by itself, and the strengthenings say why
they hold.

- Exclusion needs that whoever is past the rename still has its record in the
  directory, and that the fence is written only there.
- The log is readable because whoever writes holds the lock, knows the log from its
  base on, and leaves a tail only by failing; a repair cuts exactly that tail.
- `CallsKnown` says for each place of a loop which calls are pending and which are
  still to come: a request is complete because nothing is left when the last group
  ends. In the delegated executor a call is pending only while it runs, as long as
  the protocol was kept; a failed record of a call breaks the protocol, and a broken
  protocol never reaches the record of a result.
- `TurnKnown` relates the executor to log and store: without a fault and in time, the
  turn is open exactly inside the executor and the handle is uncertain in the log
  exactly when the executor has noted it, so the record with which the catch closes the
  turn is acceptable.
- The prompts of the queue stand in one line: started, durable, in the batch being
  persisted, waiting. `Line` says that each part is in the order of admission and ahead
  of the next, so that a prompt that is persisted or started cannot overtake;
  `Answers` says where a prompt is that was promised or refused.
- `Together` says what the store holds at each place of a run: the uncertain tip and
  what it falls back to, a staged continuation and its predecessor, or what the log
  has decided, perhaps only as a prepared outcome whose acknowledgement is missing.
  An outcome takes effect in the store only where the log's tip is its outcome.
- `Frugal` bounds the children a claim has reserved at each place of the run: the
  workers, and for each round gone by a full panel and a repair. That sum is what
  `RequiredChildren` provides for, and it was found free at the claim.
- `LockInv` says that the claims of a record are linked, that only the end of its chain
  can install a record, and that what a process has seen at the end of the chain is
  still the owner; `LeaseInv` adds where each operation stands with lock and worktree, and that
  a directory has an owner.
- The goal's `IInv` says what the journal tells about the agents' logs (`Sound`,
  `InOrder`), that the supervisor's record is the last or an earlier one (`Agree`), and
  what the steps of an execution and the places of the supervisor presuppose
  (`Stepping`, `Placed`). No goal is completed with an assignment running only because
  the loop asks for each result before it concludes.
- `Accounts` keeps the goal's books. The last record reserves whatever was created, is
  about to be created or belongs to a team, and bills only what has ended
  or whose call has
  (`Faithful`); the shared budget is never below the record by more than the
  assignments that are recorded as started and not yet launched (`Balanced`). As long
  as nothing is disturbed it also holds no more than the record, and the record no more
  than was started (`Sparing`). Hence the journal accepts the record that ends an
  assignment or a team (`EndingAccounts`, `EndingAdmitted`), which is why success is
  recorded as failure only in the cases the property names. A resume starts from the
  record and finds nothing billed among the running but what `exposed` notes (`Posed`).

That the runs append only records of `StateSpec` and `JournalSpec` lets the theorems
about the reducers be used in the proofs about the runs.

Every safety property of the passing runs is thus proved. Only model-checked are the
liveness properties, since fairness and ENABLED are beyond the prover:
`DeadOwnerCleared`, `TornTailRepaired`, `RunsEnd`, `StartedTurnIsRecovered`,
`AdmissionsSettle`, `CompletionIsDelivered`, `RunsComeToRest`, `DeadLeasesAreRecovered`
and `GoalsAreResolved`.

## 6. Not modelled

- The size of things: byte limits, truncation, digests, credential scans.
- What models, tools and vendors say; approvals; usage accounting.
- Provider adapters, the runtimes' protocols, tools, the terminal, hooks and MCP: more
  than half of the code. They translate one request or one event at a time and keep
  no durable state; the models let their side of each interface do anything the
  interface allows.
- Sessions of version 1, which take no turns on a backend any more.
- The connection registry: set-up data that no turn, team or goal writes. Its takeover
  of a stale lock is the pattern `SessionLock` models.
- Batches of child agents (a bounded pool over `delegate` without a record of its own),
  turn steering (four texts for one turn, nothing waits for them), onboarding,
  blueprints, learning, evaluation and benchmarks (stores and validators of data).
- In the modelled components, what `PROJECT.json` lists under "Left out".

## 7. What is left

1. The composition of `TurnQueue` with the reducer's machine, as for the other clients
   (`QueueRecordsAccepted` says it of the queue alone).
2. The owner lease of a team run as the composition of two `Lease`s in their acquire
   and release order, instead of one operation at a time.
3. The connection registry: stale takeover of the lock file and the revision check.
4. `SessionJournal` composed with `SessionLock` instead of the step `Steal`.
