-------------------------- MODULE DelegatedTurnProofs --------------------------
(* The turns of a delegated runtime append only records the reducer        *)
(* accepts; a durable result can always be delivered, and a run without a  *)
(* fault closes its turn; for any host tool calls, continuations and       *)
(* faults.                                                                 *)
EXTENDS DelegatedTurn, SessionStateProofs

USE MaxSequenceAssumption, MaxFaultsAssumption DEF MaxSequenceAssumption, MaxFaultsAssumption

(* Every step appends one record or none.                                  *)
LEMMA StepAppends == ASSUME StateTypeOK, [Next]_vars PROVE [Record]_state
<1> USE DEF Refused
<1>1. CASE UNCHANGED vars BY <1>1 DEF vars
<1>2. CASE RecordReconciled
  <2>1. (receipt.outcome = "committed") \in BOOLEAN OBVIOUS
  <2>2. QED BY <1>2, <2>1 DEF RecordReconciled, Record, RuntimeRecord
<1>3. CASE StartTurn BY <1>3 DEF StartTurn, Record, TurnRecord
<1>4. CASE Update \/ SettleKept \/ CatchKept
  BY <1>4 DEF Update, SettleKept, CatchKept, Note, Record, RuntimeRecord
<1>5. CASE StartHostTool
  <2>1. PICK call \in Calls : ToolStarted(call) \/ UNCHANGED state BY <1>5 DEF StartHostTool
  <2>2. QED BY <2>1 DEF Record, ToolRecord
<1>6. CASE EndHostTool
  <2>1. used[Len(used)] \in Calls \/ UNCHANGED state
    BY <1>6 DEF EndHostTool, ToolEnded, MayEndTool, StateTypeOK
  <2>2. ToolEnded(used[Len(used)]) \/ UNCHANGED state BY <1>6 DEF EndHostTool
  <2>3. QED BY <2>1, <2>2 DEF Record, ToolRecord
<1>7. CASE RecordCompletion
  <2>1. (update = "noted") \in BOOLEAN OBVIOUS
  <2>2. QED BY <1>7, <2>1 DEF RecordCompletion, Record, RuntimeRecord
<1>8. CASE CompleteTurn BY <1>8 DEF CompleteTurn, Record, TurnRecord
<1>9. CASE FailTurn
  <2>1. (update = "noted") \in BOOLEAN OBVIOUS
  <2>2. QED BY <1>9, <2>1 DEF FailTurn, Record, TurnRecord
<1>10. CASE Restart BY <1>10 DEF Restart, Record, TurnRecord
<1>11. CASE Begin \/ Reconcile \/ GiveUp \/ AcknowledgeReconciled \/ Mint
  BY <1>11 DEF Begin, Reconcile, GiveUp, AcknowledgeReconciled, Mint
<1>12. CASE Put \/ BadEvent \/ Terminal \/ IteratorEnd \/ Throw \/ Settle \/ Commit
  BY <1>12 DEF Put, BadEvent, Terminal, IteratorEnd, Throw, Settle, Commit
<1>13. CASE AcknowledgeCompletion \/ Command \/ Expire \/ Crash \/ RestartFails
  BY <1>13 DEF AcknowledgeCompletion, Command, Expire, Crash, RestartFails, vars
<1>14. QED
  BY <1>1, <1>2, <1>3, <1>4, <1>5, <1>6, <1>7, <1>8, <1>9, <1>10, <1>11, <1>12, <1>13
     DEF Next, Advance, Prepares, Works, Ends

LEMMA StateTypeStep == ASSUME StateTypeOK, [Next]_vars PROVE StateTypeOK'
<1>1. [Record]_state BY StepAppends
<1>2. FlagsOK /\ RestOK BY TypeParts
<1>3. FlagsOK' /\ RestOK' BY <1>1, <1>2, FlagsStep, RestStep
<1>4. QED BY <1>3 DEF StateTypeOK, FlagsOK, RestOK

(* The executor implements the reducer's state machine: every theorem of   *)
(* SessionStateProofs holds of the sessions delegated runs write.          *)
THEOREM AppendsRecords == Spec => StateSpec
<1>1. Init => Created BY DEF Init
<1>2. Init => StateTypeOK BY FlagsInit, RestInit, TypeParts DEF Init
<1>3. StateTypeOK /\ [Next]_vars => StateTypeOK' BY StateTypeStep
<1>4. StateTypeOK /\ [Next]_vars => [Record]_state BY StepAppends
<1>5. QED BY <1>1, <1>2, <1>3, <1>4, PTL DEF Spec, StateSpec

(* The variables of the process and of the store, by the provers they need *)
(* and the steps that disturb them.                                        *)
RunSets ==
  /\ pc \in InTurn \cup {"idle", "down", "reconciling", "deciding", "acknowledging", "minting", "starting"}
  /\ update \in {"none", "invalid", "noted"}
  /\ terminal \in {"none", "done", "stopped"}
  /\ used \in Seq(Calls)

RunFlags == expired \in BOOLEAN /\ bad \in BOOLEAN /\ lost \in BOOLEAN

FaultsOK == faults \in 0..MaxFaults

StoreOK ==
  /\ staged \in 0..MaxSequence
  /\ stored \in [1..MaxSequence -> {"none", "uncertain", "committed"}]
  /\ latest \in 0..MaxSequence
  /\ prepared \subseteq Finalizations
  /\ receipt \in Finalizations \cup {NoReceipt}

LEMMA RunTypeParts == TypeOK <=> StateTypeOK /\ RunSets /\ RunFlags /\ FaultsOK /\ StoreOK
BY DEF TypeOK, RunSets, RunFlags, FaultsOK, StoreOK

LEMMA RunSetsStep == ASSUME RunSets, [Next]_vars PROVE RunSets'
<1> USE DEF RunSets, InTurn
<1>1. CASE UNCHANGED vars BY <1>1 DEF vars, run
<1>2. CASE Begin
  <2>1. used' \in Seq(Calls) BY <1>2 DEF Begin
  <2>2. QED BY <1>2, <2>1 DEF Begin
<1>3. CASE Reconcile \/ GiveUp \/ RecordReconciled \/ AcknowledgeReconciled \/ Mint \/ StartTurn
  BY <1>3 DEF Reconcile, GiveUp, RecordReconciled, AcknowledgeReconciled, Mint, StartTurn
<1>4. CASE Put \/ BadEvent \/ Terminal \/ IteratorEnd
  BY <1>4 DEF Put, BadEvent, Terminal, IteratorEnd
<1>5. CASE Update \/ SettleKept \/ CatchKept BY <1>5 DEF Update, SettleKept, CatchKept, Note
<1>6. CASE StartHostTool
  <2>1. PICK call \in Calls : used' = Append(used, call) BY <1>6 DEF StartHostTool
  <2>2. used' \in Seq(Calls) BY <2>1
  <2>3. pc' \in {"calling", "running"} /\ UNCHANGED <<update, terminal>> BY <1>6 DEF StartHostTool
  <2>4. QED BY <2>2, <2>3
<1>7. CASE EndHostTool BY <1>7 DEF EndHostTool
<1>8. CASE Throw \/ Settle \/ Commit \/ RecordCompletion \/ AcknowledgeCompletion \/ CompleteTurn \/ FailTurn
  BY <1>8 DEF Throw, Settle, Commit, RecordCompletion, AcknowledgeCompletion, CompleteTurn, FailTurn
<1>9. CASE Command \/ Expire \/ Crash \/ Restart \/ RestartFails
  BY <1>9 DEF Command, Expire, Crash, Restart, RestartFails, run, vars
<1>10. QED
  BY <1>1, <1>2, <1>3, <1>4, <1>5, <1>6, <1>7, <1>8, <1>9 DEF Next, Advance, Prepares, Works, Ends

LEMMA RunFlagsStep == ASSUME RunFlags, [Next]_vars PROVE RunFlags'
<1>1. expired' \in {expired, FALSE, TRUE}
  BY DEF Next, Advance, Prepares, Works, Ends, vars, run, Begin, Reconcile, GiveUp, RecordReconciled,
    AcknowledgeReconciled, Mint, StartTurn, Put, Update, BadEvent, StartHostTool, EndHostTool, Terminal,
    IteratorEnd, Throw, SettleKept, Settle, Commit, RecordCompletion, AcknowledgeCompletion, CompleteTurn,
    CatchKept, FailTurn, Command, Expire, Crash, Restart, RestartFails
<1>2. bad' = bad \/ bad' = FALSE \/ bad' = TRUE
  BY DEF RunFlags, Next, Advance, Prepares, Works, Ends, vars, run, Begin, Reconcile, GiveUp, RecordReconciled,
    AcknowledgeReconciled, Mint, StartTurn, Put, Update, BadEvent, StartHostTool, EndHostTool, Terminal,
    IteratorEnd, Throw, SettleKept, Settle, Commit, RecordCompletion, AcknowledgeCompletion, CompleteTurn,
    CatchKept, FailTurn, Command, Expire, Crash, Restart, RestartFails
<1>3. lost' = lost \/ lost' = FALSE \/ lost' = TRUE
  BY DEF RunFlags, Next, Advance, Prepares, Works, Ends, vars, run, Begin, Reconcile, GiveUp, RecordReconciled,
    AcknowledgeReconciled, Mint, StartTurn, Put, Update, BadEvent, StartHostTool, EndHostTool, Terminal,
    IteratorEnd, Throw, SettleKept, Settle, Commit, RecordCompletion, AcknowledgeCompletion, CompleteTurn,
    CatchKept, FailTurn, Command, Expire, Crash, Restart, RestartFails, Forget
<1>4. QED BY <1>1, <1>2, <1>3 DEF RunFlags

LEMMA FaultsMove == ASSUME [Next]_vars PROVE UNCHANGED faults \/ Fault
BY DEF Next, Advance, Prepares, Works, Ends, vars, Begin, Reconcile, GiveUp, RecordReconciled,
    AcknowledgeReconciled, Mint, StartTurn, Put, Update, BadEvent, StartHostTool, EndHostTool, Terminal,
    IteratorEnd, Throw, SettleKept, Settle, Commit, RecordCompletion, AcknowledgeCompletion, CompleteTurn,
    CatchKept, FailTurn, Command, Expire, Crash, Restart, RestartFails, Refused, Logged, Acknowledged, Note

LEMMA FaultsStep == ASSUME FaultsOK, [Next]_vars PROVE FaultsOK'
BY FaultsMove DEF FaultsOK, Fault

(* What the operations of the store leave in it.                           *)
LEMMA LoggedStore == ASSUME StoreOK, Logged PROVE prepared' \subseteq Finalizations
<1> SUFFICES ASSUME NEW f \in prepared PROVE [f EXCEPT !.now = FALSE] \in Finalizations
  BY DEF Logged
<1>1. f \in Finalizations BY DEF StoreOK
<1>2. QED BY <1>1 DEF Finalizations

LEMMA MaterializedStore ==
  ASSUME StoreOK, NEW f \in Finalizations, Materialized(f)
  PROVE  /\ stored' \in [1..MaxSequence -> {"none", "uncertain", "committed"}]
         /\ latest' \in 0..MaxSequence
         /\ prepared' \subseteq Finalizations
<1>1. f.of \in 1..MaxSequence BY DEF Finalizations
<1>2. latest' \in 0..MaxSequence
  <2>1. f.of \in 0..MaxSequence /\ f.of - 1 \in 0..MaxSequence BY <1>1
  <2>2. latest' = f.of \/ latest' = f.of - 1 BY DEF Materialized, Active
  <2>3. QED BY <2>1, <2>2
<1>3. stored' \in [1..MaxSequence -> {"none", "uncertain", "committed"}]
  BY <1>1 DEF Materialized, StoreOK
<1>4. prepared' \subseteq Finalizations BY DEF Materialized, StoreOK
<1>5. QED BY <1>2, <1>3, <1>4

LEMMA PreparedStore ==
  ASSUME StoreOK, NEW n, NEW outcome \in {"committed", "gone"}, Prepare(n, outcome)
  PROVE  receipt' \in Finalizations /\ prepared' \subseteq Finalizations
<1>1. n \in 1..MaxSequence BY DEF Prepare, MayFinalize, StoreOK
<1>2. receipt' = [of |-> n, outcome |-> outcome, now |-> TRUE] BY DEF Prepare
<1>3. receipt' \in Finalizations BY <1>1, <1>2 DEF Finalizations
<1>4. QED BY <1>2, <1>3 DEF Prepare, StoreOK

LEMMA AcknowledgedStore ==
  ASSUME StoreOK, Acknowledged
  PROVE  /\ stored' \in [1..MaxSequence -> {"none", "uncertain", "committed"}]
         /\ latest' \in 0..MaxSequence
         /\ prepared' \subseteq Finalizations
<1>1. CASE UNCHANGED store BY <1>1 DEF store, StoreOK
<1>2. CASE MayFinalize(receipt.of) /\ Materialized(receipt)
  <2>1. receipt \in Finalizations BY <1>2 DEF MayFinalize, StoreOK, NoReceipt
  <2>2. QED BY <1>2, <2>1, MaterializedStore
<1>3. QED BY <1>1, <1>2 DEF Acknowledged

LEMMA StoreStep == ASSUME StateTypeOK, StoreOK, [Next]_vars PROVE StoreOK'
<1> USE DEF StoreOK, store
<1>1. CASE UNCHANGED vars BY <1>1 DEF vars, run
<1>2. CASE Begin \/ GiveUp \/ BadEvent \/ Terminal \/ IteratorEnd \/ Throw \/ Settle \/ Restart \/ RestartFails
  BY <1>2 DEF Begin, GiveUp, BadEvent, Terminal, IteratorEnd, Throw, Settle, Restart, RestartFails, vars, run
<1>3. CASE Reconcile
  <2>1. PICK outcome \in {"committed", "gone"} : Prepare(tip.sequence, outcome) BY <1>3 DEF Reconcile
  <2>2. receipt' \in Finalizations /\ prepared' \subseteq Finalizations BY <2>1, PreparedStore
  <2>3. UNCHANGED <<staged, stored, latest>> BY <1>3, <2>1 DEF Reconcile, Prepare
  <2>4. QED BY <2>2, <2>3
<1>4. CASE Commit
  <2>1. receipt' \in Finalizations /\ prepared' \subseteq Finalizations
    BY <1>4, PreparedStore DEF Commit
  <2>2. UNCHANGED <<staged, stored, latest>> BY <1>4 DEF Commit, Prepare
  <2>3. QED BY <2>1, <2>2
<1>5. CASE AcknowledgeReconciled \/ AcknowledgeCompletion
  BY <1>5, AcknowledgedStore DEF AcknowledgeReconciled, AcknowledgeCompletion
<1>6. CASE RecordReconciled \/ StartTurn \/ Update \/ StartHostTool \/ EndHostTool \/ SettleKept
           \/ RecordCompletion \/ CompleteTurn \/ CatchKept \/ FailTurn \/ Command
  <2>1. UNCHANGED <<staged, receipt>> /\ (Logged \/ UNCHANGED store)
    BY <1>6 DEF RecordReconciled, StartTurn, Update, StartHostTool, EndHostTool, SettleKept,
      RecordCompletion, CompleteTurn, CatchKept, FailTurn, Command, Note, Refused, run
  <2>2. prepared' \subseteq Finalizations BY <2>1, LoggedStore
  <2>3. QED BY <2>1, <2>2 DEF Logged
<1>7. CASE Mint
  <2>1. CASE UNCHANGED store BY <1>7, <2>1 DEF Mint
  <2>2. ASSUME NEW f \in Views(tip.sequence), Materialized(f) PROVE StoreOK'
    <3>1. f \in Finalizations BY DEF Views
    <3>2. QED BY <1>7, <2>2, <3>1, MaterializedStore DEF Mint
  <2>3. QED BY <1>7, <2>1, <2>2 DEF Mint, Viewed
<1>8. CASE Put
  <2>1. tip.sequence + 1 \in 1..MaxSequence BY <1>8 DEF Put, StateTypeOK, Handles
  <2>2. QED BY <1>8, <2>1 DEF Put
<1>9. CASE Expire \/ Crash
  <2>1. UNCHANGED <<staged, receipt>> /\ Forget BY <1>9 DEF Expire, Crash
  <2>2. QED BY <2>1 DEF Forget, Nothing
<1>10. QED
  BY <1>1, <1>2, <1>3, <1>4, <1>5, <1>6, <1>7, <1>8, <1>9 DEF Next, Advance, Prepares, Works, Ends

(* Every variable of the executor and of the store has its type, for any   *)
(* host tool calls, continuations and faults.                              *)
THEOREM TypeCorrect == Spec => []TypeOK
<1>1. Init => TypeOK
  <2> SUFFICES ASSUME Init PROVE TypeOK OBVIOUS
  <2>1. StateTypeOK BY FlagsInit, RestInit, TypeParts DEF Init
  <2>2. RunSets /\ FaultsOK BY DEF Init, RunSets, FaultsOK
  <2>3. RunFlags BY DEF Init, RunFlags
  <2>4. StoreOK BY DEF Init, StoreOK, Nothing
  <2>5. QED BY <2>1, <2>2, <2>3, <2>4, RunTypeParts
<1>2. TypeOK /\ [Next]_vars => TypeOK'
  <2> SUFFICES ASSUME TypeOK, [Next]_vars PROVE TypeOK' OBVIOUS
  <2>1. StateTypeOK /\ RunSets /\ RunFlags /\ FaultsOK /\ StoreOK BY RunTypeParts
  <2>2. StateTypeOK' BY <2>1, StateTypeStep
  <2>3. RunSets' /\ RunFlags' /\ FaultsOK' /\ StoreOK'
    BY <2>1, RunSetsStep, RunFlagsStep, FaultsStep, StoreStep
  <2>4. QED BY <2>2, <2>3 DEF TypeOK, RunSets, RunFlags, FaultsOK, StoreOK
<1>3. QED BY <1>1, <1>2, PTL DEF Spec

(* What the executor knows of the calls: as long as the protocol holds, a  *)
(* call is pending only while it runs, so none is when the result is       *)
(* recorded; and nothing is started after a result.                        *)
CallsKnown ==
  /\ pc = "starting" => ~open /\ pending = {}
  /\ pc \in {"running", "settling", "committing", "completing"} /\ ~bad => pending = {}
  /\ pc = "calling" /\ ~bad => pending \subseteq {used[Len(used)]}
  /\ pc \in {"committing", "completing"} => ~bad
  /\ pc \in {"starting", "running", "calling", "settling", "committing", "completing"} => ~completion
  /\ completion => pending = {}

LEMMA CallsKnownStep ==
  ASSUME RunSets, PendingOnlyInTurn, CallsKnown, [Next]_vars PROVE CallsKnown'
<1> USE DEF CallsKnown, RunSets
<1> DEFINE Same == UNCHANGED <<open, pending, completion>>
<1>1. CASE UNCHANGED vars BY <1>1 DEF vars, run, state, turn, tools, continuation
<1>2. CASE Begin \/ Reconcile \/ GiveUp \/ AcknowledgeReconciled
  <2>1. Same
    BY <1>2 DEF Begin, Reconcile, GiveUp, AcknowledgeReconciled, state, turn, tools, continuation
  <2>2. pc' \in {"reconciling", "deciding", "minting", "idle"}
    BY <1>2 DEF Begin, Reconcile, GiveUp, AcknowledgeReconciled
  <2>3. QED BY <2>1, <2>2
<1>3. CASE RecordReconciled
  BY <1>3 DEF RecordReconciled, ContinuationReconciled, Refused, state, turn, tools, continuation
<1>4. CASE Mint
  BY <1>4 DEF Mint, PendingOnlyInTurn, state, turn, tools, continuation
<1>5. CASE StartTurn
  BY <1>5 DEF StartTurn, TurnStarted, Refused, state, turn, tools, continuation
<1>6. CASE Put BY <1>6 DEF Put, state, turn, tools, continuation
<1>7. CASE Update
  <2>1. /\ Same /\ UNCHANGED used /\ pc = "running" /\ pc' = "running"
        /\ bad' = (bad \/ tip' = tip)
    BY <1>7 DEF Update, Note, ContinuationUpdated, Refused, state, turn, tools, continuation
  <2>2. QED BY <2>1
<1>8. CASE BadEvent BY <1>8 DEF BadEvent, state, turn, tools, continuation
<1>9. CASE StartHostTool
  <2>1. PICK call \in Calls : 
          /\ used' = Append(used, call)
          /\ \/ ToolStarted(call) /\ pc' = "calling" /\ UNCHANGED bad
             \/ UNCHANGED state /\ pc' = "running" /\ bad' = TRUE
    BY <1>9 DEF StartHostTool, Refused
  <2>2. used'[Len(used')] = call BY <2>1
  <2>3. pc = "running" BY <1>9 DEF StartHostTool
  <2>4. CASE ToolStarted(call) /\ pc' = "calling" /\ UNCHANGED bad
    BY <2>2, <2>3, <2>4 DEF ToolStarted, turn, continuation
  <2>5. CASE UNCHANGED state /\ pc' = "running" /\ bad' = TRUE
    BY <2>3, <2>5 DEF state, turn, tools, continuation
  <2>6. QED BY <2>1, <2>4, <2>5
<1>10. CASE EndHostTool
  <2>1. CASE UNCHANGED state
    BY <1>10, <2>1 DEF EndHostTool, ToolEnded, MayEndTool, state, turn, tools, continuation
  <2>2. CASE ToolEnded(used[Len(used)])
    BY <1>10, <2>2 DEF EndHostTool, ToolEnded, MayEndTool, turn, continuation
  <2>3. QED BY <1>10, <2>1, <2>2 DEF EndHostTool, Refused
<1>11. CASE Terminal \/ IteratorEnd
  <2>1. Same /\ UNCHANGED used /\ pc = "running" /\ pc' \in {"running", "settling"}
    BY <1>11 DEF Terminal, IteratorEnd, state, turn, tools, continuation
  <2>2. bad => bad' BY <1>11 DEF Terminal, IteratorEnd
  <2>3. QED BY <2>1, <2>2
<1>12. CASE Throw \/ Settle \/ Commit
  BY <1>12 DEF Throw, Settle, Commit, state, turn, tools, continuation
<1>13. CASE SettleKept \/ CatchKept
  <2>1. Same
    BY <1>13 DEF SettleKept, CatchKept, Note, ContinuationUpdated, Refused, state, turn, tools, continuation
  <2>2. pc' \in {"catching", "idle"} BY <1>13 DEF SettleKept, CatchKept, Note
  <2>3. QED BY <2>1, <2>2
<1>14. CASE RecordCompletion
  BY <1>14 DEF RecordCompletion, RuntimeCompleted, Refused, state, turn, tools, continuation
<1>15. CASE AcknowledgeCompletion
  BY <1>15 DEF AcknowledgeCompletion, state, turn, tools, continuation
<1>16. CASE CompleteTurn
  BY <1>16 DEF CompleteTurn, TurnCompleted, CloseTurn, Refused, state, turn, tools, continuation
<1>17. CASE FailTurn
  BY <1>17 DEF FailTurn, TurnFailed, CloseTurn, Refused, state, turn, tools, continuation
<1>18. CASE Command \/ RestartFails
  BY <1>18 DEF Command, RestartFails, vars, run, state, turn, tools, continuation
<1>19. CASE Expire \/ Crash BY <1>19 DEF Expire, Crash, state, turn, tools, continuation
<1>20. CASE Restart
  BY <1>20 DEF Restart, TurnCompleted, TurnInterrupted, CloseTurn, state, turn, tools, continuation
<1>21. QED
  BY <1>1, <1>2, <1>3, <1>4, <1>5, <1>6, <1>7, <1>8, <1>9, <1>10, <1>11, <1>12, <1>13, <1>14,
     <1>15, <1>16, <1>17, <1>18, <1>19, <1>20
     DEF Next, Advance, Prepares, Works, Ends

LEMMA CallsAreKnown == Spec => []CallsKnown
<1>1. Init => CallsKnown BY DEF Init, Created, CallsKnown
<1>2. TypeOK => RunSets BY RunTypeParts
<1>3. Safety => PendingOnlyInTurn BY DEF Safety
<1>4. RunSets /\ PendingOnlyInTurn /\ CallsKnown /\ [Next]_vars => CallsKnown' BY CallsKnownStep
<1>5. QED BY <1>1, <1>2, <1>3, <1>4, TypeCorrect, AppendsRecords, SafetyInvariant, PTL DEF Spec

(* A durable result can always be delivered: no tool call is pending.      *)
THEOREM ResultsCanClose == Spec => []CompletionCanClose
<1>1. CallsKnown => CompletionCanClose BY DEF CallsKnown, CompletionCanClose
<1>2. QED BY <1>1, CallsAreKnown, PTL

(* What the executor knows of its turn.  Without a fault and within the    *)
(* time of the capabilities the turn is open exactly inside the executor,  *)
(* the store can tell what the runtime staged, and the handle is uncertain *)
(* in the log exactly when the executor has noted it: so the catch can     *)
(* append the record that closes the turn.                                 *)
OnTime == faults = 0 /\ ~expired

PlaceKnown ==
  /\ backend = "runtime"
  /\ pc = "down" => faults # 0
  /\ pc \in {"reconciling", "deciding", "acknowledging", "minting", "starting"} => update = "none"
  /\ pc = "starting" => staged = 0
  /\ pc = "committing" => update = "noted"

TurnKnown ==
  OnTime =>
    /\ open <=> pc \in InTurn
    /\ pending # {} => pc = "calling" /\ pending = {used[Len(used)]}
    /\ completion <=> pc \in {"confirming", "closing"}
    /\ pc \in InTurn => completion \/ (update = "noted" <=> tip.status = "uncertain")
    /\ pc \in InTurn => completion \/ staged = 0 \/ MayFinalize(staged)

(* An append that is refused without a fault was not acceptable.           *)
LEMMA RefusedStep ==
  ASSUME FaultsOK, NEW accepted, Refused(accepted), accepted PROVE faults' # 0
BY DEF Refused, Fault, FaultsOK

LEMMA FaultSticks == ASSUME FaultsOK, [Next]_vars, faults # 0 PROVE faults' # 0
BY FaultsMove DEF FaultsOK, Fault

(* Time is given back only when capabilities are minted.                   *)
LEMMA TimeReturns == ASSUME [Next]_vars, ~expired', expired PROVE Mint
BY DEF Next, Advance, Prepares, Works, Ends, vars, run, Begin, Reconcile, GiveUp, RecordReconciled,
    AcknowledgeReconciled, Mint, StartTurn, Put, Update, BadEvent, StartHostTool, EndHostTool, Terminal,
    IteratorEnd, Throw, SettleKept, Settle, Commit, RecordCompletion, AcknowledgeCompletion, CompleteTurn,
    CatchKept, FailTurn, Command, Expire, Crash, Restart, RestartFails

LEMMA KeepsTime == ASSUME FaultsOK, [Next]_vars, OnTime', ~Mint PROVE OnTime
BY FaultSticks, TimeReturns DEF OnTime

LEMMA KindStays == ASSUME StateTypeOK, [Next]_vars PROVE backend' = backend
<1>1. [Record]_state BY StepAppends
<1>2. QED
  BY <1>1 DEF Record, TurnRecord, QueueRecord, ToolRecord, RuntimeRecord, CompactionRecord,
    TurnStarted, TurnCompleted, TurnFailed, TurnInterrupted, CloseTurn, AgentRunEnded,
    PromptQueued, PromptQueueCleared, ModelCompleted, ToolStarted, ToolEnded, ContinuationUpdated,
    RuntimeCompleted, ContinuationReconciled, CompactionStarted, SessionCompacted, CompactionAbandoned,
    state, kind

LEMMA PlaceKnownStep == ASSUME StateTypeOK, FaultsOK, PlaceKnown, [Next]_vars PROVE PlaceKnown'
<1> USE DEF PlaceKnown
<1>1. backend' = "runtime" BY KindStays
<1>2. CASE UNCHANGED vars BY <1>1, <1>2 DEF vars, run
<1>3. CASE Begin BY <1>1, <1>3 DEF Begin
<1>4. CASE Reconcile \/ GiveUp \/ RecordReconciled \/ AcknowledgeReconciled \/ Mint \/ StartTurn
  <2>1. pc' \in {"deciding", "acknowledging", "minting", "starting", "running", "idle"}
    BY <1>4 DEF Reconcile, GiveUp, RecordReconciled, AcknowledgeReconciled, Mint, StartTurn
  <2>2. UNCHANGED update
    BY <1>4 DEF Reconcile, GiveUp, RecordReconciled, AcknowledgeReconciled, Mint, StartTurn
  <2>3. pc \in {"reconciling", "deciding", "acknowledging", "minting", "starting"}
    BY <1>4 DEF Reconcile, GiveUp, RecordReconciled, AcknowledgeReconciled, Mint, StartTurn
  <2>4. pc' = "starting" => staged' = 0
    BY <1>4 DEF Reconcile, GiveUp, RecordReconciled, AcknowledgeReconciled, Mint, StartTurn
  <2>5. QED BY <1>1, <2>1, <2>2, <2>3, <2>4
<1>5. CASE Put \/ Update \/ BadEvent \/ StartHostTool \/ EndHostTool \/ Terminal \/ IteratorEnd
  <2>1. pc' \in {"running", "calling", "settling"}
    BY <1>5 DEF Put, Update, Note, BadEvent, StartHostTool, EndHostTool, Terminal, IteratorEnd
  <2>2. QED BY <1>1, <2>1
<1>6. CASE Settle BY <1>1, <1>6 DEF Settle
<1>7. CASE Throw \/ SettleKept \/ Commit \/ RecordCompletion \/ AcknowledgeCompletion \/ CompleteTurn
           \/ CatchKept \/ FailTurn
  <2>1. pc' \in {"catching", "completing", "confirming", "closing", "idle"}
    BY <1>7 DEF Throw, SettleKept, Commit, RecordCompletion, AcknowledgeCompletion, CompleteTurn,
      CatchKept, FailTurn, Note
  <2>2. QED BY <1>1, <2>1
<1>8. CASE Command \/ RestartFails BY <1>1, <1>8, FaultSticks DEF Command, RestartFails, vars, run
<1>9. CASE Expire BY <1>1, <1>9 DEF Expire
<1>10. CASE Crash BY <1>1, <1>10 DEF Crash, Fault, FaultsOK
<1>11. CASE Restart BY <1>1, <1>11 DEF Restart
<1>12. QED
  BY <1>2, <1>3, <1>4, <1>5, <1>6, <1>7, <1>8, <1>9, <1>10, <1>11
     DEF Next, Advance, Prepares, Works, Ends

(* A handle that is noted is recorded, or a fault has happened: whatever   *)
(* is noted on time was not noted before, so the reducer accepts it.       *)
LEMMA NotedIsRecorded ==
  ASSUME FaultsOK, Safety, PlaceKnown, TurnKnown, OnTime, pc \in InTurn, ~completion, update # "noted",
         NEW next, NEW failed, Note(next, failed), faults' = 0
  PROVE  /\ pc' = next /\ update' = "noted"
         /\ tip'.status = "uncertain"
         /\ UNCHANGED <<open, pending, completion, stored, latest>>
<1>1. tip.status # "uncertain" BY DEF TurnKnown
<1>2. MayUpdateContinuation
  BY <1>1 DEF MayUpdateContinuation, PlaceKnown, TurnKnown, Safety, UncertainFollowsPrior
<1>3. ~Refused(MayUpdateContinuation) BY <1>2, RefusedStep
<1>4. ContinuationUpdated /\ Logged /\ pc' = next /\ update' = "noted" BY <1>3 DEF Note
<1>5. QED BY <1>4 DEF ContinuationUpdated, Uncertain, Logged, turn, tools

LEMMA TurnKnownStep ==
  ASSUME StateTypeOK, RunSets, FaultsOK, StoreOK, Safety, CallsKnown, PlaceKnown, TurnKnown, [Next]_vars
  PROVE  TurnKnown'
<1> SUFFICES ASSUME OnTime'
             PROVE  /\ open' <=> pc' \in InTurn
                    /\ pending' # {} => pc' = "calling" /\ pending' = {used'[Len(used')]}
                    /\ completion' <=> pc' \in {"confirming", "closing"}
                    /\ pc' \in InTurn => completion' \/ (update' = "noted" <=> tip'.status = "uncertain")
                    /\ pc' \in InTurn => completion' \/ staged' = 0 \/ MayFinalize(staged)'
  BY DEF TurnKnown, InTurn
<1> faults' = 0 BY DEF OnTime
<1> USE DEF InTurn, MayFinalize
<1>1. CASE Mint
  BY <1>1 DEF Mint, Safety, PendingOnlyInTurn, state, turn, tools, continuation
<1>2. CASE ~Mint
  <2> OnTime BY <1>2, KeepsTime
  <2> /\ open <=> pc \in InTurn
      /\ pending # {} => pc = "calling" /\ pending = {used[Len(used)]}
      /\ completion <=> pc \in {"confirming", "closing"}
      /\ pc \in InTurn => completion \/ (update = "noted" <=> tip.status = "uncertain")
      /\ pc \in InTurn => completion \/ staged = 0 \/ MayFinalize(staged)
    BY DEF TurnKnown
  <2>1. CASE UNCHANGED vars
    BY <2>1 DEF vars, run, store, state, turn, tools, continuation
  <2>2. CASE Begin \/ Reconcile \/ GiveUp \/ AcknowledgeReconciled
    <3>1. UNCHANGED <<open, pending, completion>> /\ pc \notin InTurn /\ pc' \notin InTurn
      BY <2>2 DEF Begin, Reconcile, GiveUp, AcknowledgeReconciled, state, turn, tools, continuation
    <3>2. QED BY <3>1
  <2>3. CASE RecordReconciled
    <3>1. UNCHANGED <<open, pending, completion>> /\ pc \notin InTurn /\ pc' \notin InTurn
      BY <2>3 DEF RecordReconciled, ContinuationReconciled, Refused, state, turn, tools, continuation
    <3>2. QED BY <3>1
  <2>4. CASE StartTurn
    <3>1. pc = "starting" /\ update = "none" /\ staged' = 0 /\ update' = update
      BY <2>4 DEF StartTurn, PlaceKnown
    <3>2. CASE TurnStarted({}) /\ pc' = "running"
      BY <3>1, <3>2 DEF TurnStarted, MayStartTurn, tools, continuation
    <3>3. CASE UNCHANGED state /\ pc' = "idle"
      BY <3>1, <3>3 DEF state, turn, tools, continuation
    <3>4. QED BY <2>4, <3>2, <3>3 DEF StartTurn, Refused
  <2>5. CASE Put
    <3>1. staged' = tip.sequence + 1 /\ staged' \in 1..MaxSequence
      BY <2>5 DEF Put, StateTypeOK, Handles
    <3>2. latest' = staged' /\ stored'[staged'] = "uncertain" /\ staged' > 0
      BY <2>5, <3>1 DEF Put, StoreOK
    <3>3. UNCHANGED <<state, pc, update, used>> BY <2>5 DEF Put
    <3>4. QED BY <3>2, <3>3 DEF state, turn, tools, continuation
  <2>6. CASE Update
    <3>1. pc = "running" /\ update # "noted" /\ Note("running", "running") /\ staged' = staged
      BY <2>6 DEF Update
    <3>2. /\ pc' = "running" /\ update' = "noted" /\ tip'.status = "uncertain"
          /\ UNCHANGED <<open, pending, completion, stored, latest>>
      BY <3>1, NotedIsRecorded
    <3>3. QED BY <3>1, <3>2
  <2>7. CASE BadEvent
    <3>1. UNCHANGED <<state, pc, staged, store, used>> /\ (update' = "noted" <=> update = "noted")
      BY <2>7 DEF BadEvent
    <3>2. QED BY <3>1 DEF store, state, turn, tools, continuation
  <2>8. CASE StartHostTool
    <3>1. PICK call \in Calls :
            /\ used' = Append(used, call)
            /\ ToolStarted(call) /\ Logged /\ pc' = "calling"
      BY <2>8, RefusedStep DEF StartHostTool
    <3>2. used'[Len(used')] = call BY <3>1 DEF RunSets
    <3>3. pc = "running" /\ UNCHANGED <<update, staged>> BY <2>8 DEF StartHostTool
    <3>4. pending' = {call} /\ UNCHANGED <<open, completion, tip>>
      BY <3>1, <3>3 DEF ToolStarted, turn, continuation
    <3>5. UNCHANGED <<stored, latest>> BY <3>1 DEF Logged
    <3>6. QED BY <3>1, <3>2, <3>3, <3>4, <3>5
  <2>9. CASE EndHostTool
    <3>1. ToolEnded(used[Len(used)]) /\ Logged BY <2>9, RefusedStep DEF EndHostTool
    <3>2. pc = "calling" /\ pc' = "running" /\ UNCHANGED <<update, staged>> BY <2>9 DEF EndHostTool
    <3>3. pending' = {} /\ UNCHANGED <<open, completion, tip>>
      BY <3>1 DEF ToolEnded, turn, continuation
    <3>4. UNCHANGED <<stored, latest>> BY <3>1 DEF Logged
    <3>5. QED BY <3>2, <3>3, <3>4
  <2>10. CASE Terminal \/ IteratorEnd \/ Throw \/ Settle
    <3>1. UNCHANGED <<state, update, staged, stored, latest>>
      BY <2>10 DEF Terminal, IteratorEnd, Throw, Settle, store
    <3>2. /\ pc \in {"running", "settling", "committing"}
          /\ pc' \in {"running", "settling", "catching", "committing", "completing"}
      BY <2>10 DEF Terminal, IteratorEnd, Throw, Settle
    <3>3. QED BY <3>1, <3>2 DEF state, turn, tools, continuation
  <2>11. CASE SettleKept
    <3>1. pc = "settling" /\ update # "noted" /\ Note("catching", "catching") /\ staged' = staged
      BY <2>11 DEF SettleKept
    <3>2. /\ pc' = "catching" /\ update' = "noted" /\ tip'.status = "uncertain"
          /\ UNCHANGED <<open, pending, completion, stored, latest>>
      BY <3>1, NotedIsRecorded
    <3>3. QED BY <3>1, <3>2
  <2>12. CASE Commit
    <3>1. UNCHANGED <<state, update, staged, stored, latest>> BY <2>12 DEF Commit, Prepare
    <3>2. pc = "committing" /\ pc' = "completing" BY <2>12 DEF Commit
    <3>3. QED BY <3>1, <3>2 DEF state, turn, tools, continuation
  <2>13. CASE RecordCompletion
    <3>1. pc = "completing" BY <2>13 DEF RecordCompletion
    <3>2. MayCompleteRuntime(update = "noted") BY <3>1 DEF MayCompleteRuntime, PlaceKnown
    <3>3. RuntimeCompleted(update = "noted") /\ pc' \in {"confirming", "closing"}
      BY <2>13, <3>2, RefusedStep DEF RecordCompletion
    <3>4. QED BY <3>1, <3>3 DEF RuntimeCompleted, turn, tools
  <2>14. CASE AcknowledgeCompletion
    BY <2>14 DEF AcknowledgeCompletion, state, turn, tools, continuation
  <2>15. CASE CompleteTurn
    <3>1. pc = "closing" BY <2>15 DEF CompleteTurn
    <3>2. MayCompleteTurn BY <3>1 DEF MayCompleteTurn, MayCloseTurn
    <3>3. TurnCompleted /\ pc' = "idle" BY <2>15, <3>2, RefusedStep DEF CompleteTurn
    <3>4. QED BY <3>1, <3>3 DEF TurnCompleted, CloseTurn, tools
  <2>16. CASE CatchKept
    <3>1. pc = "catching" /\ update # "noted" /\ staged' = staged BY <2>16 DEF CatchKept
    <3>2. MayRecover BY <3>1 DEF MayRecover, OnTime
    <3>3. Note("catching", "idle") BY <2>16, <3>2 DEF CatchKept
    <3>4. /\ pc' = "catching" /\ update' = "noted" /\ tip'.status = "uncertain"
          /\ UNCHANGED <<open, pending, completion, stored, latest>>
      BY <3>1, <3>3, NotedIsRecorded
    <3>5. QED BY <3>1, <3>4
  <2>17. CASE FailTurn
    <3>1. pc = "catching" /\ pc' = "idle" BY <2>17 DEF FailTurn
    <3>2. MayFailTurn(update = "noted") BY <3>1 DEF MayFailTurn, MayCloseTurn
    <3>3. PICK how \in {"failed", "cancelled"} : TurnFailed(how, update = "noted")
      BY <2>17, <3>2, RefusedStep DEF FailTurn
    <3>4. open' = FALSE /\ UNCHANGED <<pending, completion>> BY <3>3 DEF TurnFailed, CloseTurn, tools
    <3>5. QED BY <3>1, <3>4
  <2>18. CASE Command
    BY <2>18 DEF Command, run, state, turn, tools, continuation
  <2>19. CASE Expire \/ Crash \/ Restart \/ RestartFails
    <3>1. expired' \/ faults' # 0
      BY <2>19, FaultSticks DEF Expire, Crash, Restart, RestartFails, Fault, FaultsOK, PlaceKnown
    <3>2. QED BY <3>1 DEF OnTime
  <2>20. QED
    BY <1>2, <2>1, <2>2, <2>3, <2>4, <2>5, <2>6, <2>7, <2>8, <2>9, <2>10, <2>11, <2>12, <2>13, <2>14,
       <2>15, <2>16, <2>17, <2>18, <2>19 DEF Next, Advance, Prepares, Works, Ends
<1>3. QED BY <1>1, <1>2

LEMMA TurnIsKnown == Spec => [](PlaceKnown /\ TurnKnown)
<1>1. Init => PlaceKnown /\ TurnKnown
  BY DEF Init, Created, PlaceKnown, TurnKnown, InTurn
<1>2. TypeOK => StateTypeOK /\ RunSets /\ FaultsOK /\ StoreOK BY RunTypeParts
<1>3. StateTypeOK /\ FaultsOK /\ PlaceKnown /\ [Next]_vars => PlaceKnown' BY PlaceKnownStep
<1>4. StateTypeOK /\ RunSets /\ FaultsOK /\ StoreOK /\ Safety /\ CallsKnown /\ PlaceKnown /\ TurnKnown
      /\ [Next]_vars => TurnKnown'
  BY TurnKnownStep
<1>5. QED
  BY <1>1, <1>2, <1>3, <1>4, TypeCorrect, CallsAreKnown, AppendsRecords, SafetyInvariant, PTL DEF Spec

(* Unless the disk, the process or the clock fails, no run returns with    *)
(* its turn open.                                                          *)
THEOREM ClosedTurns == Spec => []RunsCloseTheirTurn
<1>1. TurnKnown => RunsCloseTheirTurn BY DEF TurnKnown, OnTime, RunsCloseTheirTurn, InTurn
<1>2. QED BY <1>1, TurnIsKnown, PTL

-----------------------------------------------------------------------------
(* The store and the log.  Base is the sequence of the continuation the    *)
(* log has decided last: the tip, or what an uncertain tip falls back to.  *)
Base == IF tip.status = "uncertain" THEN prior.sequence ELSE tip.sequence

HandlesKnown ==
  /\ tip = NoHandle \/ (tip.sequence > 0 /\ tip.status \in {"committed", "uncertain"})
  /\ prior = NoHandle \/ (prior.sequence > 0 /\ prior.status = "committed")

(* Where the run is tells what the log says of the continuation, what the  *)
(* runtime may have staged and which finalization was prepared last.       *)
StepKnown ==
  /\ pc \in InTurn => open
  /\ pc \in {"reconciling", "deciding"} => tip.status = "uncertain"
  /\ pc \in {"acknowledging", "minting", "starting"} => tip.status # "uncertain"
  /\ pc = "deciding" => receipt.of = tip.sequence
  /\ pc = "acknowledging" => Active(receipt) = tip.sequence
  /\ pc \in InTurn => staged \in {0, IF completion THEN tip.sequence ELSE Base + 1}
  /\ pc \in {"running", "calling", "settling", "committing", "completing"} /\ update = "noted" /\ ~bad
       => tip.status = "uncertain" /\ staged = tip.sequence
  /\ pc = "completing" => IF update = "noted" THEN receipt.of = tip.sequence /\ receipt.outcome = "committed"
                                              ELSE staged = 0
  /\ pc = "confirming" => receipt.of = tip.sequence /\ receipt.outcome = "committed"
  /\ pc \in {"confirming", "closing"} => completion

(* The log's decided continuation n is the one the store has, or it is     *)
(* prepared there and only the acknowledgement is missing.                 *)
Follows(n) ==
  \/ Stands(n)
  \/ Views(n) # {} /\ (latest = n + 1 /\ n > 0 => stored[n] = "committed")

Deciding == pc = "deciding" \/ (pc = "completing" /\ update = "noted")
StagedAhead == pc \in InTurn /\ staged = tip.sequence + 1
AtRest == IF pc \in InTurn THEN staged # tip.sequence + 1 ELSE ~open

(* As long as nothing was dropped, the store holds what the log calls      *)
(* uncertain and what it would fall back to, ...                           *)
UncertainHeld ==
  tip.status = "uncertain" =>
    /\ MayFinalize(tip.sequence)
    /\ prior # NoHandle => stored[prior.sequence] = "committed"
    /\ Deciding => receipt \in prepared
(* ... what the runtime has staged beyond it, ...                          *)
StagedHeld ==
  tip.status # "uncertain" /\ StagedAhead =>
    MayFinalize(staged) /\ (tip # NoHandle => stored[tip.sequence] = "committed")
(* ... and what the log has decided.                                       *)
DecidedHeld ==
  tip.status # "uncertain" /\ AtRest => \A n \in 0..MaxSequence : n = tip.sequence => Follows(n)
NothingDown == pc = "down" => tip = NoHandle /\ latest = 0

Agree == ~lost => UncertainHeld /\ StagedHeld /\ DecidedHeld /\ NothingDown

(* What a record may do to the tip and its predecessor.                    *)
HandleKept == UNCHANGED <<tip, prior>>
HandleNoted == tip.status # "uncertain" /\ prior' = tip /\ tip' = Uncertain(tip.sequence + 1)
HandleDecided == tip.status = "uncertain" /\ tip' \in {Committed(tip.sequence), prior} /\ prior' = NoHandle

LEMMA HandleMoves ==
  ASSUME Safety, [Record]_state PROVE HandleKept \/ HandleNoted \/ HandleDecided
<1> USE DEF HandleKept, HandleNoted, HandleDecided, kind, turn, tools, continuation, state
<1>1. CASE UNCHANGED state BY <1>1
<1>2. CASE TurnRecord
  BY <1>2 DEF TurnRecord, TurnStarted, TurnCompleted, TurnFailed, TurnInterrupted, AgentRunEnded, CloseTurn
<1>3. CASE QueueRecord BY <1>3 DEF QueueRecord, PromptQueued, PromptQueueCleared
<1>4. CASE ToolRecord BY <1>4 DEF ToolRecord, ModelCompleted, ToolStarted, ToolEnded
<1>5. CASE ContinuationUpdated BY <1>5 DEF ContinuationUpdated, MayUpdateContinuation
<1>6. ASSUME NEW commits \in BOOLEAN, RuntimeCompleted(commits) PROVE HandleKept \/ HandleDecided
  <2>1. commits = (tip.status = "uncertain") BY <1>6 DEF RuntimeCompleted, MayCompleteRuntime
  <2>2. prior' = NoHandle /\ tip' = IF commits THEN Committed(tip.sequence) ELSE tip
    BY <1>6 DEF RuntimeCompleted
  <2>3. CASE commits BY <2>1, <2>2, <2>3
  <2>4. CASE ~commits
    <3>1. prior = NoHandle BY <2>1, <2>4 DEF Safety, UncertainFollowsPrior
    <3>2. QED BY <2>2, <2>4, <3>1
  <2>5. QED BY <2>3, <2>4
<1>7. ASSUME NEW committed \in BOOLEAN, ContinuationReconciled(committed) PROVE HandleDecided
  BY <1>7 DEF ContinuationReconciled, MayReconcile
<1>8. CASE CompactionRecord
  BY <1>8 DEF CompactionRecord, CompactionStarted, SessionCompacted, CompactionAbandoned
<1>9. QED BY <1>1, <1>2, <1>3, <1>4, <1>5, <1>6, <1>7, <1>8 DEF Record, RuntimeRecord

LEMMA HandlesStep ==
  ASSUME StateTypeOK, Safety, HandlesKnown, [Record]_state PROVE HandlesKnown'
<1> USE DEF HandlesKnown, NoHandle, Committed, Uncertain
<1>1. tip.sequence \in Nat BY DEF StateTypeOK, Handles
<1>2. CASE HandleKept BY <1>2 DEF HandleKept
<1>3. CASE HandleNoted
  <2>1. tip'.sequence > 0 /\ tip'.status = "uncertain" BY <1>1, <1>3 DEF HandleNoted
  <2>2. prior' = NoHandle \/ (prior'.sequence > 0 /\ prior'.status = "committed")
    BY <1>3 DEF HandleNoted
  <2>3. QED BY <2>1, <2>2
<1>4. CASE HandleDecided BY <1>1, <1>4 DEF HandleDecided
<1>5. QED BY <1>2, <1>3, <1>4, HandleMoves

(* The decided continuation never goes back.                               *)
LEMMA BaseGrows ==
  ASSUME StateTypeOK, Safety, [Record]_state PROVE Base \in Nat /\ Base' \in Nat /\ Base' >= Base
<1>1. tip.sequence \in Nat /\ prior.sequence \in Nat BY DEF StateTypeOK, Handles
<1>2. CASE HandleKept BY <1>1, <1>2 DEF HandleKept, Base
<1>3. CASE HandleNoted BY <1>1, <1>3 DEF HandleNoted, Base, Uncertain
<1>4. CASE HandleDecided
  <2>1. tip.sequence = prior.sequence + 1 /\ prior.status # "uncertain"
    BY <1>4 DEF HandleDecided, Safety, UncertainFollowsPrior
  <2>2. Base = prior.sequence /\ Base' = tip'.sequence
    BY <1>4, <2>1 DEF HandleDecided, Base, Committed
  <2>3. QED BY <1>1, <1>4, <2>1, <2>2 DEF HandleDecided, Committed
<1>5. QED BY <1>2, <1>3, <1>4, HandleMoves

(* A handle is noted: the record makes the staged continuation the         *)
(* uncertain tip, or it is refused.                                        *)
LEMMA NoteMoves ==
  ASSUME StateTypeOK, StoreOK, StepKnown, pc \in InTurn, NEW next, NEW failed, Note(next, failed), staged' = staged
  PROVE  \/ /\ pc' = next /\ tip' = Uncertain(tip.sequence + 1) /\ prior' = tip /\ staged = tip.sequence + 1
            /\ tip.status # "uncertain" /\ Base' = Base
            /\ UNCHANGED <<open, completion>> /\ ~completion /\ Logged
         \/ pc' = failed /\ UNCHANGED <<state, store>>
<1>1. CASE pc' = failed /\ UNCHANGED <<state, store>> BY <1>1
<1>2. CASE ContinuationUpdated /\ Logged /\ pc' = next
  <2>1. tip.status # "uncertain" /\ ~completion
    BY <1>2 DEF ContinuationUpdated, MayUpdateContinuation
  <2>2. tip' = Uncertain(tip.sequence + 1) /\ prior' = tip /\ UNCHANGED <<open, completion>>
    BY <1>2 DEF ContinuationUpdated, turn
  <2>3. staged > 0 /\ staged \in {0, tip.sequence + 1}
    <3>1. staged > 0 BY DEF Note
    <3>2. QED BY <2>1, <3>1 DEF StepKnown, Base
  <2>4. Base' = Base BY <2>1, <2>2 DEF Base, Uncertain
  <2>5. QED BY <1>2, <2>1, <2>2, <2>3, <2>4
<1>3. QED BY <1>1, <1>2 DEF Note, Refused

LEMMA StepKnownStep ==
  ASSUME StateTypeOK, RunSets, StoreOK, Safety, CallsKnown, PlaceKnown, HandlesKnown, StepKnown,
         CommittedOnlyDurably, [Next]_vars
  PROVE  StepKnown'
<1> USE DEF StepKnown, InTurn
<1> DEFINE Log == UNCHANGED <<open, tip, prior, completion>>
<1>1. tip.sequence \in Nat /\ prior.sequence \in Nat BY DEF StateTypeOK, Handles
<1>2. tip.status = "uncertain" => tip.sequence = prior.sequence + 1
  BY DEF Safety, UncertainFollowsPrior
<1>3. UNCHANGED state => Log BY DEF state, turn, continuation
<1>4. CASE UNCHANGED vars BY <1>3, <1>4 DEF vars, run, Base
<1>5. CASE Begin BY <1>3, <1>5 DEF Begin
<1>6. CASE Reconcile
  <2>1. PICK outcome \in {"committed", "gone"} : Prepare(tip.sequence, outcome) BY <1>6 DEF Reconcile
  <2>2. receipt'.of = tip.sequence BY <2>1 DEF Prepare
  <2>3. QED BY <1>3, <1>6, <2>2 DEF Reconcile
<1>7. CASE GiveUp BY <1>7 DEF GiveUp
<1>8. CASE RecordReconciled
  <2>1. CASE UNCHANGED state /\ pc' = "idle" BY <2>1
  <2>2. CASE ContinuationReconciled(receipt.outcome = "committed") /\ pc' = "acknowledging"
    <3>1. receipt' = receipt /\ receipt.of = tip.sequence BY <1>8 DEF RecordReconciled
    <3>2. tip.status = "uncertain" /\ prior.status # "uncertain"
      BY <1>8 DEF RecordReconciled, Safety, UncertainFollowsPrior
    <3>3. tip' = IF receipt.outcome = "committed" THEN Committed(tip.sequence) ELSE prior
      BY <2>2 DEF ContinuationReconciled
    <3>4. tip'.status # "uncertain" /\ Active(receipt) = tip'.sequence
      BY <1>1, <1>2, <3>1, <3>2, <3>3 DEF Committed, Active
    <3>5. Active(receipt)' = Active(receipt) BY <3>1 DEF Active
    <3>6. QED BY <2>2, <3>4, <3>5
  <2>3. QED BY <1>8, <2>1, <2>2 DEF RecordReconciled, Refused
<1>9. CASE AcknowledgeReconciled
  BY <1>3, <1>9 DEF AcknowledgeReconciled
<1>10. CASE Mint BY <1>3, <1>10 DEF Mint
<1>11. CASE StartTurn
  <2>1. staged' = 0 /\ update' # "noted" BY <1>11 DEF StartTurn, PlaceKnown
  <2>2. CASE TurnStarted({}) /\ pc' = "running" BY <2>1, <2>2 DEF TurnStarted
  <2>3. CASE pc' = "idle" BY <2>3
  <2>4. QED BY <1>11, <2>2, <2>3 DEF StartTurn
<1>12. CASE Put
  <2>1. tip.status # "uncertain"
    <3>1. SUFFICES ASSUME tip.status = "uncertain" PROVE FALSE OBVIOUS
    <3>2. tip.sequence > 0 /\ Base < tip.sequence BY <1>1, <1>2, <3>1 DEF Base
    <3>3. stored[tip.sequence] = "committed" /\ tip.sequence \in 1..MaxSequence
      BY <1>12, <1>1, <3>2 DEF Put, Stands
    <3>4. tip.sequence <= Base BY <3>1, <3>3 DEF CommittedOnlyDurably, Base
    <3>5. QED BY <1>1, <3>1, <3>2, <3>4 DEF Base
  <2>2. pc \in {"running", "calling"} /\ staged = 0 /\ staged' = tip.sequence + 1 BY <1>12 DEF Put
  <2>3. ~completion /\ (update = "noted" => bad) BY <2>1, <2>2 DEF CallsKnown
  <2>4. UNCHANGED <<state, pc, update, bad>> BY <1>12 DEF Put
  <2>5. Log BY <1>3, <2>4
  <2>6. staged' = Base' + 1 BY <2>1, <2>2, <2>5 DEF Base
  <2>7. QED BY <2>2, <2>3, <2>4, <2>5, <2>6
<1>13. CASE Update
  <2>1. pc = "running" /\ Note("running", "running") /\ staged' = staged /\ bad' = (bad \/ tip' = tip)
    BY <1>13 DEF Update
  <2>2. CASE UNCHANGED <<state, store>>
    <3>1. Log /\ bad' /\ pc' = "running" BY <1>3, <2>1, <2>2 DEF Note, state, continuation
    <3>2. QED BY <2>1, <3>1 DEF Base
  <2>3. CASE /\ tip' = Uncertain(tip.sequence + 1) /\ staged = tip.sequence + 1 /\ Base' = Base
             /\ UNCHANGED <<open, completion>> /\ ~completion /\ pc' = "running"
    BY <2>1, <2>3 DEF Uncertain
  <2>4. QED BY <2>1, <2>2, <2>3, NoteMoves
<1>14. CASE SettleKept \/ CatchKept
  <2>1. pc \in {"settling", "catching"} /\ staged' = staged BY <1>14 DEF SettleKept, CatchKept
  <2>2. CASE pc' = "idle" BY <2>2
  <2>3. CASE pc' = "catching" /\ Note("catching", "catching")
    BY <1>3, <2>1, <2>3, NoteMoves DEF Base
  <2>4. CASE pc' = "catching" /\ Note("catching", "idle")
    BY <1>3, <2>1, <2>4, NoteMoves DEF Base
  <2>5. QED
    <3>1. CASE SettleKept BY <2>3, <3>1 DEF SettleKept, Note
    <3>2. CASE CatchKept BY <2>2, <2>4, <3>2 DEF CatchKept, Note
    <3>3. QED BY <1>14, <3>1, <3>2
<1>15. CASE BadEvent
  <2>1. UNCHANGED <<state, pc, staged>> /\ pc = "running" /\ bad' BY <1>15 DEF BadEvent
  <2>2. QED BY <1>3, <2>1 DEF Base
<1>16. CASE StartHostTool
  <2>1. PICK call \in Calls :
          \/ ToolStarted(call) /\ pc' = "calling" /\ UNCHANGED bad
          \/ UNCHANGED state /\ pc' = "running" /\ bad' = TRUE
    BY <1>16 DEF StartHostTool, Refused
  <2>2. Log BY <1>3, <2>1 DEF ToolStarted, turn, continuation
  <2>3. pc = "running" /\ UNCHANGED <<update, staged>> BY <1>16 DEF StartHostTool
  <2>4. QED BY <2>1, <2>2, <2>3 DEF Base
<1>17. CASE EndHostTool
  <2>1. \/ ToolEnded(used[Len(used)]) /\ bad' \in {bad, TRUE}
        \/ UNCHANGED state /\ bad' = TRUE
    BY <1>17 DEF EndHostTool, Refused
  <2>2. Log BY <1>3, <2>1 DEF ToolEnded, turn, continuation
  <2>3. pc = "calling" /\ pc' = "running" /\ UNCHANGED <<update, staged>> BY <1>17 DEF EndHostTool
  <2>4. QED BY <2>1, <2>2, <2>3 DEF Base
<1>18. CASE Terminal \/ IteratorEnd \/ Throw
  <2>1. UNCHANGED <<state, update, staged>> /\ bad' \in {bad, TRUE}
    BY <1>18 DEF Terminal, IteratorEnd, Throw
  <2>2. \/ pc = "running" /\ pc' \in {"running", "settling"}
        \/ pc \in {"settling", "committing"} /\ pc' = "catching"
    BY <1>18 DEF Terminal, IteratorEnd, Throw
  <2>3. Log /\ Base' = Base /\ (~bad' => ~bad)
    <3>1. Log /\ Base' = Base BY <1>3, <2>1 DEF Base
    <3>2. bad' = bad \/ bad' = TRUE BY <2>1
    <3>3. ~bad' => ~bad BY <3>2
    <3>4. QED BY <3>1, <3>3
  <2>4. CASE pc' = "catching" BY <2>1, <2>2, <2>3, <2>4
  <2>5. CASE pc = "running" /\ pc' \in {"running", "settling"} BY <2>1, <2>3, <2>5
  <2>6. QED BY <2>2, <2>4, <2>5
<1>19. CASE Settle
  <2>1. UNCHANGED <<state, update, staged, bad>> /\ pc = "settling" BY <1>19 DEF Settle
  <2>2. pc' \in {"catching", "committing"} \/ (pc' = "completing" /\ update # "noted" /\ staged = 0)
    BY <1>19 DEF Settle, StoreOK
  <2>3. QED BY <1>3, <2>1, <2>2 DEF Base
<1>20. CASE Commit
  <2>1. pc = "committing" /\ update = "noted" /\ ~bad BY <1>20 DEF Commit, PlaceKnown, CallsKnown
  <2>2. UNCHANGED <<state, update, staged, bad>> /\ pc' = "completing" BY <1>20 DEF Commit
  <2>3. receipt'.of = staged /\ receipt'.outcome = "committed" BY <1>20 DEF Commit, Prepare
  <2>4. QED BY <1>3, <2>1, <2>2, <2>3 DEF Base
<1>21. CASE RecordCompletion
  <2>1. pc = "completing" /\ ~bad /\ ~completion /\ UNCHANGED <<update, staged, bad, receipt>>
    BY <1>21 DEF RecordCompletion, CallsKnown
  <2>2. CASE RuntimeCompleted(update = "noted") /\ pc' \in {"confirming", "closing"}
             /\ (pc' = "confirming" <=> update = "noted")
    <3>1. completion' = TRUE /\ open' = open /\ tip'.sequence = tip.sequence
      BY <2>2 DEF RuntimeCompleted, turn, Committed
    <3>2. QED BY <2>1, <2>2, <3>1
  <2>3. CASE UNCHANGED state /\ pc' = "catching" BY <1>3, <2>1, <2>3 DEF Base
  <2>4. QED BY <1>21, <2>2, <2>3 DEF RecordCompletion, Refused
<1>22. CASE AcknowledgeCompletion
  BY <1>3, <1>22 DEF AcknowledgeCompletion, Base
<1>23. CASE CompleteTurn
  <2>1. pc = "closing" /\ staged' = staged BY <1>23 DEF CompleteTurn
  <2>2. pc' = "idle" \/ (UNCHANGED state /\ pc' = "catching") BY <1>23 DEF CompleteTurn, Refused
  <2>3. QED BY <1>3, <2>1, <2>2 DEF Base
<1>24. CASE FailTurn \/ Crash \/ Restart BY <1>24 DEF FailTurn, Crash, Restart
<1>25. CASE Command \/ RestartFails
  <2>1. pc' \in {"idle", "down"} BY <1>25 DEF Command, RestartFails, run, vars
  <2>2. QED BY <2>1
<1>26. CASE Expire
  <2>1. UNCHANGED <<state, pc, update, staged, bad, receipt>> BY <1>26 DEF Expire
  <2>2. QED BY <1>3, <2>1 DEF Base, Active
<1>27. QED
  BY <1>4, <1>5, <1>6, <1>7, <1>8, <1>9, <1>10, <1>11, <1>12, <1>13, <1>14, <1>15, <1>16, <1>17, <1>18,
     <1>19, <1>20, <1>21, <1>22, <1>23, <1>24, <1>25, <1>26 DEF Next, Advance, Prepares, Works, Ends

(* An outcome takes effect in the store only when the log says so.         *)
LEMMA MaterializedDurable ==
  ASSUME StateTypeOK, StoreOK, CommittedOnlyDurably, NEW f \in Finalizations, Materialized(f),
         Active(f) = tip.sequence, tip.status # "uncertain", UNCHANGED <<tip, prior>>
  PROVE  CommittedOnlyDurably'
<1>1. f.of \in 1..MaxSequence /\ tip.sequence \in Nat BY DEF Finalizations, StateTypeOK, Handles
<1>2. SUFFICES ASSUME NEW n \in 1..MaxSequence, stored'[n] = "committed" PROVE n <= tip.sequence
  BY DEF CommittedOnlyDurably
<1>3. CASE stored[n] = "committed" BY <1>3 DEF CommittedOnlyDurably
<1>4. CASE stored[n] # "committed"
  <2>1. n = f.of /\ f.outcome = "committed" BY <1>1, <1>2, <1>4 DEF Materialized, StoreOK
  <2>2. QED BY <1>1, <2>1 DEF Active
<1>5. QED BY <1>3, <1>4

LEMMA DurableStep ==
  ASSUME StateTypeOK, StoreOK, Safety, StepKnown, CommittedOnlyDurably, [Next]_vars
  PROVE  CommittedOnlyDurably'
<1>1. [Record]_state BY StepAppends
<1>2. CommittedOnlyDurably <=> \A n \in 1..MaxSequence : stored[n] = "committed" => n <= Base
  BY DEF CommittedOnlyDurably, Base
<1>3. CommittedOnlyDurably' <=> \A n \in 1..MaxSequence : stored'[n] = "committed" => n <= Base'
  BY DEF CommittedOnlyDurably, Base
<1>4. Base \in Nat /\ Base' \in Nat /\ Base <= Base' BY <1>1, BaseGrows
<1>5. CASE \A n \in 1..MaxSequence : stored'[n] = "committed" => stored[n] = "committed"
  BY <1>2, <1>3, <1>4, <1>5
<1>6. CASE Put
  <2>1. tip.sequence + 1 \in 1..MaxSequence BY <1>6 DEF Put, StateTypeOK, Handles
  <2>2. stored' = [stored EXCEPT ![tip.sequence + 1] = "uncertain"] BY <1>6 DEF Put
  <2>3. QED BY <1>5, <2>1, <2>2 DEF StoreOK
<1>7. CASE Mint
  <2>1. CASE UNCHANGED store BY <1>5, <2>1 DEF store
  <2>2. ASSUME NEW f \in Views(tip.sequence), Materialized(f) PROVE CommittedOnlyDurably'
    <3>1. f \in Finalizations /\ Active(f) = tip.sequence BY DEF Views, StoreOK
    <3>2. tip.status # "uncertain" /\ UNCHANGED <<tip, prior>>
      BY <1>7 DEF Mint, StepKnown, state, continuation
    <3>3. QED BY <2>2, <3>1, <3>2, MaterializedDurable
  <2>3. QED BY <1>7, <2>1, <2>2 DEF Mint, Viewed
<1>8. CASE AcknowledgeReconciled \/ AcknowledgeCompletion
  <2>1. Acknowledged /\ UNCHANGED <<tip, prior>>
    BY <1>8 DEF AcknowledgeReconciled, AcknowledgeCompletion, state, continuation
  <2>2. Active(receipt) = tip.sequence /\ tip.status # "uncertain"
    BY <1>8 DEF AcknowledgeReconciled, AcknowledgeCompletion, StepKnown, InTurn, Active, Safety, CompletionIsSettled
  <2>3. CASE UNCHANGED store BY <1>5, <2>3 DEF store
  <2>4. CASE MayFinalize(receipt.of) /\ Materialized(receipt)
    <3>1. receipt \in Finalizations BY <2>4 DEF MayFinalize, StoreOK, NoReceipt
    <3>2. QED BY <2>1, <2>2, <2>4, <3>1, MaterializedDurable
  <2>5. QED BY <2>1, <2>3, <2>4 DEF Acknowledged
<1>9. CASE Expire \/ Crash
  <2>1. stored' = Nothing BY <1>9 DEF Expire, Crash, Forget
  <2>2. QED BY <1>5, <2>1 DEF Nothing
<1>10. CASE UNCHANGED stored BY <1>5, <1>10
<1>11. CASE UNCHANGED vars BY <1>10, <1>11 DEF vars, store
<1>12. CASE Begin \/ Reconcile \/ GiveUp \/ RecordReconciled \/ StartTurn \/ Update \/ BadEvent
            \/ StartHostTool \/ EndHostTool \/ Terminal \/ IteratorEnd
  BY <1>10, <1>12 DEF Begin, Reconcile, Prepare, GiveUp, RecordReconciled, StartTurn, Update, Note, BadEvent,
    StartHostTool, EndHostTool, Terminal, IteratorEnd, Refused, Logged, store
<1>13. CASE Throw \/ SettleKept \/ Settle \/ Commit \/ RecordCompletion \/ CompleteTurn \/ CatchKept
            \/ FailTurn \/ Command \/ Restart \/ RestartFails
  BY <1>10, <1>13 DEF Throw, SettleKept, Note, Settle, Commit, Prepare, RecordCompletion, CompleteTurn, CatchKept,
    FailTurn, Command, Restart, RestartFails, Refused, Logged, store, vars
<1>14. QED
  BY <1>6, <1>7, <1>8, <1>9, <1>11, <1>12, <1>13 DEF Next, Advance, Prepares, Works, Ends

(* A step of the store that leaves its continuations and what was prepared *)
(* before the last record.                                                 *)
Keeps == UNCHANGED <<stored, latest>> /\ \A g \in prepared : ~g.now => g \in prepared'

LEMMA LoggedKeeps ==
  ASSUME StoreOK, Logged PROVE Keeps /\ \A g \in prepared : [g EXCEPT !.now = FALSE] \in prepared'
<1>1. \A g \in prepared : [g EXCEPT !.now = FALSE] \in prepared' BY DEF Logged
<1>2. ASSUME NEW g \in prepared, ~g.now PROVE g \in prepared'
  <2>1. g \in Finalizations BY DEF StoreOK
  <2>2. [g EXCEPT !.now = FALSE] = g BY <1>2, <2>1 DEF Finalizations
  <2>3. QED BY <1>1, <2>2
<1>3. QED BY <1>1, <1>2 DEF Keeps, Logged

LEMMA PrepareKeeps ==
  ASSUME NEW n, NEW outcome, Prepare(n, outcome) PROVE Keeps /\ receipt' \in prepared'
BY DEF Prepare, Keeps

LEMMA StoreKeeps == ASSUME UNCHANGED store PROVE Keeps
BY DEF store, Keeps

LEMMA FollowsKept == ASSUME Keeps, NEW n \in Nat, Follows(n) PROVE Follows(n)'
<1>1. CASE Stands(n) BY <1>1 DEF Stands, Keeps, Follows
<1>2. CASE Views(n) # {} /\ (latest = n + 1 /\ n > 0 => stored[n] = "committed")
  <2>1. PICK f \in Views(n) : TRUE BY <1>2
  <2>2. f \in Views(n)' BY <2>1 DEF Views, Keeps
  <2>3. QED BY <1>2, <2>2 DEF Keeps, Follows
<1>3. QED BY <1>1, <1>2 DEF Follows

(* What a step that keeps the store and the handles must not change.       *)
LEMMA AgreeKept ==
  ASSUME StateTypeOK, Agree, Keeps, UNCHANGED <<tip, prior, lost>>,
         tip.status # "uncertain" /\ StagedAhead' => StagedAhead,
         tip.status # "uncertain" /\ AtRest' => AtRest,
         tip.status = "uncertain" /\ Deciding' => receipt' \in prepared',
         pc' = "down" => pc = "down"
  PROVE  Agree'
<1> SUFFICES ASSUME ~lost PROVE UncertainHeld' /\ StagedHeld' /\ DecidedHeld' /\ NothingDown'
  BY DEF Agree
<1>1. UncertainHeld /\ StagedHeld /\ DecidedHeld /\ NothingDown BY DEF Agree
<1>2. UncertainHeld' BY <1>1 DEF UncertainHeld, Keeps, MayFinalize
<1>3. StagedHeld'
  <2>1. SUFFICES ASSUME tip.status # "uncertain", StagedAhead' PROVE StagedHeld' BY DEF StagedHeld
  <2>2. StagedAhead /\ staged' = staged BY <2>1 DEF StagedAhead
  <2>3. QED BY <1>1, <2>1, <2>2 DEF StagedHeld, Keeps, MayFinalize
<1>4. DecidedHeld'
  <2>1. SUFFICES ASSUME tip.status # "uncertain", AtRest', NEW n \in 0..MaxSequence, n = tip.sequence
                 PROVE  Follows(n)'
    BY DEF DecidedHeld
  <2>2. Follows(n) BY <1>1, <2>1 DEF DecidedHeld
  <2>3. QED BY <2>2, FollowsKept
<1>5. NothingDown' BY <1>1 DEF NothingDown, Keeps
<1>6. QED BY <1>2, <1>3, <1>4, <1>5

(* A decision that is acknowledged or viewed leaves its active             *)
(* continuation alone in the store.                                        *)
LEMMA MaterializedStands ==
  ASSUME StoreOK, NEW n \in 0..MaxSequence, NEW f \in Finalizations, Materialized(f), Active(f) = n,
         f.outcome = "gone" /\ n > 0 => stored[n] = "committed"
  PROVE  Stands(n)'
<1>1. f.of \in 1..MaxSequence /\ latest' = n BY DEF Finalizations, Materialized
<1>2. CASE f.outcome = "committed" BY <1>1, <1>2 DEF Materialized, Active, Stands
<1>3. CASE f.outcome = "gone"
  <2>1. n = f.of - 1 BY <1>3 DEF Active
  <2>2. stored' = [stored EXCEPT ![f.of] = "none"] BY <1>3 DEF Materialized
  <2>3. n > 0 => stored'[n] = "committed" BY <1>1, <1>3, <2>1, <2>2 DEF StoreOK
  <2>4. QED BY <1>1, <2>3 DEF Stands
<1>4. QED BY <1>2, <1>3 DEF Finalizations

(* The record of a decision: what was prepared for it can be viewed.       *)
LEMMA DecidedView ==
  ASSUME StoreOK, Logged, receipt \in prepared, MayFinalize(receipt.of), NEW n \in 0..MaxSequence,
         Active(receipt) = n, receipt.of = n + 1 /\ n > 0 => stored[n] = "committed"
  PROVE  Follows(n)'
<1>1. receipt \in Finalizations BY DEF StoreOK
<1>2. PICK g \in prepared' : g.of = receipt.of /\ g.outcome = receipt.outcome /\ g.now = FALSE
  <2>1. [receipt EXCEPT !.now = FALSE] \in prepared' BY LoggedKeeps
  <2>2. QED BY <1>1, <2>1 DEF Finalizations
<1>3. Keeps BY LoggedKeeps
<1>4. Active(g) = n BY <1>2 DEF Active
<1>5. g.of = latest' /\ stored'[g.of] = "uncertain" BY <1>2, <1>3 DEF MayFinalize, Keeps
<1>6. g \in Views(n)' BY <1>2, <1>4, <1>5 DEF Views, Active
<1>7. latest' = n + 1 /\ n > 0 => stored'[n] = "committed" BY <1>2, <1>3, <1>5 DEF Keeps
<1>8. QED BY <1>6, <1>7 DEF Follows

(* The steps that move the handles or the store.                           *)
LEMMA AgreeReconciled ==
  ASSUME StateTypeOK, StoreOK, Safety, HandlesKnown, StepKnown, StepKnown', Agree,
         RecordReconciled, ContinuationReconciled(receipt.outcome = "committed"), Logged, pc' = "acknowledging"
  PROVE  Agree'
<1>1. pc = "deciding" /\ receipt' = receipt /\ lost' = lost BY DEF RecordReconciled
<1>2. tip.status = "uncertain" /\ receipt.of = tip.sequence /\ tip.sequence = prior.sequence + 1
  BY <1>1 DEF StepKnown, Safety, UncertainFollowsPrior
<1>3. SUFFICES ASSUME ~lost PROVE UncertainHeld' /\ StagedHeld' /\ DecidedHeld' /\ NothingDown'
  BY <1>1 DEF Agree
<1>4. MayFinalize(receipt.of) /\ receipt \in prepared /\ (prior # NoHandle => stored[prior.sequence] = "committed")
  BY <1>1, <1>2, <1>3 DEF Agree, UncertainHeld, Deciding
<1>5. tip'.status # "uncertain" /\ Active(receipt) = tip'.sequence
  BY <1>1 DEF StepKnown, Active
<1>6. DecidedHeld'
  <2>1. SUFFICES ASSUME NEW n \in 0..MaxSequence, n = tip'.sequence PROVE Follows(n)' BY DEF DecidedHeld
  <2>2. receipt.of = n + 1 /\ n > 0 => stored[n] = "committed"
    <3>1. SUFFICES ASSUME receipt.of = n + 1, n > 0 PROVE stored[n] = "committed" OBVIOUS
    <3>2. prior.sequence \in Nat /\ prior.sequence = n BY <1>2, <3>1 DEF StateTypeOK, Handles
    <3>3. prior # NoHandle BY <3>1, <3>2 DEF NoHandle
    <3>4. QED BY <1>4, <3>2, <3>3
  <2>3. QED BY <1>4, <1>5, <2>1, <2>2, DecidedView
<1>7. QED BY <1>5, <1>6 DEF UncertainHeld, StagedHeld, StagedAhead, InTurn, NothingDown

LEMMA AgreeMaterialized ==
  ASSUME StateTypeOK, StoreOK, Agree, NEW f \in Finalizations, Materialized(f), MayFinalize(f.of) \/ f \in Views(tip.sequence),
         Active(f) = tip.sequence, tip.status # "uncertain", AtRest, ~StagedAhead', UNCHANGED <<tip, prior, lost>>,
         pc' # "down"
  PROVE  Agree'
<1> SUFFICES ASSUME ~lost PROVE DecidedHeld'
  BY DEF Agree, UncertainHeld, StagedHeld, NothingDown
<1>1. SUFFICES ASSUME NEW n \in 0..MaxSequence, n = tip.sequence PROVE Follows(n)' BY DEF DecidedHeld
<1>2. Follows(n) BY <1>1 DEF Agree, DecidedHeld
<1>3. f.outcome = "gone" /\ n > 0 => stored[n] = "committed"
  <2>1. SUFFICES ASSUME f.outcome = "gone", n > 0 PROVE stored[n] = "committed" OBVIOUS
  <2>2. f.of = latest BY DEF MayFinalize, Views
  <2>3. latest = n + 1 BY <1>1, <2>1, <2>2 DEF Active, StoreOK
  <2>4. QED BY <1>2, <2>1, <2>3 DEF Follows, Stands
<1>4. Stands(n)' BY <1>1, <1>3, MaterializedStands
<1>5. QED BY <1>4 DEF Follows

LEMMA AgreeAcknowledged ==
  ASSUME StateTypeOK, StoreOK, Agree, Acknowledged, Active(receipt) = tip.sequence, tip.status # "uncertain",
         AtRest' => AtRest, ~StagedAhead', UNCHANGED <<tip, prior, lost>>, pc' # "down"
  PROVE  Agree'
<1>1. CASE UNCHANGED store BY <1>1, StoreKeeps, AgreeKept
<1>2. CASE MayFinalize(receipt.of) /\ Materialized(receipt) /\ AtRest
  <2>1. receipt \in Finalizations BY <1>2 DEF MayFinalize, StoreOK, NoReceipt
  <2>2. QED BY <1>2, <2>1, AgreeMaterialized
<1>3. CASE ~AtRest
  BY <1>3 DEF Agree, UncertainHeld, StagedHeld, DecidedHeld, NothingDown
<1>4. QED BY <1>1, <1>2, <1>3 DEF Acknowledged

LEMMA AgreePut ==
  ASSUME StateTypeOK, StoreOK, HandlesKnown, CommittedOnlyDurably, Safety, Agree, Put PROVE Agree'
<1>1. tip.sequence \in Nat /\ prior.sequence \in Nat BY DEF StateTypeOK, Handles
<1>2. /\ staged' = tip.sequence + 1 /\ staged' \in 1..MaxSequence /\ Stands(tip.sequence)
      /\ latest' = staged' /\ stored' = [stored EXCEPT ![staged'] = "uncertain"]
      /\ UNCHANGED <<state, pc, lost>> /\ pc \in {"running", "calling"}
  BY <1>1 DEF Put
<1>3. tip' = tip BY <1>2 DEF state, continuation
<1>4. tip.status # "uncertain"
  <2>1. SUFFICES ASSUME tip.status = "uncertain" PROVE FALSE OBVIOUS
  <2>2. tip.sequence = prior.sequence + 1 BY <2>1 DEF Safety, UncertainFollowsPrior
  <2>3. stored[tip.sequence] = "committed" /\ tip.sequence \in 1..MaxSequence
    BY <1>1, <1>2, <2>2 DEF Stands
  <2>4. tip.sequence <= prior.sequence BY <2>1, <2>3 DEF CommittedOnlyDurably
  <2>5. QED BY <1>1, <2>2, <2>4
<1>5. MayFinalize(staged)' BY <1>2 DEF MayFinalize, StoreOK
<1>6. tip # NoHandle => stored'[tip.sequence] = "committed"
  <2>1. SUFFICES ASSUME tip # NoHandle PROVE stored'[tip.sequence] = "committed" OBVIOUS
  <2>2. tip.sequence \in 1..MaxSequence BY <1>1, <1>2, <2>1 DEF HandlesKnown
  <2>3. stored[tip.sequence] = "committed" BY <1>2, <2>2 DEF Stands
  <2>4. QED BY <1>2, <2>2, <2>3 DEF StoreOK
<1>7. pc' \in InTurn /\ pc' # "down" BY <1>2 DEF InTurn
<1>8. QED
  BY <1>2, <1>3, <1>4, <1>5, <1>6, <1>7
     DEF Agree, UncertainHeld, StagedHeld, DecidedHeld, AtRest, StagedAhead, NothingDown

LEMMA AgreeNoted ==
  ASSUME StateTypeOK, StoreOK, HandlesKnown, StepKnown, StepKnown', Agree, pc \in InTurn, NEW next, NEW failed,
         Note(next, failed), next \in {"running", "catching"}, failed \in {"running", "catching", "idle"},
         UNCHANGED <<staged, lost>>
  PROVE  Agree'
<1>1. tip.sequence \in Nat BY DEF StateTypeOK, Handles
<1>2. CASE /\ pc' = next /\ tip' = Uncertain(tip.sequence + 1) /\ prior' = tip /\ staged = tip.sequence + 1
           /\ tip.status # "uncertain" /\ Logged
  <2>1. SUFFICES ASSUME ~lost PROVE UncertainHeld' /\ StagedHeld' /\ DecidedHeld' /\ NothingDown'
    BY DEF Agree
  <2>2. tip'.status = "uncertain" /\ tip'.sequence = staged BY <1>2 DEF Uncertain
  <2>3. StagedAhead BY <1>2 DEF StagedAhead
  <2>4. MayFinalize(staged) /\ (tip # NoHandle => stored[tip.sequence] = "committed")
    BY <1>2, <2>1, <2>3 DEF Agree, StagedHeld
  <2>5. Keeps BY <1>2, LoggedKeeps
  <2>6. pc' \in {"running", "catching"} /\ ~Deciding' BY <1>2 DEF Deciding
  <2>7. UncertainHeld' BY <1>2, <2>2, <2>4, <2>5, <2>6 DEF UncertainHeld, MayFinalize, Keeps
  <2>8. QED BY <2>2, <2>6, <2>7 DEF StagedHeld, DecidedHeld, NothingDown
<1>3. CASE pc' = failed /\ UNCHANGED <<state, store>>
  <2>1. open /\ UNCHANGED <<open, tip, prior>> BY <1>3 DEF StepKnown, state, turn, continuation
  <2>2. pc' \in {"running", "catching", "idle"} BY <1>3
  <2>3. ~Deciding' /\ pc' # "down" BY <2>2 DEF Deciding
  <2>4. (StagedAhead' => StagedAhead) /\ (AtRest' => AtRest)
    BY <2>1, <2>2 DEF StagedAhead, AtRest, InTurn
  <2>5. Keeps BY <1>3, StoreKeeps
  <2>6. QED BY <2>1, <2>3, <2>4, <2>5, AgreeKept
<1>4. QED BY <1>2, <1>3, NoteMoves

LEMMA AgreeCompleted ==
  ASSUME StateTypeOK, StoreOK, Safety, HandlesKnown, StepKnown, StepKnown', CallsKnown, Agree, RecordCompletion,
         RuntimeCompleted(update = "noted"), Logged, pc' = IF update = "noted" THEN "confirming" ELSE "closing"
  PROVE  Agree'
<1> DEFINE n == tip.sequence
<1>1. pc = "completing" /\ ~completion /\ UNCHANGED <<update, staged, receipt, lost>>
  BY DEF RecordCompletion, CallsKnown
<1>2. (update = "noted") = (tip.status = "uncertain") BY DEF RuntimeCompleted, MayCompleteRuntime
<1>3. completion' /\ tip'.sequence = tip.sequence /\ prior' = NoHandle BY DEF RuntimeCompleted, Committed
<1>4. pc' \in InTurn /\ pc' # "down" /\ ~Deciding' BY DEF InTurn, Deciding
<1>5. ~StagedAhead'
  <2>1. staged' \in {0, tip'.sequence} BY <1>3, <1>4 DEF StepKnown, InTurn
  <2>2. tip'.sequence \in Nat BY <1>3 DEF StateTypeOK, Handles
  <2>3. QED BY <2>1, <2>2 DEF StagedAhead
<1>6. CASE update = "noted"
  <2>1. SUFFICES ASSUME ~lost PROVE UncertainHeld' /\ StagedHeld' /\ DecidedHeld' /\ NothingDown'
    BY <1>1 DEF Agree
  <2>2. receipt \in prepared /\ MayFinalize(tip.sequence)
    BY <1>1, <1>2, <1>6, <2>1 DEF Agree, UncertainHeld, Deciding
  <2>3. receipt.of = tip.sequence /\ receipt.outcome = "committed" BY <1>1, <1>6 DEF StepKnown
  <2>4. tip'.status # "uncertain" BY <1>6 DEF RuntimeCompleted, Committed
  <2>5. ASSUME NEW m \in 0..MaxSequence, m = tip'.sequence PROVE Follows(m)'
    <3>1. Active(receipt) = m /\ receipt.of # m + 1 BY <1>3, <2>3, <2>5 DEF Active
    <3>2. MayFinalize(receipt.of) BY <2>2, <2>3
    <3>3. QED BY <2>2, <3>1, <3>2, DecidedView
  <2>6. DecidedHeld' BY <2>5 DEF DecidedHeld
  <2>7. QED BY <1>4, <1>5, <2>4, <2>6 DEF UncertainHeld, StagedHeld, NothingDown
<1>7. CASE update # "noted"
  <2>1. tip.status # "uncertain" /\ tip' = tip BY <1>2, <1>7 DEF RuntimeCompleted
  <2>2. prior' = prior BY <1>3, <2>1 DEF Safety, UncertainFollowsPrior
  <2>3. staged = 0 BY <1>1, <1>7 DEF StepKnown
  <2>4. AtRest BY <1>1, <2>3 DEF AtRest, InTurn, StateTypeOK, Handles
  <2>5. QED BY <1>1, <1>4, <1>5, <2>1, <2>2, <2>4, LoggedKeeps, AgreeKept
<1>8. QED BY <1>6, <1>7

(* Everything was forgotten, and nothing was there to forget.              *)
LEMMA AgreeForgotten ==
  ASSUME StateTypeOK, HandlesKnown, Forget, UNCHANGED <<tip, prior, staged>>, pc' = pc \/ pc' = "down" PROVE Agree'
<1>1. SUFFICES ASSUME ~lost' PROVE UncertainHeld' /\ StagedHeld' /\ DecidedHeld' /\ NothingDown'
  BY DEF Agree
<1>2. tip = NoHandle /\ ~(pc \in InTurn /\ staged # 0) BY <1>1 DEF Forget
<1>3. tip'.status # "uncertain" /\ tip'.sequence = 0 BY <1>2 DEF NoHandle
<1>4. ~StagedAhead' BY <1>2, <1>3 DEF StagedAhead, InTurn
<1>5. Follows(0)' BY DEF Forget, Follows, Stands
<1>6. DecidedHeld' BY <1>3, <1>5 DEF DecidedHeld
<1>7. NothingDown' BY <1>2 DEF NothingDown, Forget
<1>8. QED BY <1>3, <1>4, <1>6, <1>7 DEF UncertainHeld, StagedHeld

LEMMA AgreeStep ==
  ASSUME StateTypeOK, RunSets, StoreOK, Safety, CallsKnown, PlaceKnown, HandlesKnown, StepKnown, StepKnown',
         CommittedOnlyDurably, Agree, [Next]_vars
  PROVE  Agree'
<1>1. UNCHANGED state => UNCHANGED <<open, tip, prior, completion>> BY DEF state, turn, continuation
<1>2. tip.sequence \in Nat BY DEF StateTypeOK, Handles
<1>3. (UNCHANGED store \/ Logged) => Keeps BY StoreKeeps, LoggedKeeps
<1>4. CASE UNCHANGED vars
  <2>1. UNCHANGED <<state, run, receipt, lost, prepared>> /\ Keeps BY <1>4, StoreKeeps DEF vars, store
  <2>2. (StagedAhead' <=> StagedAhead) /\ (AtRest' <=> AtRest) /\ (Deciding' <=> Deciding)
    BY <1>1, <2>1 DEF StagedAhead, AtRest, Deciding, run
  <2>3. tip.status = "uncertain" /\ Deciding' => receipt' \in prepared' \/ lost
    BY <2>1, <2>2 DEF Agree, UncertainHeld
  <2>4. CASE lost BY <2>1, <2>4 DEF Agree
  <2>5. CASE ~lost BY <1>1, <2>1, <2>2, <2>3, <2>5, AgreeKept DEF run
  <2>6. QED BY <2>4, <2>5
<1>5. CASE Begin \/ GiveUp
  <2>1. UNCHANGED <<state, store, lost>> BY <1>5 DEF Begin, GiveUp
  <2>2. pc \notin InTurn /\ pc' \in {"reconciling", "minting", "idle"} BY <1>5 DEF Begin, GiveUp, InTurn
  <2>3. ~StagedAhead' /\ (AtRest' => AtRest) /\ ~Deciding' /\ pc' # "down"
    BY <1>1, <2>1, <2>2 DEF StagedAhead, AtRest, Deciding, InTurn
  <2>4. QED BY <1>1, <1>3, <2>1, <2>3, AgreeKept
<1>6. CASE Reconcile
  <2>1. PICK outcome \in {"committed", "gone"} : Prepare(tip.sequence, outcome) BY <1>6 DEF Reconcile
  <2>2. Keeps /\ receipt' \in prepared' BY <2>1, PrepareKeeps
  <2>3. pc = "reconciling" /\ pc' = "deciding" /\ UNCHANGED <<state, lost>> BY <1>6 DEF Reconcile
  <2>4. ~StagedAhead' /\ (AtRest' => AtRest) BY <1>1, <2>3 DEF StagedAhead, AtRest, InTurn
  <2>5. QED BY <1>1, <2>2, <2>3, <2>4, AgreeKept
<1>7. CASE RecordReconciled
  <2>1. CASE UNCHANGED <<state, store>> /\ pc' = "idle"
    <3>1. pc = "deciding" /\ lost' = lost BY <1>7 DEF RecordReconciled
    <3>2. ~StagedAhead' /\ (AtRest' => AtRest) /\ ~Deciding'
      BY <1>1, <2>1, <3>1 DEF StagedAhead, AtRest, Deciding, InTurn
    <3>3. QED BY <1>1, <1>3, <2>1, <3>1, <3>2, AgreeKept
  <2>2. CASE ContinuationReconciled(receipt.outcome = "committed") /\ Logged /\ pc' = "acknowledging"
    BY <1>7, <2>2, AgreeReconciled
  <2>3. QED BY <1>7, <2>1, <2>2 DEF RecordReconciled, Refused
<1>8. CASE AcknowledgeReconciled
  <2>1. pc = "acknowledging" /\ pc' \in {"minting", "idle"} /\ UNCHANGED <<state, lost>> /\ Acknowledged
    BY <1>8 DEF AcknowledgeReconciled
  <2>2. Active(receipt) = tip.sequence /\ tip.status # "uncertain" BY <2>1 DEF StepKnown
  <2>3. ~StagedAhead' /\ (AtRest' => AtRest) /\ pc' # "down"
    BY <1>1, <2>1 DEF StagedAhead, AtRest, InTurn
  <2>4. QED BY <1>1, <2>1, <2>2, <2>3, AgreeAcknowledged
<1>9. CASE AcknowledgeCompletion
  <2>1. pc = "confirming" /\ pc' = "closing" /\ UNCHANGED <<state, lost, staged>> /\ Acknowledged
    BY <1>9 DEF AcknowledgeCompletion
  <2>2. Active(receipt) = tip.sequence /\ tip.status # "uncertain" /\ completion
    BY <2>1 DEF StepKnown, Active, Safety, CompletionIsSettled
  <2>3. staged \in {0, tip.sequence} BY <2>1, <2>2 DEF StepKnown, InTurn
  <2>4. ~StagedAhead' /\ AtRest /\ pc' # "down"
    BY <1>1, <1>2, <2>1, <2>3 DEF StagedAhead, AtRest, InTurn
  <2>5. QED BY <1>1, <2>1, <2>2, <2>4, AgreeAcknowledged
<1>10. CASE Mint
  <2>1. pc = "minting" /\ pc' = "starting" /\ ~open /\ UNCHANGED <<state, lost>> /\ Viewed(tip.sequence)
    BY <1>10 DEF Mint
  <2>2. tip.status # "uncertain" BY <2>1 DEF StepKnown
  <2>3. ~StagedAhead' /\ AtRest /\ ~Deciding' /\ pc' # "down"
    BY <2>1 DEF StagedAhead, AtRest, Deciding, InTurn
  <2>4. CASE UNCHANGED store BY <1>1, <1>3, <2>1, <2>2, <2>3, <2>4, AgreeKept
  <2>5. ASSUME NEW f \in Views(tip.sequence), Materialized(f) PROVE Agree'
    <3>1. f \in Finalizations /\ Active(f) = tip.sequence BY DEF Views, StoreOK
    <3>2. QED BY <1>1, <2>1, <2>2, <2>3, <2>5, <3>1, AgreeMaterialized
  <2>6. QED BY <2>1, <2>4, <2>5 DEF Viewed
<1>11. CASE StartTurn
  <2>1. pc = "starting" /\ staged = 0 /\ ~open /\ UNCHANGED <<staged, lost>>
    BY <1>11 DEF StartTurn, PlaceKnown, CallsKnown
  <2>2. pc' \in {"running", "idle"} /\ (Logged \/ UNCHANGED store) BY <1>11 DEF StartTurn, Refused
  <2>3. UNCHANGED <<tip, prior>> BY <1>1, <1>11 DEF StartTurn, Refused, TurnStarted, continuation
  <2>4. AtRest /\ ~StagedAhead' /\ ~Deciding' /\ pc' # "down"
    BY <1>2, <2>1, <2>2, <2>3 DEF AtRest, StagedAhead, Deciding, InTurn
  <2>5. QED BY <1>3, <2>1, <2>2, <2>3, <2>4, AgreeKept
<1>12. CASE Put BY <1>12, AgreePut
<1>13. CASE Update
  <2>1. pc = "running" /\ Note("running", "running") /\ UNCHANGED <<staged, lost>> BY <1>13 DEF Update
  <2>2. QED BY <2>1, AgreeNoted DEF InTurn
<1>14. CASE SettleKept
  <2>1. pc = "settling" /\ Note("catching", "catching") /\ UNCHANGED <<staged, lost>> BY <1>14 DEF SettleKept
  <2>2. QED BY <2>1, AgreeNoted DEF InTurn
<1>15. CASE CatchKept
  <2>1. pc = "catching" /\ UNCHANGED <<staged, lost>> BY <1>15 DEF CatchKept
  <2>2. CASE Note("catching", "idle") BY <2>1, <2>2, AgreeNoted DEF InTurn
  <2>3. CASE pc' = "idle" /\ UNCHANGED <<state, store>>
    <3>1. open BY <2>1 DEF StepKnown, InTurn
    <3>2. ~StagedAhead' /\ ~AtRest' /\ ~Deciding' BY <1>1, <2>3, <3>1 DEF StagedAhead, AtRest, Deciding, InTurn
    <3>3. QED BY <1>1, <1>3, <2>1, <2>3, <3>2, AgreeKept
  <2>4. QED BY <1>15, <2>2, <2>3 DEF CatchKept, store
<1>16. CASE BadEvent \/ Terminal \/ IteratorEnd \/ Throw \/ Settle
  <2>1. UNCHANGED <<state, staged, store, lost>>
    BY <1>16 DEF BadEvent, Terminal, IteratorEnd, Throw, Settle
  <2>2. pc \in InTurn /\ pc' \in {"running", "settling", "catching", "committing", "completing"}
    BY <1>16 DEF BadEvent, Terminal, IteratorEnd, Throw, Settle, InTurn
  <2>3. ~Deciding' BY <1>16 DEF BadEvent, Terminal, IteratorEnd, Throw, Settle, Deciding
  <2>4. (StagedAhead' => StagedAhead) /\ (AtRest' => AtRest) /\ pc' # "down"
    BY <1>1, <2>1, <2>2 DEF StagedAhead, AtRest, InTurn
  <2>5. QED BY <1>1, <1>3, <2>1, <2>3, <2>4, AgreeKept
<1>17. CASE StartHostTool \/ EndHostTool
  <2>1. UNCHANGED <<staged, lost>> /\ pc \in InTurn /\ pc' \in {"running", "calling"}
    BY <1>17 DEF StartHostTool, EndHostTool, InTurn
  <2>2. Keeps BY <1>3, <1>17 DEF StartHostTool, EndHostTool, Refused
  <2>3. UNCHANGED <<tip, prior>>
    BY <1>1, <1>17 DEF StartHostTool, EndHostTool, Refused, ToolStarted, ToolEnded, continuation
  <2>4. (StagedAhead' => StagedAhead) /\ (AtRest' => AtRest) /\ ~Deciding' /\ pc' # "down"
    BY <2>1, <2>3 DEF StagedAhead, AtRest, Deciding, InTurn
  <2>5. QED BY <2>1, <2>2, <2>3, <2>4, AgreeKept
<1>18. CASE Commit
  <2>1. Prepare(staged, "committed") /\ pc = "committing" /\ pc' = "completing" /\ UNCHANGED <<state, staged, lost>>
    BY <1>18 DEF Commit
  <2>2. Keeps /\ receipt' \in prepared' BY <2>1, PrepareKeeps
  <2>3. (StagedAhead' => StagedAhead) /\ (AtRest' => AtRest) BY <1>1, <2>1 DEF StagedAhead, AtRest, InTurn
  <2>4. QED BY <1>1, <2>1, <2>2, <2>3, AgreeKept
<1>19. CASE RecordCompletion
  <2>1. CASE RuntimeCompleted(update = "noted") /\ Logged
             /\ pc' = IF update = "noted" THEN "confirming" ELSE "closing"
    BY <1>19, <2>1, AgreeCompleted
  <2>2. CASE UNCHANGED <<state, store>> /\ pc' = "catching"
    <3>1. pc = "completing" /\ UNCHANGED <<staged, lost>> BY <1>19 DEF RecordCompletion
    <3>2. (StagedAhead' => StagedAhead) /\ (AtRest' => AtRest) /\ ~Deciding'
      BY <1>1, <2>2, <3>1 DEF StagedAhead, AtRest, Deciding, InTurn
    <3>3. QED BY <1>1, <1>3, <2>2, <3>1, <3>2, AgreeKept
  <2>3. QED BY <1>19, <2>1, <2>2 DEF RecordCompletion, Refused
<1>20. CASE CompleteTurn
  <2>1. pc = "closing" /\ completion /\ UNCHANGED <<staged, lost>>
    BY <1>20 DEF CompleteTurn, StepKnown
  <2>2. staged \in {0, tip.sequence} BY <2>1 DEF StepKnown, InTurn
  <2>3. UNCHANGED <<tip, prior>> /\ Keeps /\ pc' \in {"idle", "catching"}
    BY <1>1, <1>3, <1>20 DEF CompleteTurn, Refused, TurnCompleted, CloseTurn
  <2>4. AtRest /\ ~StagedAhead' /\ ~Deciding' /\ pc' # "down"
    BY <1>2, <2>1, <2>2, <2>3 DEF AtRest, StagedAhead, Deciding, InTurn
  <2>5. QED BY <2>1, <2>3, <2>4, AgreeKept
<1>21. CASE FailTurn
  <2>1. pc = "catching" /\ pc' = "idle" /\ lost' = lost /\ (update # "noted" => staged = 0) BY <1>21 DEF FailTurn
  <2>2. UNCHANGED <<tip, prior>> /\ Keeps
    BY <1>1, <1>3, <1>21 DEF FailTurn, Refused, TurnFailed, CloseTurn
  <2>3. tip.status # "uncertain" /\ AtRest' => AtRest
    <3>1. SUFFICES ASSUME tip.status # "uncertain", AtRest' PROVE AtRest OBVIOUS
    <3>2. open /\ ~open' BY <2>1, <3>1 DEF StepKnown, AtRest, InTurn
    <3>3. PICK how \in {"failed", "cancelled"} : TurnFailed(how, update = "noted")
      BY <1>1, <1>21, <3>2 DEF FailTurn, Refused
    <3>4. update # "noted" BY <3>1, <3>3 DEF TurnFailed, MayFailTurn
    <3>5. QED BY <1>2, <2>1, <3>4 DEF AtRest, InTurn
  <2>4. ~StagedAhead' /\ ~Deciding' BY <2>1 DEF StagedAhead, Deciding, InTurn
  <2>5. QED BY <2>1, <2>2, <2>3, <2>4, AgreeKept
<1>22. CASE Command
  <2>1. pc = "idle" /\ Logged /\ UNCHANGED <<state, run, lost>> BY <1>22 DEF Command
  <2>2. ~StagedAhead' /\ (AtRest' => AtRest) /\ ~Deciding' /\ pc' # "down"
    BY <1>1, <2>1 DEF StagedAhead, AtRest, Deciding, InTurn, run
  <2>3. QED BY <1>1, <1>3, <2>1, <2>2, AgreeKept
<1>23. CASE Expire \/ Crash
  BY <1>1, <1>23, AgreeForgotten DEF Expire, Crash
<1>24. CASE Restart
  <2>1. pc = "down" /\ pc' = "idle" /\ UNCHANGED <<staged, store, lost>> BY <1>24 DEF Restart
  <2>2. UNCHANGED <<tip, prior>>
    BY <1>1, <1>24 DEF Restart, TurnCompleted, TurnInterrupted, CloseTurn
  <2>3. SUFFICES ASSUME ~lost PROVE UncertainHeld' /\ StagedHeld' /\ DecidedHeld' /\ NothingDown'
    BY <2>1 DEF Agree
  <2>4. tip = NoHandle /\ latest = 0 BY <2>1, <2>3 DEF Agree, NothingDown
  <2>5. tip'.status # "uncertain" /\ tip'.sequence = 0 BY <2>2, <2>4 DEF NoHandle
  <2>6. Follows(0)' BY <2>1, <2>4 DEF Follows, Stands, store
  <2>7. QED BY <2>1, <2>5, <2>6 DEF UncertainHeld, StagedHeld, StagedAhead, InTurn, DecidedHeld, NothingDown
<1>25. CASE RestartFails BY <1>4, <1>25 DEF RestartFails
<1>26. QED
  BY <1>4, <1>5, <1>6, <1>7, <1>8, <1>9, <1>10, <1>11, <1>12, <1>13, <1>14, <1>15, <1>16, <1>17, <1>18,
     <1>19, <1>20, <1>21, <1>22, <1>23, <1>24, <1>25 DEF Next, Advance, Prepares, Works, Ends

(* Log and store agree, wherever a run stands.                             *)
Together == HandlesKnown /\ StepKnown /\ CommittedOnlyDurably /\ Agree

LEMMA TogetherInvariant == Spec => []Together
<1>1. Init => Together
  <2> SUFFICES ASSUME Init PROVE Together OBVIOUS
  <2>1. HandlesKnown BY DEF Init, Created, HandlesKnown
  <2>2. StepKnown BY DEF Init, Created, StepKnown, InTurn, NoHandle
  <2>3. CommittedOnlyDurably BY DEF Init, Nothing, CommittedOnlyDurably
  <2>4. tip.status # "uncertain" /\ tip.sequence = 0 /\ latest = 0 /\ pc = "idle"
    BY DEF Init, Created, NoHandle
  <2>5. Follows(0) BY <2>4 DEF Follows, Stands
  <2>6. Agree
    BY <2>4, <2>5 DEF Agree, UncertainHeld, StagedHeld, StagedAhead, InTurn, DecidedHeld, NothingDown
  <2>7. QED BY <2>1, <2>2, <2>3, <2>6 DEF Together
<1>2. TypeOK => StateTypeOK /\ RunSets /\ StoreOK BY RunTypeParts
<1>3. StateTypeOK /\ RunSets /\ StoreOK /\ Safety /\ CallsKnown /\ PlaceKnown /\ Together /\ [Next]_vars => Together'
  <2> SUFFICES ASSUME StateTypeOK, RunSets, StoreOK, Safety, CallsKnown, PlaceKnown, Together, [Next]_vars
               PROVE  Together'
    OBVIOUS
  <2>1. [Record]_state BY StepAppends
  <2>2. HandlesKnown' BY <2>1, HandlesStep DEF Together
  <2>3. StepKnown' BY StepKnownStep DEF Together
  <2>4. CommittedOnlyDurably' BY DurableStep DEF Together
  <2>5. Agree' BY <2>3, AgreeStep DEF Together
  <2>6. QED BY <2>2, <2>3, <2>4, <2>5 DEF Together
<1>4. QED
  BY <1>1, <1>2, <1>3, TypeCorrect, CallsAreKnown, TurnIsKnown, AppendsRecords, SafetyInvariant, PTL DEF Spec

(* Whatever failed and wherever a run was aborted, as long as the store    *)
(* has dropped nothing it can take up the conversation the log names.      *)
THEOREM StoreIsCurrent == Spec => []StoreFollowsLog
<1>1. StateTypeOK /\ Together => StoreFollowsLog
  <2> SUFFICES ASSUME StateTypeOK, Together, pc = "idle", ~open, ~lost
               PROVE  IF tip.status = "uncertain"
                        THEN MayFinalize(tip.sequence)
                             /\ (prior # NoHandle => stored[prior.sequence] = "committed")
                        ELSE MayRun(tip.sequence)
    BY DEF StoreFollowsLog
  <2>1. UncertainHeld /\ DecidedHeld BY DEF Together, Agree
  <2>2. CASE tip.status = "uncertain" BY <2>1, <2>2 DEF UncertainHeld
  <2>3. CASE tip.status # "uncertain"
    <3>1. AtRest /\ tip.sequence \in 0..MaxSequence BY DEF AtRest, InTurn, StateTypeOK, Handles
    <3>2. Follows(tip.sequence) BY <2>1, <2>3, <3>1 DEF DecidedHeld
    <3>3. QED BY <2>3, <3>2 DEF Follows, MayRun
  <2>4. QED BY <2>2, <2>3
<1>2. TypeOK => StateTypeOK BY RunTypeParts
<1>3. QED BY <1>1, <1>2, TypeCorrect, TogetherInvariant, PTL

(* A continuation is committed in the store only when the log says so.     *)
THEOREM CommitsAreDurable == Spec => []CommittedOnlyDurably
<1>1. Together => CommittedOnlyDurably BY DEF Together
<1>2. QED BY <1>1, TogetherInvariant, PTL
===============================================================================
