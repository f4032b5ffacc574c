---------------------------- MODULE DirectTurnProofs ----------------------------
(* The agent loop appends only records the reducer accepts, so what        *)
(* SessionStateProofs proves holds of its sessions; and its own invariants *)
(* for any number of calls, steps, parallel calls and faults.  The prompts  *)
(* queued while it runs, TurnQueue's, are at the end.                       *)
EXTENDS DirectTurn, TurnQueue, SessionStateProofs, FiniteSetTheorems

USE MaxStepsAssumption, MaxParallelAssumption, MaxFaultsAssumption DEF MaxStepsAssumption, MaxParallelAssumption, MaxFaultsAssumption

(* Every step appends one record or none.                                  *)
LEMMA StepAppends ==
  ASSUME StateTypeOK, group \subseteq Calls, [Next]_vars PROVE [Record]_state
<1> asked \subseteq Calls /\ pending \subseteq Calls BY DEF StateTypeOK
<1>1. CASE UNCHANGED vars BY <1>1 DEF vars
<1>2. CASE RecoverPending \/ EndCall
  <2>1. PICK call \in pending : ToolEnded(call) BY <1>2 DEF RecoverPending, EndCall
  <2>2. QED BY <2>1 DEF Record, ToolRecord
<1>3. CASE InterruptTurn \/ CloseCompactedTurn
  BY <1>3 DEF InterruptTurn, CloseCompactedTurn, Record, TurnRecord
<1>4. CASE StartTurn BY <1>4 DEF StartTurn, Record, TurnRecord
<1>5. CASE Reply BY <1>5 DEF Reply, Record, ToolRecord
<1>6. CASE Overflow \/ Compact BY <1>6 DEF Overflow, Compact, Record, CompactionRecord
<1>7. CASE OverflowCompacted \/ Compacted
  <2>1. CASE CompactionAbandoned BY <2>1 DEF Record, CompactionRecord
  <2>2. CASE \E retained \in SUBSET asked : SessionCompacted(retained)
    <3>1. PICK retained \in SUBSET asked : SessionCompacted(retained) BY <2>2
    <3>2. retained \in SUBSET Calls OBVIOUS
    <3>3. QED BY <3>1, <3>2 DEF Record, CompactionRecord
  <2>3. QED BY <1>7, <2>1, <2>2 DEF OverflowCompacted, Compacted
<1>8. CASE StartCall 
  <2>1. PICK call \in group \ pending : ToolStarted(call) BY <1>8 DEF StartCall
  <2>2. QED BY <2>1 DEF Record, ToolRecord
<1>9. CASE Finish BY <1>9 DEF Finish, Record, TurnRecord
<1>10. CASE Catch BY <1>10 DEF Catch, Record, TurnRecord
<1>11. CASE Restart BY <1>11 DEF Restart, Record, CompactionRecord
<1>12. CASE Begin \/ RecoverUnstarted \/ Throw \/ Ask \/ NextGroup \/ Invoke \/ Crash
  BY <1>12 DEF Begin, RecoverUnstarted, Throw, Ask, NextGroup, Invoke, Crash
<1>13. QED
  BY <1>1, <1>2, <1>3, <1>4, <1>5, <1>6, <1>7, <1>8, <1>9, <1>10, <1>11, <1>12
     DEF Next, Advance, Recover, CallModel, CallTools

LEMMA StateTypeStep == ASSUME StateTypeOK, group \subseteq Calls, [Next]_vars PROVE StateTypeOK'
<1>1. [Record]_state BY StepAppends
<1>2. FlagsOK /\ RestOK BY TypeParts
<1>3. FlagsOK' /\ RestOK' BY <1>1, <1>2, FlagsStep, RestStep
<1>4. QED BY <1>3 DEF StateTypeOK, FlagsOK, RestOK

LEMMA StateTypeInit == Init => StateTypeOK
BY FlagsInit, RestInit, TypeParts DEF Init

(* The variables of the loop itself: the sets, the numbers, the flag.      *)
LoopSets ==
  /\ pc \in InTry \cup {"down", "closing", "idle", "recovering", "catching", "shrinking"}
  /\ todo \subseteq Calls
  /\ group \subseteq Calls
  /\ touched \subseteq Calls

LoopNumbers == steps \in 0..MaxSteps /\ faults \in 0..MaxFaults

LoopFlag == overflowed \in BOOLEAN

LEMMA LoopTypeParts == TypeOK <=> StateTypeOK /\ LoopSets /\ LoopNumbers /\ LoopFlag
BY DEF TypeOK, LoopSets, LoopNumbers, LoopFlag

LEMMA LoopSetsStep == ASSUME StateTypeOK, LoopSets, [Next]_vars PROVE LoopSets'
<1> USE DEF LoopSets, InTry, Emitted, StateTypeOK
<1>1. CASE UNCHANGED vars BY <1>1 DEF vars, loop
<1>2. CASE Begin \/ Throw \/ Compact \/ Compacted \/ Crash \/ Restart \/ CloseCompactedTurn \/ Catch
  BY <1>2 DEF Begin, Throw, Compact, Compacted, Crash, Restart, CloseCompactedTurn, Catch
<1>3. CASE RecoverPending \/ RecoverUnstarted \/ InterruptTurn \/ StartTurn
  BY <1>3 DEF RecoverPending, RecoverUnstarted, InterruptTurn, StartTurn
<1>4. CASE Ask \/ Reply \/ Overflow \/ OverflowCompacted
  BY <1>4 DEF Ask, Reply, Overflow, OverflowCompacted
<1>5. CASE NextGroup \/ StartCall \/ Invoke \/ EndCall \/ Finish
  BY <1>5 DEF NextGroup, StartCall, Invoke, EndCall, Finish
<1>6. QED BY <1>1, <1>2, <1>3, <1>4, <1>5 DEF Next, Advance, Recover, CallModel, CallTools

LEMMA LoopNumbersStep == ASSUME LoopNumbers, [Next]_vars PROVE LoopNumbers'
<1> USE DEF LoopNumbers, Emitted, Fault
<1>1. CASE UNCHANGED vars BY <1>1 DEF vars, loop
<1>2. CASE Begin \/ Throw \/ Compact \/ Compacted \/ Restart \/ CloseCompactedTurn \/ Catch
  <2>1. UNCHANGED <<steps, faults>>
    BY <1>2 DEF Begin, Throw, Compact, Compacted, Restart, CloseCompactedTurn, Catch
  <2>2. QED BY <2>1
<1>7. CASE Crash BY <1>7 DEF Crash
<1>3. CASE RecoverPending \/ RecoverUnstarted \/ InterruptTurn \/ StartTurn
  BY <1>3 DEF RecoverPending, RecoverUnstarted, InterruptTurn, StartTurn
<1>4. CASE Ask \/ Reply \/ Overflow \/ OverflowCompacted
  BY <1>4 DEF Ask, Reply, Overflow, OverflowCompacted
<1>5. CASE NextGroup \/ StartCall \/ Invoke \/ EndCall \/ Finish
  BY <1>5 DEF NextGroup, StartCall, Invoke, EndCall, Finish
<1>6. QED BY <1>1, <1>2, <1>3, <1>4, <1>5, <1>7 DEF Next, Advance, Recover, CallModel, CallTools

LEMMA LoopFlagStep == ASSUME LoopFlag, [Next]_vars PROVE LoopFlag'
<1>1. CASE StartTurn \/ Overflow
  <2>1. overflowed' = FALSE \/ overflowed' = TRUE BY <1>1 DEF StartTurn, Overflow
  <2>2. QED BY <2>1 DEF LoopFlag
<1>2. CASE Recover /\ ~StartTurn
  BY <1>2 DEF LoopFlag, Recover, RecoverPending, RecoverUnstarted, InterruptTurn
<1>3. CASE CallModel /\ ~Overflow
  BY <1>3 DEF LoopFlag, CallModel, Throw, Ask, Reply, OverflowCompacted
<1>4. CASE CallTools BY <1>4 DEF LoopFlag, CallTools, NextGroup, StartCall, Invoke, EndCall
<1>5. CASE Begin \/ Compact \/ Compacted \/ Crash \/ Restart \/ CloseCompactedTurn \/ Catch \/ Finish
  BY <1>5 DEF LoopFlag, Begin, Compact, Compacted, Crash, Restart, CloseCompactedTurn, Catch, Finish
<1>6. CASE UNCHANGED vars BY <1>6 DEF LoopFlag, vars, loop
<1>7. QED BY <1>1, <1>2, <1>3, <1>4, <1>5, <1>6 DEF Next, Advance

(* Every variable has its type, for any calls, steps and faults; the steps *)
(* of a turn never exceed the budget.                                      *)
THEOREM TypeCorrect == Spec => []TypeOK
<1>1. Init => TypeOK
  <2> SUFFICES ASSUME Init PROVE TypeOK OBVIOUS
  <2>1. LoopSets BY DEF Init, LoopSets
  <2>2. LoopNumbers BY DEF Init, LoopNumbers
  <2>3. LoopFlag BY DEF Init, LoopFlag
  <2>4. QED BY <2>1, <2>2, <2>3, StateTypeInit, LoopTypeParts
<1>2. TypeOK /\ [Next]_vars => TypeOK'
  <2> SUFFICES ASSUME TypeOK, [Next]_vars PROVE TypeOK' OBVIOUS
  <2>1. StateTypeOK /\ LoopSets /\ LoopNumbers /\ LoopFlag BY LoopTypeParts
  <2>2. StateTypeOK' BY <2>1, StateTypeStep DEF LoopSets
  <2>3. LoopSets' /\ LoopNumbers' /\ LoopFlag'
    BY <2>1, LoopSetsStep, LoopNumbersStep, LoopFlagStep
  <2>4. QED BY <2>2, <2>3 DEF TypeOK, LoopSets, LoopNumbers, LoopFlag
<1>3. QED BY <1>1, <1>2, PTL DEF Spec

(* The loop implements the reducer's state machine: every theorem of       *)
(* SessionStateProofs holds of the sessions it writes.                     *)
THEOREM AppendsRecords == Spec => StateSpec
<1>1. Init => Created BY DEF Init
<1>2. TypeOK /\ [Next]_vars => [Record]_state BY StepAppends DEF TypeOK
<1>3. QED BY <1>1, <1>2, TypeCorrect, PTL DEF Spec, StateSpec

(* What the loop knows of the calls at each place: nothing is unresolved   *)
(* when a request is made, the calls of a reply are split into the groups  *)
(* to come and the present one, and only pending calls run.                *)
CallsKnown ==
  /\ pc \in {"looping", "asking", "compacting", "finishing"} => pending = {} /\ asked = {}
  /\ pc = "grouping" => pending = {} /\ asked = todo
  /\ pc = "starting" => pending \subseteq group /\ asked = todo \cup group
  /\ pc = "calling" => pending = group /\ asked = todo \cup group
  /\ pc = "ending" => pending \subseteq group /\ asked = todo \cup pending
  /\ pc \in {"starting", "calling", "ending"} => todo \cap group = {}
  /\ touched \subseteq pending

LEMMA CallsKnownStep == ASSUME CallsKnown, [Next]_vars PROVE CallsKnown'
<1> USE DEF CallsKnown, Emitted
<1>1. CASE UNCHANGED vars BY <1>1 DEF vars, loop, state, tools
<1>2. CASE Begin BY <1>2 DEF Begin, state, tools
<1>3. CASE RecoverPending
  BY <1>3 DEF RecoverPending, ToolEnded
<1>4. CASE RecoverUnstarted BY <1>4 DEF RecoverUnstarted, state, tools
<1>5. CASE InterruptTurn BY <1>5 DEF InterruptTurn, TurnInterrupted, CloseTurn, tools
<1>6. CASE StartTurn BY <1>6 DEF StartTurn, TurnStarted, Settled, Unresolved, state, tools
<1>7. CASE Throw BY <1>7 DEF Throw, state, tools
<1>8. CASE Ask BY <1>8 DEF Ask, state, tools
<1>9. CASE Reply BY <1>9 DEF Reply, ModelCompleted
<1>10. CASE Overflow BY <1>10 DEF Overflow, CompactionStarted, tools
<1>11. CASE OverflowCompacted
  BY <1>11 DEF OverflowCompacted, SessionCompacted, CompactionAbandoned, tools
<1>12. CASE NextGroup BY <1>12 DEF NextGroup, state, tools
<1>13. CASE StartCall BY <1>13 DEF StartCall, ToolStarted
<1>14. CASE Invoke BY <1>14 DEF Invoke, state, tools
<1>15. CASE EndCall BY <1>15 DEF EndCall, ToolEnded
<1>16. CASE Finish BY <1>16 DEF Finish, TurnCompleted, CloseTurn, state, tools
<1>17. CASE Catch BY <1>17 DEF Catch, TurnFailed, CloseTurn, state, tools
<1>18. CASE Compact BY <1>18 DEF Compact, CompactionStarted, tools
<1>19. CASE Compacted BY <1>19 DEF Compacted, SessionCompacted, CompactionAbandoned, tools
<1>20. CASE Crash BY <1>20 DEF Crash, state, tools
<1>21. CASE Restart BY <1>21 DEF Restart, CompactionAbandoned, state, tools
<1>22. CASE CloseCompactedTurn
  BY <1>22 DEF CloseCompactedTurn, TurnInterrupted, CloseTurn, tools
<1>23. QED
  BY <1>1, <1>2, <1>3, <1>4, <1>5, <1>6, <1>7, <1>8, <1>9, <1>10, <1>11, <1>12, <1>13, <1>14,
     <1>15, <1>16, <1>17, <1>18, <1>19, <1>20, <1>21, <1>22
     DEF Next, Advance, Recover, CallModel, CallTools

THEOREM CallsAreKnown == Spec => []CallsKnown
<1>1. Init => CallsKnown BY DEF Init, Created, CallsKnown
<1>2. CallsKnown /\ [Next]_vars => CallsKnown' BY CallsKnownStep
<1>3. QED BY <1>1, <1>2, PTL DEF Spec

(* Every request has the outcome of every call in its conversation.        *)
THEOREM CompleteRequests == Spec => []RequestsAreComplete
<1>1. CallsKnown => RequestsAreComplete BY DEF CallsKnown, RequestsAreComplete
<1>2. QED BY <1>1, CallsAreKnown, PTL

(* A tool that may have run is pending until its outcome is recorded.      *)
THEOREM PendingEffects == Spec => []EffectsArePending
<1>1. CallsKnown => EffectsArePending BY DEF CallsKnown, EffectsArePending
<1>2. QED BY <1>1, CallsAreKnown, PTL

(* What the loop knows of its turn: inside the try it is open; without a   *)
(* fault it can be closed when the catch is reached, and is closed when no *)
(* run is under way; an overflow compaction leaves no call pending.        *)
TurnKnown ==
  /\ tip = NoHandle /\ ~completion
  /\ pc \in InTry => open
  /\ compaction = "overflow" => pc \in {"compacting", "down"} /\ pending = {}
  /\ pc = "closing" => open /\ pending = {}
  /\ pc = "shrinking" => ~open
  /\ faults = 0 =>
       /\ pc \in {"idle", "recovering"} => ~open
       /\ pc = "catching" => open /\ pending = {}
       /\ pc \notin {"down", "closing"}

LEMMA TurnKnownStep ==
  ASSUME CallsKnown, faults \in Nat, TurnKnown, [Next]_vars PROVE TurnKnown'
<1> USE DEF TurnKnown, CallsKnown, InTry, Emitted, Fault
<1>1. CASE UNCHANGED vars BY <1>1 DEF vars, loop, state, turn, tools, continuation
<1>2. CASE Begin BY <1>2 DEF Begin, state, turn, tools, continuation
<1>3. CASE RecoverPending
  BY <1>3 DEF RecoverPending, ToolEnded, turn, continuation
<1>4. CASE RecoverUnstarted BY <1>4 DEF RecoverUnstarted, state, turn, tools, continuation
<1>5. CASE InterruptTurn BY <1>5 DEF InterruptTurn, TurnInterrupted, CloseTurn, tools
<1>6. CASE StartTurn
  BY <1>6 DEF StartTurn, TurnStarted, MayStartTurn, state, turn, tools, continuation
<1>7. CASE Throw BY <1>7 DEF Throw, state, turn, tools, continuation
<1>8. CASE Ask BY <1>8 DEF Ask, state, turn, tools, continuation
<1>9. CASE Reply BY <1>9 DEF Reply, ModelCompleted, turn, continuation
<1>10. CASE Overflow BY <1>10 DEF Overflow, CompactionStarted, turn, tools, continuation
<1>11. CASE OverflowCompacted
  <2>1. /\ pc = "compacting" /\ compaction' = "none"
        /\ UNCHANGED <<tip, completion, open, pending>>
    BY <1>11 DEF OverflowCompacted, SessionCompacted, CompactionAbandoned, turn, tools, continuation
  <2>2. pc' \in {"asking", "catching"} BY <1>11 DEF OverflowCompacted
  <2>3. QED BY <2>1, <2>2
<1>12. CASE NextGroup BY <1>12 DEF NextGroup, state, turn, tools, continuation
<1>13. CASE StartCall BY <1>13 DEF StartCall, ToolStarted, turn, continuation
<1>14. CASE Invoke BY <1>14 DEF Invoke, state, turn, tools, continuation
<1>15. CASE EndCall BY <1>15 DEF EndCall, ToolEnded, turn, continuation
<1>16. CASE Finish
  <2>1. CASE pc' = "looping" /\ UNCHANGED <<state, faults>>
    BY <1>16, <2>1 DEF Finish, state, turn, tools, continuation
  <2>2. CASE TurnCompleted /\ Emitted("idle", "catching")
    <3>1. /\ open' = FALSE /\ completion' = FALSE
          /\ UNCHANGED <<tip, pending, compaction>>
      BY <2>2 DEF TurnCompleted, CloseTurn, tools
    <3>2. pc' = "idle" \/ (pc' = "catching" /\ faults' # 0) BY <2>2
    <3>3. pc = "finishing" BY <1>16 DEF Finish
    <3>4. QED BY <3>1, <3>2, <3>3
  <2>3. QED BY <1>16, <2>1, <2>2 DEF Finish
<1>17. CASE Catch
  <2>1. UNCHANGED <<tip, completion, pending, compaction, faults>> /\ pc' = "idle"
    BY <1>17 DEF Catch, TurnFailed, CloseTurn, state, tools, continuation
  <2>2. CASE ~MayFailTurn(FALSE)
    <3>1. (tip.status = "uncertain") = FALSE BY DEF NoHandle
    <3>2. ~(open /\ pending = {}) BY <2>2, <3>1 DEF MayFailTurn, MayCloseTurn
    <3>3. faults # 0 BY <1>17, <3>2 DEF Catch
    <3>4. QED BY <2>1, <3>3, <1>17 DEF Catch
  <2>3. CASE MayFailTurn(FALSE)
    <3>1. open' = FALSE BY <1>17, <2>3 DEF Catch, TurnFailed, CloseTurn
    <3>2. QED BY <2>1, <3>1, <1>17 DEF Catch
  <2>4. QED BY <2>2, <2>3
<1>18. CASE Compact BY <1>18 DEF Compact, CompactionStarted, turn, tools, continuation
<1>19. CASE Compacted
  BY <1>19 DEF Compacted, SessionCompacted, CompactionAbandoned, turn, tools, continuation
<1>20. CASE Crash BY <1>20 DEF Crash, state, turn, tools, continuation
<1>21. CASE Restart BY <1>21 DEF Restart, CompactionAbandoned, state, turn, tools, continuation
<1>22. CASE CloseCompactedTurn
  BY <1>22 DEF CloseCompactedTurn, TurnInterrupted, CloseTurn, tools
<1>23. QED
  BY <1>1, <1>2, <1>3, <1>4, <1>5, <1>6, <1>7, <1>8, <1>9, <1>10, <1>11, <1>12, <1>13, <1>14,
     <1>15, <1>16, <1>17, <1>18, <1>19, <1>20, <1>21, <1>22
     DEF Next, Advance, Recover, CallModel, CallTools

THEOREM TurnIsKnown == Spec => []TurnKnown
<1>1. Init => TurnKnown BY DEF Init, Created, TurnKnown, InTry
<1>2. TypeOK => faults \in Nat BY LoopTypeParts DEF LoopNumbers
<1>3. CallsKnown /\ faults \in Nat /\ TurnKnown /\ [Next]_vars => TurnKnown' BY TurnKnownStep
<1>4. QED BY <1>1, <1>2, <1>3, TypeCorrect, CallsAreKnown, PTL DEF Spec

(* A run without faults never returns with its turn open.                  *)
THEOREM ClosedTurns == Spec => []RunsCloseTheirTurn
<1>1. TurnKnown => RunsCloseTheirTurn BY DEF TurnKnown, RunsCloseTheirTurn
<1>2. QED BY <1>1, TurnIsKnown, PTL

(* The records of the startup recovery are accepted.                       *)
THEOREM Startup == Spec => []StartupSucceeds
<1>1. TurnKnown => StartupSucceeds
  BY DEF TurnKnown, StartupSucceeds, MayInterruptTurn, MayCloseTurn
<1>2. QED BY <1>1, TurnIsKnown, PTL

-----------------------------------------------------------------------------
(***************************************************************************)
(* Prompts queued while the turn runs (module TurnQueue), for any prompts, *)
(* limits, turns, crashes and throwing emits.                              *)
(***************************************************************************)
(* a is the order of admission: x was admitted before y.                   *)
Earlier(a, x, y) == \E m, n \in DOMAIN a : m < n /\ a[m] = x /\ a[n] = y

InOrder(a, s) == \A i, j \in DOMAIN s : i < j => Earlier(a, s[i], s[j])
Ahead(a, s, t) == \A i \in DOMAIN s, j \in DOMAIN t : Earlier(a, s[i], t[j])
Known(a, s) == \A i \in DOMAIN s : \E m \in DOMAIN a : a[m] = s[i]
Distinct(a) == \A m, n \in DOMAIN a : a[m] = a[n] => m = n
Elements(s) == {s[i] : i \in DOMAIN s}

-----------------------------------------------------------------------------
(* What appending, and taking the head, do to these.                       *)
LEMMA Appended ==
  ASSUME NEW S, NEW s \in Seq(S), NEW x \in S
  PROVE  /\ Append(s, x) \in Seq(S) /\ Len(Append(s, x)) = Len(s) + 1
         /\ DOMAIN s \subseteq DOMAIN Append(s, x)
         /\ \A i \in DOMAIN s : Append(s, x)[i] = s[i]
         /\ \A i \in DOMAIN Append(s, x) : i \in DOMAIN s \/ (i = Len(s) + 1 /\ Append(s, x)[i] = x)
         /\ \A i \in DOMAIN s : i < Len(s) + 1
         /\ Len(s) + 1 \in DOMAIN Append(s, x) /\ Append(s, x)[Len(s) + 1] = x
         /\ Elements(Append(s, x)) = Elements(s) \cup {x}
<1>1. DOMAIN s = 1 .. Len(s) /\ DOMAIN Append(s, x) = 1 .. Len(s) + 1 /\ Len(s) \in Nat OBVIOUS
<1>2. \A i \in DOMAIN s : Append(s, x)[i] = s[i] OBVIOUS
<1>3. Append(s, x)[Len(s) + 1] = x OBVIOUS
<1>4. \A i \in DOMAIN Append(s, x) : i \in DOMAIN s \/ i = Len(s) + 1 BY <1>1
<1>5. DOMAIN s \subseteq DOMAIN Append(s, x) /\ Len(s) + 1 \in DOMAIN Append(s, x) BY <1>1
<1>6. Elements(Append(s, x)) = Elements(s) \cup {x} BY <1>2, <1>3, <1>4, <1>5, Zenon DEF Elements
<1>7. Append(s, x) \in Seq(S) /\ Len(Append(s, x)) = Len(s) + 1 OBVIOUS
<1>8. QED BY <1>1, <1>2, <1>3, <1>4, <1>5, <1>6, <1>7

LEMMA HeadTaken ==
  ASSUME NEW S, NEW s \in Seq(S), s # <<>>
  PROVE  /\ Tail(s) \in Seq(S) /\ Len(Tail(s)) = Len(s) - 1 /\ Head(s) \in S
         /\ 1 \in DOMAIN s /\ Head(s) = s[1]
         /\ \A i \in DOMAIN Tail(s) : i + 1 \in DOMAIN s /\ Tail(s)[i] = s[i + 1] /\ 1 < i + 1
         /\ \A i, j \in DOMAIN Tail(s) : i < j => i + 1 < j + 1
         /\ Elements(s) = {Head(s)} \cup Elements(Tail(s))
<1>1. /\ Len(s) \in Nat \ {0} /\ Tail(s) \in Seq(S) /\ Len(Tail(s)) = Len(s) - 1
      /\ DOMAIN s = 1 .. Len(s) /\ DOMAIN Tail(s) = 1 .. Len(s) - 1
  OBVIOUS
<1>2. 1 \in DOMAIN s /\ Head(s) = s[1] /\ Head(s) \in S OBVIOUS
<1>3. \A i \in DOMAIN Tail(s) : i + 1 \in DOMAIN s /\ 1 < i + 1 BY <1>1
<1>4. \A i \in DOMAIN Tail(s) : Tail(s)[i] = s[i + 1] OBVIOUS
<1>5. \A i \in DOMAIN s : i = 1 \/ \E j \in DOMAIN Tail(s) : i = j + 1
  <2>1. ASSUME NEW i \in DOMAIN s, i # 1 PROVE i - 1 \in DOMAIN Tail(s) /\ i = (i - 1) + 1 BY <1>1, <2>1
  <2>2. QED BY <2>1
<1>6. Elements(s) = {Head(s)} \cup Elements(Tail(s))
  <2>1. Elements(s) \subseteq {Head(s)} \cup Elements(Tail(s)) BY <1>2, <1>4, <1>5 DEF Elements
  <2>2. {Head(s)} \cup Elements(Tail(s)) \subseteq Elements(s) BY <1>2, <1>3, <1>4 DEF Elements
  <2>3. QED BY <2>1, <2>2
<1>7. \A i, j \in DOMAIN Tail(s) : i < j => i + 1 < j + 1 BY <1>1
<1>8. QED BY <1>1, <1>2, <1>3, <1>4, <1>6, <1>7

(* The order of what was admitted before stays.                            *)
LEMMA Admitting ==
  ASSUME NEW S, NEW a \in Seq(S), NEW x \in S, NEW s, NEW t
  PROVE  /\ InOrder(a, s) => InOrder(Append(a, x), s)
         /\ Ahead(a, s, t) => Ahead(Append(a, x), s, t)
         /\ Known(a, s) => Known(Append(a, x), s)
         /\ Distinct(a) /\ x \notin Elements(a) => Distinct(Append(a, x))
         /\ \A y : (\E m \in DOMAIN a : a[m] = y) => Earlier(Append(a, x), y, x)
<1> DEFINE b == Append(a, x)
           n == Len(a) + 1
<1>1. /\ DOMAIN a \subseteq DOMAIN b /\ \A i \in DOMAIN a : b[i] = a[i] /\ i < n
      /\ n \in DOMAIN b /\ b[n] = x /\ \A i \in DOMAIN b : i \in DOMAIN a \/ i = n
  BY Appended
<1> HIDE DEF b, n
<1>2. \A y, z : Earlier(a, y, z) => Earlier(b, y, z) BY <1>1 DEF Earlier
<1>3. \A y : (\E m \in DOMAIN a : a[m] = y) => Earlier(b, y, x) BY <1>1 DEF Earlier
<1>4. Known(a, s) => Known(b, s) BY <1>1 DEF Known
<1>5. Distinct(a) /\ x \notin Elements(a) => Distinct(b) BY <1>1 DEF Distinct, Elements
<1>6. InOrder(a, s) => InOrder(b, s) BY <1>2 DEF InOrder
<1>7. Ahead(a, s, t) => Ahead(b, s, t) BY <1>2 DEF Ahead
<1>8. QED BY <1>3, <1>4, <1>5, <1>6, <1>7 DEF b

(* A sequence grows by what comes after all of it.                         *)
LEMMA Growing ==
  ASSUME NEW a, NEW S, NEW s \in Seq(S), NEW t, NEW x \in S
  PROVE  /\ InOrder(a, s) /\ (\A i \in DOMAIN s : Earlier(a, s[i], x)) => InOrder(a, Append(s, x))
         /\ Ahead(a, s, t) /\ (\A j \in DOMAIN t : Earlier(a, x, t[j])) => Ahead(a, Append(s, x), t)
         /\ Ahead(a, t, s) /\ (\A j \in DOMAIN t : Earlier(a, t[j], x)) => Ahead(a, t, Append(s, x))
         /\ Known(a, s) /\ (\E m \in DOMAIN a : a[m] = x) => Known(a, Append(s, x))
<1> DEFINE u == Append(s, x)
           n == Len(s) + 1
<1>1. /\ \A i \in DOMAIN s : u[i] = s[i] /\ i < n
      /\ \A i \in DOMAIN u : i \in DOMAIN s \/ (i = n /\ u[i] = x)
      /\ \A i \in DOMAIN s : ~(n < i) /\ ~(n < n)
  <2>1. Len(s) \in Nat /\ DOMAIN s = 1 .. Len(s) OBVIOUS
  <2>2. QED BY <2>1, Appended
<1> HIDE DEF u, n
<1>2. InOrder(a, s) /\ (\A i \in DOMAIN s : Earlier(a, s[i], x)) => InOrder(a, u)
  <2> SUFFICES ASSUME InOrder(a, s), \A i \in DOMAIN s : Earlier(a, s[i], x),
                      NEW i \in DOMAIN u, NEW j \in DOMAIN u, i < j
               PROVE  Earlier(a, u[i], u[j])
    BY DEF InOrder
  <2>1. i \in DOMAIN s
    <3>1. SUFFICES ASSUME i = n PROVE FALSE BY <1>1
    <3>2. CASE j \in DOMAIN s BY <1>1, <3>1, <3>2
    <3>3. CASE j = n BY <3>1, <3>3, Len(s) \in Nat DEF n
    <3>4. QED BY <1>1, <3>2, <3>3
  <2>2. QED BY <1>1, <2>1 DEF InOrder
<1>3. Ahead(a, s, t) /\ (\A j \in DOMAIN t : Earlier(a, x, t[j])) => Ahead(a, u, t) BY <1>1 DEF Ahead
<1>4. Ahead(a, t, s) /\ (\A j \in DOMAIN t : Earlier(a, t[j], x)) => Ahead(a, t, u) BY <1>1 DEF Ahead
<1>5. Known(a, s) /\ (\E m \in DOMAIN a : a[m] = x) => Known(a, u) BY <1>1 DEF Known
<1>6. QED BY <1>2, <1>3, <1>4, <1>5 DEF u

LEMMA Shrinking ==
  ASSUME NEW a, NEW S, NEW s \in Seq(S), s # <<>>, NEW t
  PROVE  /\ InOrder(a, s) => InOrder(a, Tail(s)) /\ \A i \in DOMAIN Tail(s) : Earlier(a, Head(s), Tail(s)[i])
         /\ Ahead(a, s, t) => Ahead(a, Tail(s), t) /\ \A j \in DOMAIN t : Earlier(a, Head(s), t[j])
         /\ Ahead(a, t, s) => Ahead(a, t, Tail(s)) /\ \A j \in DOMAIN t : Earlier(a, t[j], Head(s))
         /\ Known(a, s) => Known(a, Tail(s)) /\ \E m \in DOMAIN a : a[m] = Head(s)
<1> DEFINE u == Tail(s)
           x == Head(s)
<1>1. /\ 1 \in DOMAIN s /\ x = s[1]
      /\ \A i \in DOMAIN u : i + 1 \in DOMAIN s /\ u[i] = s[i + 1] /\ 1 < i + 1
      /\ \A i, j \in DOMAIN u : i < j => i + 1 < j + 1
  BY HeadTaken
<1> HIDE DEF u, x
<1>2. InOrder(a, s) => InOrder(a, u) /\ \A i \in DOMAIN u : Earlier(a, x, u[i]) BY <1>1 DEF InOrder
<1>3. Ahead(a, s, t) => Ahead(a, u, t) /\ \A j \in DOMAIN t : Earlier(a, x, t[j]) BY <1>1 DEF Ahead
<1>4. Ahead(a, t, s) => Ahead(a, t, u) /\ \A j \in DOMAIN t : Earlier(a, t[j], x) BY <1>1 DEF Ahead
<1>5. Known(a, s) => Known(a, u) /\ \E m \in DOMAIN a : a[m] = x BY <1>1 DEF Known
<1>6. QED BY <1>2, <1>3, <1>4, <1>5 DEF u, x

LEMMA Nothing ==
  ASSUME NEW a, NEW t
  PROVE  InOrder(a, <<>>) /\ Known(a, <<>>) /\ Ahead(a, <<>>, t) /\ Ahead(a, t, <<>>) /\ Elements(<<>>) = {}
<1>1. DOMAIN <<>> = {} OBVIOUS
<1>2. QED BY <1>1 DEF InOrder, Known, Ahead, Elements

LEMMA Joined ==
  ASSUME NEW S, NEW s \in Seq(S), NEW t \in Seq(S), NEW a
  PROVE  /\ Elements(s \o t) = Elements(s) \cup Elements(t)
         /\ InOrder(a, s) /\ InOrder(a, t) /\ Ahead(a, s, t) => InOrder(a, s \o t)
<1> DEFINE u == s \o t
<1>1. /\ Len(s) \in Nat /\ Len(t) \in Nat /\ DOMAIN s = 1 .. Len(s) /\ DOMAIN t = 1 .. Len(t)
      /\ DOMAIN u = 1 .. Len(s) + Len(t)
  OBVIOUS
<1>2. \A i \in DOMAIN s : i \in DOMAIN u /\ u[i] = s[i] BY <1>1
<1>3. \A j \in DOMAIN t : Len(s) + j \in DOMAIN u /\ u[Len(s) + j] = t[j] BY <1>1
<1>4. ASSUME NEW i \in DOMAIN u, i \notin DOMAIN s
      PROVE  i - Len(s) \in DOMAIN t /\ u[i] = t[i - Len(s)]
  <2>1. i - Len(s) \in DOMAIN t /\ Len(s) + (i - Len(s)) = i BY <1>1, <1>4
  <2>2. QED BY <1>3, <2>1
<1>5. Elements(u) = Elements(s) \cup Elements(t)
  <2>1. Elements(s) \cup Elements(t) \subseteq Elements(u) BY <1>2, <1>3 DEF Elements
  <2>2. Elements(u) \subseteq Elements(s) \cup Elements(t) BY <1>2, <1>4 DEF Elements
  <2>3. QED BY <2>1, <2>2
<1>6. ASSUME InOrder(a, s), InOrder(a, t), Ahead(a, s, t), NEW i \in DOMAIN u, NEW j \in DOMAIN u, i < j
      PROVE  Earlier(a, u[i], u[j])
  <2>1. CASE i \in DOMAIN s /\ j \in DOMAIN s BY <1>2, <1>6, <2>1 DEF InOrder
  <2>2. CASE i \in DOMAIN s /\ j \notin DOMAIN s BY <1>2, <1>4, <1>6, <2>2 DEF Ahead
  <2>3. CASE i \notin DOMAIN s
    <3>1. j \notin DOMAIN s /\ i - Len(s) < j - Len(s) BY <1>1, <1>6, <2>3
    <3>2. QED BY <1>4, <1>6, <2>3, <3>1 DEF InOrder
  <2>4. QED BY <2>1, <2>2, <2>3
<1>7. QED BY <1>5, <1>6 DEF InOrder

LEMMA Placing ==
  ASSUME NEW a, Distinct(a), NEW x, NEW y, Earlier(a, x, y)
  PROVE  (CHOOSE i \in DOMAIN a : a[i] = x) < (CHOOSE i \in DOMAIN a : a[i] = y)
<1>1. PICK m \in DOMAIN a, n \in DOMAIN a : m < n /\ a[m] = x /\ a[n] = y BY DEF Earlier
<1>2. (CHOOSE i \in DOMAIN a : a[i] = x) = m BY <1>1 DEF Distinct
<1>3. (CHOOSE i \in DOMAIN a : a[i] = y) = n BY <1>1 DEF Distinct
<1>4. QED BY <1>1, <1>2, <1>3

-----------------------------------------------------------------------------
(* The variables of the queue, and where what waits or is drained can be.  *)
QueueSequences ==
  /\ waiting \in Seq(Ids) /\ batch \in Seq(Ids) /\ durable \in Seq(Ids)
  /\ admitted \in Seq(Ids) /\ started \in Seq(Ids)

Sets ==
  /\ drained \subseteq Ids /\ cleared \subseteq Ids /\ misled \subseteq Ids
  /\ stranded \subseteq Ids /\ promise \in [Ids -> Outcomes]

Control ==
  /\ place \in {"idle", "running", "working", "persisting", "finishing", "completing", "failing", "between"}
  /\ after \in {"running", "working", "finishing"}
  /\ closed \in BOOLEAN /\ upsets \in 0 .. MaxUpsets
  /\ batch # <<>> => place = "persisting"
  /\ place \in {"idle", "between"} => waiting = <<>> /\ closed

Limits ==
  /\ IsFiniteSet(Entries) /\ Cardinality(Entries) <= MaxPending
  /\ Len(durable) <= MaxPending

QueueTypes == QueueSequences /\ Sets /\ Control /\ Limits

(* Prompts are started, durable, drained and waiting in the order of their *)
(* admission, each in one place; a prompt nobody typed is in none.         *)
Line(a, s, q, b, w) ==
  /\ InOrder(a, s) /\ InOrder(a, q) /\ InOrder(a, b) /\ InOrder(a, w)
  /\ Ahead(a, s, q) /\ Ahead(a, s, b) /\ Ahead(a, s, w)
  /\ Ahead(a, q, b) /\ Ahead(a, q, w) /\ Ahead(a, b, w)
  /\ Known(a, s) /\ Known(a, q) /\ Known(a, b) /\ Known(a, w)

Untyped == \A id \in Ids : promise[id] = "untyped" => id \notin Elements(admitted)

Order == Distinct(admitted) /\ Line(admitted, started, durable, batch, waiting) /\ Untyped

(* The answers, with where the prompts are.                                *)
Answers ==
  \A id \in Ids :
    /\ promise[id] = "persisted" => id \in Elements(durable) \cup Elements(started) \cup cleared
    /\ promise[id] \in {"refused", "rejected"} /\ id \notin misled =>
         id \notin Elements(durable) \cup Elements(started)

QueueInv == QueueTypes /\ Order /\ Answers

LEMMA ElementsOf == ASSUME NEW s PROVE ToSet(s) = Elements(s)
BY DEF ToSet, Elements

LEMMA QueueInvInit == ASSUME QueueInit PROVE QueueInv
<1> USE DEF QueueInit
<1>1. QueueSequences /\ Sets BY DEF QueueSequences, Sets, Outcomes
<1>2. Control BY MaxUpsetsAssumption DEF Control, MaxUpsetsAssumption
<1>3. Limits
  <2>1. Entries = {} BY Nothing, ElementsOf DEF Entries
  <2>2. QED BY <2>1, FS_EmptySet, MaxPendingAssumption DEF Limits
<1>4. Order BY Nothing DEF Order, Line, Untyped, Distinct
<1>5. Answers BY DEF Answers
<1>6. QED BY <1>1, <1>2, <1>3, <1>4, <1>5 DEF QueueInv, QueueTypes

(* What comes earlier is something else.                                   *)
LEMMA EarlierIsOther == ASSUME NEW a, DOMAIN a \subseteq Int, Distinct(a), NEW x, NEW y, Earlier(a, x, y) PROVE x # y
BY DEF Distinct, Earlier

LEMMA SequencesKept == ASSUME QueueTypes, [QueueNext]_queueVars PROVE QueueSequences'
<1> USE DEF QueueTypes, QueueSequences
<1>0. <<>> \in Seq(Ids) OBVIOUS
<1>1. CASE UNCHANGED queueVars BY <1>1 DEF queueVars, admission, history
<1>2. CASE StartHead BY <1>2, HeadTaken, Appended DEF StartHead, NewTurn
<1>3. CASE Submit \/ Clear \/ Die
  <2>1. <<>> \in Seq(Ids) OBVIOUS
  <2>2. CASE Submit BY <2>1, <2>2 DEF Submit, NewTurn, history
  <2>3. CASE Clear BY <2>1, <2>3 DEF Clear, admission
  <2>4. CASE Die BY <2>1, <2>4 DEF Die, history
  <2>5. QED BY <1>3, <2>2, <2>3, <2>4
<1>4. ASSUME NEW id \in Ids, QueueIdle(id) \/ Enqueue(id) PROVE QueueSequences'
  <2>1. /\ UNCHANGED <<batch, started>> /\ waiting' \in {waiting, Append(waiting, id)}
        /\ durable' \in {durable, Append(durable, id)} /\ admitted' \in {admitted, Append(admitted, id)}
    BY <1>4 DEF QueueIdle, Enqueue, admission
  <2>2. \A s \in Seq(Ids) : Append(s, id) \in Seq(Ids) OBVIOUS
  <2>3. QED BY <2>1, <2>2
<1>5. CASE DrainInLoop \/ DrainOrClose
  BY <1>0, <1>5 DEF DrainInLoop, DrainOrClose, Drain, history
<1>6. CASE Work \/ Persisted \/ Return
  BY <1>6 DEF Work, Persisted, Return, admission, history
<1>7. CASE Persist
  <2>1. batch # <<>> /\ UNCHANGED <<waiting, admitted, started>>
        /\ batch' \in {Tail(batch), <<>>} /\ durable' \in {durable, Append(durable, Head(batch))}
    BY <1>7 DEF Persist
  <2>2. /\ Tail(batch) \in Seq(Ids) /\ Append(durable, Head(batch)) \in Seq(Ids)
        /\ <<>> \in Seq(Ids)
    BY <2>1, HeadTaken
  <2>3. QED BY <2>1, <2>2
<1>8. CASE Complete \/ Fail
  BY <1>0, <1>8 DEF Complete, Fail, Close, history
<1>9. QED
  BY <1>1, <1>2, <1>3, <1>4, <1>5, <1>6, <1>7, <1>8
     DEF QueueNext, Run, User, Resume, StartNext

LEMMA SetsKept == ASSUME QueueTypes, [QueueNext]_queueVars PROVE Sets'
<1> USE DEF QueueTypes, QueueSequences, Sets, Outcomes
<1>0. ASSUME NEW s \in Seq(Ids) PROVE ToSet(s) \subseteq Ids
  BY DEF ToSet
<1>1. CASE UNCHANGED queueVars BY <1>1 DEF queueVars, admission, history
<1>2. CASE StartHead BY <1>2 DEF StartHead, NewTurn
<1>3. CASE Submit \/ Clear
  BY <1>0, <1>3 DEF Submit, NewTurn, Clear, admission, history
<1>4. ASSUME NEW id \in Ids, QueueIdle(id) \/ Enqueue(id) PROVE Sets'
  <2>1. \E how \in Outcomes : promise' = [promise EXCEPT ![id] = how]
    BY <1>4 DEF QueueIdle, Enqueue
  <2>2. UNCHANGED <<drained, cleared, misled, stranded>>
    BY <1>4 DEF QueueIdle, Enqueue, admission
  <2>3. QED BY <2>1, <2>2
<1>5. CASE DrainInLoop \/ DrainOrClose
  BY <1>0, <1>5 DEF DrainInLoop, DrainOrClose, Drain, history
<1>6. CASE Work \/ Persisted \/ Return
  BY <1>6 DEF Work, Persisted, Return, admission, history
<1>7. CASE Persist
  <2>1. Head(batch) \in Ids /\ Tail(batch) \in Seq(Ids) BY <1>7, HeadTaken DEF Persist
  <2>2. \E how \in Outcomes : promise' = [promise EXCEPT ![Head(batch)] = how]
    BY <1>7 DEF Persist
  <2>3. /\ drained' = drained \ {Head(batch)} /\ cleared' = cleared
        /\ misled' \in {misled, misled \cup {Head(batch)}}
        /\ stranded' \in {stranded, stranded \cup ToSet(Tail(batch))}
    BY <1>7 DEF Persist
  <2>4. ToSet(Tail(batch)) \subseteq Ids BY <1>0, <2>1
  <2>5. QED BY <2>1, <2>2, <2>3, <2>4
<1>8. CASE Complete \/ Fail
  BY <1>8 DEF Complete, Fail, Close, history
<1>9. CASE Die BY <1>9 DEF Die, history
<1>10. QED
  BY <1>1, <1>2, <1>3, <1>4, <1>5, <1>6, <1>7, <1>8, <1>9
     DEF QueueNext, Run, User, Resume, StartNext

LEMMA ControlKept == ASSUME QueueTypes, [QueueNext]_queueVars PROVE Control'
<1> USE DEF QueueTypes, Control
<1>1. CASE UNCHANGED queueVars BY <1>1 DEF queueVars, admission, history
<1>2. CASE StartHead BY <1>2 DEF StartHead, NewTurn
<1>3. CASE Submit \/ Clear
  BY <1>3 DEF Submit, NewTurn, Clear, admission, history
<1>4. ASSUME NEW id \in Ids, QueueIdle(id) \/ Enqueue(id) PROVE Control'
  BY <1>4 DEF QueueIdle, Enqueue, admission
<1>5. CASE DrainInLoop \/ DrainOrClose
  BY <1>5 DEF DrainInLoop, DrainOrClose, Drain, history
<1>6. CASE Work \/ Persisted \/ Return
  BY <1>6 DEF Work, Persisted, Return, admission, history
<1>7. CASE Persist BY <1>7, MaxUpsetsAssumption DEF Persist, Upset, MaxUpsetsAssumption
<1>8. CASE Complete \/ Fail
  BY <1>8 DEF Complete, Fail, Close, history
<1>9. CASE Die BY <1>9, MaxUpsetsAssumption DEF Die, Upset, history, MaxUpsetsAssumption
<1>10. QED
  BY <1>1, <1>2, <1>3, <1>4, <1>5, <1>6, <1>7, <1>8, <1>9
     DEF QueueNext, Run, User, Resume, StartNext

LEMMA LimitsKept == ASSUME QueueTypes, [QueueNext]_queueVars PROVE Limits'
<1> USE MaxPendingAssumption DEF QueueTypes, QueueSequences
<1>1. ASSUME Entries' \subseteq Entries, Len(durable') <= MaxPending PROVE Limits'
  <2>1. IsFiniteSet(Entries') /\ Cardinality(Entries') <= Cardinality(Entries)
    BY <1>1, FS_Subset DEF Limits
  <2>2. Cardinality(Entries') \in Nat /\ Cardinality(Entries) \in Nat
    BY <2>1, FS_CardinalityType DEF Limits
  <2>3. QED BY <1>1, <2>1, <2>2 DEF Limits
<1>2. CASE UNCHANGED queueVars
  BY <1>2 DEF queueVars, admission, history, Entries, Limits
<1>3. CASE StartHead
  <2>1. Entries' = {} BY <1>3, Nothing, ElementsOf DEF StartHead, NewTurn, Entries
  <2>2. Len(durable') <= MaxPending
    <3>1. Len(durable) \in Nat /\ Len(Tail(durable)) = Len(durable) - 1 BY <1>3, HeadTaken DEF StartHead
    <3>2. QED BY <1>3, <3>1 DEF StartHead, Limits
  <2>3. QED BY <1>1, <2>1, <2>2
<1>4. CASE Submit
  <2>1. Entries' = {} /\ durable' = durable
    BY <1>4, Nothing, ElementsOf DEF Submit, NewTurn, Entries
  <2>2. QED BY <1>1, <2>1 DEF Limits
<1>5. CASE Clear
  <2>1. Entries' = Entries /\ durable' = <<>>
    BY <1>5 DEF Clear, Entries, admission
  <2>2. QED BY <1>1, <2>1
<1>6. ASSUME NEW id \in Ids, QueueIdle(id) PROVE Limits'
  <2>1. Entries' = Entries BY <1>6 DEF QueueIdle, Entries, admission
  <2>2. Len(durable') <= MaxPending
    <3>1. Len(durable) \in Nat /\ Len(Append(durable, id)) = Len(durable) + 1 OBVIOUS
    <3>2. QED BY <1>6, <3>1 DEF QueueIdle, Limits
  <2>3. QED BY <1>1, <2>1, <2>2
<1>7. ASSUME NEW id \in Ids, Enqueue(id) PROVE Limits'
  <2>1. durable' = durable BY <1>7 DEF Enqueue
  <2>2. CASE Entries' = Entries BY <1>1, <2>1, <2>2 DEF Limits
  <2>3. CASE Entries' = Entries \cup {id} /\ Cardinality(Entries) < MaxPending
    <3>1. Cardinality(Entries) \in Nat BY FS_CardinalityType DEF Limits
    <3>2. IsFiniteSet(Entries') BY <2>3, FS_AddElement DEF Limits
    <3>3. \/ Cardinality(Entries') = Cardinality(Entries)
          \/ Cardinality(Entries') = Cardinality(Entries) + 1
      BY <2>3, FS_AddElement DEF Limits
    <3>4. QED BY <2>1, <2>3, <3>1, <3>2, <3>3 DEF Limits
  <2>4. \/ waiting' = waiting /\ drained' = drained
        \/ waiting' = Append(waiting, id) /\ drained' = drained /\ Cardinality(Entries) < MaxPending
    BY <1>7, Zenon DEF Enqueue
  <2>5. Elements(Append(waiting, id)) = Elements(waiting) \cup {id} BY Appended
  <2>6. QED BY <2>2, <2>3, <2>4, <2>5, ElementsOf DEF Entries
<1>8. CASE DrainInLoop \/ DrainOrClose
  <2>1. durable' = durable BY <1>8 DEF DrainInLoop, DrainOrClose
  <2>2. \/ waiting' = waiting /\ drained' = drained
        \/ waiting' = <<>> /\ drained' = drained \cup ToSet(waiting)
    BY <1>8 DEF DrainInLoop, DrainOrClose, Drain
  <2>3. Entries' \subseteq Entries BY <2>2, Nothing, ElementsOf DEF Entries
  <2>4. QED BY <1>1, <2>1, <2>3 DEF Limits
<1>9. CASE Work \/ Persisted \/ Return
  BY <1>1, <1>9 DEF Work, Persisted, Return, admission, history, Entries,
    Limits
<1>10. CASE Persist
  <2>1. waiting' = waiting /\ drained' \subseteq drained BY <1>10 DEF Persist
  <2>2. durable' = durable \/ (durable' = Append(durable, Head(batch)) /\ Len(durable) < MaxPending)
    BY <1>10 DEF Persist
  <2>3. Len(durable) \in Nat /\ Len(Append(durable, Head(batch))) = Len(durable) + 1 OBVIOUS
  <2>4. Len(durable') <= MaxPending BY <2>2, <2>3 DEF Limits
  <2>5. QED BY <1>1, <2>1, <2>4 DEF Entries
<1>11. CASE Complete \/ Fail
  <2>1. waiting' = <<>> /\ drained' = drained /\ durable' = durable
    BY <1>11 DEF Complete, Fail, Close
  <2>2. QED BY <1>1, <2>1, Nothing, ElementsOf DEF Entries, Limits
<1>12. CASE Die
  <2>1. waiting' = <<>> /\ drained' = {} /\ durable' = durable BY <1>12 DEF Die
  <2>2. QED BY <1>1, <2>1, Nothing, ElementsOf DEF Entries, Limits
<1>13. QED
  BY <1>2, <1>3, <1>4, <1>5, <1>6, <1>7, <1>8, <1>9, <1>10, <1>11, <1>12
     DEF QueueNext, Run, User, Resume, StartNext

-----------------------------------------------------------------------------
(* The line of prompts under what the steps do with it.                    *)
LEMMA LineMoves ==
  ASSUME NEW S, NEW a, NEW s \in Seq(S), NEW q \in Seq(S), NEW b \in Seq(S), NEW w \in Seq(S),
         Line(a, s, q, b, w)
  PROVE  /\ q # <<>> => Line(a, Append(s, Head(q)), Tail(q), <<>>, <<>>)
         /\ b # <<>> => Line(a, s, Append(q, Head(b)), Tail(b), w)
         /\ b # <<>> => Line(a, s, Append(q, Head(b)), <<>>, w)
         /\ Line(a, s, q, <<>>, w) /\ Line(a, s, q, b, <<>>) /\ Line(a, s, <<>>, b, w)
         /\ Line(a, s, q, <<>>, <<>>) /\ Line(a, s, q, w, <<>>)
<1> USE DEF Line
<1>1. Line(a, s, q, <<>>, w) /\ Line(a, s, q, b, <<>>) /\ Line(a, s, <<>>, b, w) /\ Line(a, s, q, <<>>, <<>>)
      /\ Line(a, s, q, w, <<>>)
  BY Nothing
<1>2. ASSUME q # <<>> PROVE Line(a, Append(s, Head(q)), Tail(q), <<>>, <<>>)
  <2> DEFINE x == Head(q)
             r == Tail(q)
  <2>1. x \in S BY <1>2, HeadTaken
  <2>2. InOrder(a, r) /\ \A i \in DOMAIN r : Earlier(a, x, r[i]) BY <1>2, Shrinking
  <2>3. Ahead(a, s, r) /\ \A i \in DOMAIN s : Earlier(a, s[i], x) BY <1>2, Shrinking
  <2>4. Known(a, r) /\ \E m \in DOMAIN a : a[m] = x BY <1>2, Shrinking
  <2> HIDE DEF x, r
  <2>5. InOrder(a, Append(s, x)) BY <2>1, <2>3, Growing
  <2>6. Ahead(a, Append(s, x), r) BY <2>1, <2>2, <2>3, Growing
  <2>7. Known(a, Append(s, x)) BY <2>1, <2>4, Growing
  <2>8. Line(a, Append(s, x), r, <<>>, <<>>) BY <2>2, <2>4, <2>5, <2>6, <2>7, Nothing
  <2>9. QED BY <2>8 DEF x, r
<1>3. ASSUME b # <<>> PROVE Line(a, s, Append(q, Head(b)), Tail(b), w)
  <2> DEFINE x == Head(b)
             r == Tail(b)
  <2>1. x \in S BY <1>3, HeadTaken
  <2>2. InOrder(a, r) /\ \A i \in DOMAIN r : Earlier(a, x, r[i]) BY <1>3, Shrinking
  <2>3. Ahead(a, s, r) /\ \A i \in DOMAIN s : Earlier(a, s[i], x) BY <1>3, Shrinking
  <2>4. Ahead(a, q, r) /\ \A i \in DOMAIN q : Earlier(a, q[i], x) BY <1>3, Shrinking
  <2>5. Ahead(a, r, w) /\ \A j \in DOMAIN w : Earlier(a, x, w[j]) BY <1>3, Shrinking
  <2>6. Known(a, r) /\ \E m \in DOMAIN a : a[m] = x BY <1>3, Shrinking
  <2> HIDE DEF x, r
  <2>7. InOrder(a, Append(q, x)) BY <2>1, <2>4, Growing
  <2>8. Ahead(a, s, Append(q, x)) BY <2>1, <2>3, Growing
  <2>9. Ahead(a, Append(q, x), r) BY <2>1, <2>2, <2>4, Growing
  <2>10. Ahead(a, Append(q, x), w) BY <2>1, <2>5, Growing
  <2>11. Known(a, Append(q, x)) BY <2>1, <2>6, Growing
  <2>12. Line(a, s, Append(q, x), r, w)
    BY <2>2, <2>3, <2>5, <2>6, <2>7, <2>8, <2>9, <2>10, <2>11
  <2>13. QED BY <2>12 DEF x, r
<1>4. ASSUME b # <<>> PROVE Line(a, s, Append(q, Head(b)), <<>>, w)
  BY <1>3, <1>4, Nothing
<1>5. QED BY <1>1, <1>2, <1>3, <1>4

LEMMA LineAdmits ==
  ASSUME NEW S, NEW a \in Seq(S), NEW s \in Seq(S), NEW q \in Seq(S), NEW b \in Seq(S), NEW w \in Seq(S),
         NEW x \in S, Line(a, s, q, b, w)
  PROVE  /\ Line(Append(a, x), s, q, b, Append(w, x))
         /\ b = <<>> /\ w = <<>> => Line(Append(a, x), s, Append(q, x), b, w)
<1> DEFINE c == Append(a, x)
<1> USE DEF Line
<1>1. Line(c, s, q, b, w) BY Admitting
<1>2. \A y : (\E m \in DOMAIN a : a[m] = y) => Earlier(c, y, x) BY Admitting
<1>3. /\ \A i \in DOMAIN s : Earlier(c, s[i], x)
      /\ \A i \in DOMAIN q : Earlier(c, q[i], x)
      /\ \A i \in DOMAIN b : Earlier(c, b[i], x)
      /\ \A i \in DOMAIN w : Earlier(c, w[i], x)
  BY <1>2 DEF Known
<1>4. \E m \in DOMAIN c : c[m] = x BY Appended
<1> HIDE DEF c
<1>5. InOrder(c, Append(w, x)) /\ Known(c, Append(w, x)) BY <1>1, <1>3, <1>4, Growing
<1>6. Ahead(c, s, Append(w, x)) BY <1>1, <1>3, Growing
<1>7. Ahead(c, q, Append(w, x)) BY <1>1, <1>3, Growing
<1>8. Ahead(c, b, Append(w, x)) BY <1>1, <1>3, Growing
<1>9. InOrder(c, Append(q, x)) /\ Known(c, Append(q, x)) BY <1>1, <1>3, <1>4, Growing
<1>10. Ahead(c, s, Append(q, x)) BY <1>1, <1>3, Growing
<1>11. Line(c, s, q, b, Append(w, x)) BY <1>1, <1>5, <1>6, <1>7, <1>8
<1>12. ASSUME b = <<>>, w = <<>> PROVE Line(c, s, Append(q, x), b, w)
  BY <1>1, <1>9, <1>10, <1>12, Nothing
<1>13. QED BY <1>11, <1>12 DEF c

LEMMA LineKept == ASSUME QueueTypes, Order, [QueueNext]_queueVars
                  PROVE  Line(admitted, started, durable, batch, waiting)'
<1> DEFINE Here == Line(admitted, started, durable, batch, waiting)
<1> USE DEF QueueTypes, QueueSequences, Control
<1>0. Here BY DEF Order
<1>1. CASE UNCHANGED queueVars \/ Work \/ Persisted \/ Return
  <2>1. UNCHANGED <<admitted, started, durable, batch, waiting>>
    BY <1>1 DEF queueVars, admission, history, Work, Persisted, Return
  <2>2. QED BY <1>0, <2>1
<1>2. CASE StartHead
  <2>1. durable # <<>> /\ Line(admitted, Append(started, Head(durable)), Tail(durable), <<>>, <<>>)
    BY <1>0, <1>2, LineMoves DEF StartHead
  <2>2. QED BY <1>2, <2>1 DEF StartHead, NewTurn
<1>3. CASE Submit \/ Die
  <2>1. waiting' = <<>> /\ batch' = <<>> /\ UNCHANGED <<durable, admitted, started>>
    BY <1>3 DEF Submit, NewTurn, Die, history
  <2>2. Line(admitted, started, durable, <<>>, <<>>) BY <1>0, LineMoves
  <2>3. QED BY <2>1, <2>2
<1>4. CASE Clear
  <2>1. durable' = <<>> /\ UNCHANGED <<admitted, started, batch, waiting>>
    BY <1>4 DEF Clear, admission
  <2>2. Line(admitted, started, <<>>, batch, waiting) BY <1>0, LineMoves
  <2>3. QED BY <2>1, <2>2
<1>5. ASSUME NEW id \in Ids, QueueIdle(id) PROVE Here'
  <2>1. waiting = <<>> /\ batch = <<>> /\ UNCHANGED <<waiting, batch, started>>
    BY <1>5 DEF QueueIdle, admission
  <2>2. CASE UNCHANGED <<durable, admitted>> BY <1>0, <2>1, <2>2
  <2>3. CASE durable' = Append(durable, id) /\ admitted' = Append(admitted, id)
    <3>1. Line(Append(admitted, id), started, Append(durable, id), batch, waiting) BY <1>0, <2>1, LineAdmits
    <3>2. QED BY <2>1, <2>3, <3>1
  <2>4. QED BY <1>5, <2>2, <2>3 DEF QueueIdle
<1>6. ASSUME NEW id \in Ids, Enqueue(id) PROVE Here'
  <2>1. UNCHANGED <<durable, batch, started>> BY <1>6 DEF Enqueue
  <2>2. CASE UNCHANGED <<waiting, admitted>> BY <1>0, <2>1, <2>2
  <2>3. CASE waiting' = Append(waiting, id) /\ admitted' = Append(admitted, id)
    <3>1. Line(Append(admitted, id), started, durable, batch, Append(waiting, id)) BY <1>0, LineAdmits
    <3>2. QED BY <2>1, <2>3, <3>1
  <2>4. QED BY <1>6, <2>2, <2>3 DEF Enqueue
<1>7. CASE DrainInLoop \/ DrainOrClose
  <2>1. UNCHANGED <<durable, admitted, started>>
    BY <1>7 DEF DrainInLoop, DrainOrClose, history
  <2>2. (waiting' = <<>> /\ batch' = waiting) \/ UNCHANGED <<waiting, batch>>
    BY <1>7 DEF DrainInLoop, DrainOrClose, Drain
  <2>3. Line(admitted, started, durable, waiting, <<>>) BY <1>0, LineMoves
  <2>4. QED BY <1>0, <2>1, <2>2, <2>3
<1>8. CASE Persist
  <2>1. batch # <<>> /\ UNCHANGED <<waiting, admitted, started>> BY <1>8 DEF Persist
  <2>2. \/ durable' = Append(durable, Head(batch)) /\ batch' \in {Tail(batch), <<>>}
        \/ durable' = durable /\ batch' = <<>>
    BY <1>8 DEF Persist
  <2>3. /\ Line(admitted, started, Append(durable, Head(batch)), Tail(batch), waiting)
        /\ Line(admitted, started, Append(durable, Head(batch)), <<>>, waiting)
        /\ Line(admitted, started, durable, <<>>, waiting)
    BY <1>0, <2>1, LineMoves
  <2>4. QED BY <2>1, <2>2, <2>3
<1>9. CASE Complete \/ Fail
  <2>1. waiting' = <<>> /\ UNCHANGED <<durable, admitted, started, batch>>
    BY <1>9 DEF Complete, Fail, Close, history
  <2>2. Line(admitted, started, durable, batch, <<>>) BY <1>0, LineMoves
  <2>3. QED BY <2>1, <2>2
<1>10. QED
  BY <1>1, <1>2, <1>3, <1>4, <1>5, <1>6, <1>7, <1>8, <1>9
     DEF QueueNext, Run, User, Resume, StartNext

(* Only typing a prompt admits one, and nothing becomes untyped again.     *)
LEMMA OrderKept == ASSUME QueueTypes, Order, [QueueNext]_queueVars PROVE Order'
<1> USE DEF QueueTypes, QueueSequences, Sets, Order
<1>1. ASSUME UNCHANGED admitted, \A id \in Ids : promise'[id] = "untyped" => promise[id] = "untyped"
      PROVE  (Distinct(admitted) /\ Untyped)'
  BY <1>1 DEF Untyped
<1>2. ASSUME NEW id \in Ids, promise[id] = "untyped", NEW how \in Outcomes \ {"untyped"},
             promise' = [promise EXCEPT ![id] = how], admitted' \in {admitted, Append(admitted, id)}
      PROVE  (Distinct(admitted) /\ Untyped)'
  <2>1. id \notin Elements(admitted) BY <1>2 DEF Untyped
  <2>2. Distinct(Append(admitted, id)) BY <2>1, Admitting
  <2>3. Elements(Append(admitted, id)) = Elements(admitted) \cup {id} BY Appended
  <2>4. \A d \in Ids : promise'[d] = "untyped" => promise[d] = "untyped" /\ d # id BY <1>2
  <2>5. QED BY <1>2, <2>2, <2>3, <2>4 DEF Untyped
<1>3. CASE \E id \in Ids : QueueIdle(id) \/ Enqueue(id)
  <2>1. PICK id \in Ids : QueueIdle(id) \/ Enqueue(id) BY <1>3
  <2>2. promise[id] = "untyped" /\ admitted' \in {admitted, Append(admitted, id)}
    BY <2>1 DEF QueueIdle, Enqueue
  <2>3. \E how \in {"persisted", "refused", "waiting"} : promise' = [promise EXCEPT ![id] = how]
    BY <2>1 DEF QueueIdle, Enqueue
  <2>4. QED BY <1>2, <2>2, <2>3, LineKept DEF Outcomes
<1>4. CASE ~ \E id \in Ids : QueueIdle(id) \/ Enqueue(id)
  <2>1. UNCHANGED admitted
    BY <1>4 DEF QueueNext, Run, User, Resume, StartNext, queueVars, admission,
      history, StartHead, Submit, Clear, DrainInLoop, Work,
      Persist, Persisted, DrainOrClose, Complete, Fail, Close,
      Return, Die
  <2>2. CASE UNCHANGED promise BY <1>1, <2>1, <2>2, LineKept
  <2>3. CASE Persist
    <3>1. Head(batch) \in Ids BY <2>3, HeadTaken DEF Persist
    <3>2. \E how \in {"persisted", "rejected"} : promise' = [promise EXCEPT ![Head(batch)] = how]
      BY <2>3 DEF Persist
    <3>3. \A id \in Ids : promise'[id] = "untyped" => promise[id] = "untyped" BY <3>1, <3>2
    <3>4. QED BY <1>1, <2>1, <3>3, LineKept
  <2>4. CASE Complete \/ Fail \/ Die
    <3>1. \A id \in Ids : promise'[id] = "untyped" => promise[id] = "untyped"
      BY <2>4 DEF Complete, Fail, Close, Die
    <3>2. QED BY <1>1, <2>1, <3>1, LineKept
  <2>5. QED
    BY <1>4, <2>2, <2>3, <2>4
       DEF QueueNext, Run, User, Resume, StartNext, queueVars, admission,
      history, StartHead, Submit, Clear, DrainInLoop, Work,
      Persisted, DrainOrClose, Return
<1>5. QED BY <1>3, <1>4

-----------------------------------------------------------------------------
(* The answers.  What waits or is drained is neither durable nor started.  *)
Taken == Elements(durable) \cup Elements(started)

LEMMA Elsewhere ==
  ASSUME QueueTypes, Order
  PROVE  /\ Elements(waiting) \cap Taken = {} /\ Elements(batch) \cap Taken = {}
         /\ Taken \subseteq Elements(admitted)
<1>1. Distinct(admitted) /\ DOMAIN admitted \subseteq Int
  BY DEF QueueTypes, QueueSequences, Order
<1>2. \A x, y : Earlier(admitted, x, y) => x # y BY <1>1, EarlierIsOther
<1>3. /\ Ahead(admitted, started, batch) /\ Ahead(admitted, started, waiting)
      /\ Ahead(admitted, durable, batch) /\ Ahead(admitted, durable, waiting)
  BY DEF Order, Line
<1>4. Elements(waiting) \cap Taken = {} /\ Elements(batch) \cap Taken = {}
  BY <1>2, <1>3, Zenon DEF Ahead, Taken, Elements
<1>5. Taken \subseteq Elements(admitted) BY DEF Order, Line, Known, Taken, Elements
<1>6. QED BY <1>4, <1>5

LEMMA AnswersKept == ASSUME QueueInv, [QueueNext]_queueVars PROVE Answers'
<1> USE DEF QueueInv, QueueTypes, QueueSequences, Sets
<1>0. Answers <=> \A id \in Ids :
        /\ promise[id] = "persisted" => id \in Taken \cup cleared
        /\ promise[id] \in {"refused", "rejected"} /\ id \notin misled => id \notin Taken
  BY DEF Answers, Taken
<1>1. ASSUME UNCHANGED <<promise, misled>>, Taken' \subseteq Taken, Taken \cup cleared \subseteq Taken' \cup cleared'
      PROVE  Answers'
  BY <1>0, <1>1 DEF Answers, Taken
<1>2. ASSUME NEW id \in Ids, promise' = [promise EXCEPT ![id] = "persisted"], Taken' = Taken \cup {id},
             UNCHANGED <<misled, cleared>>
      PROVE  Answers'
  <2>1. \A d \in Ids : promise'[d] = IF d = id THEN "persisted" ELSE promise[d] BY <1>2
  <2>2. QED BY <1>0, <1>2, <2>1 DEF Answers, Taken
<1>3. CASE UNCHANGED queueVars
  BY <1>3 DEF queueVars, admission, history, Answers
<1>4. CASE StartHead
  <2>1. Elements(durable) = {Head(durable)} \cup Elements(durable') BY <1>4, HeadTaken DEF StartHead
  <2>2. Elements(started') = Elements(started) \cup {Head(durable)}
    BY <1>4, HeadTaken, Appended DEF StartHead
  <2>3. Taken' = Taken BY <2>1, <2>2 DEF Taken
  <2>4. QED BY <1>1, <1>4, <2>3 DEF StartHead
<1>5. CASE Submit \/ DrainInLoop \/ DrainOrClose \/ Work \/ Persisted \/ Return
  <2>1. UNCHANGED <<promise, misled, durable, started, cleared>>
    BY <1>5 DEF Submit, DrainInLoop, DrainOrClose, Work, Persisted,
      Return, history
  <2>2. QED BY <1>1, <2>1 DEF Taken
<1>6. CASE Clear
  <2>1. durable' = <<>> /\ cleared' = cleared \cup Elements(durable) /\ UNCHANGED <<promise, misled, started>>
    BY <1>6, ElementsOf DEF Clear
  <2>2. QED BY <1>1, <2>1, Nothing DEF Taken
<1>7. ASSUME NEW id \in Ids, QueueIdle(id) \/ Enqueue(id) PROVE Answers'
  <2>1. id \notin Taken BY <1>7, Elsewhere DEF QueueIdle, Enqueue, Order, Untyped
  <2>2. UNCHANGED <<misled, cleared, started>> BY <1>7 DEF QueueIdle, Enqueue
  <2>3. CASE durable' = Append(durable, id) /\ promise' = [promise EXCEPT ![id] = "persisted"]
    <3>1. Elements(durable') = Elements(durable) \cup {id} BY <2>3, Appended
    <3>2. QED BY <1>2, <2>2, <2>3, <3>1 DEF Taken
  <2>4. CASE durable' = durable /\ \E how \in {"refused", "waiting"} : promise' = [promise EXCEPT ![id] = how]
    <3>1. \A d \in Ids : d # id => promise'[d] = promise[d] BY <2>4
    <3>2. promise'[id] # "persisted" BY <2>4
    <3>3. QED BY <1>0, <2>1, <2>2, <2>4, <3>1, <3>2 DEF Answers, Taken
  <2>5. QED BY <1>7, <2>3, <2>4 DEF QueueIdle, Enqueue
<1>8. CASE Persist
  <2> DEFINE id == Head(batch)
  <2>1. id \in Ids /\ id \in Elements(batch) BY <1>8, HeadTaken DEF Persist
  <2>2. id \notin Taken BY <2>1, Elsewhere
  <2>3. UNCHANGED <<cleared, started>> BY <1>8 DEF Persist
  <2>4. \/ durable' = Append(durable, id) /\ promise' = [promise EXCEPT ![id] = "persisted"] /\ misled' = misled
        \/ durable' = Append(durable, id) /\ promise' = [promise EXCEPT ![id] = "rejected"] /\ misled' = misled \cup {id}
        \/ durable' = durable /\ promise' = [promise EXCEPT ![id] = "rejected"] /\ misled' = misled
    BY <1>8 DEF Persist
  <2>5. Elements(Append(durable, id)) = Elements(durable) \cup {id} BY <2>1, Appended
  <2> HIDE DEF id
  <2>6. CASE durable' = Append(durable, id) /\ promise' = [promise EXCEPT ![id] = "persisted"] /\ misled' = misled
    BY <1>2, <2>1, <2>3, <2>5, <2>6 DEF Taken
  <2>7. CASE promise' = [promise EXCEPT ![id] = "rejected"]
    <3>1. \A d \in Ids : d # id => promise'[d] = promise[d] BY <2>7
    <3>2. promise'[id] = "rejected" BY <2>1, <2>7
    <3>3. \/ durable' = Append(durable, id) /\ misled' = misled \cup {id}
          \/ durable' = durable /\ misled' = misled
      <4>1. "persisted" # "rejected" OBVIOUS
      <4>2. promise' # [promise EXCEPT ![id] = "persisted"] BY <2>1, <3>2, <4>1
      <4>3. QED BY <2>4, <4>2
    <3>4. \/ Taken' = Taken \cup {id} /\ misled' = misled \cup {id}
          \/ Taken' = Taken /\ misled' = misled
      BY <2>3, <2>5, <3>3 DEF Taken
    <3>5. \A d \in Ids :
            /\ promise'[d] = "persisted" => d \in Taken' \cup cleared'
            /\ promise'[d] \in {"refused", "rejected"} /\ d \notin misled' => d \notin Taken'
      BY <1>0, <2>2, <2>3, <3>1, <3>2, <3>4
    <3>6. QED BY <3>5 DEF Answers, Taken
  <2>8. QED BY <2>4, <2>6, <2>7
<1>9. CASE Complete \/ Fail
  <2>1. UNCHANGED <<misled, cleared, started, durable>>
    BY <1>9 DEF Complete, Fail, Close, history
  <2>2. \A d \in Ids : promise'[d] = IF d \in Elements(waiting) THEN "rejected" ELSE promise[d]
    BY <1>9, ElementsOf DEF Complete, Fail, Close
  <2>3. Elements(waiting) \cap Taken = {} BY Elsewhere
  <2>4. QED BY <1>0, <2>1, <2>2, <2>3 DEF Answers, Taken
<1>10. CASE Die
  <2>1. UNCHANGED <<misled, cleared, started, durable>> BY <1>10 DEF Die, history
  <2>2. \A d \in Ids : promise'[d] = IF promise[d] = "waiting" THEN "lost" ELSE promise[d]
    BY <1>10 DEF Die
  <2>3. QED BY <1>0, <2>1, <2>2 DEF Answers, Taken
<1>11. QED
  BY <1>3, <1>4, <1>5, <1>6, <1>7, <1>8, <1>9, <1>10
     DEF QueueNext, Run, User, Resume, StartNext

-----------------------------------------------------------------------------
LEMMA QueueInvStep == ASSUME QueueInv, [QueueNext]_queueVars PROVE QueueInv'
BY SequencesKept, SetsKept, ControlKept, LimitsKept, OrderKept, AnswersKept DEF QueueInv, QueueTypes

LEMMA QueueInvHolds == QueueSpec => []QueueInv
BY QueueInvInit, QueueInvStep, PTL DEF QueueSpec

(* The queue's variables have their types and both queues stay within the  *)
(* limit, for any limit and however many prompts are typed.                *)
THEOREM QueueTypeCorrect == QueueSpec => []QueueTypeOK
<1>1. QueueInv => QueueTypeOK
  BY DEF QueueInv, QueueTypes, QueueSequences, Sets, Control, Limits, QueueTypeOK
<1>2. QED BY <1>1, QueueInvHolds, PTL

(* Whatever the loop, the user and crashes do in between: a prompt said to *)
(* be queued is durable, was started or cleared, and one said not to be    *)
(* queued is not, unless the emit after its append threw.                  *)
THEOREM AnswersHold == QueueSpec => []AnswersAreTrue
<1>1. ASSUME QueueInv PROVE AnswersAreTrue
  <2>1. durable \in Seq(Ids) /\ started \in Seq(Ids) BY <1>1 DEF QueueInv, QueueTypes, QueueSequences
  <2>2. Elements(durable \o started) = Elements(durable) \cup Elements(started) BY <2>1, Joined
  <2>3. QED BY <1>1, <2>2, ElementsOf DEF QueueInv, Answers, AnswersAreTrue
<1>2. QED BY <1>1, QueueInvHolds, PTL

(* Prompts are started in the order they were admitted, none twice, and    *)
(* what is durable follows in that order.                                  *)
THEOREM AdmissionOrder == QueueSpec => []FirstComeFirstServed
<1>1. ASSUME QueueInv PROVE FirstComeFirstServed
  <2> DEFINE Place(id) == CHOOSE i \in DOMAIN admitted : admitted[i] = id
             line == started \o durable
  <2>1. started \in Seq(Ids) /\ durable \in Seq(Ids) /\ Distinct(admitted)
        /\ InOrder(admitted, started) /\ InOrder(admitted, durable) /\ Ahead(admitted, started, durable)
    BY <1>1 DEF QueueInv, QueueTypes, QueueSequences, Order, Line
  <2>2. \A x, y : Earlier(admitted, x, y) => Place(x) < Place(y)
    BY <2>1, Placing
  <2>3. InOrder(admitted, line) BY <2>1, Joined
  <2>4. \A i, j \in DOMAIN line : i < j => Place(line[i]) < Place(line[j])
    <3> HIDE DEF line, Place
    <3>1. QED BY <2>2, <2>3 DEF InOrder
  <2>5. QED BY <2>4 DEF line, FirstComeFirstServed
<1>2. QED BY <1>1, QueueInvHolds, PTL

AcceptedRecord ==
  \/ /\ Len(durable) < MaxPending
     /\ \E id \in Ids : /\ \A i \in DOMAIN durable : durable[i] # id
                        /\ durable' = Append(durable, id)
  \/ durable # <<>> /\ durable' \in {Tail(durable), <<>>}

(* The queue of the session changes only by records its reducer accepts: a *)
(* prompt that is not in it is appended below the limit, or the head is    *)
(* taken by the turn it starts, or everything is cleared.                  *)
THEOREM QueueRecordsAccepted == QueueSpec => [][AcceptedRecord]_durable
<1>1. QueueInv /\ [QueueNext]_queueVars => [AcceptedRecord]_durable
  <2> SUFFICES ASSUME QueueInv, [QueueNext]_queueVars, durable' # durable PROVE AcceptedRecord
    OBVIOUS
  <2> USE DEF AcceptedRecord
  <2>1. Elements(batch) \cap Taken = {} /\ Taken \subseteq Elements(admitted)
    BY Elsewhere DEF QueueInv
  <2>2. CASE StartHead \/ Clear BY <2>2 DEF StartHead, Clear
  <2>3. ASSUME NEW id \in Ids, QueueIdle(id)
        PROVE  Len(durable) < MaxPending /\ (\A i \in DOMAIN durable : durable[i] # id) /\ durable' = Append(durable, id)
    <3>1. Len(durable) < MaxPending /\ durable' = Append(durable, id) BY <2>3 DEF QueueIdle
    <3>2. id \notin Elements(durable)
      BY <2>1, <2>3 DEF QueueIdle, QueueInv, Order, Untyped, Taken
    <3>3. QED BY <3>1, <3>2 DEF Elements
  <2>4. CASE Persist
    <3>1. Len(durable) < MaxPending /\ durable' = Append(durable, Head(batch)) /\ batch # <<>>
      BY <2>4 DEF Persist
    <3>2. Head(batch) \in Ids /\ Head(batch) \in Elements(batch)
      BY <3>1, HeadTaken DEF QueueInv, QueueTypes, QueueSequences
    <3>3. \A i \in DOMAIN durable : durable[i] # Head(batch) BY <2>1, <3>2 DEF Taken, Elements
    <3>4. QED BY <3>1, <3>2, <3>3
  <2>5. CASE UNCHANGED durable BY <2>5
  <2>6. QED
    BY <2>2, <2>3, <2>4, <2>5
       DEF QueueNext, Run, User, Resume, StartNext, queueVars, Submit,
         Enqueue, DrainInLoop, Work, Persisted, DrainOrClose, Complete,
         Fail, Close, Return, Die
<1>2. QED BY <1>1, QueueInvHolds, PTL DEF QueueSpec
=============================================================================
