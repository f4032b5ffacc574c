------------------------- MODULE SessionJournalProofs -------------------------
(* The log of a session stays readable, keeps what was acknowledged and     *)
(* loses no update, for any processes, records and faults.                  *)
EXTENDS SessionJournal, TLAPS

USE BoundsAssumption DEF BoundsAssumption

InLease == {"locked", "quarantined", "open", "writing", "written"}

(* The lock: one holder, inside an operation.                              *)
Locked ==
  /\ \A p, q \in holders : p = q
  /\ \A p \in holders : pc[p] \in InLease

(* A lease that goes on after a failed append is remembered.               *)
Failing == \A p \in Procs : failed[p] => pc[p] = "open" \/ reused

(* What the holder knows of the file: where its repair cuts, and, unless   *)
(* one of its appends failed, where its next record belongs.               *)
Known(p) ==
  /\ pc[p] = "quarantined" => count[p] = Len(file)
  /\ pc[p] = "open" /\ ~failed[p] => count[p] = Len(file) /\ tail = <<>>
  /\ pc[p] = "writing" => count[p] = Len(file) /\ tail = <<Piece(p)>>
  /\ pc[p] = "written" => count[p] + 1 = Len(file) /\ tail = <<>>

Holding == ~strayed => \A p \in holders : pc[p] = "quarantined" => count[p] = Len(file)

(* A line that is written is in the file, also when its writer was robbed  *)
(* since; what is acknowledged is synced.                                  *)
Kept ==
  /\ \A p \in Procs : pc[p] = "written" =>
       count[p] < Len(file) /\ file[count[p] + 1] = Line(Piece(p), TRUE)
  /\ \A r \in acked : r.sequence < synced /\ file[r.sequence + 1] = r

Log == Sound => LogReadable /\ Kept /\ \A p \in holders : Known(p)

IInv == TypeOK /\ Locked /\ Failing /\ Holding /\ Log /\ NoLostUpdate

LEMMA InitIInv == Init => IInv
<1> SUFFICES ASSUME Init PROVE IInv OBVIOUS
<1>1. TypeOK
  <2>1. file \in Seq(Lines) /\ tail \in Seq(Pieces) /\ synced \in 0 .. Len(file) BY DEF Init
  <2>2. pc \in [Procs -> {"down", "idle", "loaded", "locked", "quarantined",
                          "open", "writing", "written"}]
    BY DEF Init
  <2>3. doing \in [Procs -> {"load", "create", "mutate"}] /\ failed \in [Procs -> BOOLEAN] BY DEF Init
  <2>4. base \in [Procs -> Nat] /\ count \in [Procs -> Nat] BY DEF Init
  <2>5. holders \in SUBSET Procs /\ acked \subseteq Lines BY DEF Init
  <2>6. faults \in 0 .. MaxFaults BY DEF Init
  <2>7. reused \in BOOLEAN /\ strayed \in BOOLEAN BY DEF Init
  <2>8. QED BY <2>1, <2>2, <2>3, <2>4, <2>5, <2>6, <2>7 DEF TypeOK
<1>2. Locked /\ Failing /\ Holding BY DEF Init, Locked, Failing, Holding
<1>3. Log BY DEF Init, Log, Kept, LogReadable, Readable
<1>4. NoLostUpdate BY DEF Init, NoLostUpdate
<1>5. QED BY <1>1, <1>2, <1>3, <1>4 DEF IInv

(* What opening a lease leaves.                                            *)
LEMMA OpenTypes ==
  ASSUME TypeOK, NEW p \in Procs, NEW n \in Nat, OpenLease(p, n)
  PROVE  /\ holders' \in SUBSET Procs /\ doing' = doing /\ faults' = faults
         /\ pc' \in [Procs -> {"down", "idle", "loaded", "locked", "quarantined",
                               "open", "writing", "written"}]
         /\ base' \in [Procs -> Nat] /\ count' \in [Procs -> Nat]
         /\ failed' \in [Procs -> BOOLEAN]
<1> USE DEF TypeOK
<1>1. CASE /\ pc' = [pc EXCEPT ![p] = "open"]
           /\ count' = [count EXCEPT ![p] = n]
           /\ UNCHANGED <<holders, doing, base, failed, faults>>
  BY <1>1
<1>2. CASE /\ base' = [base EXCEPT ![p] = n]
           /\ \E to \in {"loaded", "idle"} : Unlock(p, to)
  <2>1. PICK to \in {"loaded", "idle"} : Unlock(p, to) BY <1>2
  <2>2. base' \in [Procs -> Nat] BY <1>2
  <2>3. QED BY <2>1, <2>2 DEF Unlock
<1>3. QED BY <1>1, <1>2 DEF OpenLease

LEMMA TypeStep == ASSUME TypeOK, [Next]_vars PROVE TypeOK'
<1> USE DEF TypeOK, Goto, Fault
<1>1. CASE UNCHANGED vars BY <1>1 DEF vars, disk, local, history
<1>2. ASSUME NEW p \in Procs, Works(p) \/ Crash(p) \/ Restart(p) \/ Steal(p)
      PROVE  TypeOK'
  <2> USE DEF disk, local, history
  <2>1. CASE Load(p) BY <2>1 DEF Load
  <2>2. CASE LoadTorn(p) BY <2>2 DEF LoadTorn, LockFor, Lock!Take
  <2>3. CASE Create(p) BY <2>3 DEF Create, LockFor, Lock!Take
  <2>4. CASE Mutate(p) BY <2>4 DEF Mutate, LockFor, Busy, Lock!Take
  <2>5. CASE LockedLoadFails(p) BY <2>5 DEF LockedLoadFails, Unlock
  <2>6. CASE LockedLoad(p)
    <3>1. OpenLease(p, Len(file)) /\ UNCHANGED <<disk, history>> BY <2>6 DEF LockedLoad
    <3>2. Len(file) \in Nat OBVIOUS
    <3>3. QED BY <3>1, <3>2, OpenTypes
  <2>7. CASE Quarantine(p) BY <2>7 DEF Quarantine
  <2>8. CASE Truncate(p)
    <3> USE DEF Truncate, Touch
    <3>1. Piece(p) \in Pieces BY DEF Piece, Pieces
    <3>2. file' \in Seq(Lines) /\ tail' \in Seq(Pieces)
      <4>1. \/ /\ count[p] <= Len(file)
               /\ file' = SubSeq(file, 1, count[p]) /\ tail' = <<>>
            \/ file' = file /\ tail' = Append(tail, Piece(p))
        BY <2>8
      <4>2. count[p] <= Len(file) => SubSeq(file, 1, count[p]) \in Seq(Lines) OBVIOUS
      <4>3. Append(tail, Piece(p)) \in Seq(Pieces) BY <3>1
      <4>4. <<>> \in Seq(Pieces) OBVIOUS
      <4>5. QED BY <4>1, <4>2, <4>3, <4>4
    <3>3. synced' \in 0 .. Len(file') BY <2>8, <3>2
    <3>4. OpenLease(p, count[p]) /\ count[p] \in Nat BY <2>8
    <3>5. strayed' \in BOOLEAN /\ reused' \in BOOLEAN BY <2>8
    <3>6. acked' \subseteq Lines /\ faults' \in 0 .. MaxFaults BY <2>8, <3>4 DEF OpenLease, Unlock
    <3>7. /\ holders' \in SUBSET Procs /\ doing' = doing
          /\ pc' \in [Procs -> {"down", "idle", "loaded", "locked", "quarantined",
                                "open", "writing", "written"}]
          /\ base' \in [Procs -> Nat] /\ count' \in [Procs -> Nat]
          /\ failed' \in [Procs -> BOOLEAN]
      BY <3>4, OpenTypes
    <3> HIDE DEF Truncate, Touch
    <3>8. doing' \in [Procs -> {"load", "create", "mutate"}] BY <3>7
    <3>9. QED BY <3>2, <3>3, <3>5, <3>6, <3>7, <3>8
  <2>9. CASE StartAppend(p) BY <2>9 DEF StartAppend, Touch, Piece, Pieces
  <2>10. CASE FinishAppend(p) BY <2>10 DEF FinishAppend, Touch, Piece, Line, Lines
  <2>11. CASE Sync(p)
    <3>1. Line(Piece(p), TRUE) \in Lines BY DEF Piece, Line, Lines
    <3>2. acked' \subseteq Lines BY <2>11, <3>1 DEF Sync
    <3>3. /\ pc' \in [Procs -> {"down", "idle", "loaded", "locked", "quarantined",
                                "open", "writing", "written"}]
          /\ count' \in [Procs -> Nat]
          /\ synced' \in 0 .. Len(file')
      BY <2>11 DEF Sync
    <3>4. /\ UNCHANGED <<file, tail, holders, doing, base, failed, faults>>
          /\ reused' \in BOOLEAN /\ strayed' \in BOOLEAN
      BY <2>11 DEF Sync
    <3>5. QED BY <3>2, <3>3, <3>4
  <2>12. CASE FailAppend(p) BY <2>12 DEF FailAppend
  <2>13. CASE Finish(p) BY <2>13 DEF Finish, Unlock
  <2>14. CASE Crash(p) BY <2>14 DEF Crash
  <2>15. CASE Restart(p) BY <2>15 DEF Restart
  <2>16. CASE Steal(p) BY <2>16 DEF Steal, Lock!End
  <2>17. QED
    BY <1>2, <2>1, <2>2, <2>3, <2>4, <2>5, <2>6, <2>7, <2>8, <2>9, <2>10, <2>11, <2>12, <2>13, <2>14, <2>15, <2>16 DEF Works
<1>3. CASE PowerLoss
  <2> USE DEF PowerLoss, disk, local, history
  <2>1. PICK n \in synced .. Len(file) :
          /\ file' = SubSeq(file, 1, n)
          /\ tail' \in IF n = Len(file) THEN {tail, <<>>}
                       ELSE {<<>>, <<[sequence |-> file[n + 1].sequence, writer |-> file[n + 1].writer]>>}
    BY <1>3
  <2>2. n \in Nat /\ file' \in Seq(Lines) /\ Len(file') = n BY <2>1
  <2>3. tail' \in Seq(Pieces)
    <3>1. CASE n = Len(file)
      <4>1. tail' \in {tail, <<>>} BY <2>1, <3>1
      <4>2. <<>> \in Seq(Pieces) OBVIOUS
      <4>3. QED BY <4>1, <4>2
    <3>2. CASE n < Len(file)
      <4>1. file[n + 1] \in Lines BY <2>1, <3>2
      <4>2. [sequence |-> file[n + 1].sequence, writer |-> file[n + 1].writer] \in Pieces
        BY <4>1 DEF Lines, Pieces
      <4> DEFINE torn == [sequence |-> file[n + 1].sequence, writer |-> file[n + 1].writer]
      <4>3. tail' \in {<<>>, <<torn>>} BY <2>1, <3>2
      <4> HIDE DEF torn
      <4>4. <<>> \in Seq(Pieces) /\ <<torn>> \in Seq(Pieces) BY <4>2 DEF torn
      <4>5. QED BY <4>3, <4>4
    <3>3. QED BY <2>1, <3>1, <3>2
  <2>4. synced' \in 0 .. Len(file') BY <1>3, <2>1, <2>2
  <2>5. QED BY <1>3, <2>2, <2>3, <2>4
<1>4. QED BY <1>1, <1>2, <1>3 DEF Next

LEMMA TakeStep ==
  ASSUME TypeOK, Failing, NEW p \in Procs, NEW from \in {"idle", "loaded"},
         NEW purpose, LockFor(p, from, purpose)
  PROVE  Locked' /\ Failing'
<1> USE DEF TypeOK, LockFor, Goto, Lock!Take
<1>1. holders' = {p} /\ pc'[p] = "locked" OBVIOUS
<1>2. Locked' BY <1>1 DEF Locked, InLease
<1>3. ASSUME NEW q \in Procs, failed'[q] PROVE pc'[q] = "open" \/ reused'
  <2>1. failed[q] /\ (reused => reused') /\ (q # p => pc'[q] = pc[q]) BY <1>3 DEF history
  <2>2. pc[p] # "open" OBVIOUS
  <2>3. QED BY <2>1, <2>2 DEF Failing
<1>4. QED BY <1>2, <1>3 DEF Failing

LEMMA LockStep ==
  ASSUME TypeOK, Locked, Failing, [Next]_vars
  PROVE  Locked' /\ Failing'
<1> USE DEF TypeOK, Locked, Failing, InLease, Goto
<1>1. CASE UNCHANGED vars BY <1>1 DEF vars, local, history
<1>2. ASSUME NEW p \in Procs, Works(p) \/ Crash(p) \/ Restart(p) \/ Steal(p)
      PROVE  Locked' /\ Failing'
  <2> USE DEF local, history
  <2>1. CASE Load(p) BY <2>1 DEF Load
  <2>2. CASE LoadTorn(p) BY <2>2, TakeStep DEF LoadTorn
  <2>3. CASE Create(p) BY <2>3, TakeStep DEF Create
  <2>4. CASE Mutate(p)
    <3>1. CASE Busy(p, "loaded") BY <3>1 DEF Busy
    <3>2. CASE LockFor(p, "loaded", "mutate") BY <3>2, TakeStep
    <3>3. QED BY <2>4, <3>1, <3>2 DEF Mutate
  <2>5. CASE LockedLoadFails(p) BY <2>5 DEF LockedLoadFails, Unlock
  <2>6. CASE LockedLoad(p) BY <2>6 DEF LockedLoad, OpenLease, Unlock
  <2>7. CASE Quarantine(p) BY <2>7 DEF Quarantine
  <2>8. CASE Truncate(p) BY <2>8 DEF Truncate, OpenLease, Unlock
  <2>9. CASE StartAppend(p)
    <3>1. Locked' BY <2>9 DEF StartAppend
    <3>2. ASSUME NEW q \in Procs, failed'[q] PROVE pc'[q] = "open" \/ reused'
      <4>1. failed[q] /\ (failed[p] => reused') /\ (reused => reused') BY <2>9, <3>2 DEF StartAppend
      <4>2. q # p => pc'[q] = pc[q] BY <2>9 DEF StartAppend
      <4>3. QED BY <4>1, <4>2
    <3>3. QED BY <3>1, <3>2
  <2>10. CASE FinishAppend(p) BY <2>10 DEF FinishAppend
  <2>11. CASE Sync(p) BY <2>11 DEF Sync
  <2>12. CASE FailAppend(p) BY <2>12 DEF FailAppend
  <2>13. CASE Finish(p) BY <2>13 DEF Finish, Unlock
  <2>14. CASE Crash(p) BY <2>14 DEF Crash
  <2>15. CASE Restart(p) BY <2>15 DEF Restart
  <2>16. CASE Steal(p) BY <2>16 DEF Steal, Lock!End
  <2>17. QED
    BY <1>2, <2>1, <2>2, <2>3, <2>4, <2>5, <2>6, <2>7, <2>8, <2>9, <2>10, <2>11, <2>12, <2>13, <2>14, <2>15, <2>16 DEF Works
<1>3. CASE PowerLoss BY <1>3 DEF PowerLoss
<1>4. QED BY <1>1, <1>2, <1>3 DEF Next

(* Only the holder changes the file, or the process is remembered; a       *)
(* repair by the holder cuts nothing but the tail.                         *)
LEMMA ChangedByHolder ==
  ASSUME TypeOK, Locked, Holding, NEW p \in Procs, ~strayed',
         Truncate(p) \/ StartAppend(p) \/ FinishAppend(p)
  PROVE  /\ ~strayed /\ holders = {p}
         /\ Truncate(p) => count[p] = Len(file) /\ file' = file /\ tail' = <<>>
<1>1. strayed' = (strayed \/ p \notin holders) BY DEF Truncate, StartAppend, FinishAppend, Touch
<1>2. ~strayed /\ p \in holders BY <1>1 DEF TypeOK
<1>3. holders = {p} BY <1>2 DEF Locked
<1>4. ASSUME Truncate(p) PROVE count[p] = Len(file) /\ file' = file /\ tail' = <<>>
  <2>1. pc[p] = "quarantined" BY <1>4 DEF Truncate
  <2>2. count[p] = Len(file) BY <2>1, <1>2 DEF Holding
  <2>3. file' = SubSeq(file, 1, Len(file)) /\ tail' = <<>>
    <3>1. count[p] <= Len(file) BY <2>2 DEF TypeOK
    <3>2. QED BY <1>4, <2>2, <3>1 DEF Truncate
  <2>4. SubSeq(file, 1, Len(file)) = file BY DEF TypeOK
  <2>5. QED BY <2>2, <2>3, <2>4
<1>5. QED BY <1>2, <1>3, <1>4

LEMMA SoundBefore == ASSUME TypeOK, [Next]_vars PROVE (~strayed' => ~strayed) /\ (~reused' => ~reused)
<1> USE DEF disk, local, history
<1>1. CASE UNCHANGED vars BY <1>1 DEF vars
<1>2. CASE PowerLoss BY <1>2 DEF PowerLoss
<1>3. ASSUME NEW p \in Procs, Works(p) \/ Crash(p) \/ Restart(p) \/ Steal(p)
      PROVE  (~strayed' => ~strayed) /\ (~reused' => ~reused)
  <2>1. CASE Load(p) \/ LoadTorn(p) \/ Create(p) \/ Mutate(p)
    BY <2>1 DEF Load, LoadTorn, Create, Mutate, LockFor, Busy
  <2>2. CASE LockedLoadFails(p) \/ LockedLoad(p) \/ Quarantine(p) \/ Finish(p)
    BY <2>2 DEF LockedLoadFails, LockedLoad, Quarantine, Finish
  <2>3. CASE Truncate(p) BY <2>3 DEF Truncate, Touch, TypeOK
  <2>4. CASE StartAppend(p)
    <3>1. strayed => strayed' BY <2>4 DEF StartAppend, Touch
    <3>2. reused => reused' BY <2>4 DEF StartAppend
    <3>3. QED BY <3>1, <3>2
  <2>5. CASE FinishAppend(p) BY <2>5 DEF FinishAppend, Touch, TypeOK
  <2>6. CASE Sync(p) \/ FailAppend(p) \/ Crash(p) \/ Restart(p) \/ Steal(p)
    <3>1. UNCHANGED <<reused, strayed>> BY <2>6 DEF Sync, FailAppend, Crash, Restart, Steal
    <3>2. QED BY <3>1
  <2>7. QED BY <1>3, <2>1, <2>2, <2>3, <2>4, <2>5, <2>6 DEF Works
<1>4. QED BY <1>1, <1>2, <1>3 DEF Next

LEMMA HoldStep ==
  ASSUME TypeOK, Locked, Holding, [Next]_vars
  PROVE  Holding'
<1> SUFFICES ASSUME ~strayed', NEW q \in holders', pc'[q] = "quarantined"
             PROVE  count'[q] = Len(file')
  BY DEF Holding
<1>0. ~strayed BY SoundBefore
<1> USE <1>0 DEF TypeOK, Holding, Locked, Goto, disk, local, history
<1>1. CASE UNCHANGED vars BY <1>1 DEF vars
<1>2. CASE PowerLoss BY <1>2 DEF PowerLoss
<1>3. ASSUME NEW p \in Procs, Works(p) \/ Crash(p) \/ Restart(p) \/ Steal(p)
      PROVE  count'[q] = Len(file')
  <2>1. CASE Load(p) BY <2>1 DEF Load
  <2>2. CASE LoadTorn(p) BY <2>2 DEF LoadTorn, LockFor, Lock!Take
  <2>3. CASE Create(p) BY <2>3 DEF Create, LockFor, Lock!Take
  <2>4. CASE Mutate(p) BY <2>4 DEF Mutate, LockFor, Busy, Lock!Take
  <2>5. CASE LockedLoadFails(p) BY <2>5 DEF LockedLoadFails, Unlock
  <2>6. CASE LockedLoad(p) BY <2>6 DEF LockedLoad, OpenLease, Unlock
  <2>7. CASE Quarantine(p) BY <2>7 DEF Quarantine
  <2>8. CASE Truncate(p) BY <2>8, ChangedByHolder DEF Truncate, OpenLease, Unlock
  <2>9. CASE StartAppend(p) BY <2>9, ChangedByHolder DEF StartAppend
  <2>10. CASE FinishAppend(p) BY <2>10, ChangedByHolder DEF FinishAppend
  <2>11. CASE Sync(p) BY <2>11 DEF Sync
  <2>12. CASE FailAppend(p) BY <2>12 DEF FailAppend
  <2>13. CASE Finish(p) BY <2>13 DEF Finish, Unlock
  <2>14. CASE Crash(p) BY <2>14 DEF Crash
  <2>15. CASE Restart(p) BY <2>15 DEF Restart
  <2>16. CASE Steal(p) BY <2>16 DEF Steal, Lock!End
  <2>17. QED
    BY <1>3, <2>1, <2>2, <2>3, <2>4, <2>5, <2>6, <2>7, <2>8, <2>9, <2>10, <2>11, <2>12, <2>13, <2>14, <2>15, <2>16 DEF Works
<1>4. QED BY <1>1, <1>2, <1>3 DEF Next

(* Steps that leave the lines, the tail and what is acknowledged alone.    *)
Quiet(p) ==
  \/ Load(p) \/ LoadTorn(p) \/ Create(p) \/ Mutate(p) \/ LockedLoadFails(p)
  \/ LockedLoad(p) \/ Quarantine(p) \/ FailAppend(p) \/ Finish(p)
  \/ Crash(p) \/ Restart(p) \/ Steal(p)

LEMMA QuietStep ==
  ASSUME TypeOK, Locked, Failing, ~reused, LogReadable, Kept, \A q \in holders : Known(q),
         NEW p \in Procs, Quiet(p)
  PROVE  LogReadable' /\ Kept' /\ \A q \in holders' : Known(q)'
<1> USE DEF TypeOK, Goto, disk, local, history
<1>1. UNCHANGED <<file, tail, synced, acked>>
  BY DEF Quiet, Load, LoadTorn, Create, Mutate, LockFor, Busy, LockedLoadFails, LockedLoad,
         Quarantine, FailAppend, Finish, Crash, Restart, Steal
<1>2. LogReadable' BY <1>1 DEF LogReadable, Readable
<1>3. ASSUME NEW q \in Procs, pc'[q] = "written" PROVE pc[q] = "written" /\ count'[q] = count[q]
  BY <1>3 DEF Quiet, Load, LoadTorn, Create, Mutate, LockFor, Busy, LockedLoadFails, LockedLoad,
              OpenLease, Unlock, Quarantine, FailAppend, Finish, Crash, Restart, Steal
<1>4. Kept'
  <2>1. ASSUME NEW q \in Procs, pc'[q] = "written"
        PROVE  count'[q] < Len(file') /\ file'[count'[q] + 1] = Line(Piece(q)', TRUE)
    <3>1. Piece(q)' = Piece(q) BY <1>3, <2>1 DEF Piece
    <3>2. QED BY <1>1, <1>3, <2>1, <3>1 DEF Kept
  <2>2. QED BY <1>1, <2>1 DEF Kept, Piece, Line
<1>5. ASSUME NEW q \in holders' PROVE Known(q)'
  <2> USE <1>1 DEF Known, Piece
  <2>1. CASE Load(p) BY <2>1 DEF Load, Locked, InLease
  <2>2. CASE LoadTorn(p) BY <2>2 DEF LoadTorn, LockFor, Lock!Take
  <2>3. CASE Create(p) BY <2>3 DEF Create, LockFor, Lock!Take
  <2>4. CASE Mutate(p) BY <2>4 DEF Mutate, LockFor, Busy, Lock!Take
  <2>5. CASE LockedLoadFails(p) BY <2>5 DEF LockedLoadFails, Unlock
  <2>6. CASE LockedLoad(p) BY <2>6 DEF LockedLoad, OpenLease, Unlock, Torn
  <2>7. CASE Quarantine(p) BY <2>7 DEF Quarantine
  <2>8. CASE FailAppend(p) BY <2>8 DEF FailAppend
  <2>9. CASE Finish(p) BY <2>9 DEF Finish, Unlock
  <2>10. CASE Crash(p) BY <2>10 DEF Crash
  <2>11. CASE Restart(p) BY <2>11 DEF Restart, Locked, InLease
  <2>12. CASE Steal(p) BY <2>12 DEF Steal, Lock!End
  <2>13. QED
    BY <2>1, <2>2, <2>3, <2>4, <2>5, <2>6, <2>7, <2>8, <2>9, <2>10, <2>11, <2>12 DEF Quiet
<1>6. QED BY <1>2, <1>4, <1>5

(* The steps that write, each by the one holder.                           *)
LEMMA TruncateStep ==
  ASSUME TypeOK, Locked, Failing, Holding, Log, NEW p \in Procs, Truncate(p), Sound'
  PROVE  LogReadable' /\ Kept' /\ \A q \in holders' : Known(q)'
<1> USE DEF TypeOK
<1>1. ~strayed' /\ ~reused' /\ reused' = reused BY DEF Sound, Truncate
<1>2. ~strayed /\ holders = {p} /\ file' = file /\ tail' = <<>> /\ count[p] = Len(file)
  BY <1>1, ChangedByHolder
<1>3. LogReadable /\ Kept BY <1>1, <1>2 DEF Log, Sound
<1>4. LogReadable' BY <1>2, <1>3 DEF LogReadable, Readable
<1>5. OpenLease(p, count[p]) /\ acked' = acked /\ synced' = Len(file) BY <1>2 DEF Truncate
<1>6. ASSUME NEW q \in Procs, pc'[q] = "written" PROVE pc[q] = "written" /\ count'[q] = count[q]
  BY <1>5, <1>6 DEF OpenLease, Unlock
<1>7. Kept'
  <2>1. ASSUME NEW q \in Procs, pc'[q] = "written"
        PROVE  count'[q] < Len(file') /\ file'[count'[q] + 1] = Line(Piece(q)', TRUE)
    <3>1. Piece(q)' = Piece(q) BY <1>6, <2>1 DEF Piece
    <3>2. QED BY <1>2, <1>3, <1>6, <2>1, <3>1 DEF Kept
  <2>2. ASSUME NEW r \in acked' PROVE r.sequence < synced' /\ file'[r.sequence + 1] = r
    <3>1. r.sequence < synced /\ file[r.sequence + 1] = r BY <1>3, <1>5, <2>2 DEF Kept
    <3>2. r.sequence \in Nat BY <1>5, <2>2 DEF Lines
    <3>3. QED BY <1>2, <1>5, <3>1, <3>2
  <2>3. QED BY <2>1, <2>2 DEF Kept
<1>8. ASSUME NEW q \in holders' PROVE Known(q)'
  <2>1. holders' = {p} \/ holders' = {} BY <1>2, <1>5 DEF OpenLease, Unlock
  <2>2. q = p BY <2>1
  <2>3. pc'[p] = "open" /\ count'[p] = Len(file') BY <1>2, <1>5, <1>8, <2>2 DEF OpenLease, Unlock
  <2>4. QED BY <1>2, <2>2, <2>3 DEF Known
<1>9. QED BY <1>4, <1>7, <1>8

LEMMA StartAppendStep ==
  ASSUME TypeOK, Locked, Failing, Holding, Log, NEW p \in Procs, StartAppend(p), Sound'
  PROVE  LogReadable' /\ Kept' /\ \A q \in holders' : Known(q)'
<1> USE DEF TypeOK, StartAppend, Goto
<1>1. ~strayed' /\ ~reused' BY DEF Sound
<1>2. ~reused /\ ~failed[p] BY <1>1
<1>3. ~strayed /\ holders = {p} BY <1>1, ChangedByHolder
<1>4. LogReadable /\ Kept /\ Known(p) BY <1>2, <1>3 DEF Log, Sound
<1>5. count[p] = Len(file) /\ tail = <<>> BY <1>2, <1>4 DEF Known
<1>6. tail' = <<Piece(p)>> BY <1>5
<1>7. LogReadable' BY <1>4 DEF LogReadable, Readable
<1>8. Kept' BY <1>4 DEF Kept, Piece, Line
<1>9. Known(p)' BY <1>5, <1>6 DEF Known, Piece
<1>10. QED BY <1>3, <1>7, <1>8, <1>9

LEMMA FinishAppendStep ==
  ASSUME TypeOK, Locked, Failing, Holding, Log, NEW p \in Procs, FinishAppend(p), Sound'
  PROVE  LogReadable' /\ Kept' /\ \A q \in holders' : Known(q)'
<1> USE DEF TypeOK, FinishAppend, Goto
<1>1. ~strayed' /\ ~reused' /\ ~reused BY DEF Sound
<1>2. ~strayed /\ holders = {p} BY <1>1, ChangedByHolder
<1>3. LogReadable /\ Kept /\ Known(p) BY <1>1, <1>2 DEF Log, Sound
<1>4. count[p] = Len(file) /\ tail = <<Piece(p)>> BY <1>3 DEF Known
<1>5. file' = Append(file, Line(Piece(p), TRUE)) /\ tail' = <<>>
  BY <1>4
<1> DEFINE line == Line(Piece(p), TRUE)
<1>6. line.whole /\ line.sequence = Len(file) BY <1>4 DEF Line, Piece
<1> HIDE DEF line
<1>7. /\ Len(file') = Len(file) + 1 /\ file'[Len(file) + 1] = line
      /\ \A i \in 1 .. Len(file) : file'[i] = file[i]
  <2>1. file' = Append(file, line) BY <1>5 DEF line
  <2>2. QED BY <2>1
<1>8. LogReadable' BY <1>3, <1>6, <1>7 DEF LogReadable, Readable
<1>9. Kept'
  <2>1. ASSUME NEW q \in Procs, pc'[q] = "written"
        PROVE  count'[q] < Len(file') /\ file'[count'[q] + 1] = Line(Piece(q)', TRUE)
    <3>1. Piece(q)' = Piece(q) BY DEF Piece
    <3>2. CASE q = p
      <4>1. line = Line(Piece(q)', TRUE) BY <3>1, <3>2 DEF line
      <4>2. count'[q] = Len(file) /\ Len(file) \in Nat BY <1>4, <3>2
      <4> HIDE DEF TypeOK, FinishAppend, Goto
      <4>3. count'[q] < Len(file') BY <1>7, <4>2
      <4>4. file'[count'[q] + 1] = line BY <1>7, <4>2
      <4>5. QED BY <4>1, <4>3, <4>4
    <3>3. CASE q # p
      <4>1. count[q] < Len(file) /\ file[count[q] + 1] = Line(Piece(q), TRUE) BY <1>3, <2>1, <3>3 DEF Kept
      <4>2. /\ count'[q] = count[q] /\ count[q] \in Nat /\ Len(file) \in Nat
            /\ count[q] + 1 \in 1 .. Len(file)
        BY <4>1
      <4> HIDE DEF TypeOK, FinishAppend, Goto
      <4>3. count'[q] < Len(file') BY <1>7, <4>1, <4>2
      <4>4. file'[count'[q] + 1] = Line(Piece(q)', TRUE) BY <1>7, <3>1, <4>1, <4>2
      <4>5. QED BY <4>3, <4>4
    <3>4. QED BY <3>2, <3>3
  <2>2. ASSUME NEW r \in acked' PROVE r.sequence < synced' /\ file'[r.sequence + 1] = r
    <3>1. r.sequence < synced /\ file[r.sequence + 1] = r BY <1>3, <2>2 DEF Kept
    <3>2. r.sequence \in Nat BY <2>2 DEF Lines
    <3>3. QED BY <1>7, <3>1, <3>2
  <2>3. QED BY <2>1, <2>2 DEF Kept
<1>10. Known(p)' BY <1>4, <1>5, <1>7 DEF Known
<1>11. QED BY <1>2, <1>8, <1>9, <1>10

LEMMA SyncStep ==
  ASSUME TypeOK, Locked, Failing, Holding, Log, NEW p \in Procs, Sync(p), Sound'
  PROVE  LogReadable' /\ Kept' /\ \A q \in holders' : Known(q)'
<1> USE DEF TypeOK, Sync, Goto
<1>1. LogReadable /\ Kept /\ \A q \in holders : Known(q) BY DEF Sound, Log
<1>2. LogReadable' BY <1>1 DEF LogReadable, Readable
<1> DEFINE line == Line(Piece(p), TRUE)
<1>3. line.sequence = count[p] BY DEF Line, Piece
<1>4. count[p] < Len(file) /\ file[count[p] + 1] = line BY <1>1 DEF Kept
<1> HIDE DEF line
<1>5. acked' = acked \union {line} /\ synced' = Len(file) /\ file' = file BY DEF line
<1>6. Kept'
  <2>1. ASSUME NEW q \in Procs, pc'[q] = "written"
        PROVE  count'[q] < Len(file') /\ file'[count'[q] + 1] = Line(Piece(q)', TRUE)
    <3>1. q # p BY <2>1
    <3>2. Piece(q)' = Piece(q) BY <3>1 DEF Piece
    <3>3. QED BY <1>1, <2>1, <3>1, <3>2 DEF Kept
  <2>2. ASSUME NEW r \in acked' PROVE r.sequence < synced' /\ file'[r.sequence + 1] = r
    <3>1. CASE r = line BY <1>3, <1>4, <1>5, <3>1
    <3>2. CASE r \in acked
      <4>1. r.sequence < synced /\ file[r.sequence + 1] = r BY <1>1, <3>2 DEF Kept
      <4>2. r.sequence \in Nat BY <3>2 DEF Lines
      <4>3. QED BY <1>5, <4>1, <4>2
    <3>3. QED BY <1>5, <2>2, <3>1, <3>2
  <2>3. QED BY <2>1, <2>2 DEF Kept
<1>7. ASSUME NEW q \in holders' PROVE Known(q)'
  <2>1. Known(q) BY <1>1
  <2>2. CASE q = p BY <2>1, <2>2 DEF Known
  <2>3. CASE q # p BY <2>1, <2>3 DEF Known, Piece
  <2>4. QED BY <2>2, <2>3
<1>8. QED BY <1>2, <1>6, <1>7

LEMMA PowerLossStep ==
  ASSUME TypeOK, Log, PowerLoss, Sound'
  PROVE  LogReadable' /\ Kept' /\ \A q \in holders' : Known(q)'
<1> USE DEF TypeOK
<1>1. LogReadable /\ Kept BY DEF PowerLoss, history, Sound, Log
<1>2. PICK n \in synced .. Len(file) : file' = SubSeq(file, 1, n) BY DEF PowerLoss
<1>3. n \in Nat /\ Len(file') = n /\ \A i \in 1 .. n : file'[i] = file[i] BY <1>2
<1>4. LogReadable' BY <1>1, <1>2, <1>3 DEF LogReadable, Readable
<1>5. UNCHANGED <<acked, synced>> /\ (\A q \in Procs : pc'[q] = "down") /\ holders' = {}
  BY DEF PowerLoss, history
<1>6. ASSUME NEW r \in acked PROVE r.sequence < synced' /\ file'[r.sequence + 1] = r
  <2>1. r.sequence < synced /\ file[r.sequence + 1] = r BY <1>1, <1>6 DEF Kept
  <2>2. r.sequence \in Nat BY <1>6 DEF Lines
  <2>3. QED BY <1>2, <1>3, <1>5, <2>1, <2>2
<1>7. Kept' BY <1>5, <1>6 DEF Kept
<1>8. QED BY <1>4, <1>5, <1>7

LEMMA LogStep ==
  ASSUME TypeOK, Locked, Failing, Holding, Log, [Next]_vars
  PROVE  Log'
<1> SUFFICES ASSUME Sound'
             PROVE  LogReadable' /\ Kept' /\ \A q \in holders' : Known(q)'
  BY DEF Log
<1>1. Sound BY SoundBefore DEF Sound
<1>2. ~reused /\ LogReadable /\ Kept /\ \A q \in holders : Known(q) BY <1>1 DEF Log, Sound
<1>3. CASE UNCHANGED vars
  BY <1>2, <1>3 DEF vars, disk, local, history, LogReadable, Readable, Kept, Known, Piece, Line
<1>4. CASE PowerLoss BY <1>4, PowerLossStep
<1>5. ASSUME NEW p \in Procs, Works(p) \/ Crash(p) \/ Restart(p) \/ Steal(p)
      PROVE  LogReadable' /\ Kept' /\ \A q \in holders' : Known(q)'
  <2>1. CASE Quiet(p) BY <1>2, <2>1, QuietStep
  <2>2. CASE Truncate(p) BY <2>2, TruncateStep
  <2>3. CASE StartAppend(p) BY <2>3, StartAppendStep
  <2>4. CASE FinishAppend(p) BY <2>4, FinishAppendStep
  <2>5. CASE Sync(p) BY <2>5, SyncStep
  <2>6. QED BY <1>5, <2>1, <2>2, <2>3, <2>4, <2>5 DEF Works, Quiet
<1>6. QED BY <1>3, <1>4, <1>5 DEF Next

LEMMA UpdateStep ==
  ASSUME TypeOK, Locked, Holding, NoLostUpdate, [Next]_vars
  PROVE  NoLostUpdate'
<1> SUFFICES ASSUME ~strayed', NEW q \in holders', doing'[q] = "mutate",
                    pc'[q] \in {"open", "writing", "written"},
                    NEW i \in base'[q] + 1 .. Len(file')
             PROVE  file'[i].writer = q
  BY DEF NoLostUpdate
<1>0. ~strayed BY SoundBefore
<1> USE <1>0 DEF TypeOK, NoLostUpdate, Goto, disk, local, history
<1>1. CASE UNCHANGED vars BY <1>1 DEF vars
<1>2. CASE PowerLoss BY <1>2 DEF PowerLoss
<1>3. ASSUME NEW p \in Procs, Works(p) \/ Crash(p) \/ Restart(p) \/ Steal(p)
      PROVE  file'[i].writer = q
  <2>1. CASE Load(p) BY <2>1 DEF Load, Locked, InLease
  <2>2. CASE LoadTorn(p) BY <2>2 DEF LoadTorn, LockFor, Lock!Take
  <2>3. CASE Create(p) BY <2>3 DEF Create, LockFor, Lock!Take
  <2>4. CASE Mutate(p) BY <2>4 DEF Mutate, LockFor, Busy, Lock!Take
  <2>5. CASE LockedLoadFails(p) BY <2>5 DEF LockedLoadFails, Unlock
  <2>6. CASE LockedLoad(p)
    <3>1. OpenLease(p, Len(file)) /\ file' = file BY <2>6 DEF LockedLoad
    <3>2. CASE q # p BY <3>1, <3>2 DEF OpenLease, Unlock
    <3>3. CASE q = p
      <4>1. Accepts(p, Len(file)) /\ base' = base /\ doing' = doing BY <3>1, <3>3 DEF OpenLease, Unlock
      <4>2. base'[q] = Len(file') BY <3>1, <3>3, <4>1 DEF Accepts
      <4>3. QED BY <4>2
    <3>4. QED BY <3>2, <3>3
  <2>7. CASE Quarantine(p) BY <2>7 DEF Quarantine
  <2>8. CASE Truncate(p)
    <3>1. holders = {p} /\ count[p] = Len(file) /\ file' = file BY <2>8, ChangedByHolder
    <3>2. OpenLease(p, count[p]) /\ pc[p] = "quarantined" BY <2>8 DEF Truncate
    <3>3. q = p /\ base' = base /\ doing' = doing /\ Accepts(p, count[p])
      BY <3>1, <3>2 DEF OpenLease, Unlock
    <3>4. base'[q] = Len(file') BY <3>1, <3>3 DEF Accepts
    <3>5. QED BY <3>4
  <2>9. CASE StartAppend(p) BY <2>9 DEF StartAppend
  <2>10. CASE FinishAppend(p)
    <3>1. holders = {p} BY <2>10, ChangedByHolder
    <3>2. q = p /\ base' = base /\ doing' = doing /\ pc[p] = "writing" BY <2>10, <3>1 DEF FinishAppend
    <3> DEFINE line == Line(Piece(p), tail = <<Piece(p)>>)
    <3>3. line.writer = p BY DEF Line, Piece
    <3>4. file' = Append(file, line) BY <2>10 DEF FinishAppend
    <3> HIDE DEF line
    <3>5. CASE i = Len(file) + 1 BY <3>2, <3>3, <3>4, <3>5
    <3>6. CASE i # Len(file) + 1
      <4>1. i \in base[q] + 1 .. Len(file) /\ file'[i] = file[i] BY <3>2, <3>4, <3>6
      <4>2. QED BY <3>1, <3>2, <4>1
    <3>7. QED BY <3>5, <3>6
  <2>11. CASE Sync(p) BY <2>11 DEF Sync
  <2>12. CASE FailAppend(p) BY <2>12 DEF FailAppend
  <2>13. CASE Finish(p) BY <2>13 DEF Finish, Unlock
  <2>14. CASE Crash(p) BY <2>14 DEF Crash
  <2>15. CASE Restart(p) BY <2>15 DEF Restart, Locked, InLease
  <2>16. CASE Steal(p) BY <2>16 DEF Steal, Lock!End
  <2>17. QED
    BY <1>3, <2>1, <2>2, <2>3, <2>4, <2>5, <2>6, <2>7, <2>8, <2>9, <2>10, <2>11, <2>12,
       <2>13, <2>14, <2>15, <2>16 DEF Works
<1>4. QED BY <1>1, <1>2, <1>3 DEF Next

LEMMA IInvStep == IInv /\ [Next]_vars => IInv'
<1> SUFFICES ASSUME IInv, [Next]_vars PROVE IInv' OBVIOUS
<1> USE DEF IInv
<1>1. TypeOK' BY TypeStep
<1>2. Locked' /\ Failing' BY LockStep
<1>3. Holding' BY HoldStep
<1>4. Log' BY LogStep
<1>5. NoLostUpdate' BY UpdateStep
<1>6. QED BY <1>1, <1>2, <1>3, <1>4, <1>5

LEMMA IInvHolds == Spec => []IInv
<1>1. QED BY InitIInv, IInvStep, PTL DEF Spec

(* Every variable of the journal has its type, for any processes and any   *)
(* faults.                                                                 *)
THEOREM TypeCorrect == Spec => []TypeOK
<1>1. IInv => TypeOK BY DEF IInv
<1>2. QED BY <1>1, IInvHolds, PTL

(* The complete lines of the file always form a log that loads, through    *)
(* torn writes, failed appends, repairs, crashes, power losses and         *)
(* robberies that do not write.                                            *)
THEOREM LogStaysReadable == Spec => []AlwaysReadable
<1>1. IInv => AlwaysReadable BY DEF IInv, Log, AlwaysReadable
<1>2. QED BY <1>1, IInvHolds, PTL

(* An acknowledged record stays at its place in the log: it was synced     *)
(* before its append returned, and no repair cuts a complete line.         *)
THEOREM AcknowledgedStay == Spec => []AcknowledgedSurvive
<1>1. ASSUME IInv PROVE AcknowledgedSurvive
  <2> SUFFICES ASSUME Sound, NEW r \in acked
               PROVE  r.sequence < Len(file) /\ file[r.sequence + 1] = r
    BY DEF AcknowledgedSurvive
  <2>1. r.sequence < synced /\ file[r.sequence + 1] = r BY <1>1 DEF IInv, Log, Kept
  <2>2. synced \in 0 .. Len(file) /\ Len(file) \in Nat /\ r.sequence \in Nat
    BY <1>1 DEF IInv, TypeOK, Lines
  <2>3. QED BY <2>1, <2>2
<1>2. QED BY <1>1, IInvHolds, PTL

(* What follows the records a mutation has seen is its own, whatever other *)
(* processes load, repair or lose meanwhile.                               *)
THEOREM UpdatesAreKept == Spec => []NoLostUpdate
<1>1. IInv => NoLostUpdate BY DEF IInv
<1>2. QED BY <1>1, IInvHolds, PTL
===============================================================================
