-------------------------- MODULE SessionLockProofs --------------------------
(* Mutual exclusion and token uniqueness of SessionLock for any set of     *)
(* processes, any fence limit and any number of restarts.                  *)
EXTENDS SessionLock, TLAPS

(* A process past the publishing rename is the one named on disk; this is  *)
(* what makes exclusion inductive, and what a steal destroys.              *)
OwnerOnDisk == ~stolen => \A p \in Procs : pc[p] \in Critical => lock = {Me(p)}

(* Between the read and the write of the fence the value read is current,  *)
(* and it is below the limit whoever else writes.                          *)
ReadIsCurrent ==
  /\ \A p \in Procs : pc[p] = "fenceWrite" => number[p] < MaxFence
  /\ ~stolen => \A p \in Procs : pc[p] = "fenceWrite" => number[p] = fence

IInv == TypeOK /\ OwnerOnDisk /\ ReadIsCurrent /\ TokenIsCurrentUnlessStolen

USE MaxFenceAssumption, MaxLivesAssumption

LEMMA InitIInv == Init => IInv
<1> SUFFICES ASSUME Init PROVE IInv OBVIOUS
<1>1. TypeOK
  <2>1. lock \in SUBSET Owners /\ fence \in 0..MaxFence BY DEF Init
  <2>2. pc \in [Procs -> Steps] BY DEF Init, Steps
  <2>3. number \in [Procs -> 0..MaxFence] /\ life \in [Procs -> 1..MaxLives] BY DEF Init
  <2>4. stolen \in BOOLEAN BY DEF Init
  <2>5. QED BY <2>1, <2>2, <2>3, <2>4 DEF TypeOK
<1>2. OwnerOnDisk /\ ReadIsCurrent /\ TokenIsCurrentUnlessStolen
  BY DEF Init, OwnerOnDisk, ReadIsCurrent, TokenIsCurrentUnlessStolen, Critical, Holding
<1>3. QED BY <1>1, <1>2 DEF IInv

(* The type invariant is preserved by every step that finds the value read *)
(* from the fence below its limit.                                         *)
LEMMA TypeStep ==
  ASSUME TypeOK, ReadIsCurrent, [Next]_vars
  PROVE  TypeOK'
<1>1. CASE UNCHANGED vars
  BY <1>1 DEF vars, TypeOK
<1>2. ASSUME NEW p \in Procs,
             Begin(p) \/ Acquire(p) \/ Release(p) \/ Crash(p) \/ Restart(p)
      PROVE  TypeOK'
  <2> USE DEF TypeOK, Goto, Steps, Critical, Holding
  <2>1. CASE Begin(p) BY <2>1 DEF Begin
  <2>2. CASE Publish(p) BY <2>2 DEF Publish, Me, Owners
  <2>3. CASE PublishBlocked(p) BY <2>3 DEF PublishBlocked
  <2>4. CASE Observe(p) BY <2>4 DEF Observe
  <2>5. CASE Reclaim(p) BY <2>5 DEF Reclaim
  <2>6. CASE FenceRead(p) BY <2>6 DEF FenceRead
  <2>7. CASE FenceWrite(p)
    <3>1. number[p] + 1 \in 0..MaxFence BY <2>7 DEF FenceWrite, ReadIsCurrent
    <3>2. QED BY <2>7, <3>1 DEF FenceWrite
  <2>8. CASE FenceFail(p) BY <2>8 DEF FenceFail
  <2>9. CASE Finish(p) BY <2>9 DEF Finish
  <2>10. CASE ReleaseRead(p) BY <2>10 DEF ReleaseRead
  <2>11. CASE Unlink(p) BY <2>11 DEF Unlink
  <2>12. CASE Rmdir(p) BY <2>12 DEF Rmdir
  <2>13. CASE Crash(p) BY <2>13 DEF Crash
  <2>14. CASE Restart(p) BY <2>14 DEF Restart
  <2>15. QED
    BY <1>2, <2>1, <2>2, <2>3, <2>4, <2>5, <2>6, <2>7, <2>8, <2>9, <2>10, <2>11,
       <2>12, <2>13, <2>14 DEF Acquire, Release
<1>3. QED BY <1>1, <1>2 DEF Next

(* Two critical processes would both be the one owner on disk.             *)
LEMMA OwnerIsUnique ==
  ASSUME OwnerOnDisk, ~stolen, NEW p \in Procs, NEW q \in Procs,
         pc[p] \in Critical, pc[q] \in Critical
  PROVE  p = q
<1>1. Me(p) = Me(q) BY DEF OwnerOnDisk
<1>2. QED BY <1>1 DEF Me

LEMMA IInvStep == IInv /\ [Next]_vars => IInv'
<1> SUFFICES ASSUME IInv, [Next]_vars PROVE IInv' OBVIOUS
<1> USE DEF IInv
<1>1. TypeOK' BY TypeStep
<1>2. CASE UNCHANGED vars
  BY <1>1, <1>2 DEF vars, OwnerOnDisk, ReadIsCurrent, TokenIsCurrentUnlessStolen, Me
<1>3. ASSUME NEW p \in Procs,
             Begin(p) \/ Acquire(p) \/ Release(p) \/ Crash(p) \/ Restart(p)
      PROVE  OwnerOnDisk' /\ ReadIsCurrent' /\ TokenIsCurrentUnlessStolen'
  <2> USE DEF TypeOK, Goto, Critical, Holding, OwnerOnDisk, ReadIsCurrent,
              TokenIsCurrentUnlessStolen, Me
  <2>1. CASE Begin(p) BY <2>1 DEF Begin
  <2>2. CASE Publish(p) BY <2>2 DEF Publish
  <2>3. CASE PublishBlocked(p) BY <2>3 DEF PublishBlocked
  <2>4. CASE Observe(p) BY <2>4 DEF Observe
  <2>5. CASE Reclaim(p)
    <3>1. ASSUME ~stolen', NEW q \in Procs, pc[q] \in Critical PROVE FALSE
      <4>1. lock = {Me(q)} /\ ~stolen BY <2>5, <3>1 DEF Reclaim
      <4>2. Alive(Me(q)) BY <3>1 DEF Alive
      <4>3. QED BY <2>5, <3>1, <4>1, <4>2 DEF Reclaim
    <3>2. QED BY <2>5, <3>1 DEF Reclaim
  <2>6. CASE FenceRead(p) BY <2>6 DEF FenceRead
  <2>7. CASE FenceWrite(p)
    <3>1. ASSUME ~stolen, NEW q \in Procs, pc[q] \in Critical PROVE q = p
      BY <2>7, <3>1, OwnerIsUnique DEF FenceWrite
    <3>2. QED BY <2>7, <3>1 DEF FenceWrite
  <2>8. CASE FenceFail(p) BY <2>8 DEF FenceFail
  <2>9. CASE Finish(p) BY <2>9 DEF Finish
  <2>10. CASE ReleaseRead(p) BY <2>10 DEF ReleaseRead
  <2>11. CASE Unlink(p)
    <3>1. ASSUME ~stolen, NEW q \in Procs, pc[q] \in Critical PROVE q = p
      BY <2>11, <3>1, OwnerIsUnique DEF Unlink
    <3>2. QED BY <2>11, <3>1 DEF Unlink
  <2>12. CASE Rmdir(p) BY <2>12 DEF Rmdir
  <2>13. CASE Crash(p) BY <2>13 DEF Crash
  <2>14. CASE Restart(p) BY <2>14 DEF Restart
  <2>15. QED
    BY <1>3, <2>1, <2>2, <2>3, <2>4, <2>5, <2>6, <2>7, <2>8, <2>9, <2>10, <2>11,
       <2>12, <2>13, <2>14 DEF Acquire, Release
<1>4. QED BY <1>1, <1>2, <1>3 DEF Next

-----------------------------------------------------------------------------
(* Every reachable state has the types of the lock, fence and process      *)
(* steps; in particular the fence never passes MAX_SAFE_INTEGER.           *)
THEOREM TypeCorrect == Spec => []TypeOK
  BY InitIInv, IInvStep, PTL DEF Spec, IInv

(* However many processes contend, crash and restart, two of them are      *)
(* never both owners unless a reclaim took a live owner's directory.       *)
THEOREM Exclusion == Spec => []ExclusiveUnlessStolen
<1>1. IInv => ExclusiveUnlessStolen BY OwnerIsUnique DEF IInv, ExclusiveUnlessStolen
<1>2. QED BY InitIInv, IInvStep, <1>1, PTL DEF Spec

(* A lease's fencing token is the current fence for as long as the lease   *)
(* is held.                                                                *)
THEOREM TokenIsCurrent == Spec => []TokenIsCurrentUnlessStolen
  BY InitIInv, IInvStep, PTL DEF Spec, IInv

(* No step takes the fence file back.                                      *)
THEOREM FenceMonotone == Spec => FenceNeverDecreases
<1>1. IInv /\ [Next]_vars => [~stolen' => fence' >= fence]_vars
  <2> SUFFICES ASSUME IInv, NEW p \in Procs, ~stolen',
                      Begin(p) \/ Acquire(p) \/ Release(p) \/ Crash(p) \/ Restart(p)
               PROVE  fence' >= fence
    BY DEF Next
  <2>1. CASE FenceWrite(p)
    BY <2>1 DEF FenceWrite, IInv, ReadIsCurrent, TypeOK, Goto
  <2>2. CASE fence' = fence BY <2>2 DEF IInv, TypeOK
  <2>3. QED
    BY <2>1, <2>2 DEF Acquire, Release, Begin, Publish, PublishBlocked, Observe, Reclaim,
       FenceRead, FenceFail, Finish, ReleaseRead, Unlink, Rmdir, Crash, Restart
<1>2. QED BY InitIInv, IInvStep, <1>1, PTL DEF Spec, FenceNeverDecreases

(* Who holds the lock changes only when a process passes into or out of    *)
(* the critical steps.                                                     *)
LEMMA HoldersAfter ==
  ASSUME TypeOK, NEW p \in Procs, NEW to, pc' = [pc EXCEPT ![p] = to]
  PROVE  {q \in Procs : pc[q] \in Critical}' =
           IF to \in Critical THEN {q \in Procs : pc[q] \in Critical} \cup {p}
                              ELSE {q \in Procs : pc[q] \in Critical} \ {p}
BY DEF TypeOK

(* The file-system protocol implements the abstract lease until a live     *)
(* owner's directory is taken: what the users of the lock rely on.         *)
THEOREM Refinement == Spec => ImplementsLease
<1>1. Init => L!Free BY DEF Init, L!Free, Critical, Holding
<1>2. IInv /\ [Next]_vars => [stolen' \/ L!Step]_(L!lease)
  <2> SUFFICES ASSUME IInv, ~stolen', [Next]_vars
               PROVE  L!Step \/ UNCHANGED L!lease
    OBVIOUS
  <2> DEFINE H == {q \in Procs : pc[q] \in Critical}
  <2>0. CASE UNCHANGED vars BY <2>0 DEF vars, L!lease
  <2> SUFFICES ASSUME NEW p \in Procs,
                      Begin(p) \/ Acquire(p) \/ Release(p) \/ Crash(p) \/ Restart(p)
               PROVE  L!Step \/ UNCHANGED L!lease
    BY <2>0 DEF Next
  <2>1. ASSUME NEW to, pc' = [pc EXCEPT ![p] = to], fence' = fence,
               (pc[p] \in Critical) = (to \in Critical)
        PROVE  UNCHANGED L!lease
    <3>1. H' = H BY <2>1, HoldersAfter DEF IInv
    <3>2. QED BY <3>1, <2>1 DEF L!lease
  <2>2. ASSUME NEW to, pc' = [pc EXCEPT ![p] = to], fence' = fence,
               to \notin Critical
        PROVE  L!Step \/ UNCHANGED L!lease
    <3>1. H' = H \ {p} BY <2>2, HoldersAfter DEF IInv
    <3>2. CASE p \in H BY <2>2, <3>1, <3>2 DEF L!Step, L!End
    <3>3. CASE p \notin H BY <2>2, <3>1, <3>3 DEF L!lease
    <3>4. QED BY <3>2, <3>3
  <2> USE DEF Goto, Critical, Holding
  <2>3. CASE Begin(p) \/ PublishBlocked(p) \/ Observe(p) \/ Rmdir(p) \/ Restart(p)
    BY <2>2, <2>3 DEF Begin, PublishBlocked, Observe, Rmdir, Restart
  <2>4. CASE Publish(p)
    <3>1. ~stolen /\ lock = {} BY <2>4 DEF Publish
    <3>2. H = {} BY <3>1 DEF IInv, OwnerOnDisk
    <3>3. H' = H \cup {p} BY <2>4, HoldersAfter DEF Publish, IInv
    <3>4. fence' = fence BY <2>4 DEF Publish
    <3>5. QED BY <3>2, <3>3, <3>4 DEF L!Step, L!Take
  <2>5. CASE Reclaim(p) BY <2>2, <2>5 DEF Reclaim
  <2>6. CASE FenceRead(p)
    <3>1. pc[p] \in Critical /\ fence' = fence BY <2>6 DEF FenceRead
    <3>2. CASE pc' = [pc EXCEPT ![p] = "unlink"]
      <4>1. (pc[p] \in Critical) = ("unlink" \in Critical) BY <3>1
      <4>2. QED BY <2>1, <3>1, <3>2, <4>1
    <3>3. CASE pc' = [pc EXCEPT ![p] = "fenceWrite"]
      <4>1. (pc[p] \in Critical) = ("fenceWrite" \in Critical) BY <3>1
      <4>2. QED BY <2>1, <3>1, <3>3, <4>1
    <3>4. QED BY <2>6, <3>2, <3>3 DEF FenceRead
  <2>7. CASE FenceWrite(p)
    <3>1. ~stolen /\ pc[p] = "fenceWrite" BY <2>7 DEF FenceWrite
    <3>2. fence' = fence + 1 BY <3>1, <2>7 DEF FenceWrite, IInv, ReadIsCurrent
    <3>3. H' = H \cup {p} /\ p \in H BY <2>7, HoldersAfter DEF FenceWrite, IInv
    <3>4. H' = H BY <3>3
    <3>5. QED BY <3>2, <3>3, <3>4 DEF L!Step, L!Grant
  <2>8. CASE FenceFail(p)
    <3>1. (pc[p] \in Critical) = ("unlink" \in Critical) BY <2>8 DEF FenceFail
    <3>2. QED BY <2>1, <2>8, <3>1 DEF FenceFail
  <2>9. CASE Finish(p)
    <3>1. (pc[p] \in Critical) = ("release" \in Critical) BY <2>9 DEF Finish
    <3>2. QED BY <2>1, <2>9, <3>1 DEF Finish
  <2>10. CASE ReleaseRead(p)
    <3>1. CASE OwnedBy(p)
      <4>1. (pc[p] \in Critical) = ("unlink" \in Critical) BY <2>10 DEF ReleaseRead
      <4>2. QED BY <2>1, <2>10, <3>1, <4>1 DEF ReleaseRead
    <3>2. CASE ~OwnedBy(p) BY <2>2, <2>10, <3>2 DEF ReleaseRead
    <3>3. QED BY <3>1, <3>2
  <2>11. CASE Unlink(p) BY <2>2, <2>11 DEF Unlink
  <2>12. CASE Crash(p) BY <2>2, <2>12 DEF Crash
  <2>13. QED
    BY <2>3, <2>4, <2>5, <2>6, <2>7, <2>8, <2>9, <2>10, <2>11, <2>12 DEF Acquire, Release
<1>3. QED BY InitIInv, IInvStep, <1>1, <1>2, PTL DEF Spec, ImplementsLease
=============================================================================
