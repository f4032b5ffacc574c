----------------------------- MODULE SessionLock -----------------------------
(***************************************************************************)
(* The cross-process session mutation lock of                              *)
(* packages/core/src/session-mutation-lease.ts.                            *)
(*                                                                         *)
(* A lock is a directory holding one `owner` file {owner: uuid, pid}.  A   *)
(* process prepares a private candidate directory and renames it onto the  *)
(* lock path; POSIX rename succeeds when nothing or an EMPTY directory is  *)
(* there.  One action is one file-system call another process can observe; *)
(* work on private names (the candidate, the stale copy) is part of the    *)
(* call that publishes it.                                                 *)
(*                                                                         *)
(* A process that restarts has a new pid, so an owner record names a       *)
(* process and one of its lives.                                           *)
(***************************************************************************)
EXTENDS Naturals

CONSTANTS Procs,     \* processes that mutate the session
          MaxFence,  \* Number.MAX_SAFE_INTEGER: the last fencing token
          MaxLives   \* bound: how often a process may be started

ASSUME MaxFenceAssumption == MaxFence \in Nat
ASSUME MaxLivesAssumption == MaxLives \in Nat \ {0}

VARIABLES
  lock,     \* the owner records in the lock directory: none or one; an empty
            \* directory and no directory are alike to every call below
  fence,    \* the integer in .fences/<id>.fence (0 while there is no file)
  pc,       \* the step each process is at
  number,   \* the fence value a process has read, then its fencing token
  life,     \* which start of the process this is
  stolen    \* history: a reclaim has renamed away a live owner's lock

vars == <<lock, fence, pc, number, life, stolen>>

(* The steps at which a process is past the rename that made it the owner  *)
(* and has not yet given the owner file up.  "publish" is the first round  *)
(* of the loop in acquireSessionLock, "retry" its second.                  *)
Holding  == {"held", "release"}
Critical == {"fenceRead", "fenceWrite", "unlink"} \cup Holding
Steps    == {"down", "idle", "rejected", "publish", "observe", "reclaim",
             "retry", "rmdir"} \cup Critical

Owners == [proc: Procs, life: 1..MaxLives]

Me(p) == [proc |-> p, life |-> life[p]]

OwnedBy(p) == Me(p) \in lock

(* processIsAlive: signal 0 reaches the pid of the owner record.           *)
Alive(o) == pc[o.proc] # "down" /\ life[o.proc] = o.life

-----------------------------------------------------------------------------
Init ==
  /\ lock = {}
  /\ fence = 0
  /\ pc = [p \in Procs |-> "idle"]
  /\ number = [p \in Procs |-> 0]
  /\ life = [p \in Procs |-> 1]
  /\ stolen = FALSE

Goto(p, from, to) == pc[p] = from /\ pc' = [pc EXCEPT ![p] = to]

Begin(p) ==
  /\ Goto(p, "idle", "publish") \/ Goto(p, "rejected", "publish")
  /\ UNCHANGED <<lock, fence, number, life, stolen>>

(* Mutant: the candidate replaces whatever is at the lock path.            *)
PublishOver(p) ==
  /\ Goto(p, "publish", "fenceRead") \/ Goto(p, "retry", "fenceRead")
  /\ lock' = {Me(p)}
  /\ UNCHANGED <<fence, number, life, stolen>>

(* rename(candidate, lock) succeeds ...                                    *)
Publish(p) ==
  /\ lock = {}
  /\ Goto(p, "publish", "fenceRead") \/ Goto(p, "retry", "fenceRead")
  /\ lock' = {Me(p)}
  /\ UNCHANGED <<fence, number, life, stolen>>

(* Mutant: a blocked process never looks whether the owner is dead.        *)
BlockedIsBusy(p) ==
  /\ lock # {}
  /\ Goto(p, "publish", "idle") \/ Goto(p, "retry", "idle")
  /\ UNCHANGED <<lock, fence, number, life, stolen>>

(* ... or fails with EEXIST or ENOTEMPTY; only the first round looks for a *)
(* dead owner, the second is session_busy.                                 *)
PublishBlocked(p) ==
  /\ lock # {}
  /\ Goto(p, "publish", "observe") \/ Goto(p, "retry", "idle")
  /\ UNCHANGED <<lock, fence, number, life, stolen>>

(* reclaimDeadOwner reads the owner.  No owner file, or a live owner, is   *)
(* session_busy; the record itself is not kept.                            *)
Observe(p) ==
  /\ Goto(p, "observe", IF \E o \in lock : ~Alive(o) THEN "reclaim" ELSE "idle")
  /\ UNCHANGED <<lock, fence, number, life, stolen>>

(* rename(lock, stale) moves whatever is at the path now; ENOENT counts as *)
(* reclaimed too.  The loop then runs its second round.                    *)
Reclaim(p) ==
  /\ Goto(p, "reclaim", "retry")
  /\ lock' = {}
  /\ stolen' = (stolen \/ \E o \in lock : Alive(o))
  /\ UNCHANGED <<fence, number, life>>

(* nextFence reads the fence file; an exhausted fence is an error, and an  *)
(* error removes the lock again.                                           *)
FenceRead(p) ==
  /\ Goto(p, "fenceRead", IF fence = MaxFence THEN "unlink" ELSE "fenceWrite")
  /\ number' = [number EXCEPT ![p] = fence]
  /\ UNCHANGED <<lock, fence, life, stolen>>

(* The synced temporary file is renamed over the fence file.               *)
FenceWrite(p) ==
  /\ Goto(p, "fenceWrite", "held")
  /\ fence' = number[p] + 1
  /\ number' = [number EXCEPT ![p] = @ + 1]
  /\ UNCHANGED <<lock, life, stolen>>

(* Any I/O error in nextFence: the catch clause removes the lock.          *)
FenceFail(p) ==
  /\ Goto(p, "fenceRead", "unlink") \/ Goto(p, "fenceWrite", "unlink")
  /\ UNCHANGED <<lock, fence, number, life, stolen>>

(* The mutation is over, or assertOwned has thrown: release() is called.   *)
Finish(p) ==
  /\ Goto(p, "held", "release")
  /\ UNCHANGED <<lock, fence, number, life, stolen>>

(* release() reads the owner file and returns when it is not its own.      *)
ReleaseRead(p) ==
  /\ Goto(p, "release", IF OwnedBy(p) THEN "unlink" ELSE "idle")
  /\ number' = [number EXCEPT ![p] = 0]
  /\ UNCHANGED <<lock, fence, life, stolen>>

(* rm -r removes the owner file first ...                                  *)
Unlink(p) ==
  /\ Goto(p, "unlink", "rmdir")
  /\ lock' = {}
  /\ number' = [number EXCEPT ![p] = 0]
  /\ UNCHANGED <<fence, life, stolen>>

(* ... then the directory.  When a candidate was renamed onto the empty    *)
(* directory in between, rmdir fails with ENOTEMPTY, release() rejects and *)
(* the new owner's lock stays.                                             *)
Rmdir(p) ==
  /\ Goto(p, "rmdir", IF lock = {} THEN "idle" ELSE "rejected")
  /\ UNCHANGED <<lock, fence, number, life, stolen>>

Crash(p) ==
  /\ pc[p] # "down"
  /\ pc' = [pc EXCEPT ![p] = "down"]
  /\ number' = [number EXCEPT ![p] = 0]
  /\ UNCHANGED <<lock, fence, life, stolen>>

Restart(p) ==
  /\ life[p] < MaxLives
  /\ Goto(p, "down", "idle")
  /\ life' = [life EXCEPT ![p] = @ + 1]
  /\ UNCHANGED <<lock, fence, number, stolen>>

Acquire(p) ==
  \/ Publish(p) \/ PublishBlocked(p) \/ Observe(p) \/ Reclaim(p)
  \/ FenceRead(p) \/ FenceWrite(p) \/ FenceFail(p)

Release(p) == Finish(p) \/ ReleaseRead(p) \/ Unlink(p) \/ Rmdir(p)

Next == \E p \in Procs :
          Begin(p) \/ Acquire(p) \/ Release(p) \/ Crash(p) \/ Restart(p)

Spec == Init /\ [][Next]_vars

(* A process that runs goes on with its next call; whoever finds the       *)
(* session busy comes back later.                                          *)
FairSpec == Spec /\ \A p \in Procs : WF_vars(Begin(p) \/ Acquire(p) \/ Release(p))

-----------------------------------------------------------------------------
(* Every variable has its type.                                            *)
TypeOK ==
  /\ lock \in SUBSET Owners
  /\ fence \in 0..MaxFence
  /\ pc \in [Procs -> Steps]
  /\ number \in [Procs -> 0..MaxFence]
  /\ life \in [Procs -> 1..MaxLives]
  /\ stolen \in BOOLEAN

(* At most one process is between the rename that published its owner file *)
(* and the unlink that withdraws it, whatever crashes, restarts and        *)
(* half-done releases happen in between, unless a reclaim took a live      *)
(* owner's directory.  (acquireSessionLock's "already has an active        *)
(* mutation".)                                                             *)
ExclusiveUnlessStolen ==
  ~stolen => \A p, q \in Procs :
               pc[p] \in Critical /\ pc[q] \in Critical => p = q

(* A holder's token is the value in the fence file: two leases that are    *)
(* ever held never carry the same token, although nextFence reads and      *)
(* writes the file in two steps.                                           *)
TokenIsCurrentUnlessStolen ==
  ~stolen => \A p \in Procs : pc[p] \in Holding => number[p] = fence

(* The fence file never goes back, whichever process writes it.            *)
FenceNeverDecreases == [][~stolen' => fence' >= fence]_vars

(* The lock is the abstract lease of module Lease for as long as no live   *)
(* owner's directory was taken: every file-system call is a Take, a Grant, *)
(* an End or a stutter.                                                    *)
L == INSTANCE Lease WITH holders <- {p \in Procs : pc[p] \in Critical}, token <- fence

ImplementsLease == L!Free /\ [][stolen' \/ L!Step]_L!lease

(* A lock left behind by a dead process is cleared as long as some process *)
(* runs: a crash at any call, a half-done reclaim or removal included,     *)
(* never locks the session for good.                                       *)
DeadOwnerCleared ==
  \A o \in Owners :
    (o \in lock /\ ~Alive(o)) ~> (o \notin lock \/ \A p \in Procs : pc[p] = "down")

(* docs/superpowers/plans/2026-07-10-recurs-provider-foundation-slice-0.md *)
(* line 201: while a process has the lock "a competing process receives    *)
(* `session_busy`": no two processes hold leases of one session.           *)
MutualExclusion ==
  \A p, q \in Procs : pc[p] \in Holding /\ pc[q] \in Holding => p = q
=============================================================================
