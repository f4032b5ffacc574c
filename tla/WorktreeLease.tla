----------------------------- MODULE WorktreeLease -----------------------------
(***************************************************************************)
(* The lease of one isolated Git worktree                                  *)
(* (packages/core/src/git-worktree-leases.ts): create, release, and the    *)
(* recovery of the worktrees of dead processes, each under the owner lock  *)
(* of module PrivateOwnerLock.  Several processes of a project run at      *)
(* once, and each may die at any step of an operation.                     *)
(***************************************************************************)
EXTENDS PrivateOwnerLock

CONSTANT MaxLeases  \* bound: handles acquired by create

VARIABLES
  job,       \* where a process is in an operation on the lease
  worktree,  \* absent, partial (there, not registered with Git), registered,
             \* stale (registered with Git, its directory gone)
  head,      \* its HEAD: the revision it was created at, or moved
  leases     \* handles acquired so far

vars == <<lock, job, worktree, head, leases>>
lease == <<worktree, head, leases>>

Init ==
  /\ LockInit
  /\ job = [p \in Process |-> "none"]
  /\ worktree = "absent" /\ head = "original" /\ leases = 0

Turn(p, place) == job' = [job EXCEPT ![p] = place]
Idle(p) == p \notin dead /\ job[p] = "none" /\ at[p] = "idle"

OnDisk(w) == w \in {"partial", "registered"}

(* What git worktree remove leaves of w when it fails or dies on the way:  *)
(* it takes the directory first, then the registration, and goes on to the *)
(* second when the first fails.                                            *)
Torn(w) ==
  {w, "absent"} \cup (IF w = "registered" THEN {"partial", "stale"} ELSE {})

-----------------------------------------------------------------------------
(* create: the target must not exist before the lock is acquired.          *)
Create(p) ==
  /\ Idle(p) /\ ~OnDisk(worktree) /\ leases < MaxLeases
  /\ Turn(p, "create")
  /\ UNCHANGED <<lock, lease>>

Own(p) ==
  /\ job[p] = "create"
  /\ \/ Acquire(p) /\ Turn(p, "add") /\ leases' = leases + 1
     \/ owner # NoRecord /\ Turn(p, "none") /\ UNCHANGED <<lock, leases>>
  /\ UNCHANGED <<worktree, head>>

(* What git worktree add leaves when it ends on the way.                   *)
Started(w) == {w} \cup (IF w = "absent" THEN {"partial", "registered"} ELSE {})

(* git worktree add; it refuses a target that it still lists, is aborted   *)
(* or fails on the way.                                                    *)
Add(p) ==
  /\ job[p] = "add"
  /\ \/ /\ worktree = "absent"
        /\ worktree' = "registered" /\ head' = "original" /\ Turn(p, "active")
        /\ UNCHANGED lock
     \/ /\ worktree = "stale"
        /\ Turn(p, "undo") /\ UNCHANGED <<lock, worktree, head>>
     \/ /\ Fails /\ worktree' \in Started(worktree) /\ head' = "original"
        /\ Turn(p, "undo")
  /\ UNCHANGED leases

(* Mutant: the lock is released whatever became of the worktree.           *)
UndoAnyway(p) ==
  /\ job[p] = "undo"
  /\ \/ worktree' = "absent" /\ Turn(p, "leave") /\ UNCHANGED lock
     \/ Fails /\ worktree' \in Torn(worktree) /\ Turn(p, "leave")
  /\ UNCHANGED <<head, leases>>

(* #recoverCreation: a failure of git worktree remove is swallowed and the *)
(* directory removed without Git, which may go on listing it.  While the   *)
(* directory stays, or is not known to be gone, so does the lock.          *)
Undo(p) ==
  /\ job[p] = "undo"
  /\ \/ worktree' = "absent" /\ Turn(p, "leave") /\ UNCHANGED lock
     \/ /\ Fails /\ worktree' \in Torn(worktree)
        /\ Turn(p, IF OnDisk(worktree') THEN "none" ELSE "leave")
     \/ /\ Fails /\ worktree' \in Torn(worktree) /\ ~OnDisk(worktree')
        /\ Turn(p, "none")
  /\ UNCHANGED <<head, leases>>

(* The child that works in the worktree moves its HEAD.                    *)
Move(p) ==
  /\ job[p] = "active" /\ head' = "moved"
  /\ UNCHANGED <<lock, job, worktree, leases>>

(* release of the lease, by the process that created it.  A removal that   *)
(* took part of the worktree, or could not be confirmed, leaves a lease    *)
(* that no later release accepts; its lock stays.                          *)
RemoveOwn(p) ==
  /\ job[p] = "active" /\ owner = mine[p] /\ worktree = "registered"
  /\ \/ worktree' = "absent" /\ Turn(p, "leave") /\ UNCHANGED lock
     \/ Fails /\ worktree' \in Torn(worktree) \ {worktree} /\ Turn(p, "none")
  /\ UNCHANGED <<head, leases>>

-----------------------------------------------------------------------------
(* recoverStale: the registered worktrees are listed with their revisions; *)
(* a lease whose revision is not its record's is left alone.               *)
Recover(p) ==
  /\ Idle(p) /\ worktree = "registered" /\ head = "original"
  /\ Turn(p, "recover")
  /\ UNCHANGED <<lock, lease>>

(* The lock is held by somebody alive, missing, or claimed by another.     *)
Busy(p) ==
  /\ job[p] = "recover" /\ at[p] = "idle"
  /\ owner # NoRecord => owner.by \notin dead
  /\ Turn(p, "none")
  /\ UNCHANGED <<lock, lease>>

(* The steps of the lock, and their end: without a handle the operation is *)
(* over.                                                                   *)
Through(p, steps) ==
  /\ steps
  /\ job' = IF at'[p] = "idle" THEN [job EXCEPT ![p] = "none"] ELSE job
  /\ UNCHANGED lease

Reclaim(p) == job[p] = "recover" /\ Through(p, Look(p) \/ Reclaiming(p))

(* Mutant: what was listed before the lock was acquired is not looked at   *)
(* again.                                                                  *)
TrustListing(p) ==
  /\ job[p] = "recover" /\ at[p] = "held"
  /\ Turn(p, IF worktree = "registered" THEN "remove" ELSE "preserve")
  /\ UNCHANGED <<lock, lease>>

(* With the lock the registration and the revision are looked at again.    *)
Recheck(p) ==
  /\ job[p] = "recover" /\ at[p] = "held"
  /\ \/ /\ Turn(p, IF worktree = "registered" /\ head = "original" THEN "remove" ELSE "preserve")
        /\ UNCHANGED lock
     \/ Fails /\ Turn(p, "preserve")
  /\ UNCHANGED lease

(* git worktree remove; when a part of the worktree stays, so does its     *)
(* record.                                                                 *)
Remove(p) ==
  /\ job[p] = "remove" /\ owner = mine[p]
  /\ \/ worktree' = "absent" /\ Turn(p, "leave") /\ UNCHANGED lock
     \/ Fails /\ worktree' \in Torn(worktree) \ {"absent"} /\ Turn(p, "preserve")
  /\ UNCHANGED <<head, leases>>

(* A look at the owner or at what git has removed fails: the handle is     *)
(* dropped with its lock held.                                             *)
Drop(p) ==
  /\ job[p] \in {"recover", "remove"} /\ at[p] = "held"
  /\ Fails /\ Turn(p, "none")
  /\ worktree' \in IF job[p] = "remove" THEN Torn(worktree) ELSE {worktree}
  /\ UNCHANGED <<head, leases>>

Preserve(p) ==
  /\ job[p] = "preserve"
  /\ Through(p, Abandon(p) \/ Abandoning(p))

(* The worktree is gone; the lock is released.                             *)
Unlock(p) ==
  /\ job[p] = "leave"
  /\ Through(p, Release(p) \/ Releasing(p))

(* abandon or release failed: the caller is done with a handle it keeps.   *)
GiveUp(p) ==
  /\ job[p] \in {"preserve", "leave"}
  /\ Undone(p)
  /\ Turn(p, "none")
  /\ UNCHANGED lease

(* What a Git command leaves that dies with its process.                   *)
Remains(p) ==
  CASE job[p] = "add" -> Started(worktree)
    [] job[p] \in {"undo", "active", "remove"} -> Torn(worktree)
    [] OTHER -> {worktree}

Crash(p) ==
  /\ Die(p)
  /\ worktree' \in Remains(p)
  /\ head' = IF job[p] = "add" THEN "original" ELSE head
  /\ Turn(p, "none")
  /\ UNCHANGED leases

Work(p) == Own(p) \/ Add(p) \/ Undo(p) \/ Unlock(p)
Recovery(p) ==
  \/ Recover(p) \/ Busy(p) \/ Reclaim(p) \/ Recheck(p) \/ Remove(p)
  \/ Drop(p) \/ Preserve(p) \/ GiveUp(p)

Next ==
  \E p \in Process : Create(p) \/ Work(p) \/ Move(p) \/ RemoveOwn(p) \/ Recovery(p) \/ Crash(p)

Spec == Init /\ [][Next]_vars

(* A living process goes on with its operation, and a project's processes  *)
(* recover stale worktrees whenever they start or recover a team run.      *)
FairSpec == Spec /\ \A p \in Process : WF_vars(Work(p) \/ Recovery(p))

-----------------------------------------------------------------------------
Jobs == {"none", "create", "add", "undo", "active", "leave", "recover", "remove", "preserve"}

(* Every variable has its type.                                            *)
TypeOK ==
  /\ LockTypeOK
  /\ job \in [Process -> Jobs]
  /\ worktree \in {"absent", "partial", "registered", "stale"}
  /\ head \in {"original", "moved"}
  /\ leases \in Nat

(* The worktree of a living process is there until that process removes    *)
(* it: no recovery takes it away, whatever it saw before.                  *)
ActiveWorktreeStays == \A p \in Process : job[p] = "active" => worktree = "registered" /\ owner = mine[p]

(* No directory is left without a record: what a crash or a failed removal *)
(* leaves of one still has an owner that a later recovery can judge.  This *)
(* says nothing of a registration whose directory is gone: Undo may leave  *)
(* one without an owner.                                                   *)
LeftoversAreOwned == OnDisk(worktree) => owner # NoRecord

(* Recovery never removes a worktree whose HEAD has moved, though it moves *)
(* between the listing and the death of its owner.                         *)
MovedWorkIsKept == \A p \in Process : job[p] = "remove" => head = "original"

(* An error has left a living process with a handle nobody uses, or its    *)
(* record or claim behind: until it ends, nobody else gets in.             *)
Stranded == \E p \in Process \ dead : p \in lost \/ (job[p] = "none" /\ at[p] = "held")

Full == owner # NoRecord /\ Free(owner) /\ Len(Chain(owner)) >= MaxDepth

(* The worktree of a dead owner is removed by those who are left, unless   *)
(* one of them is stranded with the lock or its claims have no room left.  *)
DeadLeasesAreRecovered ==
  (worktree = "registered" /\ head = "original" /\ owner # NoRecord /\ owner.by \in dead) ~>
    (worktree # "registered" \/ dead = Process \/ Stranded \/ Full)
=============================================================================
