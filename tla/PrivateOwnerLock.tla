--------------------------- MODULE PrivateOwnerLock ---------------------------
(***************************************************************************)
(* The owner lock of one Git worktree lease                                *)
(* (packages/core/src/private-owner-lock.ts): a directory whose owner.json *)
(* names the process that holds it.  The record of a dead process may be   *)
(* replaced, by whoever is at the end of its claim chain; a replacement    *)
(* can be taken back (abandon), and the directory renamed away (release).  *)
(*                                                                         *)
(* owner.json is replaced by a plain rename, so nothing but the chain      *)
(* keeps a slow process from overwriting a newer record.                   *)
(***************************************************************************)
EXTENDS Naturals, Sequences

CONSTANTS Process,   \* processes, by pid; a dead one stays dead
          NoRecord,  \* no owner.json, no record
          MaxDepth,  \* MAX_CLAIM_DEPTH
          MaxFaults  \* bound: failing calls of the file system or of git

ASSUME LockAssumption ==
  /\ MaxDepth \in Nat \ {0} /\ MaxFaults \in Nat
  /\ NoRecord \notin [by : Process, n : Nat]

VARIABLES
  dead,    \* processes that have died
  owner,   \* what owner.json of the lock directory holds
  claims,  \* the claim chains in the lock directory, by the record claimed
  nonces,  \* records each process has made
  at,      \* where a process is in an operation of the lock
  mine,    \* the record of its handle, or the one it would install
  seen,    \* the record it saw and claims, or would put back
  lost,    \* history: processes an error has left a record or a claim of
  faults

lock == <<dead, owner, claims, nonces, at, mine, seen, lost, faults>>

Record == [by : Process, n : Nat]

LockInit ==
  /\ dead = {} /\ owner = NoRecord
  /\ claims = <<>>
  /\ nonces = [p \in Process |-> 0]
  /\ at = [p \in Process |-> "idle"]
  /\ mine = [p \in Process |-> NoRecord] /\ seen = [p \in Process |-> NoRecord]
  /\ lost = {} /\ faults = 0

-----------------------------------------------------------------------------
(* The claim chains.  A link of a chain is an active claim or the mark     *)
(* that releases the one before it; publishing is link(2), which one       *)
(* process wins, so a chain only grows at its end.                         *)
Chain(record) == IF record \in DOMAIN claims THEN claims[record] ELSE <<>>
End(record) == Chain(record)[Len(Chain(record))]

Active(record) == [record |-> record, released |-> FALSE]
Mark(record) == [record |-> record, released |-> TRUE]

Claimed(record, link) ==
  claims' = [r \in DOMAIN claims \cup {record} |->
               IF r = record THEN Append(Chain(record), link) ELSE claims[r]]

Holds(record, claimant) == Chain(record) # <<>> /\ End(record) = Active(claimant)

(* Nobody alive has the claim.                                             *)
Free(record) == Chain(record) # <<>> => End(record).released \/ End(record).record.by \in dead

Publish(record, claimant) ==
  Free(record) /\ Len(Chain(record)) < MaxDepth /\ Claimed(record, Active(claimant))

(* releaseOwnerClaim: only the claimant at the end of the chain does it.   *)
Unclaimed(record, claimant) ==
  IF owner # NoRecord /\ Holds(record, claimant)
  THEN Claimed(record, Mark(claimant)) ELSE UNCHANGED claims

New(p) == [by |-> p, n |-> nonces[p] + 1]
Go(p, place) == at' = [at EXCEPT ![p] = place]
Leave(p) ==
  /\ Go(p, "idle")
  /\ mine' = [mine EXCEPT ![p] = NoRecord] /\ seen' = [seen EXCEPT ![p] = NoRecord]
Fault == faults < MaxFaults /\ faults' = faults + 1

-----------------------------------------------------------------------------
(* Mutant: the directory of another record is renamed over.                *)
AcquireOver(p) ==
  /\ p \notin dead /\ at[p] = "idle"
  /\ owner' = New(p) /\ claims' = <<>>
  /\ nonces' = [nonces EXCEPT ![p] = @ + 1]
  /\ Go(p, "held") /\ mine' = [mine EXCEPT ![p] = New(p)]
  /\ UNCHANGED <<dead, seen, lost, faults>>

(* acquirePrivateOwnerLock: the directory, with its record in it, is       *)
(* renamed into place unless there is one.                                 *)
Acquire(p) ==
  /\ p \notin dead /\ at[p] = "idle" /\ owner = NoRecord
  /\ owner' = New(p) /\ claims' = <<>>
  /\ nonces' = [nonces EXCEPT ![p] = @ + 1]
  /\ Go(p, "held") /\ mine' = [mine EXCEPT ![p] = New(p)]
  /\ UNCHANGED <<dead, seen, lost, faults>>

(* reclaimPrivateOwnerLock sees the record of a dead process.              *)
Look(p) ==
  /\ p \notin dead /\ at[p] = "idle" /\ owner # NoRecord /\ owner.by \in dead
  /\ Go(p, "claim")
  /\ mine' = [mine EXCEPT ![p] = New(p)] /\ seen' = [seen EXCEPT ![p] = owner]
  /\ UNCHANGED <<dead, owner, claims, nonces, lost, faults>>

(* claimOwner: in whatever directory is there by now.  It is busy, or the  *)
(* chain has no room left.                                                 *)
Claim(p) ==
  /\ at[p] = "claim" /\ owner # NoRecord
  /\ Publish(seen[p], mine[p])
  /\ nonces' = [nonces EXCEPT ![p] = @ + 1]
  /\ Go(p, "compare")
  /\ UNCHANGED <<dead, owner, mine, seen, lost, faults>>

ClaimRefused(p) ==
  /\ at[p] = "claim"
  /\ owner = NoRecord \/ ~Free(seen[p]) \/ Len(Chain(seen[p])) >= MaxDepth
  /\ Leave(p)
  /\ UNCHANGED <<dead, owner, claims, nonces, lost, faults>>

(* Mutant: the record is not read again.                                   *)
CompareNothing(p) ==
  /\ at[p] = "compare"
  /\ Go(p, "swap")
  /\ UNCHANGED <<dead, owner, claims, nonces, mine, seen, lost, faults>>

(* replaceClaimedOwner: the record is read again, and the replacement      *)
(* renamed over it.  A read that meets a replacement gives the claim up;   *)
(* any other error leaves it behind.                                       *)
Compare(p) ==
  /\ at[p] = "compare"
  /\ \/ /\ owner # NoRecord
        /\ Go(p, IF owner = seen[p] /\ owner.by \in dead THEN "swap" ELSE "unclaim")
        /\ UNCHANGED <<mine, seen, lost, faults>>
     \/ owner = NoRecord /\ Leave(p) /\ UNCHANGED <<lost, faults>>
     \/ Fault /\ Leave(p) /\ lost' = lost \cup {p}
  /\ UNCHANGED <<dead, owner, claims, nonces>>

(* An error after the rename loses the handle of a record that is there.   *)
Swap(p) ==
  /\ at[p] = "swap"
  /\ owner' = IF owner = NoRecord THEN NoRecord ELSE mine[p]
  /\ \/ owner # NoRecord /\ Go(p, "held") /\ UNCHANGED <<mine, seen, lost, faults>>
     \/ owner = NoRecord /\ Leave(p) /\ UNCHANGED <<lost, faults>>
     \/ owner # NoRecord /\ Fault /\ Leave(p) /\ lost' = lost \cup {p}
  /\ UNCHANGED <<dead, claims, nonces>>

Unclaim(p) ==
  /\ at[p] = "unclaim"
  /\ Unclaimed(seen[p], mine[p])
  /\ Leave(p)
  /\ UNCHANGED <<dead, owner, nonces, lost, faults>>

-----------------------------------------------------------------------------
(* abandon and release of a handle: both claim the handle's own record.    *)
ClaimOwn(p, place) ==
  /\ at[p] = "held" /\ owner # NoRecord
  /\ \/ Holds(mine[p], mine[p]) /\ UNCHANGED claims
     \/ ~Holds(mine[p], mine[p]) /\ Publish(mine[p], mine[p])
  /\ Go(p, place)
  /\ UNCHANGED <<dead, owner, nonces, mine, seen, lost, faults>>

Abandon(p) == seen[p] # NoRecord /\ ClaimOwn(p, "disown")
Release(p) == ClaimOwn(p, "reread")

(* Mutant: the claim on the record that is put back is kept.               *)
DisownNothing(p) ==
  /\ at[p] = "disown"
  /\ Go(p, "restore")
  /\ UNCHANGED <<dead, owner, claims, nonces, mine, seen, lost, faults>>

(* The claim on the abandoned record is released before the record is put  *)
(* back (a retried abandon finds it released).                             *)
Disown(p) ==
  /\ at[p] = "disown"
  /\ Unclaimed(seen[p], mine[p])
  /\ Go(p, "restore")
  /\ UNCHANGED <<dead, owner, nonces, mine, seen, lost, faults>>

Restore(p) ==
  /\ at[p] = "restore" /\ owner = mine[p]
  /\ Go(p, "putback")
  /\ UNCHANGED <<dead, owner, claims, nonces, mine, seen, lost, faults>>

(* The handle owns nothing from here on, also when the record that is read *)
(* back is already a successor's and abandon rejects.                      *)
PutBack(p) ==
  /\ at[p] = "putback"
  /\ owner' = seen[p]
  /\ Leave(p)
  /\ UNCHANGED <<dead, claims, nonces, lost, faults>>

Reread(p) ==
  /\ at[p] = "reread" /\ owner = mine[p]
  /\ Go(p, "retire")
  /\ UNCHANGED <<dead, owner, claims, nonces, mine, seen, lost, faults>>

(* The lock directory, its chains with it, is renamed away and removed.    *)
Retire(p) ==
  /\ at[p] = "retire"
  /\ owner' = NoRecord /\ claims' = <<>>
  /\ Leave(p)
  /\ UNCHANGED <<dead, nonces, lost, faults>>

(* abandon or release fails: the claim on the own record is given up and   *)
(* the handle stays.                                                       *)
Undone(p) ==
  /\ at[p] \in {"disown", "restore", "putback", "reread", "retire"}
  /\ \/ Fault
     \/ (at[p] \in {"restore", "reread"} /\ owner # mine[p]) /\ UNCHANGED faults
  /\ Unclaimed(mine[p], mine[p])
  /\ Go(p, "held")
  /\ UNCHANGED <<dead, owner, nonces, mine, seen, lost>>

Die(p) ==
  /\ p \notin dead
  /\ dead' = dead \cup {p}
  /\ Leave(p)
  /\ UNCHANGED <<owner, claims, nonces, lost, faults>>

(* A call of the holder that is not the lock's fails.                      *)
Fails == Fault /\ UNCHANGED <<dead, owner, claims, nonces, at, mine, seen, lost>>

Reclaiming(p) == Claim(p) \/ ClaimRefused(p) \/ Compare(p) \/ Swap(p) \/ Unclaim(p)
Abandoning(p) == Disown(p) \/ Restore(p) \/ PutBack(p)
Releasing(p) == Reread(p) \/ Retire(p)

LockStep(p) ==
  \/ Acquire(p) \/ Look(p) \/ Reclaiming(p)
  \/ Abandon(p) \/ Abandoning(p) \/ Release(p) \/ Releasing(p) \/ Undone(p)

LockNext == Fails \/ \E p \in Process : LockStep(p) \/ Die(p)

LockSpec == LockInit /\ [][LockNext]_lock

-----------------------------------------------------------------------------
Places == {"idle", "claim", "compare", "swap", "unclaim", "held", "disown", "restore", "putback",
           "reread", "retire"}
Holding(p) == at[p] \in {"held", "disown", "restore", "putback", "reread", "retire"}
Link == [record : Record, released : BOOLEAN]

(* Every variable has its type.                                            *)
LockTypeOK ==
  /\ dead \subseteq Process
  /\ owner \in Record \cup {NoRecord}
  /\ nonces \in [Process -> Nat]
  /\ at \in [Process -> Places]
  /\ mine \in [Process -> Record \cup {NoRecord}] /\ seen \in [Process -> Record \cup {NoRecord}]
  /\ DOMAIN claims \subseteq Record /\ \A r \in DOMAIN claims : claims[r] \in Seq(Link)
  /\ lost \subseteq Process /\ faults \in Nat

(* A process that has a handle is the owner that is recorded: nobody       *)
(* replaces, restores or renames away a record under a living holder,      *)
(* however slow a process that once saw an older record is.                *)
HolderIsOwner == \A p \in Process : Holding(p) => owner = mine[p]

(* Whoever is about to replace the record replaces the one it saw and      *)
(* claimed: the compare and the rename are as good as one step.            *)
NoBlindSwap == \A p \in Process : at[p] = "swap" => owner = seen[p]
=============================================================================
