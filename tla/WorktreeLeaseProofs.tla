-------------------------- MODULE WorktreeLeaseProofs --------------------------
(* The owner lock under any number of processes, deaths and errors, and    *)
(* what the lease of a worktree rests on.                                  *)
EXTENDS WorktreeLease, TLAPS

USE LockAssumption DEF LockAssumption

-----------------------------------------------------------------------------
(* The claim chains.                                                       *)
ClaimsOK == DOMAIN claims \subseteq Record /\ \A r \in DOMAIN claims : claims[r] \in Seq(Link)

LEMMA ChainType == ASSUME ClaimsOK, NEW r PROVE Chain(r) \in Seq(Link)
<1>1. <<>> \in Seq(Link) OBVIOUS
<1>2. QED BY <1>1 DEF ClaimsOK, Chain

(* A published link is the end of its chain; no other chain changes.       *)
LEMMA Published ==
  ASSUME ClaimsOK, NEW r \in Record, NEW link \in Link, Claimed(r, link)
  PROVE  /\ ClaimsOK'
         /\ Chain(r)' # <<>> /\ End(r)' = link
         /\ \A s : s # r => Chain(s)' = Chain(s) /\ End(s)' = End(s)
<1>1. Chain(r) \in Seq(Link) BY ChainType
<1>2. claims' = [s \in DOMAIN claims \cup {r} |-> IF s = r THEN Append(Chain(r), link) ELSE claims[s]]
  BY DEF Claimed
<1>3. Append(Chain(r), link) \in Seq(Link) BY <1>1
<1>4. ClaimsOK' BY <1>2, <1>3 DEF ClaimsOK
<1>5. Chain(r)' = Append(Chain(r), link) BY <1>2 DEF Chain
<1>6. Chain(r)' # <<>> /\ End(r)' = link BY <1>1, <1>5 DEF End
<1>7. ASSUME NEW s, s # r PROVE Chain(s)' = Chain(s) BY <1>2, <1>7 DEF Chain
<1>8. QED BY <1>4, <1>6, <1>7 DEF End

(* An empty chain, an appended or an unchanged one.                        *)
LEMMA ClaimsStep ==
  ASSUME ClaimsOK,
         UNCHANGED claims \/ claims' = <<>> \/ \E r \in Record, link \in Link : Claimed(r, link)
  PROVE  ClaimsOK'
<1>1. CASE UNCHANGED claims BY <1>1 DEF ClaimsOK
<1>2. CASE claims' = <<>> BY <1>2 DEF ClaimsOK
<1>3. CASE \E r \in Record, link \in Link : Claimed(r, link) BY <1>3, Published
<1>4. QED BY <1>1, <1>2, <1>3

-----------------------------------------------------------------------------
(* Who is where with which records.                                        *)
Contending == {"claim", "compare", "swap", "unclaim"}
Keeping == {"held", "disown", "restore", "putback", "reread", "retire"}

PlaceOK(p) ==
  /\ at[p] \in Places
  /\ at[p] # "idle" => p \notin dead /\ mine[p] \in Record /\ mine[p].by = p
  /\ at[p] = "idle" => mine[p] = NoRecord /\ seen[p] = NoRecord
  /\ at[p] \in Contending \cup {"disown", "restore", "putback"} => seen[p] # NoRecord
  /\ seen[p] # NoRecord => seen[p] \in Record /\ seen[p].by \in dead

RecordsOK ==
  /\ dead \subseteq Process /\ lost \subseteq Process /\ faults \in Nat
  /\ owner \in Record \cup {NoRecord}
  /\ nonces \in [Process -> Nat]
  /\ at \in [Process -> Places]
  /\ mine \in [Process -> Record \cup {NoRecord}] /\ seen \in [Process -> Record \cup {NoRecord}]
  /\ \A p \in Process : PlaceOK(p)

Owned == \A p \in Process : (Holding(p) => owner = mine[p]) /\ (at[p] = "swap" => owner = seen[p])

(* Whoever goes on with a claim on a record that is the owner's, or that a *)
(* holder may put back, is at the end of its chain.                        *)
Wanted(r) == owner = r \/ \E q \in Process : Holding(q) /\ seen[q] = r

Tips ==
  \A p \in Process, r \in Record :
    at[p] \in {"compare", "swap"} /\ seen[p] = r /\ Wanted(r) => Chain(r) # <<>> /\ End(r) = Active(mine[p])

LEMMA NoneIsNoRecord == NoRecord \notin Record
BY DEF Record

LockInv == ClaimsOK /\ RecordsOK /\ Owned /\ Tips

LEMMA LockInvInit == ASSUME LockInit PROVE LockInv
<1> USE DEF LockInit
<1>1. ClaimsOK BY DEF ClaimsOK
<1>2. RecordsOK BY DEF RecordsOK, PlaceOK, Places, Contending
<1>3. Owned /\ Tips BY DEF Owned, Tips, Holding
<1>4. QED BY <1>1, <1>2, <1>3 DEF LockInv

LEMMA ClaimsInv == ASSUME LockInv, [LockNext]_lock PROVE ClaimsOK'
<1> USE DEF LockInv
<1>1. ASSUME UNCHANGED claims \/ claims' = <<>> PROVE ClaimsOK' BY <1>1, ClaimsStep
<1>2. ASSUME NEW r \in Record, NEW link \in Link, Claimed(r, link) PROVE ClaimsOK' BY <1>2, ClaimsStep
<1>3. CASE Fails \/ UNCHANGED lock BY <1>1, <1>3 DEF Fails, lock
<1>4. ASSUME NEW p \in Process, LockStep(p) \/ Die(p) PROVE ClaimsOK'
  <2>1. PlaceOK(p) BY DEF RecordsOK
  <2>2. at[p] # "idle" => Active(mine[p]) \in Link /\ Mark(mine[p]) \in Link
    BY <2>1 DEF PlaceOK, Active, Mark, Link
  <2>3. CASE Claim(p) BY <1>2, <2>1, <2>2, <2>3 DEF Claim, Publish, PlaceOK, Contending
  <2>4. CASE Unclaim(p) BY <1>1, <1>2, <2>1, <2>2, <2>4 DEF Unclaim, Unclaimed, PlaceOK, Contending
  <2>5. CASE Abandon(p) \/ Release(p)
    BY <1>1, <1>2, <2>1, <2>2, <2>5 DEF Abandon, Release, ClaimOwn, Publish, PlaceOK
  <2>6. CASE Disown(p) BY <1>1, <1>2, <2>1, <2>2, <2>6 DEF Disown, Unclaimed, PlaceOK
  <2>7. CASE Undone(p) BY <1>1, <1>2, <2>1, <2>2, <2>7 DEF Undone, Unclaimed, PlaceOK
  <2>8. CASE Acquire(p) \/ Retire(p) BY <1>1, <2>8 DEF Acquire, Retire
  <2>9. CASE Look(p) \/ ClaimRefused(p) \/ Compare(p) \/ Swap(p) \/ Restore(p) \/ PutBack(p) \/ Reread(p) \/ Die(p)
    BY <1>1, <2>9 DEF Look, ClaimRefused, Compare, Swap, Restore, PutBack, Reread, Die
  <2>10. QED
    BY <1>4, <2>3, <2>4, <2>5, <2>6, <2>7, <2>8, <2>9 DEF LockStep, Reclaiming, Abandoning, Releasing
<1>5. QED BY <1>3, <1>4 DEF LockNext

LEMMA RecordsInv == ASSUME LockInv, [LockNext]_lock PROVE RecordsOK'
<1> USE DEF LockInv
<1>1. CASE Fails \/ UNCHANGED lock BY <1>1 DEF Fails, Fault, lock, RecordsOK, PlaceOK
<1>2. ASSUME NEW p \in Process, LockStep(p) \/ Die(p) PROVE RecordsOK'
  <2> USE DEF RecordsOK, Go, Leave, Fault, Places, Contending
  <2>1. New(p) \in Record /\ New(p).by = p /\ New(p) # NoRecord BY DEF New, Record
  <2>2. PlaceOK(p) OBVIOUS
  <2>3. CASE Acquire(p) BY <2>1, <2>3 DEF Acquire, PlaceOK
  <2>4. CASE Look(p) BY <2>1, <2>4 DEF Look, PlaceOK
  <2>5. CASE Claim(p) \/ ClaimRefused(p)
    <3>1. CASE Claim(p)
      <4>1. nonces' \in [Process -> Nat] BY <3>1 DEF Claim
      <4>2. QED BY <2>2, <3>1, <4>1 DEF Claim, PlaceOK
    <3>2. CASE ClaimRefused(p) BY <2>2, <3>2 DEF ClaimRefused, PlaceOK
    <3>3. QED BY <2>5, <3>1, <3>2
  <2>6. CASE Compare(p)
    <3>1. CASE owner # NoRecord /\ UNCHANGED <<mine, seen, lost, faults>>
      BY <2>2, <2>6, <3>1 DEF Compare, PlaceOK
    <3>2. CASE Leave(p) BY <2>2, <2>6, <3>2 DEF Compare, PlaceOK
    <3>3. QED BY <2>6, <3>1, <3>2 DEF Compare
  <2>7. CASE Swap(p)
    <3>1. CASE owner # NoRecord /\ UNCHANGED <<mine, seen, lost, faults>>
      BY <2>2, <2>7, <3>1 DEF Swap, PlaceOK
    <3>2. CASE Leave(p) BY <2>2, <2>7, <3>2 DEF Swap, PlaceOK
    <3>3. QED BY <2>7, <3>1, <3>2 DEF Swap
  <2>8. CASE Unclaim(p) BY <2>2, <2>8 DEF Unclaim, PlaceOK
  <2>9. CASE Abandon(p) \/ Release(p) BY <2>2, <2>9 DEF Abandon, Release, ClaimOwn, PlaceOK
  <2>10. CASE Disown(p) \/ Restore(p) \/ Reread(p) BY <2>2, <2>10 DEF Disown, Restore, Reread, PlaceOK
  <2>11. CASE PutBack(p) \/ Retire(p)
    <3>1. CASE PutBack(p) BY <2>2, <3>1 DEF PutBack, PlaceOK
    <3>2. CASE Retire(p) BY <2>2, <3>2 DEF Retire, PlaceOK
    <3>3. QED BY <2>11, <3>1, <3>2
  <2>12. CASE Undone(p) BY <2>2, <2>12 DEF Undone, PlaceOK
  <2>13. CASE Die(p) BY <2>2, <2>13 DEF Die, PlaceOK
  <2>14. QED
    BY <1>2, <2>3, <2>4, <2>5, <2>6, <2>7, <2>8, <2>9, <2>10, <2>11, <2>12, <2>13
       DEF LockStep, Reclaiming, Abandoning, Releasing
<1>3. QED BY <1>1, <1>2 DEF LockNext

(* No two living processes are about to swap one record, and none is while *)
(* the record has a living holder.                                         *)
LEMMA OneSwapper ==
  ASSUME LockInv, NEW p \in Process, NEW q \in Process, at[p] = "swap", at[q] = "swap" \/ Holding(q)
  PROVE  p = q
<1> USE DEF LockInv, RecordsOK, PlaceOK, Owned, Holding, Places, Contending
<1>1. owner = seen[p] /\ seen[p] \in Record /\ seen[p].by \in dead OBVIOUS
<1>2. CASE Holding(q) BY <1>1, <1>2
<1>3. CASE at[q] = "swap"
  <2>1. PICK r \in Record : r = owner BY <1>1
  <2>2. End(r) = Active(mine[p]) /\ End(r) = Active(mine[q]) BY <1>1, <1>3, <2>1 DEF Tips, Wanted
  <2>3. mine[p] = mine[q] BY <2>2 DEF Active
  <2>4. QED BY <1>3, <2>3
<1>4. QED BY <1>2, <1>3

LEMMA OwnedInv == ASSUME LockInv, [LockNext]_lock PROVE Owned'
<1> USE DEF LockInv, Holding
<1>1. CASE Fails \/ UNCHANGED lock BY <1>1 DEF Fails, lock, Owned
<1>2. ASSUME NEW p \in Process, LockStep(p) \/ Die(p) PROVE Owned'
  <2> USE DEF RecordsOK, Go, Leave, Owned
  <2>1. \A q \in Process : PlaceOK(q) OBVIOUS
  <2>2. CASE Acquire(p)
    <3>1. \A q \in Process : ~Holding(q) /\ at[q] # "swap"
      BY <2>1, <2>2, NoneIsNoRecord DEF Acquire, PlaceOK, Contending
    <3>2. QED BY <2>2, <3>1 DEF Acquire
  <2>3. CASE Look(p) \/ Claim(p) \/ ClaimRefused(p) \/ Unclaim(p)
    BY <2>3 DEF Look, Claim, ClaimRefused, Unclaim
  <2>4. CASE Compare(p)
    <3>1. CASE owner # NoRecord /\ UNCHANGED <<mine, seen, lost, faults>>
      BY <2>4, <3>1 DEF Compare
    <3>2. CASE Leave(p) BY <2>4, <3>2 DEF Compare
    <3>3. QED BY <2>4, <3>1, <3>2 DEF Compare
  <2>5. CASE Swap(p)
    <3>1. \A q \in Process \ {p} : at[q] # "swap" /\ ~Holding(q) BY <2>5, OneSwapper DEF Swap
    <3>2. owner # NoRecord BY <2>1, <2>5 DEF Swap, PlaceOK, Contending
    <3>3. CASE UNCHANGED <<mine, seen, lost, faults>> /\ at' = [at EXCEPT ![p] = "held"]
      BY <2>5, <3>1, <3>2, <3>3 DEF Swap
    <3>4. CASE Leave(p) BY <2>5, <3>1, <3>4 DEF Swap
    <3>5. QED BY <2>5, <3>3, <3>4 DEF Swap
  <2>6. CASE Abandon(p) \/ Release(p) BY <2>6 DEF Abandon, Release, ClaimOwn
  <2>7. CASE Disown(p) \/ Restore(p) \/ Reread(p) BY <2>7 DEF Disown, Restore, Reread
  <2>8. CASE PutBack(p) \/ Retire(p)
    <3>1. owner = mine[p] /\ mine[p] \in Record /\ mine[p].by = p /\ p \notin dead
      BY <2>1, <2>8 DEF PutBack, Retire, PlaceOK
    <3>2. \A q \in Process \ {p} : at[q] # "swap" /\ ~Holding(q)
      BY <2>1, <3>1 DEF PlaceOK, Contending
    <3>3. QED BY <2>8, <3>2 DEF PutBack, Retire
  <2>9. CASE Undone(p) BY <2>9 DEF Undone
  <2>10. CASE Die(p) BY <2>10 DEF Die
  <2>11. QED
    BY <1>2, <2>2, <2>3, <2>4, <2>5, <2>6, <2>7, <2>8, <2>9, <2>10
       DEF LockStep, Reclaiming, Abandoning, Releasing
<1>3. QED BY <1>1, <1>2 DEF LockNext

(* A dead process's record does not become the owner's again, nor does a   *)
(* holder come to keep it, unless it was one of these before.              *)
LEMMA WantedBefore ==
  ASSUME LockInv, NEW p \in Process, LockStep(p) \/ Die(p), NEW r \in Record, r.by \in dead, Wanted(r)'
  PROVE  Wanted(r)
<1> USE DEF LockInv, RecordsOK, Wanted, Holding, Go, Leave
<1>1. PlaceOK(p) OBVIOUS
<1>2. New(p).by = p BY DEF New
<1>3. CASE Acquire(p) BY <1>1, <1>2, <1>3, NoneIsNoRecord DEF Acquire, PlaceOK
<1>4. CASE Look(p) \/ Claim(p) \/ ClaimRefused(p) \/ Unclaim(p)
  BY <1>4 DEF Look, Claim, ClaimRefused, Unclaim
<1>5. CASE Compare(p)
  <2>1. CASE owner # NoRecord /\ UNCHANGED <<mine, seen, lost, faults>> BY <1>5, <2>1 DEF Compare
  <2>2. CASE Leave(p) BY <1>5, <2>2 DEF Compare
  <2>3. QED BY <1>5, <2>1, <2>2 DEF Compare
<1>6. CASE Swap(p)
  <2>1. mine[p].by = p /\ p \notin dead /\ owner = seen[p] BY <1>1, <1>6 DEF Swap, PlaceOK, Owned
  <2>2. owner' # r BY <1>6, <2>1, NoneIsNoRecord DEF Swap
  <2>3. PICK q \in Process : Holding(q)' /\ seen'[q] = r BY <2>2
  <2>4. CASE UNCHANGED seen /\ at' = [at EXCEPT ![p] = "held"] BY <2>1, <2>3, <2>4
  <2>5. CASE Leave(p) BY <2>3, <2>5
  <2>6. QED BY <1>6, <2>4, <2>5 DEF Swap
<1>7. CASE Abandon(p) \/ Release(p) BY <1>7 DEF Abandon, Release, ClaimOwn
<1>8. CASE Disown(p) \/ Restore(p) \/ Reread(p) BY <1>8 DEF Disown, Restore, Reread
<1>9. CASE PutBack(p) BY <1>9 DEF PutBack
<1>10. CASE Retire(p) BY <1>10, NoneIsNoRecord DEF Retire
<1>11. CASE Undone(p) BY <1>11 DEF Undone
<1>12. CASE Die(p) BY <1>12 DEF Die
<1>13. QED
  BY <1>3, <1>4, <1>5, <1>6, <1>7, <1>8, <1>9, <1>10, <1>11, <1>12
     DEF LockStep, Reclaiming, Abandoning, Releasing

(* Nobody adds to a chain that ends in the claim of another process that   *)
(* lives.                                                                  *)
LEMMA ClaimsAreKept ==
  ASSUME LockInv, NEW p \in Process, LockStep(p) \/ Die(p), NEW q \in Process \ {p}, NEW r \in Record,
         q \notin dead, r.by \in dead, mine[q] \in Record, mine[q].by = q, Wanted(r), Wanted(r)',
         Chain(r) # <<>>, End(r) = Active(mine[q])
  PROVE  Chain(r)' = Chain(r) /\ End(r)' = End(r)
<1> USE DEF LockInv, RecordsOK
<1>1. PlaceOK(p) OBVIOUS
<1>2. ASSUME UNCHANGED claims PROVE Chain(r)' = Chain(r) /\ End(r)' = End(r) BY <1>2 DEF Chain, End
<1>3. ASSUME NEW s \in Record, NEW link \in Link, Claimed(s, link), s # r
      PROVE Chain(r)' = Chain(r) /\ End(r)' = End(r)
  BY <1>3, Published
<1>4. ~Free(r) BY DEF Free, Active
<1>5. at[p] # "idle" => /\ ~Holds(r, mine[p]) /\ mine[p] \in Record /\ mine[p] # r
                        /\ Active(mine[p]) \in Link /\ Mark(mine[p]) \in Link
  BY <1>1 DEF PlaceOK, Holds, Active, Mark, Link
<1>6. CASE Claim(p) BY <1>1, <1>3, <1>4, <1>5, <1>6 DEF Claim, Publish, PlaceOK, Contending
<1>7. CASE Unclaim(p) BY <1>1, <1>2, <1>3, <1>5, <1>7 DEF Unclaim, Unclaimed, PlaceOK, Contending
<1>8. CASE Disown(p) BY <1>1, <1>2, <1>3, <1>5, <1>8 DEF Disown, Unclaimed, PlaceOK
<1>9. CASE Undone(p) BY <1>2, <1>3, <1>5, <1>9 DEF Undone, Unclaimed
<1>10. CASE Abandon(p) \/ Release(p)
  BY <1>2, <1>3, <1>5, <1>10 DEF Abandon, Release, ClaimOwn, Publish
<1>11. CASE Acquire(p)
  <2>1. \A h \in Process : ~Holding(h)
    BY <1>11, NoneIsNoRecord DEF Acquire, PlaceOK, Owned, Holding
  <2>2. QED BY <1>11, <2>1, NoneIsNoRecord DEF Acquire, Wanted
<1>12. CASE Retire(p)
  <2>1. owner = mine[p] /\ mine[p].by = p /\ p \notin dead
    BY <1>1, <1>12 DEF Retire, Owned, Holding, PlaceOK
  <2>2. \A h \in Process \ {p} : ~Holding(h) BY <2>1 DEF Owned, Holding, PlaceOK
  <2>3. owner' = NoRecord /\ \A h \in Process : ~Holding(h)'
    BY <1>12, <2>2 DEF Retire, Leave, Go, Holding
  <2>4. QED BY <2>3, NoneIsNoRecord DEF Wanted
<1>13. CASE Look(p) \/ ClaimRefused(p) \/ Compare(p) \/ Swap(p) \/ Restore(p) \/ PutBack(p) \/ Reread(p) \/ Die(p)
  BY <1>2, <1>13 DEF Look, ClaimRefused, Compare, Swap, Restore, PutBack, Reread, Die
<1>14. QED
  BY <1>6, <1>7, <1>8, <1>9, <1>10, <1>11, <1>12, <1>13 DEF LockStep, Reclaiming, Abandoning, Releasing

LEMMA TipsInv == ASSUME LockInv, [LockNext]_lock PROVE Tips'
<1> USE DEF LockInv
<1>1. CASE Fails \/ UNCHANGED lock
  BY <1>1 DEF Fails, lock, Tips, Wanted, Holding, Chain, End
<1>2. ASSUME NEW p \in Process, LockStep(p) \/ Die(p) PROVE Tips'
  <2>1. SUFFICES ASSUME NEW q \in Process, NEW r \in Record, at'[q] \in {"compare", "swap"}, seen'[q] = r, Wanted(r)'
                 PROVE  Chain(r)' # <<>> /\ End(r)' = Active(mine[q])'
    BY DEF Tips
  <2>2. PlaceOK(p) /\ PlaceOK(q) BY DEF RecordsOK
  <2>3. CASE q # p
    <3>1. at[q] = at'[q] /\ seen[q] = r /\ mine'[q] = mine[q]
      BY <1>2, <2>1, <2>3 DEF RecordsOK, Go, Leave, LockStep, Reclaiming, Abandoning, Releasing, Acquire, Look,
        Claim, ClaimRefused, Compare, Swap, Unclaim, Abandon, Release, ClaimOwn, Disown, Restore, PutBack,
        Reread, Retire, Undone, Die
    <3>2. q \notin dead /\ r.by \in dead /\ mine[q] \in Record /\ mine[q].by = q
      BY <2>1, <2>2, <3>1 DEF PlaceOK, Contending
    <3>3. Wanted(r) BY <1>2, <2>1, <3>2, WantedBefore
    <3>4. Chain(r) # <<>> /\ End(r) = Active(mine[q]) BY <2>1, <3>1, <3>3 DEF Tips
    <3>5. Chain(r)' = Chain(r) /\ End(r)' = End(r) BY <1>2, <2>1, <2>3, <3>2, <3>3, <3>4, ClaimsAreKept
    <3>6. QED BY <3>1, <3>4, <3>5 DEF Active
  <2>4. CASE q = p
    <3>1. CASE Claim(p)
      <4>1. seen[p] = r /\ mine'[p] = mine[p] BY <2>1, <2>4, <3>1 DEF Claim
      <4>2. Claimed(r, Active(mine[p])) /\ Active(mine[p]) \in Link
        BY <2>2, <3>1, <4>1 DEF Claim, Publish, PlaceOK, Active, Link
      <4>3. QED BY <2>4, <4>1, <4>2, Published DEF Active
    <3>2. CASE Compare(p)
      <4>1. at[p] = "compare" /\ seen[p] = r /\ mine'[p] = mine[p] /\ UNCHANGED <<claims, owner>>
        BY <2>1, <2>4, <3>2 DEF Compare, Leave, Go, RecordsOK
      <4>2. r.by \in dead BY <2>2, <2>4, <4>1 DEF PlaceOK, Contending
      <4>3. Wanted(r) BY <1>2, <2>1, <4>2, WantedBefore
      <4>4. QED BY <2>4, <4>1, <4>3 DEF Tips, Chain, End, Active
    <3>3. ~Claim(p) /\ ~Compare(p) => at'[p] \notin {"compare", "swap"}
      BY <1>2 DEF RecordsOK, Go, Leave, LockStep, Reclaiming, Abandoning, Releasing, Acquire, Look,
        ClaimRefused, Swap, Unclaim, Abandon, Release, ClaimOwn, Disown, Restore, PutBack,
        Reread, Retire, Undone, Die
    <3>4. QED BY <2>1, <2>4, <3>1, <3>2, <3>3
  <2>5. QED BY <2>3, <2>4
<1>3. QED BY <1>1, <1>2 DEF LockNext

LEMMA LockInvStep == ASSUME LockInv, [LockNext]_lock PROVE LockInv'
BY ClaimsInv, RecordsInv, OwnedInv, TipsInv DEF LockInv

(* A living holder is the recorded owner.                                  *)
THEOREM HoldersOwn == LockSpec => []HolderIsOwner
<1>1. LockInv => HolderIsOwner BY DEF LockInv, Owned, HolderIsOwner
<1>2. QED BY <1>1, LockInvInit, LockInvStep, PTL DEF LockSpec

(* The record is not replaced by anybody who saw another one.              *)
THEOREM SwapsAreSighted == LockSpec => []NoBlindSwap
<1>1. LockInv => NoBlindSwap BY DEF LockInv, Owned, NoBlindSwap
<1>2. QED BY <1>1, LockInvInit, LockInvStep, PTL DEF LockSpec
-----------------------------------------------------------------------------
(* The lease.  Every step of it is a step of the lock, or none.            *)
LEMMA LockSteps == ASSUME [Next]_vars PROVE [LockNext]_lock
<1>1. CASE UNCHANGED vars BY <1>1 DEF vars
<1>2. ASSUME NEW p \in Process,
             Create(p) \/ Work(p) \/ Move(p) \/ RemoveOwn(p) \/ Recovery(p) \/ Crash(p)
      PROVE  [LockNext]_lock
  <2>1. CASE Create(p) \/ Move(p) \/ RemoveOwn(p) BY <2>1 DEF Create, Move, RemoveOwn, LockNext
  <2>2. CASE Own(p) BY <2>2 DEF Own, LockNext, LockStep
  <2>3. CASE Add(p) \/ Undo(p) BY <2>3 DEF Add, Undo, LockNext
  <2>4. CASE Unlock(p) BY <2>4 DEF Unlock, Through, LockNext, LockStep
  <2>5. CASE Recover(p) \/ Busy(p) BY <2>5 DEF Recover, Busy
  <2>6. CASE Reclaim(p) BY <2>6 DEF Reclaim, Through, LockNext, LockStep
  <2>7. CASE Recheck(p) \/ Remove(p) \/ Drop(p) BY <2>7 DEF Recheck, Remove, Drop, LockNext
  <2>8. CASE Preserve(p) BY <2>8 DEF Preserve, Through, LockNext, LockStep
  <2>9. CASE GiveUp(p) BY <2>9 DEF GiveUp, LockNext, LockStep
  <2>10. CASE Crash(p) BY <2>10 DEF Crash, LockNext
  <2>11. QED
    BY <1>2, <2>1, <2>2, <2>3, <2>4, <2>5, <2>6, <2>7, <2>8, <2>9, <2>10 DEF Work, Recovery
<1>3. QED BY <1>1, <1>2 DEF Next

(* Where the lock is in each step of an operation on the lease.            *)
LockPlaces(j) ==
  CASE j \in {"add", "undo", "active", "remove"} -> {"held"}
    [] j = "leave" -> {"held", "reread", "retire"}
    [] j = "preserve" -> {"held", "disown", "restore", "putback"}
    [] j = "recover" -> {"idle", "held"} \cup Contending
    [] j = "create" -> {"idle"}
    [] OTHER -> {"idle", "held"}

JobsOK ==
  /\ job \in [Process -> Jobs]
  /\ \A p \in Process : at[p] \in LockPlaces(job[p]) /\ (job[p] = "create" => p \notin dead)

WorktreeOK ==
  /\ worktree \in {"absent", "partial", "registered", "stale"}
  /\ head \in {"original", "moved"}
  /\ leases \in Nat
  /\ OnDisk(worktree) => owner # NoRecord
  /\ \A p \in Process : /\ job[p] = "active" => worktree = "registered"
                        /\ job[p] = "leave" => ~OnDisk(worktree)
                        /\ job[p] = "remove" => head = "original"

LeaseInv == LockInv /\ JobsOK /\ WorktreeOK

LEMMA LeaseInvInit == ASSUME Init PROVE LeaseInv
<1>1. LockInv BY LockInvInit DEF Init
<1>2. JobsOK BY DEF Init, LockInit, JobsOK, LockPlaces, Jobs
<1>3. WorktreeOK BY DEF Init, WorktreeOK, OnDisk
<1>4. QED BY <1>1, <1>2, <1>3 DEF LeaseInv

(* At most one process has a handle.                                       *)
LEMMA OneHolder ==
  ASSUME LockInv, NEW p \in Process, NEW q \in Process, Holding(p), Holding(q)
  PROVE  p = q
BY DEF LockInv, Owned, RecordsOK, PlaceOK, Holding

LEMMA JobsInv == ASSUME LeaseInv, [Next]_vars PROVE JobsOK'
<1> USE DEF LeaseInv, LockInv, RecordsOK, JobsOK
<1>1. CASE UNCHANGED vars BY <1>1 DEF vars, lock, lease
<1>2. ASSUME NEW p \in Process,
             Create(p) \/ Work(p) \/ Move(p) \/ RemoveOwn(p) \/ Recovery(p) \/ Crash(p)
      PROVE  JobsOK'
  <2> USE DEF Turn, Go, Leave, Jobs, LockPlaces
  <2>1. CASE Create(p) \/ Move(p) \/ RemoveOwn(p) BY <2>1 DEF Create, Move, RemoveOwn, Fails, Idle, lock
  <2>2. CASE Own(p) BY <2>2 DEF Own, Acquire, lock
  <2>3. CASE Add(p) \/ Undo(p) BY <2>3 DEF Add, Undo, Fails, lock
  <2>4. CASE Unlock(p)
    <3>1. CASE Release(p) BY <2>4, <3>1 DEF Unlock, Through, Release, ClaimOwn
    <3>2. CASE Releasing(p) BY <2>4, <3>2 DEF Unlock, Through, Releasing, Reread, Retire
    <3>3. QED BY <2>4, <3>1, <3>2 DEF Unlock, Through
  <2>5. CASE Recover(p) \/ Busy(p) BY <2>5 DEF Recover, Busy, Idle, lock
  <2>6. CASE Reclaim(p)
    <3>1. CASE Look(p) BY <2>6, <3>1 DEF Reclaim, Through, Look, Contending
    <3>2. CASE Claim(p) \/ ClaimRefused(p) \/ Unclaim(p)
      BY <2>6, <3>2 DEF Reclaim, Through, Claim, ClaimRefused, Unclaim, Contending
    <3>3. CASE Compare(p) BY <2>6, <3>3 DEF Reclaim, Through, Compare, Contending
    <3>4. CASE Swap(p) BY <2>6, <3>4 DEF Reclaim, Through, Swap, Contending
    <3>5. QED BY <2>6, <3>1, <3>2, <3>3, <3>4 DEF Reclaim, Through, Reclaiming
  <2>7. CASE Recheck(p) \/ Remove(p) \/ Drop(p) BY <2>7 DEF Recheck, Remove, Drop, Fails, lock
  <2>8. CASE Preserve(p)
    <3>1. CASE Abandon(p) BY <2>8, <3>1 DEF Preserve, Through, Abandon, ClaimOwn
    <3>2. CASE Abandoning(p) BY <2>8, <3>2 DEF Preserve, Through, Abandoning, Disown, Restore, PutBack
    <3>3. QED BY <2>8, <3>1, <3>2 DEF Preserve, Through
  <2>9. CASE GiveUp(p) BY <2>9 DEF GiveUp, Undone
  <2>10. CASE Crash(p) BY <2>10 DEF Crash, Die
  <2>11. QED
    BY <1>2, <2>1, <2>2, <2>3, <2>4, <2>5, <2>6, <2>7, <2>8, <2>9, <2>10 DEF Work, Recovery
<1>3. QED BY <1>1, <1>2 DEF Next

(* Only a process with a handle whose directory is gone removes the record. *)
LEMMA OwnerStays ==
  ASSUME LeaseInv, [Next]_vars, owner # NoRecord, OnDisk(worktree)
  PROVE  owner' # NoRecord
<1> USE DEF LeaseInv, LockInv, RecordsOK
<1>1. CASE UNCHANGED vars BY <1>1 DEF vars, lock
<1>2. ASSUME NEW p \in Process,
             Create(p) \/ Work(p) \/ Move(p) \/ RemoveOwn(p) \/ Recovery(p) \/ Crash(p)
      PROVE  owner' # NoRecord
  <2>1. PlaceOK(p) OBVIOUS
  <2>2. CASE Create(p) \/ Move(p) \/ RemoveOwn(p) \/ Recover(p) \/ Busy(p)
    BY <2>2 DEF Create, Move, RemoveOwn, Recover, Busy, Fails, lock
  <2>3. CASE Own(p) BY <2>3 DEF Own, Acquire, lock
  <2>4. CASE Add(p) \/ Undo(p) \/ Recheck(p) \/ Remove(p) \/ Drop(p)
    BY <2>4 DEF Add, Undo, Recheck, Remove, Drop, Fails, lock
  <2>5. ~Unlock(p) BY DEF Unlock, WorktreeOK
  <2>6. CASE Reclaim(p)
    <3>1. CASE Swap(p) BY <2>1, <3>1, NoneIsNoRecord DEF Swap, PlaceOK
    <3>2. CASE Look(p) \/ Claim(p) \/ ClaimRefused(p) \/ Compare(p) \/ Unclaim(p)
      BY <3>2 DEF Look, Claim, ClaimRefused, Compare, Unclaim
    <3>3. QED BY <2>6, <3>1, <3>2 DEF Reclaim, Through, Reclaiming
  <2>7. CASE Preserve(p)
    <3>1. CASE PutBack(p) BY <2>1, <3>1 DEF PutBack, PlaceOK
    <3>2. CASE Abandon(p) \/ Disown(p) \/ Restore(p) BY <3>2 DEF Abandon, ClaimOwn, Disown, Restore
    <3>3. QED BY <2>7, <3>1, <3>2 DEF Preserve, Through, Abandoning
  <2>8. CASE GiveUp(p) \/ Crash(p) BY <2>8 DEF GiveUp, Undone, Crash, Die
  <2>9. QED BY <1>2, <2>2, <2>3, <2>4, <2>5, <2>6, <2>7, <2>8 DEF Work, Recovery
<1>3. QED BY <1>1, <1>2 DEF Next

LEMMA WorktreeInv == ASSUME LeaseInv, [Next]_vars PROVE WorktreeOK'
<1> USE DEF LeaseInv, LockInv, JobsOK
<1>1. CASE UNCHANGED vars BY <1>1 DEF vars, lock, lease, WorktreeOK
<1>2. ASSUME NEW p \in Process,
             Create(p) \/ Work(p) \/ Move(p) \/ RemoveOwn(p) \/ Recovery(p) \/ Crash(p)
      PROVE  WorktreeOK'
  <2> USE DEF WorktreeOK, Turn, OnDisk
  <2>1. OnDisk(worktree) => owner' # NoRecord BY OwnerStays DEF WorktreeOK
  <2>2. ASSUME Holding(p)
        PROVE  /\ owner # NoRecord
               /\ \A q \in Process \ {p} : job[q] \notin {"add", "undo", "active", "leave", "remove", "preserve"}
    <3>1. owner = mine[p] /\ mine[p] \in Record BY <2>2 DEF Owned, RecordsOK, PlaceOK, Holding
    <3>2. \A q \in Process \ {p} : ~Holding(q) BY <2>2, OneHolder
    <3>3. QED BY <3>1, <3>2, NoneIsNoRecord DEF LockPlaces, Holding
  <2>3. job[p] \in {"add", "undo", "active", "leave", "remove", "preserve"} => Holding(p)
    BY DEF LockPlaces, Holding
  <2>4. CASE UNCHANGED lease /\ (\E j \in Jobs \ {"active", "leave", "remove"} : Turn(p, j))
    BY <2>1, <2>4 DEF lease
  <2>5. CASE UNCHANGED <<lease, job>> BY <2>1, <2>5 DEF lease
  <2>6. CASE Create(p) \/ Recover(p) \/ Busy(p) \/ GiveUp(p)
    BY <2>4, <2>6 DEF Create, Recover, Busy, GiveUp, Jobs
  <2>7. CASE Unlock(p) \/ Reclaim(p) \/ Preserve(p)
    BY <2>4, <2>5, <2>7 DEF Unlock, Reclaim, Preserve, Through, Jobs
  <2>8. CASE Own(p) BY <2>1, <2>8 DEF Own, Acquire, lock
  <2>9. CASE Add(p) BY <2>2, <2>3, <2>9 DEF Add, Started, Fails, lock
  <2>10. CASE Undo(p) BY <2>1, <2>2, <2>3, <2>10 DEF Undo, Torn, Fails, lock
  <2>11. CASE Move(p) BY <2>1, <2>2, <2>3, <2>11 DEF Move
  <2>12. CASE RemoveOwn(p) BY <2>2, <2>3, <2>12 DEF RemoveOwn, Torn, Fails, lock
  <2>13. CASE Recheck(p) BY <2>1, <2>13 DEF Recheck, Fails, lock, lease
  <2>14. CASE Remove(p) BY <2>1, <2>2, <2>3, <2>14 DEF Remove, Torn, Fails, lock
  <2>15. CASE Crash(p)
    <3>1. owner' = owner BY <2>15 DEF Crash, Die
    <3>2. CASE job[p] \in {"add", "undo", "active", "remove"}
      BY <2>2, <2>3, <2>15, <3>1, <3>2 DEF Crash, Remains, Torn, Started
    <3>3. CASE job[p] \notin {"add", "undo", "active", "remove"}
      BY <2>1, <2>15, <3>3 DEF Crash, Remains, Torn, Started
    <3>4. QED BY <3>2, <3>3
  <2>16. CASE Drop(p)
    <3>1. CASE job[p] = "remove" BY <2>1, <2>2, <2>3, <2>16, <3>1 DEF Drop, Torn, Fails
    <3>2. CASE job[p] # "remove" BY <2>1, <2>16, <3>2 DEF Drop, Fails
    <3>3. QED BY <3>1, <3>2
  <2>17. QED
    BY <1>2, <2>6, <2>7, <2>8, <2>9, <2>10, <2>11, <2>12, <2>13, <2>14, <2>15, <2>16 DEF Work, Recovery
<1>3. QED BY <1>1, <1>2 DEF Next

LEMMA LeaseInvStep == ASSUME LeaseInv, [Next]_vars PROVE LeaseInv'
BY LockSteps, LockInvStep, JobsInv, WorktreeInv DEF LeaseInv

LEMMA LeaseInvHolds == Spec => []LeaseInv
BY LeaseInvInit, LeaseInvStep, PTL DEF Spec

(* The variables of the lock and of the lease keep their types.            *)
THEOREM TypeCorrect == Spec => []TypeOK
<1>1. LeaseInv => TypeOK
  BY DEF LeaseInv, LockInv, ClaimsOK, RecordsOK, JobsOK, WorktreeOK, TypeOK, LockTypeOK
<1>2. QED BY <1>1, LeaseInvHolds, PTL

(* What the lock promises, the leases keep: they use it as it is meant.    *)
THEOREM LeasesUseTheLock == Spec => LockSpec
<1>1. Init => LockInit BY DEF Init
<1>2. [Next]_vars => [LockNext]_lock BY LockSteps
<1>3. QED BY <1>1, <1>2, PTL DEF Spec, LockSpec

(* The holder of a lease is its recorded owner.                            *)
THEOREM LeaseHoldersOwn == Spec => []HolderIsOwner
BY LeasesUseTheLock, HoldersOwn, PTL

(* The worktree of a living process stays, and stays that process's.       *)
THEOREM WorktreesStay == Spec => []ActiveWorktreeStays
<1>1. LeaseInv => ActiveWorktreeStays
  BY DEF LeaseInv, LockInv, Owned, JobsOK, LockPlaces, Holding, WorktreeOK, ActiveWorktreeStays
<1>2. QED BY <1>1, LeaseInvHolds, PTL

(* The directory of a worktree, or what a crash or a failed removal leaves *)
(* of it, has an owner; a registration without a directory may have none.  *)
THEOREM LeftoversHaveOwners == Spec => []LeftoversAreOwned
<1>1. LeaseInv => LeftoversAreOwned BY DEF LeaseInv, WorktreeOK, LeftoversAreOwned
<1>2. QED BY <1>1, LeaseInvHolds, PTL

(* A worktree that was worked in is not removed by a recovery.             *)
THEOREM MovedWorkStays == Spec => []MovedWorkIsKept
<1>1. LeaseInv => MovedWorkIsKept BY DEF LeaseInv, WorktreeOK, MovedWorkIsKept
<1>2. QED BY <1>1, LeaseInvHolds, PTL
=============================================================================
