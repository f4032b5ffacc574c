---------------------------- MODULE SessionJournal ----------------------------
(***************************************************************************)
(* The JSON-lines log of one session: packages/core/src/                   *)
(* jsonl-session-store.ts.                                                 *)
(*                                                                         *)
(* Processes load the log without the lock, mutate it under the lock of    *)
(* module SessionLock (used here as the abstract Lease it implements), and *)
(* may crash, meet I/O errors or lose power at any step.  A line stands    *)
(* for its record: the sequence number, who wrote it, and whether it       *)
(* parses; bytes after the last newline are the tail.                      *)
(*                                                                         *)
(* A load is one read of the file.  What a mutation appends is the         *)
(* business of SessionState; here only its sequence number counts.         *)
(***************************************************************************)
EXTENDS Naturals, Sequences

CONSTANTS Procs,     \* processes with the session store open
          MaxLines,  \* bound: records in the log
          MaxFaults  \* bound: failed appends, crashes, power losses, robberies

ASSUME BoundsAssumption == MaxLines \in Nat /\ MaxFaults \in Nat

VARIABLES
  file,     \* the lines
  tail,     \* what follows the last newline: pieces of records
  synced,   \* how many lines a sync has made durable
  holders,  \* who has the session lock
  pc,       \* the step of each process
  doing,    \* what it has the lock for
  base,     \* the records its unlocked load saw: expectedSequence + 1
  count,    \* the records its lease knows of: currentSequence + 1
  failed,   \* an append of its lease has failed
  faults,   \* how many of the faults above have happened
  acked,    \* history: records whose append has returned
  reused,   \* history: a lease appended again after a failed append
  strayed   \* history: a process without the lock has changed the file

disk == <<file, tail, synced>>
local == <<pc, doing, base, count, failed>>
history == <<acked, reused, strayed>>
vars == <<disk, holders, local, faults, history>>

Lock == INSTANCE Lease WITH token <- 0

Piece(p) == [sequence |-> count[p], writer |-> p]
Line(piece, whole) == [sequence |-> piece.sequence, writer |-> piece.writer, whole |-> whole]

(* #parseRecords: every complete line parses and is numbered by its place. *)
Readable(n) == \A i \in 1..n : file[i].whole /\ file[i].sequence = i - 1

LogReadable == Readable(Len(file))
Torn == tail # <<>>

-----------------------------------------------------------------------------
Init ==
  /\ file = <<>>
  /\ tail = <<>>
  /\ synced = 0
  /\ holders = {}
  /\ pc = [p \in Procs |-> "idle"]
  /\ doing = [p \in Procs |-> "load"]
  /\ base = [p \in Procs |-> 0]
  /\ count = [p \in Procs |-> 0]
  /\ failed = [p \in Procs |-> FALSE]
  /\ faults = 0
  /\ acked = {}
  /\ reused = FALSE
  /\ strayed = FALSE

Goto(p, from, to) == pc[p] = from /\ pc' = [pc EXCEPT ![p] = to]

(* The lock is taken for a purpose; when somebody has it the call fails    *)
(* with session_busy.                                                      *)
LockFor(p, from, purpose) ==
  /\ Lock!Take(p)
  /\ Goto(p, from, "locked")
  /\ doing' = [doing EXCEPT ![p] = purpose]
  /\ UNCHANGED <<disk, base, count, failed, faults, history>>

Busy(p, from) ==
  /\ holders # {}
  /\ Goto(p, from, "idle")
  /\ UNCHANGED <<disk, holders, doing, base, count, failed, faults, history>>

(* A lease that was reclaimed meanwhile is not released: release() finds   *)
(* another owner in the lock.                                              *)
Unlock(p, to) ==
  /\ holders' = holders \ {p}
  /\ pc' = [pc EXCEPT ![p] = to]
  /\ failed' = [failed EXCEPT ![p] = FALSE]
  /\ count' = [count EXCEPT ![p] = 0]
  /\ UNCHANGED <<doing, faults>>

(* The process is about to change the file.                                *)
Touch(p) == strayed' = (strayed \/ p \notin holders)

Fault == faults < MaxFaults /\ faults' = faults + 1

-----------------------------------------------------------------------------
(* loadState: #readWithoutMutation, without the lock.                      *)
Load(p) ==
  /\ LogReadable /\ ~Torn /\ file # <<>>
  /\ Goto(p, "idle", "loaded")
  /\ base' = [base EXCEPT ![p] = Len(file)]
  /\ UNCHANGED <<disk, holders, doing, count, failed, faults, history>>

(* A complete log with an incomplete tail is loaded again under the lock.  *)
LoadTorn(p) == LogReadable /\ Torn /\ LockFor(p, "idle", "load")

Create(p) == LockFor(p, "idle", "create")

(* withSessionMutation with the loaded sequence.                           *)
Mutate(p) == LockFor(p, "loaded", "mutate") \/ Busy(p, "loaded")

(* Mutant: the expected sequence is not compared.                          *)
AcceptsStale(p, n) == doing[p] = "mutate" \/ (doing[p] = "create" /\ n = 0)

(* What a process does with the n records it has read under its lock: a    *)
(* reload is over, a session is created only when there is none, and a     *)
(* mutation is opened only when nothing was appended since its load.       *)
Accepts(p, n) == CASE doing[p] = "load"   -> FALSE
                   [] doing[p] = "create" -> n = 0
                   [] doing[p] = "mutate" -> n = base[p]

OpenLease(p, n) ==
  \/ /\ Accepts(p, n)
     /\ pc' = [pc EXCEPT ![p] = "open"]
     /\ count' = [count EXCEPT ![p] = n]
     /\ UNCHANGED <<holders, doing, base, failed, faults>>
  \/ /\ ~Accepts(p, n)
     /\ base' = [base EXCEPT ![p] = n]
     /\ Unlock(p, IF doing[p] = "load" /\ n > 0 THEN "loaded" ELSE "idle")

(* #loadUnderMutationLock: an unreadable log fails the operation; ...      *)
LockedLoadFails(p) ==
  /\ pc[p] = "locked"
  /\ ~LogReadable
  /\ Unlock(p, "idle")
  /\ UNCHANGED <<disk, base, history>>

(* Mutant: what follows the last newline is overlooked.                    *)
LockedLoadIgnoringTail(p) ==
  /\ pc[p] = "locked"
  /\ LogReadable
  /\ OpenLease(p, Len(file))
  /\ UNCHANGED <<disk, history>>

LockedLoad(p) ==
  /\ pc[p] = "locked"
  /\ LogReadable /\ ~Torn
  /\ OpenLease(p, Len(file))
  /\ UNCHANGED <<disk, history>>

(* Mutant: an incomplete tail is an invalid session.                       *)
QuarantineNothing(p) ==
  /\ pc[p] = "locked"
  /\ LogReadable /\ Torn
  /\ Unlock(p, "idle")
  /\ UNCHANGED <<disk, base, history>>

(* ... an incomplete tail is first copied to the quarantine file ...       *)
Quarantine(p) ==
  /\ LogReadable /\ Torn
  /\ Goto(p, "locked", "quarantined")
  /\ count' = [count EXCEPT ![p] = Len(file)]
  /\ UNCHANGED <<disk, holders, doing, base, failed, faults, history>>

(* ... and the file cut to the length read before.  A robbed process may  *)
(* meet a shorter file, which the cut pads: an incomplete tail again.      *)
Truncate(p) ==
  /\ pc[p] = "quarantined"
  /\ IF count[p] <= Len(file)
       THEN file' = SubSeq(file, 1, count[p]) /\ tail' = <<>>
       ELSE UNCHANGED file /\ tail' = Append(tail, Piece(p))
  /\ synced' = Len(file')
  /\ OpenLease(p, count[p])
  /\ Touch(p)
  /\ UNCHANGED <<acked, reused>>

-----------------------------------------------------------------------------
(* lease.append: the record is numbered currentSequence + 1, ...           *)
StartAppend(p) ==
  /\ Len(file) < MaxLines /\ count[p] < MaxLines
  /\ doing[p] = "create" => count[p] = 0 /\ ~failed[p]
  /\ Goto(p, "open", "writing")
  /\ tail' = Append(tail, Piece(p))
  /\ reused' = (reused \/ failed[p])
  /\ Touch(p)
  /\ UNCHANGED <<file, synced, holders, doing, base, count, failed, faults, acked>>

(* ... its line is complete when nothing else was in the tail, ...         *)
FinishAppend(p) ==
  /\ Goto(p, "writing", "written")
  /\ file' = Append(file, Line(Piece(p), tail = <<Piece(p)>>))
  /\ tail' = <<>>
  /\ Touch(p)
  /\ UNCHANGED <<synced, holders, doing, base, count, failed, faults, acked, reused>>

(* Mutant: no sync.                                                        *)
AcknowledgeUnsynced(p) ==
  /\ Goto(p, "written", "open")
  /\ acked' = acked \cup {Line(Piece(p), TRUE)}
  /\ count' = [count EXCEPT ![p] = @ + 1]
  /\ UNCHANGED <<disk, holders, doing, base, failed, faults, reused, strayed>>

(* ... and only after the sync the lease counts and acknowledges it.       *)
Sync(p) ==
  /\ Goto(p, "written", "open")
  /\ synced' = Len(file)
  /\ acked' = acked \cup {Line(Piece(p), TRUE)}
  /\ count' = [count EXCEPT ![p] = @ + 1]
  /\ UNCHANGED <<file, tail, holders, doing, base, failed, faults, reused, strayed>>

(* The write or the sync fails: the append rejects and the lease stays     *)
(* active.                                                                 *)
FailAppend(p) ==
  /\ Fault
  /\ Goto(p, "writing", "open") \/ Goto(p, "written", "open")
  /\ failed' = [failed EXCEPT ![p] = TRUE]
  /\ UNCHANGED <<disk, holders, doing, base, count, history>>

(* The operation of the lease is over.                                     *)
Finish(p) ==
  /\ pc[p] = "open"
  /\ Unlock(p, "idle")
  /\ UNCHANGED <<disk, base, history>>

-----------------------------------------------------------------------------
(* The process dies; its lock is a dead owner's, free to be reclaimed.     *)
Crash(p) ==
  /\ Fault
  /\ pc[p] # "down"
  /\ pc' = [pc EXCEPT ![p] = "down"]
  /\ holders' = holders \ {p}
  /\ failed' = [failed EXCEPT ![p] = FALSE]
  /\ UNCHANGED <<disk, doing, base, count, history>>

Restart(p) ==
  /\ Goto(p, "down", "idle")
  /\ base' = [base EXCEPT ![p] = 0]
  /\ count' = [count EXCEPT ![p] = 0]
  /\ UNCHANGED <<disk, holders, doing, failed, faults, history>>

(* Every process dies and what was not synced may be lost or cut short.    *)
PowerLoss ==
  /\ Fault
  /\ pc' = [p \in Procs |-> "down"]
  /\ holders' = {}
  /\ failed' = [p \in Procs |-> FALSE]
  /\ \E n \in synced..Len(file) :
       /\ file' = SubSeq(file, 1, n)
       /\ tail' \in IF n = Len(file) THEN {tail, <<>>}
                    ELSE {<<>>, <<[sequence |-> file[n + 1].sequence, writer |-> file[n + 1].writer]>>}
  /\ UNCHANGED <<synced, doing, base, count, history>>

(* What SessionLock's reclaim can do: the lock of a live holder is taken   *)
(* from it, and the holder does not learn of it.                           *)
Steal(p) ==
  /\ Fault
  /\ Lock!End(p)
  /\ UNCHANGED <<disk, local, history>>

Works(p) ==
  \/ Load(p) \/ LoadTorn(p) \/ Create(p) \/ Mutate(p)
  \/ LockedLoadFails(p) \/ LockedLoad(p) \/ Quarantine(p) \/ Truncate(p)
  \/ StartAppend(p) \/ FinishAppend(p) \/ Sync(p) \/ FailAppend(p) \/ Finish(p)

Next ==
  \/ \E p \in Procs : Works(p) \/ Crash(p) \/ Restart(p) \/ Steal(p)
  \/ PowerLoss

Spec == Init /\ [][Next]_vars

(* A process that runs goes on with its next call; one that restarts comes *)
(* back for the session.                                                   *)
FairSpec == Spec /\ \A p \in Procs : WF_vars(Works(p) \/ Restart(p))

-----------------------------------------------------------------------------
Pieces == [sequence: Nat, writer: Procs]
Lines == [sequence: Nat, writer: Procs, whole: BOOLEAN]

(* Every variable has its type.                                            *)
TypeOK ==
  /\ file \in Seq(Lines)
  /\ tail \in Seq(Pieces)
  /\ synced \in 0..Len(file)
  /\ holders \in SUBSET Procs
  /\ pc \in [Procs -> {"down", "idle", "loaded", "locked", "quarantined",
                       "open", "writing", "written"}]
  /\ doing \in [Procs -> {"load", "create", "mutate"}]
  /\ base \in [Procs -> Nat]
  /\ count \in [Procs -> Nat]
  /\ failed \in [Procs -> BOOLEAN]
  /\ faults \in 0..MaxFaults
  /\ acked \subseteq Lines
  /\ reused \in BOOLEAN
  /\ strayed \in BOOLEAN

Sound == ~reused /\ ~strayed

(* The complete lines always form a log that loads: consecutive records    *)
(* from zero, through torn writes, failed appends, repairs, crashes and    *)
(* power losses and robberies, provided no lease goes on after a failed    *)
(* append and no robbed holder goes on writing.                            *)
AlwaysReadable == Sound => LogReadable

(* A record whose append has returned stays at its place in the log.       *)
AcknowledgedSurvive ==
  Sound => \A r \in acked : r.sequence < Len(file) /\ file[r.sequence + 1] = r

(* A mutation is based on the state its process loaded: whatever follows   *)
(* the records it saw is its own.                                          *)
NoLostUpdate ==
  ~strayed => \A p \in holders :
               pc[p] \in {"open", "writing", "written"} /\ doing[p] = "mutate"
                 => \A i \in base[p] + 1 .. Len(file) : file[i].writer = p

(* An incomplete tail never blocks a readable session for good: whoever    *)
(* comes back repairs it.                                                  *)
TornTailRepaired ==
  Torn /\ Sound ~> ~Torn \/ ~Sound
===============================================================================
