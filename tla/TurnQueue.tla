------------------------------- MODULE TurnQueue -------------------------------
(***************************************************************************)
(* Prompts queued while a turn runs: the admission queue of one turn       *)
(* (packages/core/src/turn-queue.ts), the loop that drains it into the     *)
(* session's durable queue (agent-loop.ts, persistQueuedTurns), and the    *)
(* runtime that admits, resumes, clears and starts queued prompts          *)
(* (packages/cli/src/runtime.ts).                                          *)
(*                                                                         *)
(* The user goes on typing while the loop waits for the provider, a tool   *)
(* or an append, so admissions interleave with every step of the loop.     *)
(* The turn itself is module DirectTurn's; here it drains, finishes or     *)
(* fails.  Byte limits are left out.                                       *)
(***************************************************************************)
EXTENDS Naturals, FiniteSets, SequencesExt

CONSTANTS Ids,        \* queued prompts; each is typed once
          MaxPending, \* MAX_PENDING_QUEUED_TURNS, of the admission and of the durable queue
          MaxUpsets   \* bound: throwing emits and crashes

ASSUME MaxPendingAssumption == MaxPending \in Nat \ {0}
ASSUME MaxUpsetsAssumption == MaxUpsets \in Nat

VARIABLES
  place,     \* where the runtime is
  after,     \* where the loop goes on when its batch is persisted
  waiting,   \* entries of the admission queue that are not drained, oldest first
  drained,   \* drained entries whose promise is not settled
  batch,     \* the drained inputs that are still to be persisted
  closed,    \* the admission queue is closed
  durable,   \* the session's queuedTurns
  promise,   \* what the user of each prompt knows
  upsets,    \* throwing emits and crashes so far
  admitted,  \* history: prompts in the order they were accepted
  started,   \* history: prompts in the order their turns were started
  cleared,   \* history: prompts that were cleared
  misled,    \* history: prompts whose emit threw after they were durable
  stranded   \* history: drained prompts behind one that could not be persisted

admission == <<waiting, drained, batch, closed>>
history == <<admitted, started, cleared, misled, stranded>>
queueVars == <<place, after, admission, durable, promise, upsets, history>>

QueueInit ==
  /\ place = "idle"
  /\ after = "running"
  /\ waiting = <<>> /\ drained = {} /\ batch = <<>> /\ closed = TRUE
  /\ durable = <<>>
  /\ promise = [id \in Ids |-> "untyped"]
  /\ upsets = 0
  /\ admitted = <<>> /\ started = <<>>
  /\ cleared = {} /\ misled = {} /\ stranded = {}

Upset == upsets < MaxUpsets /\ upsets' = upsets + 1

Entries == ToSet(waiting) \cup drained

(* A new turn has an admission queue of its own.                           *)
NewTurn ==
  /\ place' = "running"
  /\ waiting' = <<>> /\ drained' = {} /\ batch' = <<>> /\ closed' = FALSE

(* turn_started takes the head of the durable queue with it.               *)
StartHead ==
  /\ durable # <<>>
  /\ NewTurn
  /\ durable' = Tail(durable)
  /\ started' = Append(started, Head(durable))
  /\ UNCHANGED <<after, promise, upsets, admitted, cleared, misled, stranded>>

-----------------------------------------------------------------------------
(* #runPrompt of a prompt of its own: only when nothing is queued.         *)
Submit ==
  /\ place = "idle"
  /\ durable = <<>>
  /\ NewTurn
  /\ UNCHANGED <<after, durable, promise, upsets, history>>

(* /queue resume.                                                          *)
Resume == place = "idle" /\ StartHead

(* /queue clear.                                                           *)
Clear ==
  /\ place = "idle" /\ durable # <<>>
  /\ durable' = <<>>
  /\ cleared' = cleared \cup ToSet(durable)
  /\ UNCHANGED <<place, after, admission, promise, upsets, admitted, started, misled, stranded>>

(* /queue <prompt> without a run: appended to the session at once.         *)
QueueIdle(id) ==
  /\ place = "idle"
  /\ promise[id] = "untyped"
  /\ IF Len(durable) < MaxPending
       THEN /\ durable' = Append(durable, id)
            /\ admitted' = Append(admitted, id)
            /\ promise' = [promise EXCEPT ![id] = "persisted"]
       ELSE /\ promise' = [promise EXCEPT ![id] = "refused"]
            /\ UNCHANGED <<durable, admitted>>
  /\ UNCHANGED <<place, after, admission, upsets, started, cleared, misled, stranded>>

(* /queue <prompt> during a run: enqueue, refused when the queue is closed *)
(* (also between two turns) or full.                                       *)
Enqueue(id) ==
  /\ place # "idle"
  /\ promise[id] = "untyped"
  /\ IF ~closed /\ Cardinality(Entries) < MaxPending
       THEN /\ waiting' = Append(waiting, id)
            /\ admitted' = Append(admitted, id)
            /\ promise' = [promise EXCEPT ![id] = "waiting"]
       ELSE /\ promise' = [promise EXCEPT ![id] = "refused"]
            /\ UNCHANGED <<waiting, admitted>>
  /\ UNCHANGED <<place, after, drained, batch, closed, durable, upsets, started, cleared, misled, stranded>>

-----------------------------------------------------------------------------
(* Mutant: what is drained comes out last in, first out.                   *)
DrainReversed(then) ==
  /\ batch' = Reverse(waiting)
  /\ drained' = drained \cup ToSet(waiting)
  /\ waiting' = <<>>
  /\ after' = then
  /\ place' = "persisting"

(* drain: the entries stay in the queue until they are settled.            *)
Drain(then) ==
  /\ batch' = waiting
  /\ drained' = drained \cup ToSet(waiting)
  /\ waiting' = <<>>
  /\ after' = then
  /\ place' = "persisting"

(* At the top of the loop.                                                 *)
DrainInLoop ==
  /\ place = "running"
  /\ Drain("working")
  /\ UNCHANGED <<closed, durable, promise, upsets, history>>

(* A model request, its tools: back to the top, the final reply, or an     *)
(* error.                                                                  *)
Work ==
  /\ place = "working"
  /\ place' \in {"running", "finishing", "failing"}
  /\ UNCHANGED <<after, admission, durable, promise, upsets, history>>

(* Mutant: the promise of a prompt is resolved before it is appended.      *)
PersistPromised ==
  /\ place = "persisting" /\ batch # <<>>
  /\ LET id == Head(batch) IN
       /\ promise' = [promise EXCEPT ![id] = "persisted"]
       /\ drained' = drained \ {id}
       /\ IF Len(durable) < MaxPending
            THEN durable' = Append(durable, id) /\ place' = place
            ELSE UNCHANGED durable /\ place' = "failing"
  /\ batch' = Tail(batch)
  /\ UNCHANGED <<after, waiting, closed, upsets, history>>

(* persistQueuedTurns: append, emit, settle.  The reducer rejects the      *)
(* append when the durable queue is full or has the id; an emit may throw; *)
(* either rejects this prompt's promise, leaves the rest of the batch      *)
(* where it is and fails the turn.                                         *)
Persist ==
  /\ place = "persisting" /\ batch # <<>>
  /\ LET id == Head(batch)
         Settle(how) == /\ promise' = [promise EXCEPT ![id] = how]
                        /\ drained' = drained \ {id}
         Stop == /\ Settle("rejected")
                 /\ place' = "failing"
                 /\ batch' = <<>>
                 /\ stranded' = stranded \cup ToSet(Tail(batch))
         Accepted == Len(durable) < MaxPending /\ id \notin ToSet(durable)
     IN \/ /\ Accepted
           /\ durable' = Append(durable, id)
           /\ \/ /\ Settle("persisted")
                 /\ batch' = Tail(batch)
                 /\ UNCHANGED <<place, upsets, misled, stranded>>
              \/ /\ Upset /\ Stop
                 /\ misled' = misled \cup {id}
        \/ /\ ~Accepted
           /\ Stop
           /\ UNCHANGED <<durable, upsets, misled>>
  /\ UNCHANGED <<after, waiting, closed, admitted, started, cleared>>

Persisted ==
  /\ place = "persisting" /\ batch = <<>>
  /\ place' = after
  /\ UNCHANGED <<after, admission, durable, promise, upsets, history>>

(* After the final reply: drainOrClose, until there is nothing to drain.   *)
DrainOrClose ==
  /\ place = "finishing"
  /\ IF waiting # <<>>
       THEN Drain("finishing") /\ UNCHANGED closed
       ELSE /\ closed' = TRUE
            /\ place' \in {"completing", "failing"}
            /\ UNCHANGED <<after, waiting, drained, batch>>
  /\ UNCHANGED <<durable, promise, upsets, history>>

(* Mutant: the entries that wait are left alone.                           *)
CloseQuietly(next) ==
  /\ place' = next
  /\ closed' = TRUE
  /\ UNCHANGED <<promise, waiting, after, drained, batch, durable, upsets, history>>

(* close: everything that is not drained is rejected.                      *)
Close(next) ==
  /\ place' = next
  /\ closed' = TRUE
  /\ promise' = [id \in Ids |-> IF id \in ToSet(waiting) THEN "rejected" ELSE promise[id]]
  /\ waiting' = <<>>
  /\ UNCHANGED <<after, drained, batch, durable, upsets, history>>

(* turn_completed, or turn_failed or turn_cancelled, and the finally.      *)
Complete == place = "completing" /\ Close("between")
Fail == place = "failing" /\ Close("idle")

(* #runPrompt's loop: the next queued prompt is started by itself.         *)
StartNext == place = "between" /\ StartHead

Return ==
  /\ place = "between" /\ durable = <<>>
  /\ place' = "idle"
  /\ UNCHANGED <<after, admission, durable, promise, upsets, history>>

(* The process dies; only the session's queue is left.                     *)
Die ==
  /\ Upset
  /\ place # "idle"
  /\ place' = "idle"
  /\ waiting' = <<>> /\ drained' = {} /\ batch' = <<>> /\ closed' = TRUE
  /\ promise' = [id \in Ids |-> IF promise[id] = "waiting" THEN "lost" ELSE promise[id]]
  /\ UNCHANGED <<after, durable, history>>

Run ==
  \/ DrainInLoop \/ Work \/ Persist \/ Persisted \/ DrainOrClose
  \/ Complete \/ Fail \/ StartNext \/ Return

User == Submit \/ Resume \/ Clear \/ \E id \in Ids : QueueIdle(id) \/ Enqueue(id)

QueueNext == Run \/ User \/ Die

QueueSpec == QueueInit /\ [][QueueNext]_queueVars

(* The loop's promises settle (module DirectTurn: RunsEnd).                *)
FairQueueSpec == QueueSpec /\ WF_queueVars(Run)

-----------------------------------------------------------------------------
Outcomes == {"untyped", "refused", "waiting", "persisted", "rejected", "lost"}

(* Every variable has its type; both queues stay within their limit.       *)
QueueTypeOK ==
  /\ place \in {"idle", "running", "working", "persisting", "finishing", "completing", "failing", "between"}
  /\ after \in {"running", "working", "finishing"}
  /\ waiting \in Seq(Ids) /\ batch \in Seq(Ids) /\ drained \subseteq Ids
  /\ Cardinality(Entries) <= MaxPending
  /\ closed \in BOOLEAN
  /\ durable \in Seq(Ids) /\ Len(durable) <= MaxPending
  /\ promise \in [Ids -> Outcomes]
  /\ upsets \in 0..MaxUpsets
  /\ admitted \in Seq(Ids) /\ started \in Seq(Ids)
  /\ cleared \subseteq Ids /\ misled \subseteq Ids /\ stranded \subseteq Ids

(* What the user was told is true.  A prompt said to be queued is in the    *)
(* durable queue, was started, or was cleared: no failing turn and no crash *)
(* loses it.  A prompt said not to be queued is not, unless the emit after  *)
(* its append threw.                                                        *)
AnswersAreTrue ==
  \A id \in Ids :
    /\ promise[id] = "persisted" => id \in ToSet(durable \o started) \cup cleared
    /\ promise[id] \in {"refused", "rejected"} /\ id \notin misled =>
         id \notin ToSet(durable \o started)

(* Prompts are started in the order they were admitted, none twice, across *)
(* drains, turns, resumes and crashes.                                     *)
FirstComeFirstServed ==
  LET run == started \o durable
      Place(id) == CHOOSE i \in DOMAIN admitted : admitted[i] = id
  IN \A i, j \in DOMAIN run : i < j => Place(run[i]) < Place(run[j])

(* Every admitted prompt's promise settles when its turn ends, except      *)
(* behind one that could not be persisted.                                 *)
AdmissionsSettle ==
  \A id \in Ids : promise[id] = "waiting" /\ id \notin stranded ~>
                    promise[id] # "waiting" \/ id \in stranded

===============================================================================
