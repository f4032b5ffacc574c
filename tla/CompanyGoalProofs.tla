-------------------------- MODULE CompanyGoalProofs --------------------------
(***************************************************************************)
(* Theorems about CompanyGoal, for every plan, limit and number of upsets. *)
(*                                                                         *)
(* The invariant says what the journal tells about the agents' logs        *)
(* (Sound), what the steps of an execution have established (Stepping),    *)
(* that the supervisor's record is the last one or the one before it       *)
(* (Agree), and what each place of the supervisor presupposes (Placed).    *)
(*                                                                         *)
(* A second invariant, which rests on the first, keeps the accounts: what  *)
(* the last record says of the budget (Faithful), how the budget that the  *)
(* running assignments share follows it (Balanced), and what each place    *)
(* and step presupposes of both (Posed, Executing).                        *)
(***************************************************************************)
EXTENDS CompanyGoal, FiniteSetTheorems, TLAPS

AllCompleted(r) == \A a \in Assignments : r.work[a] = "completed"

Recorded(r) ==
  \A a \in Assignments : outcome[a] # "none" => r.work[a] \notin {"pending", "blocked"}

ParentStarted(a) == ParentOf[a] # NoParent => outcome[ParentOf[a]] # "none"

Sound(r) ==
  /\ Recorded(r)
  /\ r.status = "completed" => AllCompleted(r)
  /\ \A a \in Assignments : r.work[a] = "completed" => outcome[a] = "good"
  /\ \A a \in r.team :
       /\ ParentStarted(a)
       /\ \A b \in DependsOn[a] : r.work[b] = "completed" \/ b \in r.team

\* What follows keeps what is completed and what is a team's.
Follows(r, next) ==
  /\ r.team \subseteq next.team
  /\ \A a \in Assignments : r.work[a] = "completed" => next.work[a] = "completed"

\* Agents and teams come after what they depend on.
InOrder(r) ==
  \A a \in Assignments : outcome[a] # "none" =>
    /\ ParentStarted(a)
    /\ \A b \in DependsOn[a] : r.work[b] = "completed" \/ {a, b} \subseteq r.team

Launched ==
  \A a \in Assignments : /\ launches[a] = IF outcome[a] = "none" THEN 0 ELSE 1
                         /\ a \in belied => outcome[a] # "none"

Agree ==
  /\ place = "off" => ~behind
  /\ place # "off" => /\ Follows(cur, run)
                      /\ Recorded(cur)
                      /\ ~behind => cur = run

Stepping ==
  \A a \in Assignments :
    /\ step[a] \in {"asked", "claimed", "marked"} =>
         /\ outcome[a] = "none"
         /\ ParentStarted(a)
         /\ \A b \in DependsOn[a] : run.work[b] = "completed"
    /\ step[a] = "marked" => cur.work[a] = "running" /\ run.work[a] = "running"
    /\ step[a] = "working" => outcome[a] = "open"
    /\ step[a] = "done" => outcome[a] = "good"

AgentsEnded(r) ==
  \A a \in Assignments : r.work[a] = "running" /\ a \notin r.team => outcome[a] \in Terminal

Resuming(p) == p \in {"resuming", "redropping"}

Placed ==
  /\ place # "batch" => step = Idle
  /\ place = "team" => ~behind
  /\ Resuming(place) \/ (place = "opening" /\ recovering) => AgentsEnded(cur)
  /\ place = "completed" => AllCompleted(cur)

IInv == TypeOK /\ Sound(run) /\ InOrder(run) /\ Launched /\ Agree /\ Stepping /\ Placed

USE PlanAssumption, GoalAssumption DEF PlanAssumption, GoalAssumption

(***************************************************************************)
(* The initial state.                                                      *)
(***************************************************************************)
LEMMA FirstRecords == NoRun \in Run /\ NewRun \in Run /\ NoBook \in Book
<1>1. NoBook \in Book
  BY DEF NoBook, Book, Bill
<1>2. NewRun \in Run
  BY <1>1 DEF NewRun, Run, GoalStatus, Unresolved, WorkStatus
<1>3. NoRun \in Run
  BY <1>2 DEF NoRun, Run, GoalStatus
<1> QED BY <1>1, <1>2, <1>3

LEMMA InitIInv == Init => IInv
<1>1. NoRun \in Run /\ NoBook \in Book
  BY FirstRecords
<1>2. Init => TypeOK
  <2>1. Idle \in [Assignments -> Step] /\ "off" \in Place
    BY DEF Idle, Step, Place
  <2>2. [a \in Assignments |-> "none"] \in [Assignments -> Outcome]
    BY DEF Outcome
  <2>3. [a \in Assignments |-> 0] \in [Assignments -> Nat]
    OBVIOUS
  <2>4. Init => /\ upsets \in 0..MaxUpsets
                /\ exposed \in SUBSET Assignments /\ belied \in SUBSET Assignments
    BY DEF Init
  <2> QED BY <1>1, <2>1, <2>2, <2>3, <2>4, Zenon DEF Init, TypeOK
<1>3. Init => Sound(run) /\ InOrder(run) /\ Launched /\ Agree /\ Placed
  BY DEF Init, Sound, InOrder, Launched, Agree, Placed, Recorded, NoRun, NewRun, Resuming
<1>4. Init => Stepping
  BY DEF Init, Stepping, Idle
<1> QED BY <1>2, <1>3, <1>4 DEF IInv

(***************************************************************************)
(* Updates of the journal.                                                 *)
(***************************************************************************)
\* A budget reconciled with another is a budget.
LEMMA ReconciledType ==
  ASSUME NEW t \in Book, NEW book \in Book
  PROVE  Reconciled(t, book) \in Book
  BY DEF Reconciled, Book, Bill, Larger

\* So is one with another use in it.
LEMMA BillsType ==
  ASSUME NEW t \in Book, NEW a \in Assignments
  PROVE  Bills(t, a) \in Book
  BY DEF Bills, Book, Bill

\* The journal keeps what is completed, and admits nothing after the end.
LEMMA Admitted ==
  ASSUME TypeOK, NEW next \in Run, Admits(next)
  PROVE  /\ \A a \in Assignments : cur.work[a] = "completed" => next.work[a] = "completed"
         /\ cur.status \in Unresolved
         /\ ~behind
  BY DEF Admits, MayFollow, NextWork, NextGoal, Unresolved, TypeOK, Run, GoalStatus

\* The supervisor goes on at another place without touching the journal.
LEMMA GoKeeps ==
  ASSUME IInv, place # "off", step = Idle,
         NEW p \in Place, p \notin {"batch", "opening"},
         p = "team" => ~behind,
         p = "completed" => AllCompleted(cur),
         Resuming(p) => AgentsEnded(cur),
         Go(p)
  PROVE  IInv'
<1> USE DEF IInv, Go, Supervisor
<1>1. NoRun \in Run /\ NoBook \in Book
  BY FirstRecords
<1>2. TypeOK'
  BY <1>1 DEF TypeOK
<1>3. Sound(run)' /\ InOrder(run)' /\ Launched'
  BY DEF Sound, InOrder, Launched, Recorded, ParentStarted, AllCompleted
<1>4. Agree'
  BY DEF Agree, Follows, Recorded
<1>5. Stepping'
  BY DEF Stepping, Idle, ParentStarted
<1>6. Placed'
  BY DEF Placed, Resuming, AgentsEnded, AllCompleted
<1> QED BY <1>2, <1>3, <1>4, <1>5, <1>6

\* The supervisor's updates.
LEMMA WriteKeeps ==
  ASSUME IInv, place # "off", step = Idle,
         NEW next \in Run, NEW then \in Place, NEW else \in Place,
         {then, else} \intersect {"batch", "opening", "completed"} = {},
         else # "team",
         Admits(next) => Sound(next) /\ cur.team \subseteq next.team,
         Admits(next) /\ Resuming(then) => AgentsEnded(next),
         Resuming(else) => AgentsEnded(cur),
         Write(next, then, else)
  PROVE  IInv'
<1>1. CASE ~Admits(next) /\ Go(else)
  BY <1>1, GoKeeps
<1>2. CASE Admits(next) /\ run' \in {run, next} /\ step' = step /\ outcome' = outcome
           /\ launches' = launches /\ UNCHANGED <<exposed, belied>>
           /\ disturbed' \in BOOLEAN /\ upsets' \in 0..MaxUpsets
           /\ \/ run' = next /\ Supervisor(then, next, FALSE, Reconciled(tally, next.book))
              \/ run' = run /\ Supervisor(else, cur, FALSE, tally)
              \/ run' = next /\ Supervisor(else, cur, TRUE, tally)
  <2> USE DEF IInv, Supervisor
  <2>1. /\ Sound(next) /\ Follows(cur, next) /\ ~behind /\ cur = run
        /\ Resuming(then) => AgentsEnded(next)
    BY <1>2, Admitted DEF Follows, Agree
  <2>2. NoRun \in Run /\ NoBook \in Book /\ Reconciled(tally, next.book) \in Book
    BY FirstRecords, ReconciledType DEF Run, TypeOK
  <2>3. TypeOK'
    BY <1>2, <2>2 DEF TypeOK
  <2>4. Sound(run)'
    <3>1. Sound(run) /\ Sound(next)
      BY <2>1
    <3> QED BY <1>2, <3>1 DEF Sound, Recorded, ParentStarted, AllCompleted
  <2>5. InOrder(run)' /\ Launched'
    BY <1>2, <2>1 DEF InOrder, Launched, ParentStarted, Follows
  <2>6. Agree'
    BY <1>2, <2>1 DEF Agree, Follows, Recorded, Sound
  <2>7. Stepping'
    BY <1>2 DEF Stepping, Idle
  <2>8. Placed'
    BY <1>2, <2>1 DEF Placed, Resuming, AgentsEnded
  <2> QED BY <2>3, <2>4, <2>5, <2>6, <2>7, <2>8
<1>3. (~Admits(next) /\ Go(else)) \/ Admits(next)
  BY DEF Write
<1>4. ASSUME Admits(next), ~(~Admits(next) /\ Go(else))
      PROVE  /\ disturbed' \in BOOLEAN /\ upsets' \in 0..MaxUpsets
             /\ \/ run' = next /\ Supervisor(then, next, FALSE, Reconciled(tally, next.book))
                \/ run' = run /\ Supervisor(else, cur, FALSE, tally)
                \/ run' = next /\ Supervisor(else, cur, TRUE, tally)
  <2>1. \/ /\ run' = next /\ Supervisor(then, next, FALSE, Reconciled(tally, next.book))
           /\ UNCHANGED <<upsets, disturbed>>
        \/ /\ Upset /\ disturbed' = TRUE
           /\ \/ run' = run /\ Supervisor(else, cur, FALSE, tally)
              \/ run' = next /\ Supervisor(else, cur, TRUE, tally)
    BY <1>4, Zenon DEF Write
  <2>2. upsets \in 0..MaxUpsets /\ disturbed \in BOOLEAN
    BY DEF IInv, TypeOK
  <2>3. upsets' = upsets \/ Upset
    BY <2>1, Zenon
  <2>4. upsets' \in 0..MaxUpsets
    BY <2>2, <2>3 DEF Upset
  <2>5. disturbed' = disturbed \/ disturbed' = TRUE
    BY <2>1, Zenon
  <2>6. disturbed' \in BOOLEAN
    BY <2>2, <2>5, Zenon
  <2> QED BY <2>1, <2>4, <2>6, Zenon
<1> QED BY <1>1, <1>2, <1>3, <1>4 DEF Supervisor

\* The updates of an execution.
LEMMA UpdateKeeps ==
  ASSUME IInv, place = "batch",
         NEW a \in Assignments, step[a] \notin {"idle", "asked", "working"},
         NEW next \in Run, NEW then \in Step, NEW else \in Step,
         next.team = cur.team, next.status = cur.status,
         \A b \in Assignments \ {a} : next.work[b] = cur.work[b],
         next.work[a] \notin {"pending", "blocked"},
         next.work[a] = "completed" => outcome[a] = "good",
         {then, else} \intersect {"asked", "claimed", "working", "done"} = {},
         else # "marked",
         then = "marked" => step[a] = "claimed" /\ next.work[a] = "running",
         Update(a, next, then, else)
  PROVE  IInv'
<1> USE DEF IInv
<1> DEFINE Unwritten == /\ UNCHANGED <<run, cur, behind>>
                        /\ step' = [step EXCEPT ![a] = else]
<1> DEFINE Accepted == /\ Admits(next) /\ run' = next /\ cur' = next /\ behind' = behind
                       /\ step' = [step EXCEPT ![a] = then]
<1> DEFINE Behind == /\ Admits(next) /\ run' = next /\ cur' = cur /\ behind' = TRUE
                     /\ step' = [step EXCEPT ![a] = else]
<1>1. Unwritten \/ Accepted \/ Behind
  BY Zenon DEF Update
<1>2. UNCHANGED <<outcome, launches, tally, place, recovering, aborted, exposed, belied>>
  BY Zenon DEF Update
<1>3. TypeOK'
  <2>1. upsets' = upsets \/ Upset
    BY Zenon DEF Update
  <2>2. upsets' \in 0..MaxUpsets
    BY <2>1 DEF Upset, TypeOK
  <2>3. Overlap(a) \in BOOLEAN
    BY Zenon DEF Overlap
  <2>4. moved' \in BOOLEAN /\ disturbed' \in BOOLEAN /\ behind' \in BOOLEAN
    <3>1. moved \in BOOLEAN /\ disturbed \in BOOLEAN /\ behind \in BOOLEAN
      BY DEF TypeOK
    <3>2. moved' = moved \/ moved' = TRUE
      BY Zenon DEF Update
    <3>3. disturbed' = (disturbed \/ Overlap(a)) \/ disturbed' = TRUE
      BY Zenon DEF Update
    <3>4. behind' = behind \/ behind' = TRUE
      BY <1>1, Zenon
    <3> QED BY <3>1, <3>2, <3>3, <3>4, Zenon
  <2>5. run' \in Run /\ cur' \in Run /\ step' \in [Assignments -> Step]
    BY <1>1 DEF TypeOK
  <2>6. /\ outcome' \in [Assignments -> Outcome] /\ launches' \in [Assignments -> Nat]
        /\ place' \in Place /\ tally' \in Book /\ exposed' \in SUBSET Assignments
        /\ recovering' \in BOOLEAN /\ aborted' \in BOOLEAN /\ belied' \in SUBSET Assignments
    BY <1>2, Zenon DEF TypeOK
  <2> QED BY <2>2, <2>4, <2>5, <2>6, Zenon DEF TypeOK
<1>4. ASSUME Admits(next)
      PROVE  ~behind /\ cur = run /\ Sound(next) /\ Follows(run, next)
  <2>1. /\ ~behind /\ cur = run /\ cur.status # "completed"
        /\ \A b \in Assignments : cur.work[b] = "completed" => next.work[b] = "completed"
    BY <1>4, Admitted DEF Agree, Unresolved
  <2>2. Recorded(next)
    BY <2>1 DEF Sound, Recorded
  <2>3. next.status # "completed"
    BY <2>1
  <2>4. \A b \in Assignments : next.work[b] = "completed" => outcome[b] = "good"
    BY <2>1 DEF Sound
  <2>5. \A b \in next.team :
          /\ ParentStarted(b)
          /\ \A d \in DependsOn[b] : next.work[d] = "completed" \/ d \in next.team
    <3>1. next.team \subseteq Assignments
      BY DEF Run
    <3> QED BY <2>1, <3>1 DEF Sound
  <2> QED BY <2>1, <2>2, <2>3, <2>4, <2>5 DEF Sound, Follows
<1>5. Sound(run)'
  <2>1. \E r \in {run, next} : run' = r /\ Sound(r)
    BY <1>1, <1>4
  <2> QED BY <1>2, <2>1 DEF Sound, Recorded, ParentStarted, AllCompleted
<1>6. Follows(run, run')
  BY <1>1, <1>4 DEF Follows
<1>7. InOrder(run)' /\ Launched'
  BY <1>2, <1>6 DEF InOrder, Launched, ParentStarted, Follows
<1>8. Agree'
  <2>1. CASE Unwritten
    BY <1>2, <2>1 DEF Agree, Follows, Recorded
  <2>2. CASE Accepted
    BY <1>2, <1>4, <2>2 DEF Agree, Follows, Recorded, Sound
  <2>3. CASE Behind
    BY <1>2, <1>4, <2>3 DEF Agree, Follows, Recorded
  <2> QED BY <1>1, <2>1, <2>2, <2>3
<1>9. Stepping'
  <2> SUFFICES ASSUME NEW b \in Assignments
               PROVE  (/\ step[b] \in {"asked", "claimed", "marked"} =>
                            /\ outcome[b] = "none"
                            /\ ParentStarted(b)
                            /\ \A d \in DependsOn[b] : run.work[d] = "completed"
                       /\ step[b] = "marked" => cur.work[b] = "running" /\ run.work[b] = "running"
                       /\ step[b] = "working" => outcome[b] = "open"
                       /\ step[b] = "done" => outcome[b] = "good")'
    BY DEF Stepping
  <2>1. CASE b = a
    <3>1. \/ step'[a] = else
          \/ /\ Admits(next) /\ run' = next /\ cur' = next /\ step'[a] = then
      BY <1>1 DEF TypeOK
    <3>2. step'[a] \notin {"asked", "claimed", "working", "done"}
      BY <3>1
    <3>3. step'[a] = "marked" =>
            /\ run' = next /\ cur' = next /\ next.work[a] = "running" /\ step[a] = "claimed"
      BY <3>1
    <3>4. step[a] = "claimed" =>
            /\ outcome[a] = "none" /\ ParentStarted(a)
            /\ \A d \in DependsOn[a] : run.work[d] = "completed"
      BY DEF Stepping
    <3>5. DependsOn[a] \subseteq Assignments
      OBVIOUS
    <3> QED BY <1>2, <1>6, <2>1, <3>2, <3>3, <3>4, <3>5 DEF Follows, ParentStarted
  <2>2. CASE b # a
    <3>1. step'[b] = step[b]
      BY <1>1, <2>2 DEF TypeOK
    <3>2. /\ step[b] = "marked" => cur.work[b] = "running" /\ run.work[b] = "running"
          /\ cur'.work[b] = cur.work[b] \/ cur'.work[b] = run.work[b]
          /\ run'.work[b] = cur.work[b] \/ run'.work[b] = run.work[b]
      BY <1>1, <1>4, <2>2 DEF Stepping
    <3> QED BY <1>2, <1>6, <3>1, <3>2 DEF Stepping, Follows, TypeOK, ParentStarted
  <2> QED BY <2>1, <2>2
<1>10. Placed'
  BY <1>2 DEF Placed, Resuming
<1> QED BY <1>3, <1>5, <1>7, <1>8, <1>9, <1>10

(***************************************************************************)
(* Starting and resuming.                                                  *)
(***************************************************************************)
LEMMA StartKeeps == ASSUME IInv, Start PROVE IInv'
<1> USE DEF IInv, Start, Supervisor
<1>1. NewRun \in Run /\ NoBook \in Book
  BY FirstRecords
<1>2. TypeOK'
  BY <1>1 DEF TypeOK, Place
<1>3. \A a \in Assignments : outcome[a] = "none"
  BY DEF Sound, Recorded, NoRun, NewRun
<1>4. Sound(run)' /\ InOrder(run)' /\ Launched' /\ Agree'
  BY <1>3 DEF Sound, InOrder, Launched, Agree, Recorded, NewRun, Follows
<1>5. Stepping' /\ Placed'
  BY <1>3 DEF Stepping, Placed, Idle, Resuming, AgentsEnded, NewRun
<1> QED BY <1>2, <1>4, <1>5

LEMMA ResumeKeeps == ASSUME IInv, Resume PROVE IInv'
<1> USE DEF IInv, Resume, durable
<1>1. TypeOK'
  <2>1. run.book \in Book /\ run \in Run /\ "opening" \in Place
    BY DEF TypeOK, Run, Place
  <2>2. exposed' \in SUBSET Assignments
    BY DEF TypeOK, In
  <2> QED BY <2>1, <2>2 DEF TypeOK
<1>2. Sound(run)' /\ InOrder(run)' /\ Launched'
  BY DEF Sound, InOrder, Launched, Recorded, ParentStarted, AllCompleted
<1>3. Agree'
  BY DEF Agree, Follows, Recorded, Sound
<1>4. Stepping'
  BY DEF Stepping, Idle, Placed
<1>5. AgentsEnded(run)
  BY DEF AgentsEnded, Recoverable, In
<1>6. Placed'
  BY <1>5 DEF Placed, Resuming, AgentsEnded
<1> QED BY <1>1, <1>2, <1>3, <1>4, <1>6

\* A record with another status, or budget, that is no completion says the same.
LEMMA StatusKeeps ==
  ASSUME IInv, place # "off",
         NEW next, next.work = cur.work, next.team = cur.team,
         next.status = "completed" => AllCompleted(cur)
  PROVE  /\ AgentsEnded(cur) => AgentsEnded(next)
         /\ cur = run => Sound(next)
  BY DEF AgentsEnded, Sound, Recorded, AllCompleted, IInv

LEMMA AdmitsLast ==
  ASSUME IInv, place # "off", NEW next, Admits(next)
  PROVE  cur = run
  BY DEF Admits, IInv, Agree

LEMMA OpenKeeps == ASSUME IInv, Open PROVE IInv'
<1>1. place = "opening" /\ step = Idle /\ place # "off"
  BY DEF Open, IInv, Placed
<1> DEFINE p == IF recovering THEN "resuming" ELSE "loop"
<1> DEFINE n == [cur EXCEPT !.status = "running"]
<1>2. p \in Place \ {"off", "batch", "opening", "team", "completed"} /\ "off" \in Place
  BY DEF Place
<1>3. Resuming(p) => AgentsEnded(cur)
  BY <1>1 DEF Resuming, IInv, Placed
<1>4. n \in Run /\ n.work = cur.work /\ n.team = cur.team /\ n.status = "running"
  BY DEF IInv, TypeOK, Run, GoalStatus, Unresolved
<1>5. /\ AgentsEnded(cur) => AgentsEnded(n)
      /\ Admits(n) => Sound(n)
  BY <1>1, <1>4, StatusKeeps, AdmitsLast
<1>6. Go("off") \/ Go(p) \/ Write(n, p, "off")
  BY Zenon DEF Open
<1>7. CASE Go("off")
  BY <1>1, <1>2, <1>7, GoKeeps DEF Resuming
<1>8. CASE Go(p)
  BY <1>1, <1>2, <1>3, <1>8, GoKeeps
<1>9. CASE Write(n, p, "off")
  <2> HIDE DEF n, p
  <2>1. ~Resuming("off")
    BY DEF Resuming
  <2> QED BY <1>1, <1>2, <1>3, <1>4, <1>5, <1>9, <2>1, WriteKeeps
<1> QED BY <1>6, <1>7, <1>8, <1>9

(***************************************************************************)
(* One execution.                                                          *)
(***************************************************************************)
\* Steps that leave the journal and the logs alone.
LEMMA StepKeeps ==
  ASSUME IInv, place = "batch", place' = "batch", UNCHANGED <<durable, cur, behind, belied>>,
         TypeOK', Stepping'
  PROVE  IInv'
<1> USE DEF IInv, durable
<1>1. Sound(run)' /\ InOrder(run)' /\ Launched'
  BY DEF Sound, InOrder, Launched, Recorded, ParentStarted, AllCompleted
<1>2. Agree' /\ Placed'
  BY DEF Agree, Follows, Recorded, Placed, Resuming
<1> QED BY <1>1, <1>2

LEMMA HandOffKeeps == ASSUME IInv, NEW a \in Assignments, HandOff(a) PROVE IInv'
<1> USE DEF HandOff, durable, history
<1>1. ParentOf[a] \in Assignments /\ step[ParentOf[a]] = "working" /\ place = "batch"
  BY DEF IInv, Placed, Idle
<1>2. step' = [b \in Assignments |-> IF b = a THEN "asked" ELSE step[b]]
  BY DEF Ask
<1>3. TypeOK'
  BY <1>2 DEF IInv, TypeOK, history, Step
<1>4. outcome[a] = "none" /\ outcome[ParentOf[a]] = "open"
  BY <1>1 DEF IInv, MayHandOff, Agree, Recorded, Stepping
<1>5. \A b \in DependsOn[a] : run.work[b] = "completed"
  BY <1>1 DEF IInv, MayHandOff, In, Agree, Follows
<1>6. Stepping'
  BY <1>1, <1>2, <1>4, <1>5 DEF Stepping, IInv, ParentStarted
<1> QED BY <1>1, <1>3, <1>6, StepKeeps

LEMMA ClaimKeeps == ASSUME IInv, NEW a \in Assignments, Claim(a) PROVE IInv'
<1> USE DEF Claim, durable, history
<1>1. place = "batch" /\ step \in [Assignments -> Step]
  BY DEF IInv, Placed, Idle, TypeOK
<1>2. PICK to \in {"claimed", "idle"} : step' = [step EXCEPT ![a] = to]
  OBVIOUS
<1>3. TypeOK'
  BY <1>2 DEF IInv, TypeOK, history, Step
<1>4. Stepping'
  BY <1>1, <1>2 DEF Stepping, IInv, ParentStarted
<1> QED BY <1>1, <1>3, <1>4, StepKeeps

LEMMA MarkKeeps == ASSUME IInv, NEW a \in Assignments, Mark(a) PROVE IInv'
<1>1. place = "batch" /\ step \in [Assignments -> Step] /\ step[a] = "claimed"
  BY DEF IInv, Placed, Idle, TypeOK, Mark
<1> DEFINE n == [cur EXCEPT !.work[a] = "running", !.book.started = @ + 1]
<1>2. CASE Update(a, n, "marked", "caught")
  <2>1. n \in Run /\ n.team = cur.team /\ n.status = cur.status /\ n.work[a] = "running"
    <3>1. cur \in Run /\ cur.book \in Book
      BY DEF IInv, TypeOK, Run
    <3>2. [cur.book EXCEPT !.started = @ + 1] \in Book
      BY <3>1 DEF Book
    <3>3. [cur.work EXCEPT ![a] = "running"] \in [Assignments -> WorkStatus]
      BY <3>1 DEF Run, WorkStatus
    <3>4. n = [cur EXCEPT !.work = [cur.work EXCEPT ![a] = "running"],
                          !.book = [cur.book EXCEPT !.started = @ + 1]]
      BY <3>1 DEF Run
    <3> QED BY <3>1, <3>2, <3>3, <3>4 DEF Run
  <2>2. \A b \in Assignments \ {a} : n.work[b] = cur.work[b]
    BY DEF IInv, TypeOK, Run
  <2>3. "marked" \in Step /\ "caught" \in Step
    BY DEF Step
  <2> HIDE DEF n
  <2> QED BY <1>1, <1>2, <2>1, <2>2, <2>3, UpdateKeeps
<1>3. CASE /\ step' = [step EXCEPT ![a] = "caught"]
           /\ UNCHANGED <<durable, history, place, cur, behind, tally, recovering,
                          aborted, moved, upsets>>
  <2>1. TypeOK'
    BY <1>3 DEF IInv, TypeOK, history, durable, Step
  <2>2. Stepping'
    BY <1>1, <1>3 DEF Stepping, IInv, ParentStarted, durable
  <2> QED BY <1>1, <1>3, <2>1, <2>2, StepKeeps DEF durable, history
<1> QED BY <1>2, <1>3, Zenon DEF Mark

LEMMA CompleteKeeps == ASSUME IInv, NEW a \in Assignments, Complete(a) PROVE IInv'
<1>1. place = "batch" /\ step[a] = "done" /\ outcome[a] = "good"
  BY DEF IInv, Placed, Idle, Stepping, Complete
<1> DEFINE n == [cur EXCEPT !.work[a] = "completed", !.book = tally]
<1>2. n \in Run /\ n.team = cur.team /\ n.status = cur.status /\ n.work[a] = "completed"
  BY DEF IInv, TypeOK, Run, WorkStatus
<1>3. \A b \in Assignments \ {a} : n.work[b] = cur.work[b]
  BY DEF IInv, TypeOK, Run
<1>4. "idle" \in Step /\ "caught" \in Step /\ Update(a, n, "idle", "caught")
  BY DEF Step, Complete
<1> HIDE DEF n
<1> QED BY <1>1, <1>2, <1>3, <1>4, UpdateKeeps

LEMMA FailKeeps == ASSUME IInv, NEW a \in Assignments, Fail(a) PROVE IInv'
<1>1. place = "batch" /\ step[a] \in {"failed", "cancelled"}
  BY DEF IInv, Placed, Idle, Fail
<1> DEFINE n == [cur EXCEPT !.work[a] = step[a], !.book = tally]
<1>2. n \in Run /\ n.team = cur.team /\ n.status = cur.status /\ n.work[a] = step[a]
  BY <1>1 DEF IInv, TypeOK, Run, WorkStatus
<1>3. \A b \in Assignments \ {a} : n.work[b] = cur.work[b]
  BY DEF IInv, TypeOK, Run
<1>4. PICK else \in {"idle", "refused"} : Update(a, n, "idle", else)
  BY DEF Fail
<1>5. "idle" \in Step /\ "refused" \in Step
  BY DEF Step
<1> HIDE DEF n
<1> QED BY <1>1, <1>2, <1>3, <1>4, <1>5, UpdateKeeps

LEMMA CatchKeeps == ASSUME IInv, NEW a \in Assignments, Catch(a) PROVE IInv'
<1> USE DEF Catch, durable
<1>1. place = "batch" /\ step \in [Assignments -> Step]
  BY DEF IInv, Placed, Idle, TypeOK
<1>2. PICK to \in {"failed", "cancelled"} : step' = [step EXCEPT ![a] = to]
  OBVIOUS
<1>3. tally' \in Book
  BY ReconciledType DEF IInv, TypeOK, Run
<1>4. disturbed' \in BOOLEAN
  <2>1. disturbed \in BOOLEAN /\ Overlap(a) \in BOOLEAN
    BY DEF IInv, TypeOK, Overlap
  <2>2. disturbed' = (disturbed \/ Overlap(a))
    BY Zenon
  <2> QED BY <2>1, <2>2, Zenon
<1>5. TypeOK'
  BY <1>2, <1>3, <1>4 DEF IInv, TypeOK, Step
<1>6. Stepping'
  BY <1>1, <1>2 DEF Stepping, IInv, ParentStarted
<1> QED BY <1>1, <1>5, <1>6, StepKeeps

LEMMA LaunchKeeps == ASSUME IInv, NEW a \in Assignments, Launch(a) PROVE IInv'
<1> USE DEF Launch
<1>1. /\ place = "batch" /\ step \in [Assignments -> Step] /\ outcome[a] = "none"
      /\ cur.work[a] = "running" /\ run.work[a] = "running" /\ ParentStarted(a)
      /\ \A b \in DependsOn[a] : run.work[b] = "completed"
  BY DEF IInv, Placed, Idle, Stepping, TypeOK
<1>2. CASE /\ step' = [step EXCEPT ![a] = "caught"] /\ UNCHANGED <<tally, outcome, launches>>
           /\ upsets' = upsets \/ Upset
  <2>1. TypeOK'
    <3>1. upsets' \in 0..MaxUpsets
      BY <1>2 DEF IInv, TypeOK, Upset
    <3> QED BY <1>2, <3>1 DEF IInv, TypeOK, history, Step
  <2>2. Stepping'
    BY <1>1, <1>2 DEF Stepping, IInv, ParentStarted
  <2> QED BY <1>1, <1>2, <2>1, <2>2, StepKeeps DEF durable, history
<1>3. CASE /\ tally' = [tally EXCEPT !.started = @ + 1]
           /\ outcome' = [outcome EXCEPT ![a] = "open"]
           /\ launches' = [launches EXCEPT ![a] = @ + 1]
           /\ step' = [step EXCEPT ![a] = "working"]
           /\ UNCHANGED upsets
  <2>1. TypeOK'
    <3>1. tally' \in Book
      BY <1>3 DEF IInv, TypeOK, Book
    <3>2. outcome' \in [Assignments -> Outcome] /\ launches' \in [Assignments -> Nat]
      BY <1>3 DEF IInv, TypeOK, Outcome
    <3> QED BY <1>3, <3>1, <3>2 DEF IInv, TypeOK, history, Step
  <2>2. /\ \A b \in Assignments : b # a => outcome'[b] = outcome[b]
        /\ outcome'[a] = "open"
        /\ \A b \in Assignments : ParentStarted(b) => ParentStarted(b)'
    BY <1>1, <1>3 DEF IInv, TypeOK, ParentStarted
  <2>3. Sound(run)'
    <3>1. UNCHANGED run
      OBVIOUS
    <3>2. Recorded(run)'
      BY <1>1, <2>2, <3>1 DEF IInv, Sound, Recorded
    <3>3. \A b \in Assignments : run.work[b] = "completed" => outcome'[b] = "good"
      BY <1>1, <2>2 DEF IInv, Sound
    <3>4. \A b \in run.team :
            /\ ParentStarted(b)'
            /\ \A d \in DependsOn[b] : run.work[d] = "completed" \/ d \in run.team
      <4>1. run.team \subseteq Assignments
        BY DEF IInv, TypeOK, Run
      <4> QED BY <2>2, <4>1 DEF IInv, Sound
    <3> QED BY <3>1, <3>2, <3>3, <3>4 DEF IInv, Sound, AllCompleted
  <2>4. InOrder(run)'
    BY <1>1, <2>2 DEF IInv, InOrder
  <2>5. Launched'
    BY <1>1, <1>3 DEF IInv, Launched, TypeOK, history
  <2>6. Agree' /\ Placed'
    BY <1>1, <2>2 DEF IInv, Agree, Follows, Recorded, Placed, Resuming
  <2>7. Stepping'
    BY <1>1, <1>3, <2>2 DEF IInv, Stepping
  <2> QED BY <2>1, <2>3, <2>4, <2>5, <2>6, <2>7 DEF IInv
<1> QED BY <1>2, <1>3, Zenon

\* The call of an agent returns, in whatever state its log is.
LEMMA TurnEnds ==
  ASSUME IInv, NEW a \in Assignments, step[a] = "working",
         NEW end \in Terminal \union {"open"}, NEW to \in {"done", "caught"},
         to = "done" => end = "good",
         outcome' = [outcome EXCEPT ![a] = end],
         step' = [b \in Assignments |->
                    IF b = a THEN to ELSE IF ParentOf[b] = a THEN "idle" ELSE step[b]],
         tally' \in Book, belied' \subseteq belied \union {a}, upsets' \in 0..MaxUpsets,
         UNCHANGED <<run, launches, place, cur, behind, recovering, aborted, moved,
                     disturbed, exposed>>
  PROVE  IInv'
<1>1. place = "batch" /\ step \in [Assignments -> Step] /\ outcome[a] = "open"
  BY DEF IInv, Placed, Idle, Stepping, TypeOK
<1>2. outcome'[a] = end /\ end # "none"
  BY DEF IInv, TypeOK, Terminal, Finished
<1>3. \A b \in Assignments :
        /\ b # a => outcome'[b] = outcome[b]
        /\ outcome[b] # "none" => outcome'[b] # "none"
        /\ outcome'[b] # "none" => outcome[b] # "none"
        /\ ParentStarted(b) => ParentStarted(b)'
  BY <1>1, <1>2 DEF IInv, TypeOK, ParentStarted
<1>4. TypeOK'
  <2>1. outcome' \in [Assignments -> Outcome]
    BY DEF IInv, TypeOK, Outcome
  <2>2. step' \in [Assignments -> Step]
    BY <1>1 DEF Step
  <2> QED BY <2>1, <2>2 DEF IInv, TypeOK
<1>5. Sound(run)'
  <2>1. run.work[a] # "completed"
    BY <1>1 DEF IInv, Sound
  <2>2. run.team \subseteq Assignments
    BY DEF IInv, TypeOK, Run
  <2> QED BY <1>3, <2>1, <2>2 DEF IInv, Sound, Recorded, AllCompleted
<1>6. InOrder(run)' /\ Launched'
  BY <1>1, <1>3 DEF IInv, InOrder, Launched
<1>7. Agree' /\ Placed'
  BY <1>1, <1>3 DEF IInv, Agree, Follows, Recorded, Placed, Resuming
<1>8. Stepping'
  BY <1>1, <1>2, <1>3 DEF IInv, Stepping
<1> QED BY <1>4, <1>5, <1>6, <1>7, <1>8 DEF IInv

LEMMA EndTurnKeeps == ASSUME IInv, NEW a \in Assignments, EndTurn(a) PROVE IInv'
<1>1. PICK end \in Terminal :
        /\ outcome' = [outcome EXCEPT ![a] = end]
        /\ step' = [b \in Assignments |->
                     IF b = a THEN IF end = "good" /\ ~tally.over THEN "done" ELSE "caught"
                     ELSE IF ParentOf[b] = a THEN "idle" ELSE step[b]]
        /\ \/ tally' = [Bills(tally, a) EXCEPT !.over = @ \/ end = "dear"]
           \/ end \notin Finished /\ UNCHANGED tally
  BY Zenon DEF EndTurn
<1>2. PICK to \in {"done", "caught"} :
        /\ to = "done" => end = "good"
        /\ outcome' = [outcome EXCEPT ![a] = end]
        /\ step' = [b \in Assignments |->
                      IF b = a THEN to ELSE IF ParentOf[b] = a THEN "idle" ELSE step[b]]
  BY <1>1
<1>3. tally' \in Book
  <2>1. Bills(tally, a) \in Book /\ tally \in Book
    BY BillsType DEF IInv, TypeOK
  <2>2. [Bills(tally, a) EXCEPT !.over = @ \/ end = "dear"] \in Book
    <3> DEFINE t == Bills(tally, a)
    <3>1. (t.over \/ end = "dear") \in BOOLEAN
      OBVIOUS
    <3>2. \A f \in BOOLEAN : [t EXCEPT !.over = f] \in Book
      BY <2>1 DEF Book
    <3> HIDE DEF t
    <3>3. [t EXCEPT !.over = (t.over \/ end = "dear")] \in Book
      BY <3>1, <3>2, Zenon
    <3> QED BY <3>3 DEF t
  <2> QED BY <1>1, <2>1, <2>2, Zenon
<1>4. /\ step[a] = "working" /\ belied' \subseteq belied \union {a} /\ upsets' \in 0..MaxUpsets
      /\ UNCHANGED <<run, launches, place, cur, behind, recovering, aborted, moved,
                     disturbed, exposed>>
  BY DEF EndTurn, history, IInv, TypeOK
<1>5. end \in Terminal \union {"open"}
  OBVIOUS
<1> QED BY <1>2, <1>3, <1>4, <1>5, TurnEnds

LEMMA EndTurnUnheardKeeps ==
  ASSUME IInv, NEW a \in Assignments, EndTurnUnheard(a)
  PROVE  IInv'
<1>1. PICK end \in Finished \union {"open"} :
        /\ outcome' = [outcome EXCEPT ![a] = end]
        /\ \/ tally' = Bills(tally, a)
           \/ end = "open" /\ UNCHANGED tally
  BY Zenon DEF EndTurnUnheard
<1>2. tally' \in Book
  BY <1>1, BillsType DEF IInv, TypeOK
<1>3. /\ step[a] = "working" /\ belied' \subseteq belied \union {a} /\ upsets' \in 0..MaxUpsets
      /\ step' = [b \in Assignments |->
                    IF b = a THEN "caught" ELSE IF ParentOf[b] = a THEN "idle" ELSE step[b]]
      /\ UNCHANGED <<run, launches, place, cur, behind, recovering, aborted, moved,
                     disturbed, exposed>>
  BY DEF EndTurnUnheard, Upset, IInv, TypeOK
<1>4. end \in Terminal \union {"open"}
  BY DEF Terminal
<1> QED BY <1>1, <1>2, <1>3, <1>4, TurnEnds

(***************************************************************************)
(* The supervisor's loop.                                                  *)
(***************************************************************************)
LEMMA DecisionsKeep ==
  ASSUME IInv, StopRecovery \/ GiveUp \/ Decide \/ EngageTeam \/ EndBatch \/ Stall \/ EndRecovery
  PROVE  IInv'
<1> DEFINE To == {"off", "failing", "cancelling", "failed", "completed", "marking",
                  "blocking", "loop"}
<1>1. PICK p \in To : Go(p)
  BY DEF StopRecovery, GiveUp, Decide, EngageTeam, EndBatch, Stall, EndRecovery
<1>2. place # "off" /\ step = Idle
  BY DEF StopRecovery, GiveUp, Decide, EngageTeam, EndBatch, Stall, EndRecovery, AtLoop,
         IInv, Placed
<1>3. p = "completed" => AllCompleted(cur)
  <2>1. CASE Decide /\ place' = "completed"
    <3>1. /\ In(cur, "failed") = {} /\ In(cur, "cancelled") = {} /\ In(cur, "pending") = {}
          /\ In(cur, "blocked") = {} /\ In(cur, "running") = {}
      BY <2>1 DEF Decide, Lost, Go, Supervisor
    <3>2. \A a \in Assignments : cur.work[a] \in WorkStatus
      BY DEF IInv, TypeOK, Run
    <3> QED BY <3>1, <3>2 DEF AllCompleted, In, WorkStatus
  <2>2. CASE ~Decide
    BY <1>1, <2>2 DEF StopRecovery, GiveUp, EngageTeam, EndBatch, Stall, EndRecovery, Go, Supervisor
  <2>3. place' = p
    BY <1>1 DEF Go, Supervisor
  <2> QED BY <2>1, <2>2, <2>3
<1>4. p \in Place \ {"batch", "opening", "team"} /\ ~Resuming(p)
  BY DEF Place, Resuming
<1> QED BY <1>1, <1>2, <1>3, <1>4, GoKeeps

LEMMA StartBatchKeeps == ASSUME IInv, StartBatch PROVE IInv'
<1> USE DEF StartBatch, durable, history
<1>1. place = "loop" /\ step = Idle
  BY DEF AtLoop, IInv, Placed
<1>2. PICK S \in SUBSET ReadyDirect(cur) : Ask(S)
  OBVIOUS
<1>3. \A a \in Assignments : step'[a] = IF a \in S THEN "asked" ELSE "idle"
  BY <1>1, <1>2 DEF Ask, Idle
<1>4. TypeOK'
  <2>1. step' \in [Assignments -> Step]
    BY <1>1, <1>2 DEF Ask, Idle, Step
  <2> QED BY <2>1 DEF IInv, TypeOK, Place, history
<1>5. Sound(run)' /\ InOrder(run)' /\ Launched'
  BY DEF IInv, Sound, InOrder, Launched, Recorded, ParentStarted, AllCompleted
<1>6. Agree' /\ Placed'
  BY <1>1 DEF IInv, Agree, Follows, Recorded, Placed, Resuming
<1>7. Stepping'
  <2>1. \A a \in S : /\ outcome[a] = "none"
                     /\ ParentOf[a] # NoParent => cur.work[ParentOf[a]] = "completed"
                     /\ \A b \in DependsOn[a] : cur.work[b] = "completed"
    BY <1>1 DEF IInv, ReadyDirect, Ready, In, Agree, Recorded
  <2>2. \A a \in S : /\ ParentStarted(a)
                     /\ \A b \in DependsOn[a] : run.work[b] = "completed"
    <3> SUFFICES ASSUME NEW a \in S
                 PROVE  ParentStarted(a) /\ \A b \in DependsOn[a] : run.work[b] = "completed"
      OBVIOUS
    <3>1. a \in Assignments /\ DependsOn[a] \subseteq Assignments
      BY DEF ReadyDirect
    <3>2. ParentOf[a] # NoParent => ParentOf[a] \in Assignments
      BY <3>1
    <3> QED BY <1>1, <2>1, <3>1, <3>2 DEF IInv, Agree, Follows, Sound, ParentStarted
  <2>3. UNCHANGED <<run, outcome, cur>>
    OBVIOUS
  <2> QED BY <1>3, <2>1, <2>2, <2>3 DEF Stepping, ParentStarted
<1> QED BY <1>4, <1>5, <1>6, <1>7 DEF IInv

\* A record that ends assignments, truly, says what is true.
LEMMA EndingKeeps ==
  ASSUME IInv, place # "off",
         NEW next \in Run, next.team = cur.team, next.status = cur.status,
         \A a \in Assignments :
           \/ next.work[a] = cur.work[a]
           \/ next.work[a] \in {"failed", "cancelled"}
           \/ next.work[a] = "completed" /\ outcome[a] = "good"
           \/ next.work[a] = "blocked" /\ cur.work[a] = "pending"
  PROVE  /\ AgentsEnded(cur) => AgentsEnded(next)
         /\ Admits(next) => Sound(next) /\ cur.team \subseteq next.team
<1>1. AgentsEnded(cur) => AgentsEnded(next)
  BY DEF AgentsEnded
<1>2. ASSUME Admits(next) PROVE Sound(next)
  <2>1. cur = run /\ next.status # "completed"
    BY <1>2, AdmitsLast, Admitted DEF Unresolved, IInv
  <2>2. \A a \in Assignments : cur.work[a] = "completed" => next.work[a] = "completed"
    BY <1>2, Admitted DEF IInv
  <2>3. Recorded(next)
    BY <2>1 DEF IInv, Sound, Recorded
  <2>4. \A a \in Assignments : next.work[a] = "completed" => outcome[a] = "good"
    BY <2>1 DEF IInv, Sound
  <2>5. \A a \in next.team :
          /\ ParentStarted(a)
          /\ \A b \in DependsOn[a] : next.work[b] = "completed" \/ b \in next.team
    <3>1. next.team \subseteq Assignments
      BY DEF Run
    <3> QED BY <2>1, <2>2, <3>1 DEF IInv, Sound
  <2> QED BY <2>1, <2>3, <2>4, <2>5 DEF Sound
<1> QED BY <1>1, <1>2

LEMMA BlockPendingKeeps == ASSUME IInv, BlockPending PROVE IInv'
<1> DEFINE n == Blocked(cur)
<1>1. place # "off" /\ step = Idle
  BY DEF BlockPending, IInv, Placed
<1>2. PICK p \in {"loop", "failed", "cancelled"} : Write(n, p, "off")
  BY DEF BlockPending
<1>3. /\ n \in Run /\ n.team = cur.team /\ n.status = cur.status
      /\ n.work = [a \in Assignments |-> IF cur.work[a] = "pending" THEN "blocked" ELSE cur.work[a]]
  <2>1. cur \in Run /\ tally \in Book
    BY DEF IInv, TypeOK
  <2>2. [a \in Assignments |-> IF cur.work[a] = "pending" THEN "blocked" ELSE cur.work[a]]
          \in [Assignments -> WorkStatus]
    BY <2>1 DEF Run, WorkStatus
  <2> QED BY <2>1, <2>2 DEF Blocked, Run
<1>4. \A a \in Assignments :
        n.work[a] = cur.work[a] \/ (n.work[a] = "blocked" /\ cur.work[a] = "pending")
  BY <1>3
<1> HIDE DEF n
<1>5. Admits(n) => Sound(n) /\ cur.team \subseteq n.team
  BY <1>1, <1>3, <1>4, EndingKeeps
<1>6. {p, "off"} \subseteq Place \ {"batch", "opening", "completed", "team"}
      /\ ~Resuming(p) /\ ~Resuming("off")
  BY DEF Place, Resuming
<1> QED BY <1>1, <1>2, <1>3, <1>5, <1>6, WriteKeeps

LEMMA ConcludeKeeps == ASSUME IInv, Conclude PROVE IInv'
<1> DEFINE n == [cur EXCEPT !.status = place, !.book = tally]
<1>1. place \in {"completed", "failed", "cancelled"} /\ place # "off" /\ step = Idle
  BY DEF Conclude, IInv, Placed
<1>2. n \in Run /\ n.work = cur.work /\ n.team = cur.team /\ n.status = place
  BY <1>1 DEF IInv, TypeOK, Run, GoalStatus
<1>3. place = "completed" => AllCompleted(cur)
  BY DEF IInv, Placed
<1>4. Write(n, "off", "off")
  BY DEF Conclude
<1> HIDE DEF n
<1>5. Admits(n) => Sound(n)
  BY <1>1, <1>2, <1>3, StatusKeeps, AdmitsLast
<1>6. "off" \in Place \ {"batch", "opening", "completed", "team"} /\ ~Resuming("off")
  BY DEF Place, Resuming
<1> QED BY <1>1, <1>2, <1>4, <1>5, <1>6, WriteKeeps

(***************************************************************************)
(* Teams.                                                                  *)
(***************************************************************************)
LEMMA WithWorkType ==
  ASSUME NEW r \in Run, NEW S, NEW w \in WorkStatus
  PROVE  /\ WithWork(r, S, w) \in Run
         /\ WithWork(r, S, w) = [r EXCEPT !.work = WithWork(r, S, w).work]
         /\ \A a \in Assignments :
              WithWork(r, S, w).work[a] = IF a \in S THEN w ELSE r.work[a]
<1>1. [a \in Assignments |-> IF a \in S THEN w ELSE r.work[a]] \in [Assignments -> WorkStatus]
  BY DEF Run
<1> QED BY <1>1 DEF WithWork, Run

LEMMA BilledType ==
  ASSUME NEW r \in Run, NEW S
  PROVE  Billed(r, S) \in Run /\ Billed(r, S).work = r.work /\ Billed(r, S).team = r.team
         /\ Billed(r, S).status = r.status
<1> DEFINE u == [a \in Assignments |-> IF a \in S THEN r.book.used[a] + 1 ELSE r.book.used[a]]
<1> DEFINE o == r.book.over \/ \E a \in S : outcome[a] = "dear"
<1>1. r.book \in Book
  BY DEF Run
<1>2. u \in Bill
  BY <1>1 DEF Book, Bill
<1>3. o \in BOOLEAN
  OBVIOUS
<1>4. Billed(r, S) = [r EXCEPT !.book = [r.book EXCEPT !.used = u, !.over = o]]
  BY <1>1 DEF Billed, Run, Book
<1> HIDE DEF u, o
<1>5. [r.book EXCEPT !.used = u, !.over = o] \in Book
  BY <1>1, <1>2, <1>3 DEF Book
<1> QED BY <1>4, <1>5 DEF Run

\* A reviewer in the frontier is at the top; an implementer's parent is completed.
LEMMA FrontierInOrder ==
  ASSUME NEW r \in Run, NEW a \in Frontier(r)
  PROVE  /\ a \in Assignments
         /\ r.work[a] = "pending"
         /\ ParentOf[a] # NoParent => ParentOf[a] \in Assignments /\ r.work[ParentOf[a]] = "completed"
         /\ \A b \in DependsOn[a] : r.work[b] = "completed" \/ b \in Frontier(r)
<1>1. CASE a \in Reviewed(r)
  BY <1>1 DEF Reviewed, ReadyImplementers, Ready, In
<1>2. CASE a \in EligibleReviewers(r)
  <2>1. a \in Reviewers /\ a \in Assignments /\ r.work[a] = "pending"
        /\ DependsOn[a] \subseteq Assignments
    BY <1>2 DEF EligibleReviewers
  <2>2. \A b \in DependsOn[a] : r.work[b] = "completed" \/ b \in ReadyImplementers(r)
    BY <1>2 DEF EligibleReviewers, In
  <2>3. \A b \in DependsOn[a] : b \in ReadyImplementers(r) => b \in Frontier(r)
    BY <1>2 DEF Frontier, Reviewed
  <2> QED BY <2>1, <2>2, <2>3
<1> QED BY <1>1, <1>2 DEF Frontier

LEMMA MarkTeamKeeps == ASSUME IInv, MarkTeam PROVE IInv'
<1> DEFINE F == Frontier(cur)
<1> DEFINE m == WithWork(cur, F, "running")
<1> DEFINE n == [m EXCEPT !.team = @ \union F, !.book.started = @ + Cardinality(F)]
<1>1. place = "marking" /\ place # "off" /\ step = Idle /\ Write(n, "team", "blocking")
  BY DEF MarkTeam, IInv, Placed
<1>2. cur \in Run /\ F \subseteq Assignments
  BY FrontierInOrder DEF IInv, TypeOK
<1>3. Cardinality(F) \in Nat
  BY <1>2, FS_Subset, FS_CardinalityType
<1>4. /\ m \in Run /\ m.team = cur.team /\ m.status = cur.status
      /\ \A a \in Assignments : m.work[a] = IF a \in F THEN "running" ELSE cur.work[a]
  BY <1>2, WithWorkType DEF WorkStatus, Run
<1> HIDE DEF F, m
<1>5. /\ n \in Run /\ n.team = cur.team \union F /\ n.status = cur.status /\ n.work = m.work
  <2>1. m.book \in Book
    BY <1>4 DEF Run
  <2>2. [m.book EXCEPT !.started = @ + Cardinality(F)] \in Book
    BY <1>3, <2>1 DEF Book
  <2>3. n = [m EXCEPT !.team = m.team \union F,
                      !.book = [m.book EXCEPT !.started = @ + Cardinality(F)]]
    BY <1>4, <2>1 DEF Run
  <2> QED BY <1>2, <1>4, <2>2, <2>3 DEF Run
<1> HIDE DEF n
<1>6. ASSUME Admits(n) PROVE Sound(n)
  <2>1. cur = run /\ n.status # "completed"
    BY <1>1, <1>5, <1>6, AdmitsLast, Admitted DEF Unresolved, IInv
  <2>2. \A a \in Assignments : cur.work[a] = "completed" => n.work[a] = "completed"
    BY <1>5, <1>6, Admitted DEF IInv
  <2>3. Recorded(n)
    BY <1>4, <1>5, <2>1 DEF IInv, Sound, Recorded
  <2>4. \A a \in Assignments : n.work[a] = "completed" => outcome[a] = "good"
    BY <1>4, <1>5, <2>1 DEF IInv, Sound
  <2>5. ASSUME NEW a \in n.team
        PROVE  /\ ParentStarted(a)
               /\ \A b \in DependsOn[a] : n.work[b] = "completed" \/ b \in n.team
    <3>1. CASE a \in cur.team
      <4>1. a \in Assignments
        BY <1>2, <3>1 DEF Run
      <4> QED BY <1>5, <2>1, <2>2, <3>1, <4>1 DEF IInv, Sound
    <3>2. CASE a \in F
      <4>1. /\ a \in Assignments
            /\ ParentOf[a] # NoParent =>
                 ParentOf[a] \in Assignments /\ cur.work[ParentOf[a]] = "completed"
            /\ \A b \in DependsOn[a] : cur.work[b] = "completed" \/ b \in F
        BY <1>2, <3>2, FrontierInOrder DEF F
      <4>2. ParentStarted(a)
        BY <2>1, <4>1 DEF IInv, Sound, ParentStarted
      <4> QED BY <1>5, <2>2, <4>1, <4>2
    <3> QED BY <1>5, <2>5, <3>1, <3>2
  <2> QED BY <2>1, <2>3, <2>4, <2>5 DEF Sound
<1>7. {"team", "blocking"} \subseteq Place \ {"batch", "opening", "completed"}
      /\ ~Resuming("team") /\ ~Resuming("blocking")
  BY DEF Place, Resuming
<1>8. cur.team \subseteq n.team
  BY <1>5
<1> QED BY <1>1, <1>5, <1>6, <1>7, <1>8, WriteKeeps

\* The logs of a team that is recorded as running go on.
LEMMA LogsKeep ==
  ASSUME IInv, step = Idle, UNCHANGED <<run, cur, behind, step>>,
         TypeOK', Launched', Placed', place' = "off" <=> place = "off",
         NEW M, M \subseteq Members(run),
         place # "off" => \A a \in M : cur.work[a] \notin {"pending", "blocked"},
         \A a \in M : outcome'[a] # "none",
         \A a \in Assignments \ M : outcome'[a] = outcome[a]
  PROVE  IInv'
<1>1. M \subseteq run.team /\ run.team \subseteq Assignments /\ \A a \in M : run.work[a] = "running"
  BY DEF Members, IInv, TypeOK, Run
<1>2. \A a \in Assignments : /\ outcome[a] # "none" => outcome'[a] # "none"
                             /\ ParentStarted(a) => ParentStarted(a)'
  BY <1>1 DEF ParentStarted
<1>3. Sound(run)'
  <2>1. Recorded(run)'
    BY <1>1 DEF IInv, Sound, Recorded
  <2>2. \A a \in Assignments : run.work[a] = "completed" => outcome'[a] = "good"
    BY <1>1 DEF IInv, Sound
  <2> QED BY <1>1, <1>2, <2>1, <2>2 DEF IInv, Sound, AllCompleted
<1>4. InOrder(run)'
  <2> SUFFICES ASSUME NEW a \in Assignments, outcome'[a] # "none"
               PROVE  /\ ParentStarted(a)'
                      /\ \A b \in DependsOn[a] :
                           run.work[b] = "completed" \/ {a, b} \subseteq run.team
    BY DEF InOrder
  <2>1. CASE a \in M
    BY <1>1, <1>2, <2>1 DEF IInv, Sound
  <2>2. CASE a \notin M
    BY <1>2, <2>2 DEF IInv, InOrder
  <2> QED BY <2>1, <2>2
<1>5. Agree'
  BY DEF IInv, Agree, Follows, Recorded
<1>6. Stepping'
  BY DEF Stepping, Idle
<1> QED BY <1>3, <1>4, <1>5, <1>6 DEF IInv

LEMMA StartTeamKeeps == ASSUME IInv, StartTeam PROVE IInv'
<1> USE DEF StartTeam, volatile, history
<1>1. place = "team" /\ step = Idle /\ cur = run
  BY DEF IInv, Placed, Agree
<1>2. outcome' = [a \in Assignments |-> IF a \in Members(cur) THEN "open" ELSE outcome[a]]
  OBVIOUS
<1>3. TypeOK'
  BY <1>2 DEF IInv, TypeOK, history, Outcome
<1>4. Launched'
  BY <1>2 DEF IInv, Launched, TypeOK
<1>5. Placed'
  BY <1>1 DEF IInv, Placed, Resuming
<1>6. Members(cur) \subseteq Assignments /\ \A a \in Members(cur) : cur.work[a] = "running"
  BY DEF Members, IInv, TypeOK, Run
<1> QED BY <1>1, <1>2, <1>3, <1>4, <1>5, <1>6, LogsKeep

LEMMA EndTeamKeeps == ASSUME IInv, EndTeam PROVE IInv'
<1> USE DEF EndTeam, history
<1>1. place = "team" /\ step = Idle /\ cur = run
  BY DEF IInv, Placed, Agree
<1>2. PICK end \in Terminal \union {"open"} :
        outcome' = [a \in Assignments |-> IF a \in Members(cur) THEN end ELSE outcome[a]]
  OBVIOUS
<1>3. TypeOK'
  BY <1>2 DEF IInv, TypeOK, Outcome, Place
<1>4. Launched'
  BY <1>2 DEF IInv, Launched, Terminal, Finished
<1>5. Placed'
  BY <1>1 DEF IInv, Placed, Resuming
<1>6. Members(cur) \subseteq Assignments /\ \A a \in Members(cur) : cur.work[a] = "running"
  BY DEF Members, IInv, TypeOK, Run
<1>7. end # "none"
  BY DEF Terminal, Finished
<1>8. place' = "settling" /\ UNCHANGED <<run, cur, behind, step>>
  OBVIOUS
<1> QED BY <1>1, <1>2, <1>3, <1>4, <1>5, <1>6, <1>7, <1>8, LogsKeep

LEMMA EndTeamUnheardKeeps == ASSUME IInv, EndTeamUnheard PROVE IInv'
<1> USE DEF EndTeamUnheard, volatile
<1>1. place = "team" /\ step = Idle /\ cur = run
  BY DEF IInv, Placed, Agree
<1>2. PICK end \in Terminal :
        outcome' = [a \in Assignments |-> IF a \in Members(cur) THEN end ELSE outcome[a]]
  OBVIOUS
<1>3. Members(cur) \subseteq Assignments /\ \A a \in Members(cur) : cur.work[a] = "running"
  BY DEF Members, IInv, TypeOK, Run
<1>4. TypeOK'
  <2>1. upsets' \in 0..MaxUpsets /\ belied' \in SUBSET Assignments
    BY <1>3 DEF Upset, IInv, TypeOK
  <2> QED BY <1>2, <2>1 DEF IInv, TypeOK, Outcome
<1>5. Launched'
  BY <1>2 DEF IInv, Launched, Terminal, Finished
<1>6. Placed'
  BY <1>1 DEF IInv, Placed, Resuming
<1>7. end # "none"
  BY DEF Terminal, Finished
<1> QED BY <1>1, <1>2, <1>3, <1>4, <1>5, <1>6, <1>7, LogsKeep

LEMMA ResumeTeamKeeps == ASSUME IInv, ResumeTeam PROVE IInv'
<1> USE DEF ResumeTeam, history, volatile
<1>1. place # "batch" /\ step = Idle
  BY DEF IInv, Placed
<1>2. PICK end \in Terminal :
        outcome' = [a \in Assignments |-> IF a \in Members(run) THEN end ELSE outcome[a]]
  OBVIOUS
<1>3. TypeOK'
  BY <1>2 DEF IInv, TypeOK, Outcome
<1>4. Launched'
  BY <1>2 DEF IInv, Launched, Terminal, Finished
<1>5. Placed'
  BY <1>1, <1>2 DEF IInv, Placed, Resuming, AgentsEnded, AllCompleted
<1>6. Members(run) \subseteq Assignments
  BY DEF Members, IInv, TypeOK, Run
<1>7. place # "off" => \A a \in Members(run) : cur.work[a] \notin {"pending", "blocked"}
  BY <1>6 DEF IInv, Agree, Recorded
<1>8. end # "none"
  BY DEF Terminal, Finished
<1> QED BY <1>1, <1>2, <1>3, <1>4, <1>5, <1>6, <1>7, <1>8, LogsKeep

\* Updates that end what a team works on, or interrupt the goal.
LEMMA EndTeamWork ==
  ASSUME IInv, place # "off", step = Idle,
         NEW r \in Run, r.work = cur.work, r.team = cur.team, r.status = cur.status,
         NEW w \in {"completed", "failed", "cancelled"},
         w = "completed" => \A a \in Members(cur) : outcome[a] = "good",
         NEW then \in Place \ {"batch", "opening", "completed", "team"},
         NEW else \in Place \ {"batch", "opening", "completed", "team"},
         Resuming(then) \/ Resuming(else) => AgentsEnded(cur),
         Write(WithWork(r, Members(cur), w), then, else)
  PROVE  IInv'
<1> DEFINE n == WithWork(r, Members(cur), w)
<1>1. /\ n \in Run /\ n.team = cur.team /\ n.status = cur.status
      /\ \A a \in Assignments : n.work[a] = IF a \in Members(cur) THEN w ELSE cur.work[a]
  BY WithWorkType DEF WorkStatus, Run
<1> HIDE DEF n
<1>2. /\ AgentsEnded(cur) => AgentsEnded(n)
      /\ Admits(n) => Sound(n) /\ cur.team \subseteq n.team
  BY <1>1, EndingKeeps
<1> QED BY <1>1, <1>2, WriteKeeps DEF n

LEMMA DroppedKeeps ==
  ASSUME IInv, place # "off", step = Idle,
         NEW then \in Place \ {"batch", "opening", "completed", "team"},
         NEW else \in Place \ {"batch", "opening", "completed", "team"},
         Resuming(then) \/ Resuming(else) => AgentsEnded(cur),
         Write(Dropped, then, else)
  PROVE  IInv'
<1> DEFINE r == Billed(cur, Members(cur))
<1>1. cur \in Run
  BY DEF IInv, TypeOK
<1>2. r \in Run /\ r.work = cur.work /\ r.team = cur.team /\ r.status = cur.status
  BY <1>1, BilledType
<1>3. PICK w \in {"failed", "cancelled"} : Dropped = WithWork(r, Members(cur), w)
  BY DEF Dropped
<1> HIDE DEF r
<1> QED BY <1>2, <1>3, EndTeamWork

LEMMA SettleKeeps ==
  ASSUME IInv, place # "off", step = Idle,
         NEW then \in {"loop", "resuming"}, NEW retry \in {"dropping", "redropping"},
         NEW else \in {"blocking", "off"},
         Resuming(then) \/ Resuming(retry) => AgentsEnded(cur),
         SettleTeam(then, retry, else)
  PROVE  IInv'
<1>1. {then, retry, else, "off"} \subseteq Place \ {"batch", "opening", "completed", "team"}
      /\ ~Resuming(else) /\ ~Resuming("off")
  BY DEF Place, Resuming
<1>2. CASE Write(Dropped, then, else)
  BY <1>1, <1>2, DroppedKeeps
<1>3. CASE /\ \A a \in Members(cur) : outcome[a] = "good"
           /\ Write(WithWork(Billed(cur, Members(cur)), Members(cur), "completed"), then, retry)
  <2> DEFINE r == Billed(cur, Members(cur))
  <2>1. r \in Run /\ r.work = cur.work /\ r.team = cur.team /\ r.status = cur.status
    BY BilledType DEF IInv, TypeOK
  <2> HIDE DEF r
  <2> QED BY <1>1, <1>3, <2>1, EndTeamWork DEF r
<1>4. CASE Write([cur EXCEPT !.status = "interrupted"], "off", else)
  <2> DEFINE n == [cur EXCEPT !.status = "interrupted"]
  <2>1. n \in Run /\ n.work = cur.work /\ n.team = cur.team /\ n.status = "interrupted"
    BY DEF IInv, TypeOK, Run, GoalStatus, Unresolved
  <2>2. Write(n, "off", else)
    BY <1>4
  <2> HIDE DEF n
  <2>3. Admits(n) => Sound(n) /\ cur.team \subseteq n.team
    BY <2>1, StatusKeeps, AdmitsLast
  <2> QED BY <1>1, <2>1, <2>2, <2>3, WriteKeeps
<1> QED BY <1>2, <1>3, <1>4, Zenon DEF SettleTeam

LEMMA TeamEndsKeep ==
  ASSUME IInv, LoseTeam \/ Settle \/ Drop \/ RecoverTeam
  PROVE  IInv'
<1>1. place # "off" /\ step = Idle
  BY DEF LoseTeam, Settle, Drop, RecoverTeam, IInv, Placed
<1>2. {"loop", "blocking", "off", "resuming", "redropping"}
        \subseteq Place \ {"batch", "opening", "completed", "team"}
      /\ ~Resuming("loop") /\ ~Resuming("blocking") /\ ~Resuming("off") /\ ~Resuming("dropping")
  BY DEF Place, Resuming
<1>3. CASE LoseTeam
  <2>1. PICK w \in {"failed", "cancelled"} :
          Write(WithWork(cur, Members(cur), w), "loop", "blocking")
    BY <1>3 DEF LoseTeam
  <2>2. cur \in Run
    BY DEF IInv, TypeOK
  <2> QED BY <1>1, <1>2, <2>1, <2>2, EndTeamWork
<1>4. CASE Settle
  BY <1>1, <1>2, <1>4, SettleKeeps DEF Settle
<1>5. CASE Drop
  BY <1>1, <1>2, <1>5, DroppedKeeps DEF Drop
<1>6. CASE RecoverTeam
  <2>1. AgentsEnded(cur)
    BY <1>6 DEF RecoverTeam, IInv, Placed, Resuming
  <2>2. CASE SettleTeam("resuming", "redropping", "off")
    BY <1>1, <2>1, <2>2, SettleKeeps
  <2>3. CASE Write(Dropped, "resuming", "off")
    BY <1>1, <1>2, <2>1, <2>3, DroppedKeeps
  <2> QED BY <1>6, <2>2, <2>3 DEF RecoverTeam
<1> QED BY <1>3, <1>4, <1>5, <1>6

LEMMA RecoverAgentKeeps == ASSUME IInv, NEW a \in Assignments, RecoverAgent(a) PROVE IInv'
<1> DEFINE book == [Bills(tally, a) EXCEPT !.over = @ \/ outcome[a] = "dear"]
<1> DEFINE n1 == [cur EXCEPT !.work[a] = outcome[a], !.book = tally]
<1> DEFINE n2 == [cur EXCEPT !.work[a] = "completed", !.book = book]
<1>1. /\ place = "resuming" /\ step = Idle /\ Members(cur) = {} /\ cur.work[a] = "running"
      /\ AgentsEnded(cur) /\ cur \in Run /\ tally \in Book
  BY DEF RecoverAgent, IInv, Placed, Resuming, TypeOK
<1>2. outcome[a] \in Terminal
  BY <1>1 DEF AgentsEnded, Members
<1>3. \/ Go("off")
      \/ outcome[a] \in {"failed", "cancelled"} /\ Write(n1, "resuming", "off")
      \/ /\ outcome[a] \notin {"failed", "cancelled", "bare"} /\ ~book.over
         /\ Write(n2, "resuming", "off")
  BY Zenon DEF RecoverAgent
<1>4. {"resuming", "off"} \subseteq Place \ {"batch", "opening", "completed", "team"}
      /\ ~Resuming("off")
  BY DEF Place, Resuming
<1>5. CASE Go("off")
  BY <1>1, <1>4, <1>5, GoKeeps
<1>6. CASE outcome[a] \in {"failed", "cancelled"} /\ Write(n1, "resuming", "off")
  <2>1. /\ n1 \in Run /\ n1.team = cur.team /\ n1.status = cur.status
        /\ \A b \in Assignments : n1.work[b] = IF b = a THEN outcome[a] ELSE cur.work[b]
    BY <1>1, <1>6 DEF Run, WorkStatus
  <2>2. Write(n1, "resuming", "off")
    BY <1>6
  <2> HIDE DEF n1
  <2>3. /\ AgentsEnded(cur) => AgentsEnded(n1)
        /\ Admits(n1) => Sound(n1) /\ cur.team \subseteq n1.team
    BY <1>1, <1>6, <2>1, EndingKeeps
  <2> QED BY <1>1, <1>4, <2>1, <2>2, <2>3, WriteKeeps
<1>7. CASE /\ outcome[a] \notin {"failed", "cancelled", "bare"} /\ ~book.over
           /\ Write(n2, "resuming", "off")
  <2>1. Bills(tally, a) \in Book
    BY <1>1, BillsType
  <2>2. book \in Book /\ (book.over <=> Bills(tally, a).over \/ outcome[a] = "dear")
    <3> DEFINE t == Bills(tally, a)
    <3>1. (t.over \/ outcome[a] = "dear") \in BOOLEAN
      OBVIOUS
    <3>2. \A f \in BOOLEAN : [t EXCEPT !.over = f] \in Book /\ [t EXCEPT !.over = f].over = f
      BY <2>1 DEF Book
    <3> HIDE DEF t
    <3>3. [t EXCEPT !.over = (t.over \/ outcome[a] = "dear")] \in Book
          /\ [t EXCEPT !.over = (t.over \/ outcome[a] = "dear")].over
               = (t.over \/ outcome[a] = "dear")
      BY <3>1, <3>2, Zenon
    <3> QED BY <3>3 DEF t
  <2>3. outcome[a] = "good"
    BY <1>2, <1>7, <2>2 DEF Terminal, Finished
  <2>4. Write(n2, "resuming", "off")
    BY <1>7
  <2> HIDE DEF book
  <2>5. /\ n2 \in Run /\ n2.team = cur.team /\ n2.status = cur.status
        /\ \A b \in Assignments : n2.work[b] = IF b = a THEN "completed" ELSE cur.work[b]
    BY <1>1, <2>2 DEF Run, WorkStatus
  <2> HIDE DEF n2
  <2>6. /\ AgentsEnded(cur) => AgentsEnded(n2)
        /\ Admits(n2) => Sound(n2) /\ cur.team \subseteq n2.team
    BY <1>1, <2>3, <2>5, EndingKeeps
  <2> QED BY <1>1, <1>4, <2>4, <2>5, <2>6, WriteKeeps
<1> QED BY <1>3, <1>5, <1>6, <1>7

(***************************************************************************)
(* Upsets, and the invariant.                                              *)
(***************************************************************************)
LEMMA AbortKeeps == ASSUME IInv, Abort PROVE IInv'
<1> USE DEF Abort, durable, history
<1>1. upsets' \in 0..MaxUpsets
  BY DEF Upset, IInv, TypeOK
<1>2. TypeOK'
  <2>1. aborted' \in BOOLEAN
    OBVIOUS
  <2> QED BY <1>1, <2>1 DEF IInv, TypeOK
<1>3. Sound(run)' /\ InOrder(run)' /\ Launched' /\ Agree'
  BY DEF IInv, Sound, InOrder, Launched, Recorded, ParentStarted, AllCompleted, Agree, Follows
<1>4. Stepping' /\ Placed'
  BY DEF IInv, Stepping, ParentStarted, Placed, Resuming, AgentsEnded, AllCompleted
<1> QED BY <1>2, <1>3, <1>4 DEF IInv

LEMMA CrashKeeps == ASSUME IInv, Crash PROVE IInv'
<1> USE DEF Crash, durable, history
<1>1. upsets' \in 0..MaxUpsets
  BY DEF Upset, IInv, TypeOK
<1>2. Idle \in [Assignments -> Step] /\ "off" \in Place
  BY DEF Idle, Step, Place
<1>3. TypeOK'
  BY <1>1, <1>2, FirstRecords DEF IInv, TypeOK
<1>4. Sound(run)' /\ InOrder(run)' /\ Launched' /\ Agree'
  BY DEF IInv, Sound, InOrder, Launched, Recorded, ParentStarted, AllCompleted, Agree
<1>5. Stepping' /\ Placed'
  BY DEF Stepping, Placed, Idle, Resuming
<1> QED BY <1>3, <1>4, <1>5 DEF IInv

LEMMA StepIInv == IInv /\ [Next]_vars => IInv'
<1> SUFFICES ASSUME IInv, [Next]_vars PROVE IInv'
  OBVIOUS
<1>1. CASE Start
  BY <1>1, StartKeeps
<1>2. CASE Resume
  BY <1>2, ResumeKeeps
<1>3. CASE \E a \in Assignments : HandOff(a)
  BY <1>3, HandOffKeeps
<1>4. CASE \E a \in Assignments : Execute(a)
  BY <1>4, ClaimKeeps, MarkKeeps, LaunchKeeps, EndTurnKeeps, EndTurnUnheardKeeps,
     CompleteKeeps, CatchKeeps, FailKeeps DEF Execute
<1>5. CASE Supervise
  <2>1. CASE StopRecovery \/ GiveUp \/ Decide \/ EngageTeam \/ EndBatch \/ Stall \/ EndRecovery
    BY <2>1, DecisionsKeep
  <2>2. CASE LoseTeam \/ Settle \/ Drop \/ RecoverTeam
    BY <2>2, TeamEndsKeep
  <2>3. CASE Open \/ StartBatch \/ BlockPending \/ Conclude
    BY <2>3, OpenKeeps, StartBatchKeeps, BlockPendingKeeps, ConcludeKeeps
  <2>4. CASE MarkTeam \/ StartTeam \/ EndTeam \/ EndTeamUnheard
    BY <2>4, MarkTeamKeeps, StartTeamKeeps, EndTeamKeeps, EndTeamUnheardKeeps
  <2>5. CASE \E a \in Assignments : RecoverAgent(a)
    BY <2>5, RecoverAgentKeeps
  <2> QED BY <1>5, <2>1, <2>2, <2>3, <2>4, <2>5 DEF Supervise
<1>6. CASE ResumeTeam
  BY <1>6, ResumeTeamKeeps
<1>7. CASE Abort \/ Crash
  BY <1>7, AbortKeeps, CrashKeeps
<1>8. CASE UNCHANGED vars
  <2> USE <1>8 DEF vars
  <2>1. TypeOK'
    BY DEF IInv, TypeOK
  <2>2. Sound(run)' /\ InOrder(run)' /\ Launched' /\ Agree'
    BY DEF IInv, Sound, InOrder, Launched, Recorded, ParentStarted, AllCompleted, Agree, Follows
  <2>3. Stepping' /\ Placed'
    BY DEF IInv, Stepping, ParentStarted, Placed, Resuming, AgentsEnded, AllCompleted, Idle
  <2> QED BY <2>1, <2>2, <2>3 DEF IInv
<1> QED BY <1>1, <1>2, <1>3, <1>4, <1>5, <1>6, <1>7, <1>8 DEF Next, Work

THEOREM IInvHolds == Spec => []IInv
<1>1. Init => IInv
  BY InitIInv
<1>2. IInv /\ [Next]_vars => IInv'
  BY StepIInv
<1> QED BY <1>1, <1>2, PTL DEF Spec

\* The types of the record, the budget, the logs and the supervisor's place, for
\* every plan.
THEOREM TypeCorrect == Spec => []TypeOK
<1>1. IInv => TypeOK
  BY DEF IInv
<1> QED BY <1>1, IInvHolds, PTL

\* However the supervisor is upset, an assignment has one agent or team, which was
\* recorded before it was created and comes after what it depends on.
THEOREM WorkIsStartedOnce == Spec => []WorkStartsOnce
<1>1. IInv => WorkStartsOnce
  BY DEF IInv, Launched, Sound, Recorded, InOrder, ParentStarted, WorkStartsOnce
<1> QED BY <1>1, IInvHolds, PTL

\* What the journal says is completed was completed by its agent or team.
THEOREM CompletionsHold == Spec => []CompletionsAreTrue
<1>1. IInv => CompletionsAreTrue
  BY DEF IInv, Sound, AllCompleted, CompletionsAreTrue
<1> QED BY <1>1, IInvHolds, PTL

(***************************************************************************)
(* How much is used.                                                       *)
(***************************************************************************)
Uses(used) == UNION {{a} \X (1..used[a]) : a \in Assignments}

LEMMA InUses ==
  ASSUME NEW used \in Bill, NEW use
  PROVE  use \in Uses(used) <=> /\ use \in Assignments \X Nat
                               /\ 1 <= use[2] /\ use[2] <= used[use[1]]
<1>1. ASSUME use \in Uses(used)
      PROVE  use \in Assignments \X Nat /\ 1 <= use[2] /\ use[2] <= used[use[1]]
  <2>1. PICK a \in Assignments : use \in {a} \X (1..used[a])
    BY <1>1 DEF Uses
  <2> QED BY <2>1 DEF Bill
<1>2. ASSUME use \in Assignments \X Nat, 1 <= use[2], use[2] <= used[use[1]]
      PROVE  use \in Uses(used)
  <2>1. use[1] \in Assignments /\ use \in {use[1]} \X (1..used[use[1]])
    BY <1>2 DEF Bill
  <2> QED BY <2>1 DEF Uses
<1> QED BY <1>1, <1>2

LEMMA UsesFinite ==
  ASSUME NEW used \in Bill
  PROVE  IsFiniteSet(Uses(used)) /\ Cardinality(Uses(used)) \in Nat
<1> DEFINE Of == [a \in Assignments |-> {a} \X (1..used[a])]
<1> DEFINE All == {Of[a] : a \in Assignments}
<1>1. ASSUME NEW a \in Assignments PROVE IsFiniteSet(Of[a])
  <2>0. used[a] \in Int
    BY DEF Bill
  <2>1. used[a] \in Int /\ IsFiniteSet({a})
    BY <2>0, FS_Singleton
  <2>2. IsFiniteSet(1..used[a])
    BY <2>1, FS_Interval
  <2> QED BY <2>1, <2>2, FS_Product
<1>2. Of \in Surjection(Assignments, All)
  BY DEF Surjection
<1>3. Uses(used) = UNION All
  BY DEF Uses
<1>4. \A x \in All : IsFiniteSet(x)
  BY <1>1
<1> HIDE DEF Of, All
<1>5. IsFiniteSet(All)
  BY <1>2, PlanAssumption, FS_Surjection DEF PlanAssumption
<1> QED BY <1>3, <1>4, <1>5, FS_UNION, FS_CardinalityType

LEMMA UsedByUses ==
  ASSUME NEW b
  PROVE  Used(b) = Cardinality(Uses(b.used))
  BY DEF Used, Uses

LEMMA UsedInNat ==
  ASSUME NEW b \in Book
  PROVE  Used(b) \in Nat
<1>1. b.used \in Bill
  BY DEF Book
<1> QED BY <1>1, UsesFinite, UsedByUses

\* One more use of each of S.
LEMMA MoreUses ==
  ASSUME NEW u \in Bill, NEW v \in Bill, NEW S \in SUBSET Assignments,
         \A a \in Assignments : v[a] = IF a \in S THEN u[a] + 1 ELSE u[a]
  PROVE  /\ Cardinality(Uses(u)) <= Cardinality(Uses(v))
         /\ Cardinality(Uses(v)) <= Cardinality(Uses(u)) + Cardinality(S)
         /\ Cardinality(S) \in Nat
<1> DEFINE D == Uses(v) \ Uses(u)
<1> DEFINE f == [use \in D |-> use[1]]
<1>1. IsFiniteSet(S) /\ Cardinality(S) \in Nat
  BY FS_Subset, FS_CardinalityType
<1>2. Uses(u) \in SUBSET Uses(v)
  BY InUses DEF Bill
<1>3. \A use \in D : use[1] \in S /\ use[2] = u[use[1]] + 1 /\ use = <<use[1], use[2]>>
  <2> SUFFICES ASSUME NEW use \in D PROVE use[1] \in S /\ use[2] = u[use[1]] + 1 /\ use = <<use[1], use[2]>>
    OBVIOUS
  <2>1. /\ use \in Assignments \X Nat /\ 1 <= use[2] /\ use[2] <= v[use[1]]
        /\ ~(use[2] <= u[use[1]])
    BY InUses
  <2> QED BY <2>1 DEF Bill
<1>4. f \in Injection(D, S)
  <2>1. f \in [D -> S]
    BY <1>3
  <2>2. ASSUME NEW x \in D, NEW y \in D, f[x] = f[y] PROVE x = y
    BY <1>3, <2>2
  <2> HIDE DEF f, D
  <2> QED BY <2>1, <2>2 DEF Injection, IsInjective
<1>5. Cardinality(D) <= Cardinality(S)
  <2> HIDE DEF f, D
  <2> QED BY <1>1, <1>4, FS_Injection
<1>6. Uses(v) = Uses(u) \union D /\ Uses(u) \intersect D = {}
  BY <1>2
<1>7. IsFiniteSet(Uses(u)) /\ IsFiniteSet(Uses(v)) /\ IsFiniteSet(D)
  BY UsesFinite, FS_Difference
<1>8. /\ Cardinality(Uses(v)) = Cardinality(Uses(u)) + Cardinality(D) - Cardinality({})
      /\ Cardinality({}) = 0
  <2> HIDE DEF D
  <2> QED BY <1>6, <1>7, FS_Union, FS_EmptySet
<1>9. Cardinality(Uses(u)) \in Nat /\ Cardinality(D) \in Nat
  BY <1>7, FS_CardinalityType
<1> HIDE DEF D
<1> QED BY <1>1, <1>5, <1>8, <1>9

LEMMA BillsUse ==
  ASSUME NEW t \in Book, NEW a \in Assignments
  PROVE  /\ Used(t) <= Used(Bills(t, a)) /\ Used(Bills(t, a)) <= Used(t) + 1
         /\ Bills(t, a).started = t.started /\ Bills(t, a).over = t.over
         /\ \A b \in Assignments :
              /\ b # a => Bills(t, a).used[b] = t.used[b]
              /\ Bills(t, a).used[b] <= t.used[b] + 1
         /\ Bills(t, a) \in Book
<1>1. Bills(t, a) \in Book /\ Used(t) \in Nat /\ t.used \in Bill
  BY BillsType, UsedInNat DEF Book
<1>2. CASE Bills(t, a) = t
  BY <1>1, <1>2 DEF Book, Bill
<1>3. CASE Bills(t, a) = [t EXCEPT !.used[a] = @ + 1]
  <2>1. /\ \A b \in Assignments : Bills(t, a).used[b] = IF b \in {a} THEN t.used[b] + 1 ELSE t.used[b]
        /\ Bills(t, a).started = t.started /\ Bills(t, a).over = t.over
        /\ Bills(t, a).used \in Bill
    BY <1>1, <1>3 DEF Book, Bill
  <2>2. {a} \in SUBSET Assignments /\ Cardinality({a}) = 1
    BY FS_Singleton
  <2>3. /\ Cardinality(Uses(t.used)) <= Cardinality(Uses(Bills(t, a).used))
        /\ Cardinality(Uses(Bills(t, a).used)) <= Cardinality(Uses(t.used)) + Cardinality({a})
    BY <1>1, <2>1, <2>2, MoreUses
  <2>4. Used(t) = Cardinality(Uses(t.used)) /\ Used(Bills(t, a)) = Cardinality(Uses(Bills(t, a).used))
    BY UsedByUses
  <2>5. Used(t) <= Used(Bills(t, a)) /\ Used(Bills(t, a)) <= Used(t) + 1
    BY <2>2, <2>3, <2>4
  <2>6. \A b \in Assignments : Bills(t, a).used[b] <= t.used[b] + 1
    BY <1>1, <2>1 DEF Bill
  <2> QED BY <1>1, <2>1, <2>5, <2>6
<1> QED BY <1>2, <1>3 DEF Bills

LEMMA BilledUse ==
  ASSUME NEW r \in Run, NEW S \in SUBSET Assignments
  PROVE  /\ Used(r.book) <= Used(Billed(r, S).book)
         /\ Used(Billed(r, S).book) <= Used(r.book) + Cardinality(S)
         /\ Cardinality(S) \in Nat
         /\ Billed(r, S).book.started = r.book.started
         /\ Billed(r, S).book.over <=> (r.book.over \/ \E a \in S : outcome[a] = "dear")
         /\ \A a \in Assignments :
              Billed(r, S).book.used[a] = IF a \in S THEN r.book.used[a] + 1 ELSE r.book.used[a]
<1> DEFINE u == [a \in Assignments |-> IF a \in S THEN r.book.used[a] + 1 ELSE r.book.used[a]]
<1> DEFINE o == r.book.over \/ \E a \in S : outcome[a] = "dear"
<1>1. r.book \in Book /\ r.book.used \in Bill
  BY DEF Run, Book
<1>2. u \in Bill /\ \A a \in Assignments : u[a] = IF a \in S THEN r.book.used[a] + 1 ELSE r.book.used[a]
  BY <1>1 DEF Bill
<1>3. o \in BOOLEAN
  OBVIOUS
<1>4. Billed(r, S) = [r EXCEPT !.book = [r.book EXCEPT !.used = u, !.over = o]]
  BY <1>1 DEF Billed, Run, Book
<1> HIDE DEF u, o
<1>5. Billed(r, S).book = [r.book EXCEPT !.used = u, !.over = o]
  BY <1>4 DEF Run
<1>6. /\ Billed(r, S).book.used = u /\ Billed(r, S).book.over = o
      /\ Billed(r, S).book.started = r.book.started
  BY <1>1, <1>5 DEF Book
<1>7. /\ Used(r.book) <= Used(Billed(r, S).book)
      /\ Used(Billed(r, S).book) <= Used(r.book) + Cardinality(S)
      /\ Cardinality(S) \in Nat
  <2>1. /\ Cardinality(Uses(r.book.used)) <= Cardinality(Uses(u))
        /\ Cardinality(Uses(u)) <= Cardinality(Uses(r.book.used)) + Cardinality(S)
        /\ Cardinality(S) \in Nat
    BY <1>1, <1>2, MoreUses
  <2>2. Used(r.book) = Cardinality(Uses(r.book.used)) /\ Used(Billed(r, S).book) = Cardinality(Uses(u))
    BY <1>6, UsedByUses
  <2> QED BY <2>1, <2>2
<1>8. Billed(r, S).book.over <=> (r.book.over \/ \E a \in S : outcome[a] = "dear")
  BY <1>6, Zenon DEF o
<1> QED BY <1>2, <1>6, <1>7, <1>8

(***************************************************************************)
(* The books.  What is recorded as started covers what was created, uses   *)
(* are billed to what has ended, and, as long as nothing is disturbed, the *)
(* books also hold no more than that: so no update of an agent or a team   *)
(* that ended well is refused.                                             *)
(***************************************************************************)
At(s) == {a \in Assignments : step[a] = s}

\* Recorded as started, and not in the shared budget yet.
Waiting == {a \in Assignments : step[a] = "marked" \/ (step[a] = "caught" /\ outcome[a] = "none")}

Started(r) == {a \in Assignments : r.work[a] \notin {"pending", "blocked"}}

Charged(used) ==
  \A a \in Assignments : /\ used[a] > 0 => outcome[a] \in Terminal \/ a \in belied
                         /\ used[a] <= 1 \/ a \in exposed

Unbilled(r, used) == \A a \in Members(r) : used[a] = 0

Booked(r) ==
  /\ r.team \subseteq Started(r)
  /\ Charged(r.book.used)
  /\ Unbilled(r, r.book.used)

\* Who was created, is being created or belongs to a team.
Engaged(r) == {a \in Assignments : outcome[a] # "none"} \union At("marked") \union r.team

Shared(r) == \A a, b \in Members(r) : outcome[a] = outcome[b]

Deserved(r, d) ==
  \A a \in Assignments :
    r.work[a] \in {"failed", "cancelled"} /\ outcome[a] = "good" => d \/ r.book.over \/ a \in belied

Sparing(r) ==
  /\ Used(r.book) + Cardinality(Members(r)) <= r.book.started
  /\ r.book.started <= Cardinality(Started(r))

Faithful(r, d) ==
  /\ Booked(r)
  /\ WellFormed(r)
  /\ Cardinality(Engaged(r)) <= r.book.started
  /\ Shared(r)
  /\ Deserved(r, d)
  /\ ~d => Sparing(r)

\* The shared budget, next to the record the supervisor has.
Balanced ==
  /\ tally.started <= MaxStarts /\ cur.book.started <= MaxStarts
  /\ Used(tally) + Cardinality(At("working")) <= tally.started
  /\ Used(cur.book) <= Used(tally)
  /\ cur.book.over => tally.over
  /\ cur.book.started <= tally.started + Cardinality(Waiting)
  /\ Charged(tally.used)
  /\ Unbilled(cur, tally.used)
  /\ ~disturbed => ~behind /\ tally.started + Cardinality(At("marked")) <= cur.book.started

\* Places at which no team is left, unless a write has failed.
Quiet == {"loop", "batch", "marking", "blocking", "failing", "cancelling",
          "completed", "failed", "cancelled"}

Posed(p, r, t, d) ==
  /\ p # "opening" => r.status = "running"
  /\ p \in {"batch", "marking"} => Members(r) = {}
  /\ p = "loop" => Members(r) = {} \/ In(r, "pending") = {}
  /\ p \in Quiet /\ ~d => Members(r) = {}
  /\ p = "team" => \A a \in Members(r) : outcome[a] \in {"none", "open"} \/ a \in belied
  /\ p \in {"dropping", "redropping"} => d /\ \A a \in Members(r) : outcome[a] = "good"
  /\ p = "opening" /\ ~recovering => r.team = {}
  /\ Resuming(p) \/ (p = "opening" /\ recovering) =>
       \A a \in In(r, "running") \ exposed : t.used[a] = 0 /\ r.book.used[a] = 0

Executing ==
  \A a \in Assignments :
    /\ step[a] \notin {"idle", "refused"} => a \notin cur.team
    /\ step[a] \in {"asked", "claimed"} => cur.work[a] = "pending"
    /\ step[a] \in {"marked", "working", "done"} => cur.work[a] = "running" /\ run.work[a] = "running"
    /\ step[a] = "working" => a \notin belied
    /\ step[a] \in {"caught", "failed", "cancelled"} /\ outcome[a] = "good" =>
         disturbed \/ tally.over \/ a \in belied

Accounts ==
  /\ Faithful(run, disturbed)
  /\ place # "off" =>
       /\ Booked(cur)
       /\ Balanced
       /\ Posed(place, cur, tally, disturbed)
       /\ place # "blocking" => run.team = cur.team
       /\ Executing

LEMMA Counts ==
  /\ \A S \in SUBSET Assignments : IsFiniteSet(S) /\ Cardinality(S) \in Nat
  /\ \A T \in SUBSET Assignments : \A S \in SUBSET T : Cardinality(S) <= Cardinality(T)
  /\ Cardinality({}) = 0
<1>1. \A S \in SUBSET Assignments : IsFiniteSet(S) /\ Cardinality(S) \in Nat
  BY FS_Subset, FS_CardinalityType
<1> QED BY <1>1, FS_Subset, FS_EmptySet

\* A set that grows by one, or loses one.
LEMMA OneMore ==
  ASSUME NEW S \in SUBSET Assignments, NEW T \in SUBSET Assignments, NEW a, T \subseteq S \union {a}
  PROVE  Cardinality(T) <= Cardinality(S) + 1
<1>0. IsFiniteSet(S) /\ Cardinality(S) \in Nat
  BY Counts
<1>1. /\ IsFiniteSet(S \union {a})
      /\ Cardinality(S \union {a}) = IF a \in S THEN Cardinality(S) ELSE Cardinality(S) + 1
  BY <1>0, FS_AddElement
<1>2. Cardinality(T) <= Cardinality(S \union {a}) /\ Cardinality(T) \in Nat
  BY <1>1, Counts, FS_Subset
<1>3. Cardinality(S \union {a}) \in Nat
  BY <1>1, FS_CardinalityType
<1> QED BY <1>0, <1>1, <1>2, <1>3

LEMMA OneLess ==
  ASSUME NEW S \in SUBSET Assignments, NEW a \in S, NEW T, T \subseteq S \ {a}
  PROVE  Cardinality(T) + 1 <= Cardinality(S)
<1>1. IsFiniteSet(S) /\ Cardinality(S) \in Nat /\ IsFiniteSet(S \ {a})
      /\ Cardinality(S \ {a}) = Cardinality(S) - 1
  BY Counts, FS_RemoveElement
<1>2. Cardinality(T) <= Cardinality(S \ {a}) /\ Cardinality(T) \in Nat
  BY <1>1, Counts, FS_Subset
<1> QED BY <1>1, <1>2

LEMMA IdleCounts ==
  ASSUME step = Idle
  PROVE  /\ At("working") = {} /\ At("marked") = {} /\ Waiting = {}
         /\ Cardinality(At("working")) = 0 /\ Cardinality(At("marked")) = 0
         /\ Cardinality(Waiting) = 0
<1>1. At("working") = {} /\ At("marked") = {} /\ Waiting = {}
  BY DEF At, Waiting, Idle
<1> QED BY <1>1, Counts

LEMMA RecordSets ==
  ASSUME NEW r \in Run
  PROVE  /\ r.book \in Book /\ r.book.used \in Bill /\ r.book.started \in Nat
         /\ Members(r) \subseteq r.team
         /\ r.team \in SUBSET Assignments /\ Members(r) \in SUBSET Assignments
         /\ Started(r) \in SUBSET Assignments /\ Engaged(r) \in SUBSET Assignments
         /\ Cardinality(Members(r)) \in Nat /\ Cardinality(Started(r)) \in Nat
         /\ Cardinality(Engaged(r)) \in Nat
<1>1. /\ r.book \in Book /\ r.book.used \in Bill /\ r.book.started \in Nat
      /\ r.team \in SUBSET Assignments /\ Members(r) \subseteq r.team
      /\ Started(r) \in SUBSET Assignments
  BY DEF Run, Book, Members, Started
<1>2. Engaged(r) \in SUBSET Assignments
  BY <1>1 DEF Engaged, At
<1> QED BY <1>1, <1>2, Counts

\* What a record in the file says stays true while no log goes on.
LEMMA FaithfulStays ==
  ASSUME NEW r \in Run, NEW d \in BOOLEAN, Faithful(r, d),
         run' = r, disturbed' \in BOOLEAN, d => disturbed',
         outcome' = outcome, exposed \subseteq exposed', belied \subseteq belied',
         At("marked")' \subseteq At("marked")
  PROVE  Faithful(run, disturbed)'
<1>1. Booked(run)'
  BY DEF Faithful, Booked, Charged, Unbilled, Members, Started
<1>2. Cardinality(Engaged(run)') <= r.book.started
  <2>1. Engaged(run)' \subseteq Engaged(r)
    BY DEF Engaged
  <2>2. Cardinality(Engaged(run)') <= Cardinality(Engaged(r)) /\ Cardinality(Engaged(run)') \in Nat
    BY <2>1, Counts, RecordSets
  <2> QED BY <2>2, RecordSets DEF Faithful
<1>3. Shared(run)'
  BY DEF Faithful, Shared, Members
<1>4. Deserved(run, disturbed)'
  BY DEF Faithful, Deserved
<1>5. WellFormed(run)' /\ (~disturbed' => Sparing(run)')
  BY DEF Faithful, WellFormed, Sparing, Members, Started
<1> QED BY <1>1, <1>2, <1>3, <1>4, <1>5 DEF Faithful

LEMMA BookedStays ==
  ASSUME NEW r \in Run, Booked(r), cur' = r, UNCHANGED <<outcome, exposed, belied>>
  PROVE  Booked(cur)'
  BY DEF Booked, Charged, Unbilled, Members, Started

(***************************************************************************)
(* Updates of the supervisor.                                              *)
(***************************************************************************)
LEMMA IdleExecutes ==
  ASSUME step' = Idle
  PROVE  Executing'
  BY DEF Executing, Idle

LEMMA PosedStays ==
  ASSUME NEW p, NEW r, NEW t, NEW d, Posed(p, r, t, d),
         place' = p, cur' = r, tally' = t, disturbed' = d,
         UNCHANGED <<outcome, exposed, belied, recovering>>
  PROVE  Posed(place, cur, tally, disturbed)'
  BY DEF Posed, Members, In, Resuming, Quiet

LEMMA GoAccounts ==
  ASSUME IInv, Accounts, place # "off", step = Idle, NEW p \in Place,
         p # "off" => Posed(p, cur, tally, disturbed),
         p = "blocking" \/ p = "off" \/ place # "blocking",
         Go(p)
  PROVE  Accounts'
<1> USE DEF Go, Supervisor
<1>1. run' = run /\ disturbed' = disturbed /\ step' = step /\ place' = p
      /\ UNCHANGED <<outcome, exposed, belied>>
  OBVIOUS
<1>2. Faithful(run, disturbed)'
  <2>1. run \in Run /\ disturbed \in BOOLEAN /\ At("marked")' = At("marked")
    BY <1>1 DEF IInv, TypeOK, At
  <2> QED BY <1>1, <2>1, FaithfulStays DEF Accounts
<1>3. CASE p = "off"
  BY <1>1, <1>2, <1>3 DEF Accounts
<1>4. CASE p # "off"
  <2>1. UNCHANGED <<cur, behind, tally, recovering>>
    BY <1>4
  <2>2. Booked(cur)'
    BY <1>1, <2>1, BookedStays DEF Accounts, IInv, TypeOK
  <2>3. Balanced'
    <3>1. Balanced
      BY DEF Accounts
    <3>2. At("working")' = At("working") /\ At("marked")' = At("marked") /\ Waiting' = Waiting
      BY <1>1 DEF At, Waiting
    <3> QED BY <1>1, <2>1, <3>1, <3>2 DEF Balanced, Charged, Unbilled, Members
  <2>4. Posed(place, cur, tally, disturbed)'
    BY <1>1, <1>4, <2>1, PosedStays
  <2>5. Executing'
    BY <1>1, IdleExecutes
  <2> QED BY <1>1, <1>2, <1>4, <2>1, <2>2, <2>3, <2>4, <2>5 DEF Accounts
<1> QED BY <1>3, <1>4

\* The budget after an accepted update is the record's, or is left as it was.
LEMMA ReconciledBalances ==
  ASSUME NEW t \in Book, NEW b \in Book
  PROVE  LET n == Reconciled(t, b)
         IN  /\ n \in Book
             /\ n.started = Larger(t.started, b.started)
             /\ n.used \in {t.used, b.used}
             /\ Used(t) <= Used(n) /\ Used(b) <= Used(n)
             /\ Used(n) \in {Used(t), Used(b)}
             /\ Used(t) >= Used(b) => n.used = t.used
             /\ n.over <=> t.over \/ b.over
<1> DEFINE n == Reconciled(t, b)
<1>1. n \in Book
  BY ReconciledType
<1>2. n.started = Larger(t.started, b.started) /\ (n.over <=> t.over \/ b.over)
      /\ n.used = IF Used(t) >= Used(b) THEN t.used ELSE b.used
  BY Zenon DEF Reconciled
<1>3. Used(n) = Cardinality(Uses(n.used)) /\ Used(t) = Cardinality(Uses(t.used))
      /\ Used(b) = Cardinality(Uses(b.used)) /\ Used(t) \in Nat /\ Used(b) \in Nat
  BY UsedByUses, UsedInNat
<1> HIDE DEF n
<1>4. Used(n) = IF Used(t) >= Used(b) THEN Used(t) ELSE Used(b)
  BY <1>2, <1>3
<1> QED BY <1>1, <1>2, <1>3, <1>4 DEF n

LEMMA WriteAccounts ==
  ASSUME IInv, Accounts, place # "off", step = Idle,
         NEW next \in Run, NEW then \in Place, NEW else \in Place,
         Admits(next) => Faithful(next, disturbed) /\ Unbilled(next, tally.used),
         Admits(next) /\ then # "off" => Posed(then, next, Reconciled(tally, next.book), disturbed),
         ~Admits(next) /\ else # "off" => Posed(else, cur, tally, disturbed),
         Admits(next) /\ else # "off" => Posed(else, cur, tally, TRUE),
         else \in {"off", "blocking"} \/ (place # "blocking" /\ next.team = cur.team),
         Write(next, then, else)
  PROVE  Accounts'
<1>1. CASE ~Admits(next) /\ Go(else)
  BY <1>1, GoAccounts
<1> DEFINE Accepted == /\ run' = next /\ disturbed' = disturbed
                       /\ Supervisor(then, next, FALSE, Reconciled(tally, next.book))
<1> DEFINE Failed == /\ disturbed' = TRUE
                     /\ \/ run' = run /\ Supervisor(else, cur, FALSE, tally)
                        \/ run' = next /\ Supervisor(else, cur, TRUE, tally)
<1>2. (~Admits(next) /\ Go(else)) \/ (Admits(next) /\ (Accepted \/ Failed))
  BY Zenon DEF Write
<1>3. cur \in Run /\ run \in Run /\ tally \in Book /\ disturbed \in BOOLEAN /\ next.book \in Book
      /\ cur.book \in Book
  BY DEF IInv, TypeOK, Run
<1>4. Supervisor(then, next, FALSE, Reconciled(tally, next.book)) \/ Supervisor(else, cur, FALSE, tally)
      \/ Supervisor(else, cur, TRUE, tally) => UNCHANGED <<outcome, exposed, belied, step>>
  BY DEF Supervisor
<1>5. UNCHANGED <<outcome, exposed, belied, step>> => At("marked")' = At("marked")
  BY DEF At
<1>6. CASE Admits(next) /\ Accepted
  <2>0. UNCHANGED <<outcome, exposed, belied, step>>
    BY <1>4, <1>6
  <2>1. Faithful(run, disturbed)'
    BY <1>3, <1>5, <1>6, <2>0, FaithfulStays
  <2>2. CASE then = "off"
    BY <1>6, <2>1, <2>2 DEF Supervisor, Accounts
  <2>3. CASE then # "off"
    <3>1. place' = then /\ cur' = next /\ behind' = FALSE /\ tally' = Reconciled(tally, next.book)
          /\ recovering' = recovering
      BY <1>6, <2>3 DEF Supervisor
    <3>2. Booked(cur)'
      BY <1>6, <2>0, <3>1, BookedStays DEF Faithful
    <3>3. Balanced'
      <4>1. Balanced /\ WellFormed(next) /\ NotLess(cur.book, next.book)
        BY <1>6 DEF Accounts, Admits, MayFollow
      <4>2. /\ tally' \in Book /\ tally'.started = Larger(tally.started, next.book.started)
            /\ tally'.used \in {tally.used, next.book.used}
            /\ Used(tally)' \in {Used(tally), Used(next.book)}
            /\ Used(next.book) <= Used(tally)' /\ (next.book.over => tally'.over)
        BY <1>3, <3>1, ReconciledBalances
      <4>3. /\ Cardinality(At("working")) = 0 /\ Cardinality(At("marked")) = 0
            /\ Cardinality(Waiting) = 0
            /\ Cardinality(At("working")') = 0 /\ Cardinality(At("marked")') = 0
            /\ Cardinality(Waiting') = 0
        <5>1. At("working")' = At("working") /\ At("marked")' = At("marked") /\ Waiting' = Waiting
          BY <2>0 DEF At, Waiting
        <5> QED BY <5>1, IdleCounts
      <4>4. Used(tally) \in Nat /\ Used(next.book) \in Nat /\ tally.started \in Nat /\ next.book.started \in Nat
            /\ cur.book.started \in Nat
        BY <1>3, UsedInNat DEF Book
      <4>5. Charged(tally.used) /\ Charged(next.book.used)
        BY <1>6 DEF Accounts, Balanced, Faithful, Booked
      <4>6. Charged(tally.used)'
        BY <2>0, <4>2, <4>5 DEF Charged
      <4>7. Unbilled(next, tally.used) /\ Unbilled(next, next.book.used)
        BY <1>6 DEF Faithful, Booked
      <4>8. Unbilled(cur, tally.used)'
        BY <3>1, <4>2, <4>7 DEF Unbilled, Members
      <4>9. tally'.started <= MaxStarts /\ next.book.started <= tally'.started
            /\ Used(tally)' <= tally'.started
        BY <4>1, <4>2, <4>3, <4>4 DEF Balanced, WellFormed, Larger
      <4>10. ~disturbed => tally'.started <= next.book.started
        BY <4>1, <4>2, <4>3, <4>4 DEF Balanced, Larger, NotLess
      <4>11. /\ tally'.started <= MaxStarts /\ cur'.book.started <= MaxStarts
             /\ Used(tally)' + Cardinality(At("working")') <= tally'.started
             /\ Used(cur.book)' <= Used(tally)'
             /\ cur'.book.over => tally'.over
             /\ cur'.book.started <= tally'.started + Cardinality(Waiting')
             /\ ~disturbed' => ~behind' /\ tally'.started + Cardinality(At("marked")') <= cur'.book.started
        <5>1. Used(cur.book)' = Used(next.book) /\ cur'.book = next.book
          BY <3>1
        <5>2. tally'.started \in Nat /\ Used(tally)' \in Nat
          BY <4>2, <4>4 DEF Book
        <5>3. Used(tally)' + Cardinality(At("working")') <= tally'.started
          BY <4>3, <4>9, <5>2
        <5>4. cur'.book.started <= tally'.started + Cardinality(Waiting')
          BY <4>3, <4>4, <4>9, <5>1, <5>2
        <5>5. ~disturbed' => tally'.started + Cardinality(At("marked")') <= cur'.book.started
          <6>1. disturbed' = disturbed
            BY <1>6
          <6> QED BY <4>3, <4>4, <4>10, <5>1, <5>2, <6>1
        <5>6. /\ tally'.started <= MaxStarts /\ cur'.book.started <= MaxStarts
              /\ Used(cur.book)' <= Used(tally)' /\ ~behind'
          BY <3>1, <4>1, <4>2, <4>9, <5>1 DEF WellFormed
        <5>7. cur'.book.over => tally'.over
          BY <4>2, <5>1, Zenon
        <5> QED BY <5>3, <5>4, <5>5, <5>6, <5>7, Zenon
      <4> QED BY <4>6, <4>8, <4>11 DEF Balanced
    <3>4. Posed(place, cur, tally, disturbed)'
      BY <1>6, <2>0, <2>3, <3>1, PosedStays
    <3>5. Executing'
      BY <2>0, IdleExecutes
    <3> QED BY <1>6, <2>1, <2>3, <3>1, <3>2, <3>3, <3>4, <3>5 DEF Accounts
  <2> QED BY <2>2, <2>3
<1>7. CASE Admits(next) /\ Failed
  <2>0. UNCHANGED <<outcome, exposed, belied, step>>
    BY <1>4, <1>7
  <2>1. Faithful(run, disturbed)'
    <3>1. PICK r \in {run, next} : run' = r
      BY <1>7
    <3>2. Faithful(r, disturbed)
      BY <1>7 DEF Accounts
    <3> QED BY <1>3, <1>5, <1>7, <2>0, <3>1, <3>2, FaithfulStays
  <2>2. CASE else = "off"
    BY <1>7, <2>1, <2>2 DEF Supervisor, Accounts
  <2>3. CASE else # "off"
    <3>1. place' = else /\ cur' = cur /\ tally' = tally /\ recovering' = recovering
      BY <1>7, <2>3 DEF Supervisor
    <3>2. Booked(cur)'
      BY <2>0, <3>1, BookedStays DEF Accounts, IInv, TypeOK
    <3>3. Balanced'
      <4>1. At("working")' = At("working") /\ Waiting' = Waiting
        BY <2>0 DEF At, Waiting
      <4> QED BY <1>7, <2>0, <3>1, <4>1 DEF Accounts, Balanced, Charged, Unbilled, Members
    <3>4. Posed(place, cur, tally, disturbed)'
      BY <1>7, <2>0, <2>3, <3>1, PosedStays
    <3>5. Executing'
      BY <2>0, IdleExecutes
    <3>6. place' # "blocking" => run'.team = cur'.team
      <4>1. else \notin {"off", "blocking"} => place # "blocking" /\ next.team = cur.team
        BY <2>3
      <4> QED BY <1>7, <2>3, <3>1, <4>1 DEF Accounts
    <3> QED BY <2>1, <2>3, <3>1, <3>2, <3>3, <3>4, <3>5, <3>6 DEF Accounts
  <2> QED BY <2>2, <2>3
<1> QED BY <1>1, <1>2, <1>6, <1>7

(***************************************************************************)
(* The supervisor's decisions and its own updates.                         *)
(***************************************************************************)
\* A record that ends assignments, or blocks them, is as faithful as the last one.
LEMMA NextFaithful ==
  ASSUME IInv, Accounts, place # "off", NEW next \in Run, Admits(next),
         NEW d \in BOOLEAN, disturbed => d,
         next.team = cur.team,
         \A a \in Assignments :
           \/ next.work[a] = cur.work[a]
           \/ next.work[a] \in {"completed", "failed", "cancelled"}
           \/ next.work[a] = "blocked" /\ cur.work[a] = "pending",
         Charged(next.book.used),
         Unbilled(next, next.book.used),
         \A a \in Assignments :
           /\ next.work[a] \in {"failed", "cancelled"} /\ next.work[a] # cur.work[a]
           /\ outcome[a] = "good"
           => d \/ next.book.over \/ a \in belied,
         ~d => /\ Used(next.book) + Cardinality(Members(next)) <= next.book.started
               /\ next.book.started <= Cardinality(Started(cur))
  PROVE  Faithful(next, d) /\ Members(next) \subseteq Members(cur)
<1>1. /\ cur = run /\ cur \in Run /\ Faithful(cur, disturbed) /\ WellFormed(next)
      /\ NotLess(cur.book, next.book)
  BY AdmitsLast DEF Admits, MayFollow, Accounts, IInv, TypeOK
<1>2. Members(next) \subseteq Members(cur)
  BY DEF Members, Run
<1>3. Started(cur) \subseteq Started(next)
  BY DEF Started
<1>4. Booked(next)
  BY <1>1, <1>3 DEF Booked, Faithful
<1>5. Cardinality(Engaged(next)) <= next.book.started
  <2>1. Engaged(next) = Engaged(cur)
    BY DEF Engaged
  <2>2. next.book.started \in Nat /\ cur.book.started \in Nat /\ Cardinality(Engaged(cur)) \in Nat
    BY <1>1, RecordSets
  <2> QED BY <1>1, <2>1, <2>2 DEF Faithful, NotLess
<1>6. Shared(next)
  BY <1>1, <1>2 DEF Faithful, Shared
<1>7. Deserved(next, d)
  BY <1>1 DEF Faithful, Deserved, NotLess
<1>8. ASSUME ~d PROVE Sparing(next)
  <2>1. Cardinality(Started(cur)) <= Cardinality(Started(next))
    BY <1>3, Counts, RecordSets
  <2> QED BY <1>1, <1>8, <2>1, RecordSets DEF Sparing
<1> QED BY <1>1, <1>2, <1>4, <1>5, <1>6, <1>7, <1>8 DEF Faithful

\* The same for a record with the shared budget, when no team is at work.
LEMMA TallyFaithful ==
  ASSUME IInv, Accounts, place # "off", NEW next \in Run, Admits(next),
         NEW d \in BOOLEAN, disturbed => d,
         next.team = cur.team, next.book = tally,
         \A a \in Assignments :
           \/ next.work[a] = cur.work[a]
           \/ next.work[a] \in {"completed", "failed", "cancelled"}
           \/ next.work[a] = "blocked" /\ cur.work[a] = "pending",
         \A a \in Assignments :
           /\ next.work[a] \in {"failed", "cancelled"} /\ next.work[a] # cur.work[a]
           /\ outcome[a] = "good"
           => d \/ tally.over \/ a \in belied,
         ~d => Members(cur) = {}
  PROVE  /\ Faithful(next, d) /\ Members(next) \subseteq Members(cur)
         /\ Unbilled(next, tally.used)
<1>1. /\ cur = run /\ cur \in Run /\ tally \in Book /\ Balanced /\ Faithful(cur, disturbed)
  BY AdmitsLast DEF Accounts, IInv, TypeOK
<1>2. Members(next) \subseteq Members(cur)
  BY DEF Members, Run
<1>3. Unbilled(next, tally.used) /\ Charged(tally.used)
  BY <1>1, <1>2 DEF Balanced, Unbilled
<1>4. ASSUME ~d
      PROVE  /\ Used(tally) + Cardinality(Members(next)) <= tally.started
             /\ tally.started <= Cardinality(Started(cur))
  <2>1. Cardinality(Members(next)) = 0
    BY <1>2, <1>4, Counts
  <2>2. /\ Used(tally) + Cardinality(At("working")) <= tally.started
        /\ tally.started + Cardinality(At("marked")) <= cur.book.started
        /\ cur.book.started <= Cardinality(Started(cur))
    BY <1>1, <1>4 DEF Balanced, Faithful, Sparing
  <2>3. /\ Cardinality(At("working")) \in Nat /\ Cardinality(At("marked")) \in Nat
        /\ Used(tally) \in Nat /\ tally.started \in Nat /\ cur.book.started \in Nat
        /\ Cardinality(Started(cur)) \in Nat
    <3>1. At("working") \in SUBSET Assignments /\ At("marked") \in SUBSET Assignments
      BY DEF At
    <3> QED BY <1>1, <3>1, Counts, RecordSets, UsedByUses, UsedInNat DEF Book
  <2> QED BY <2>1, <2>2, <2>3
<1>5. Used(next.book) = Used(tally)
  OBVIOUS
<1> QED BY <1>2, <1>3, <1>4, <1>5, NextFaithful

LEMMA OpenAccounts == ASSUME IInv, Accounts, Open PROVE Accounts'
<1> DEFINE p == IF recovering THEN "resuming" ELSE "loop"
<1> DEFINE n == [cur EXCEPT !.status = "running"]
<1>1. /\ place = "opening" /\ step = Idle /\ place # "off" /\ cur \in Run /\ tally \in Book
      /\ disturbed \in BOOLEAN /\ cur.book \in Book
  BY DEF Open, IInv, Placed, TypeOK, Run
<1>2. p \in Place /\ "off" \in Place
  BY DEF Place
<1>3. n \in Run /\ n.work = cur.work /\ n.team = cur.team /\ n.status = "running" /\ n.book = cur.book
  BY <1>1 DEF Run, GoalStatus, Unresolved
<1>4. \/ Go("off")
      \/ cur.status = "running" /\ Go(p)
      \/ Write(n, p, "off")
  BY Zenon DEF Open
<1>5. Posed("opening", cur, tally, disturbed)
  BY <1>1 DEF Accounts
<1>6. \A r, t : /\ r.status = "running" /\ r.work = cur.work /\ r.team = cur.team
                /\ r.book = cur.book /\ t.used \in {tally.used, cur.book.used}
                => Posed(p, r, t, disturbed)
  BY <1>5 DEF Posed, Members, In, Resuming, Quiet
<1>7. CASE Go("off")
  BY <1>1, <1>2, <1>7, GoAccounts
<1>8. CASE cur.status = "running" /\ Go(p)
  <2>1. Posed(p, cur, tally, disturbed) /\ place # "blocking"
    BY <1>1, <1>6, <1>8
  <2> HIDE DEF p
  <2> QED BY <1>1, <1>2, <1>8, <2>1, GoAccounts
<1>9. CASE Write(n, p, "off")
  <2> HIDE DEF n, p
  <2>1. Posed(p, n, Reconciled(tally, n.book), disturbed)
    <3>1. Reconciled(tally, n.book).used \in {tally.used, cur.book.used}
      BY <1>1, <1>3, ReconciledBalances
    <3> QED BY <1>3, <1>6, <3>1
  <2>2. ASSUME Admits(n) PROVE Faithful(n, disturbed) /\ Unbilled(n, tally.used)
    <3>1. Faithful(cur, disturbed) /\ Unbilled(cur, tally.used)
      BY <1>1, <2>2, AdmitsLast DEF Accounts, Balanced
    <3>2. Members(n) = Members(cur) /\ Started(n) = Started(cur) /\ Engaged(n) = Engaged(cur)
      BY <1>3 DEF Members, Started, Engaged
    <3> QED BY <1>3, <3>1, <3>2 DEF Faithful, Booked, Charged, Unbilled, WellFormed, Shared,
                                  Deserved, Sparing
  <2> QED BY <1>1, <1>2, <1>3, <1>9, <2>1, <2>2, WriteAccounts
<1> QED BY <1>4, <1>7, <1>8, <1>9

LEMMA DecisionsAccount ==
  ASSUME IInv, Accounts,
         StopRecovery \/ GiveUp \/ Decide \/ EngageTeam \/ EndBatch \/ Stall \/ EndRecovery
  PROVE  Accounts'
<1>1. place # "off" /\ place # "opening" /\ step = Idle
  BY DEF StopRecovery, GiveUp, Decide, EngageTeam, EndBatch, Stall, EndRecovery, AtLoop,
         IInv, Placed
<1>2. Posed(place, cur, tally, disturbed) /\ cur \in Run /\ cur.status = "running"
  BY <1>1 DEF Accounts, Posed, IInv, TypeOK
<1>3. CASE StopRecovery
  <2>1. Go("off") /\ "off" \in Place
    BY <1>3 DEF StopRecovery, Place
  <2> QED BY <1>1, <2>1, GoAccounts
<1>4. CASE EngageTeam
  <2>1. PICK p \in {"marking", "blocking"} : Go(p)
    BY <1>4 DEF EngageTeam
  <2>2. place = "loop" /\ In(cur, "pending") # {}
    BY <1>2, <1>4, FrontierInOrder DEF EngageTeam, AtLoop, In
  <2>3. Posed(p, cur, tally, disturbed) /\ p \in Place
    BY <1>2, <2>2 DEF Posed, Resuming, Quiet, Place
  <2> QED BY <1>1, <2>1, <2>2, <2>3, GoAccounts
<1>5. CASE GiveUp \/ Decide \/ Stall
  <2>1. PICK p \in {"off", "failing", "cancelling", "failed", "completed", "blocking"} : Go(p)
    BY <1>5 DEF GiveUp, Decide, Stall
  <2>2. place = "loop"
    BY <1>5 DEF GiveUp, Decide, Stall, AtLoop
  <2>3. Posed(p, cur, tally, disturbed) /\ p \in Place
    BY <1>2, <2>2 DEF Posed, Resuming, Quiet, Place
  <2> QED BY <1>1, <2>1, <2>2, <2>3, GoAccounts
<1>6. CASE EndBatch \/ EndRecovery
  <2>1. PICK p \in {"loop", "blocking"} : Go(p)
    BY <1>6 DEF EndBatch, EndRecovery
  <2>2. place # "blocking" /\ Members(cur) = {}
    BY <1>2, <1>6 DEF EndBatch, EndRecovery, Posed, Members, In, Run
  <2>3. Posed(p, cur, tally, disturbed) /\ p \in Place
    BY <1>2, <2>2 DEF Posed, Resuming, Quiet, Place
  <2> QED BY <1>1, <2>1, <2>2, <2>3, GoAccounts
<1> QED BY <1>3, <1>4, <1>5, <1>6

LEMMA BlockPendingAccounts == ASSUME IInv, Accounts, BlockPending PROVE Accounts'
<1> DEFINE n == Blocked(cur)
<1>1. /\ place \in {"blocking", "failing", "cancelling"} /\ place # "off" /\ step = Idle
      /\ cur \in Run /\ tally \in Book /\ disturbed \in BOOLEAN
  BY DEF BlockPending, IInv, Placed, TypeOK
<1>2. PICK p \in {"loop", "failed", "cancelled"} : Write(n, p, "off")
  BY DEF BlockPending
<1>3. /\ n \in Run /\ n.team = cur.team /\ n.status = cur.status /\ n.book = tally
      /\ n.work = [a \in Assignments |-> IF cur.work[a] = "pending" THEN "blocked" ELSE cur.work[a]]
  <2>1. [a \in Assignments |-> IF cur.work[a] = "pending" THEN "blocked" ELSE cur.work[a]]
          \in [Assignments -> WorkStatus]
    BY <1>1 DEF Run, WorkStatus
  <2> QED BY <1>1, <2>1 DEF Blocked, Run
<1> HIDE DEF n
<1>4. \A a \in Assignments :
        n.work[a] = cur.work[a] \/ (n.work[a] = "blocked" /\ cur.work[a] = "pending")
  BY <1>3
<1>5. In(n, "pending") = {} /\ Members(n) = Members(cur)
  BY <1>1, <1>3 DEF In, Members, Run
<1>6. /\ Posed(place, cur, tally, disturbed) /\ cur.status = "running"
      /\ ~disturbed => Members(cur) = {}
  BY <1>1 DEF Accounts, Posed, Quiet
<1>7. Posed(p, n, Reconciled(tally, n.book), disturbed)
  BY <1>1, <1>3, <1>5, <1>6 DEF Posed, Resuming, Quiet
<1>8. ASSUME Admits(n) PROVE Faithful(n, disturbed) /\ Unbilled(n, tally.used)
  BY <1>1, <1>3, <1>4, <1>6, <1>8, TallyFaithful
<1>9. p \in Place /\ "off" \in Place
  BY DEF Place
<1> QED BY <1>1, <1>2, <1>3, <1>7, <1>8, <1>9, WriteAccounts

LEMMA ConcludeAccounts == ASSUME IInv, Accounts, Conclude PROVE Accounts'
<1> DEFINE n == [cur EXCEPT !.status = place, !.book = tally]
<1>1. /\ place \in {"completed", "failed", "cancelled"} /\ place # "off" /\ step = Idle
      /\ cur \in Run /\ tally \in Book /\ disturbed \in BOOLEAN
  BY DEF Conclude, IInv, Placed, TypeOK
<1>2. n \in Run /\ n.work = cur.work /\ n.team = cur.team /\ n.book = tally
  BY <1>1 DEF Run, GoalStatus
<1>3. Write(n, "off", "off") /\ "off" \in Place
  BY DEF Conclude, Place
<1> HIDE DEF n
<1>4. ~disturbed => Members(cur) = {}
  BY <1>1 DEF Accounts, Posed, Quiet
<1>5. ASSUME Admits(n) PROVE Faithful(n, disturbed) /\ Unbilled(n, tally.used)
  BY <1>1, <1>2, <1>4, <1>5, TallyFaithful
<1> QED BY <1>1, <1>2, <1>3, <1>5, WriteAccounts

(***************************************************************************)
(* Teams.                                                                  *)
(***************************************************************************)
LEMMA MarkTeamAccounts == ASSUME IInv, Accounts, MarkTeam PROVE Accounts'
<1> DEFINE F == Frontier(cur)
<1> DEFINE m == WithWork(cur, F, "running")
<1> DEFINE n == [m EXCEPT !.team = @ \union F, !.book.started = @ + Cardinality(F)]
<1>1. /\ place = "marking" /\ place # "off" /\ step = Idle /\ Write(n, "team", "blocking")
      /\ cur \in Run /\ tally \in Book /\ disturbed \in BOOLEAN
  BY DEF MarkTeam, IInv, Placed, TypeOK
<1>2. F \in SUBSET Assignments /\ \A a \in F : cur.work[a] = "pending" /\ outcome[a] = "none"
  BY <1>1, FrontierInOrder DEF IInv, Agree, Recorded
<1>3. IsFiniteSet(F) /\ Cardinality(F) \in Nat
  BY <1>2, Counts
<1>4. /\ m \in Run /\ m.team = cur.team /\ m.status = cur.status /\ m.book = cur.book
      /\ \A a \in Assignments : m.work[a] = IF a \in F THEN "running" ELSE cur.work[a]
  <2>1. "running" \in WorkStatus
    BY DEF WorkStatus
  <2> QED BY <1>1, <2>1, WithWorkType DEF Run
<1> HIDE DEF F, m
<1>5. /\ n \in Run /\ n.team = cur.team \union F /\ n.status = cur.status /\ n.work = m.work
      /\ n.book.started = cur.book.started + Cardinality(F)
      /\ n.book.used = cur.book.used /\ n.book.over = cur.book.over
  <2>1. m.book \in Book
    BY <1>4 DEF Run
  <2>2. [m.book EXCEPT !.started = @ + Cardinality(F)] \in Book
    BY <1>3, <2>1 DEF Book
  <2>3. n = [m EXCEPT !.team = m.team \union F,
                      !.book = [m.book EXCEPT !.started = @ + Cardinality(F)]]
    BY <1>4, <2>1 DEF Run
  <2> QED BY <1>2, <1>4, <2>1, <2>2, <2>3 DEF Run, Book
<1> HIDE DEF n
<1>6. /\ Posed(place, cur, tally, disturbed) /\ Members(cur) = {} /\ cur.status = "running"
      /\ Booked(cur) /\ Balanced
  BY <1>1 DEF Accounts, Posed
<1>7. Members(n) \subseteq F
  BY <1>1, <1>4, <1>5, <1>6 DEF Members, Run
<1>8. \A a \in Members(n) : outcome[a] = "none" /\ cur.book.used[a] = 0 /\ tally.used[a] = 0
  <2>1. \A a \in Assignments : cur.book.used[a] \in Nat /\ tally.used[a] \in Nat
    BY <1>1, RecordSets DEF Book, Bill
  <2>2. Charged(cur.book.used) /\ Charged(tally.used)
    BY <1>6 DEF Booked, Balanced
  <2>3. "none" \notin Terminal
    BY DEF Terminal, Finished
  <2>4. \A a \in Members(n) : outcome[a] = "none" /\ a \notin belied
    BY <1>2, <1>7 DEF IInv, Launched
  <2> QED BY <1>2, <1>7, <2>1, <2>2, <2>3, <2>4 DEF Charged
<1>9. ASSUME Admits(n) PROVE Faithful(n, disturbed) /\ Unbilled(n, tally.used)
  <2>1. Faithful(cur, disturbed) /\ WellFormed(n)
    BY <1>1, <1>9, AdmitsLast DEF Accounts, Admits, MayFollow
  <2>2. Started(cur) \union F \subseteq Started(n) /\ Started(cur) \intersect F = {}
    BY <1>2, <1>4, <1>5 DEF Started
  <2>3. Booked(n)
    <3>1. n.team \subseteq Started(n)
      BY <1>5, <1>6, <2>2 DEF Booked
    <3>2. Charged(n.book.used) /\ Unbilled(n, n.book.used)
      BY <1>5, <1>6, <1>8 DEF Booked, Unbilled
    <3> QED BY <3>1, <3>2 DEF Booked
  <2>4. Cardinality(Engaged(n)) <= n.book.started
    <3>1. Engaged(n) \subseteq Engaged(cur) \union F
      BY <1>5 DEF Engaged
    <3>2. Cardinality(Engaged(cur) \union F) <= Cardinality(Engaged(cur)) + Cardinality(F)
          /\ IsFiniteSet(Engaged(cur) \union F) /\ Cardinality(Engaged(cur) \union F) \in Nat
      <4>1. IsFiniteSet(Engaged(cur)) /\ Cardinality(Engaged(cur)) \in Nat
            /\ Engaged(cur) \intersect F \in SUBSET Assignments
        BY <1>1, <1>2, RecordSets, Counts
      <4>2. Cardinality(Engaged(cur) \union F)
              = Cardinality(Engaged(cur)) + Cardinality(F) - Cardinality(Engaged(cur) \intersect F)
            /\ IsFiniteSet(Engaged(cur) \union F)
        BY <1>3, <4>1, FS_Union
      <4>3. Cardinality(Engaged(cur) \intersect F) \in Nat /\ Cardinality(Engaged(cur) \union F) \in Nat
        BY <4>1, <4>2, Counts, FS_CardinalityType
      <4> QED BY <1>3, <4>1, <4>2, <4>3
    <3>3. Cardinality(Engaged(n)) <= Cardinality(Engaged(cur) \union F)
      BY <3>1, <3>2, FS_Subset
    <3> QED BY <1>1, <1>3, <1>5, <2>1, <3>2, <3>3, RecordSets DEF Faithful
  <2>5. Shared(n)
    BY <1>8 DEF Shared
  <2>6. Deserved(n, disturbed)
    BY <1>4, <1>5, <2>1 DEF Deserved, Faithful
  <2>7. ASSUME ~disturbed PROVE Sparing(n)
    <3>1. Sparing(cur)
      BY <2>1, <2>7 DEF Faithful
    <3>2. Cardinality(Members(n)) <= Cardinality(F) /\ Cardinality(Members(cur)) = 0
      BY <1>2, <1>6, <1>7, Counts
    <3>3. Cardinality(Started(cur)) + Cardinality(F) <= Cardinality(Started(n))
      <4>1. Cardinality(Started(cur) \union F)
              = Cardinality(Started(cur)) + Cardinality(F) - Cardinality({})
        <5>1. IsFiniteSet(Started(cur))
          BY <1>1, RecordSets, Counts
        <5> QED BY <1>3, <2>2, <5>1, FS_Union
      <4>2. Cardinality(Started(cur) \union F) <= Cardinality(Started(n))
        BY <1>5, <2>2, RecordSets, Counts
      <4> QED BY <1>1, <1>3, <4>1, <4>2, Counts, RecordSets
    <3>4. Used(n.book) = Used(cur.book) /\ Used(cur.book) \in Nat
      <4>1. Used(n.book) = Cardinality(Uses(cur.book.used))
        BY <1>5, UsedByUses
      <4> QED BY <1>1, <4>1, RecordSets, UsedByUses, UsedInNat
    <3>5. /\ Cardinality(Members(n)) \in Nat /\ Cardinality(Started(n)) \in Nat
          /\ cur.book.started \in Nat /\ Cardinality(Started(cur)) \in Nat
      BY <1>1, <1>5, RecordSets
    <3> QED BY <1>3, <1>5, <3>1, <3>2, <3>3, <3>4, <3>5 DEF Sparing
  <2>8. Unbilled(n, tally.used)
    BY <1>8 DEF Unbilled
  <2> QED BY <2>1, <2>3, <2>4, <2>5, <2>6, <2>7, <2>8 DEF Faithful
<1>10. Posed("team", n, Reconciled(tally, n.book), disturbed)
  BY <1>5, <1>6, <1>8 DEF Posed, Resuming, Quiet
<1>11. /\ Posed("blocking", cur, tally, disturbed) /\ Posed("blocking", cur, tally, TRUE)
       /\ "team" \in Place /\ "blocking" \in Place
  BY <1>6 DEF Posed, Resuming, Quiet, Place
<1> QED BY <1>1, <1>5, <1>9, <1>10, <1>11, WriteAccounts

\* While nothing is disturbed, an update that ends what a team works on is accepted.
LEMMA EndingAdmitted ==
  ASSUME IInv, Accounts, place \notin {"off", "opening"}, ~disturbed,
         NEW next \in Run, next.status \in {"running", "interrupted"},
         NEW w \in {"running", "completed", "failed", "cancelled"},
         \A a \in Assignments : next.work[a] = IF a \in Members(cur) THEN w ELSE cur.work[a],
         NotLess(cur.book, next.book), next.book.started = cur.book.started,
         Used(next.book) <= Used(cur.book) + Cardinality(Members(cur))
  PROVE  Admits(next)
<1>1. Balanced /\ Posed(place, cur, tally, disturbed) /\ Faithful(run, disturbed)
  BY DEF Accounts
<1>2. ~behind /\ cur = run /\ cur \in Run
  BY <1>1 DEF Balanced, IInv, Agree, TypeOK
<1>3. cur.status = "running" /\ next.status \in NextGoal(cur.status)
  BY <1>1 DEF Posed, NextGoal
<1>4. WellFormed(next)
  <2>1. WellFormed(cur) /\ Used(cur.book) + Cardinality(Members(cur)) <= cur.book.started
    BY <1>1, <1>2 DEF Faithful, Sparing
  <2>2. Used(next.book) \in Nat /\ Used(cur.book) \in Nat /\ cur.book.started \in Nat
        /\ Cardinality(Members(cur)) \in Nat
    BY <1>2, UsedInNat, RecordSets
  <2> QED BY <2>1, <2>2 DEF WellFormed
<1>5. \A a \in Assignments : next.work[a] \in NextWork(cur.work[a])
  BY <1>2 DEF NextWork, Members, Run, WorkStatus
<1> QED BY <1>2, <1>3, <1>4, <1>5 DEF Admits, MayFollow

\* Updates that end what a team works on, or leave it as it is.
LEMMA TeamUpdateAccounts ==
  ASSUME IInv, Accounts, place \notin {"off", "opening", "blocking"}, step = Idle,
         NEW next \in Run, next.team = cur.team, next.status \in {"running", "interrupted"},
         NEW w \in {"running", "completed", "failed", "cancelled"},
         \A a \in Assignments : next.work[a] = IF a \in Members(cur) THEN w ELSE cur.work[a],
         NotLess(cur.book, next.book), next.book.started = cur.book.started,
         Used(next.book) <= Used(cur.book) + Cardinality(IF w = "running" THEN {} ELSE Members(cur)),
         Admits(next) => Charged(next.book.used) /\ Unbilled(next, next.book.used),
         w \in {"failed", "cancelled"} =>
           \A a \in Members(cur) :
             outcome[a] = "good" => disturbed \/ next.book.over \/ a \in belied,
         NEW then \in Place, NEW else \in Place,
         Admits(next) /\ then # "off" => Posed(then, next, Reconciled(tally, next.book), disturbed),
         disturbed /\ else # "off" => Posed(else, cur, tally, TRUE),
         Admits(next) /\ else # "off" => Posed(else, cur, tally, TRUE),
         Write(next, then, else)
  PROVE  Accounts'
<1>1. cur \in Run /\ disturbed \in BOOLEAN /\ Balanced /\ Faithful(run, disturbed)
  BY DEF Accounts, IInv, TypeOK
<1>2. Members(cur) \in SUBSET Assignments /\ Members(cur) \subseteq cur.team
      /\ Cardinality(Members(cur)) \in Nat
      /\ Used(next.book) \in Nat /\ Used(cur.book) \in Nat /\ Cardinality({}) = 0
  BY <1>1, RecordSets, UsedInNat, Counts
<1>3. /\ w # "running" => Members(next) = {}
      /\ w = "running" => Members(next) = Members(cur)
      /\ \A a \in Assignments : next.work[a] = cur.work[a]
                                \/ next.work[a] \in {"completed", "failed", "cancelled"}
  BY <1>1, <1>2 DEF Members, Run
<1>4. Used(next.book) <= Used(cur.book) + Cardinality(Members(cur))
  BY <1>2
<1>5. ~disturbed => Admits(next)
  BY <1>4, EndingAdmitted
<1>6. ASSUME Admits(next) PROVE Faithful(next, disturbed) /\ Unbilled(next, tally.used)
  <2>1. cur = run
    BY <1>6, AdmitsLast
  <2>2. ASSUME ~disturbed
        PROVE  /\ Used(next.book) + Cardinality(Members(next)) <= next.book.started
               /\ next.book.started <= Cardinality(Started(cur))
    <3>1. Sparing(cur)
      BY <1>1, <2>1, <2>2 DEF Faithful
    <3>2. cur.book.started \in Nat
      BY <1>1, RecordSets
    <3>3. CASE w = "running"
      <4>1. Used(next.book) <= Used(cur.book) + Cardinality({})
        BY <3>3
      <4> QED BY <1>2, <1>3, <3>1, <3>2, <3>3, <4>1 DEF Sparing
    <3>4. CASE w # "running"
      <4>1. Cardinality(Members(next)) = 0
        BY <1>2, <1>3, <3>4
      <4> QED BY <1>2, <1>4, <3>1, <3>2, <4>1 DEF Sparing
    <3> QED BY <3>3, <3>4
  <2>3. \A a \in Assignments :
          /\ next.work[a] \in {"failed", "cancelled"} /\ next.work[a] # cur.work[a]
          /\ outcome[a] = "good"
          => disturbed \/ next.book.over \/ a \in belied
    OBVIOUS
  <2>4. Faithful(next, disturbed) /\ Members(next) \subseteq Members(cur)
    BY <1>1, <1>3, <1>6, <2>2, <2>3, NextFaithful
  <2> QED BY <1>1, <2>4 DEF Balanced, Unbilled
<1>7. ~Admits(next) /\ else # "off" => Posed(else, cur, tally, disturbed)
  <2>1. disturbed => disturbed = TRUE
    BY <1>1
  <2> QED BY <1>5, <2>1
<1>8. place # "blocking" /\ next.team = cur.team /\ place # "off"
  OBVIOUS
<1> QED BY <1>6, <1>7, <1>8, WriteAccounts

\* A team's work is ended and billed.
LEMMA BilledAccounts ==
  ASSUME IInv, Accounts, place \notin {"off", "opening", "blocking"}, step = Idle,
         NEW w \in {"completed", "failed", "cancelled"},
         NEW n, n = WithWork(Billed(cur, Members(cur)), Members(cur), w),
         Admits(n) => \A a \in Members(cur) : outcome[a] \in Terminal,
         w \in {"failed", "cancelled"} =>
           \A a \in Members(cur) : outcome[a] = "good" => disturbed \/ cur.book.over,
         NEW then \in {"loop", "resuming"}, Resuming(then) => Resuming(place),
         NEW else \in {"off", "blocking", "dropping", "redropping"},
         else \in {"dropping", "redropping"} => \A a \in Members(cur) : outcome[a] = "good",
         Resuming(else) => Resuming(place),
         Write(n, then, else)
  PROVE  Accounts'
<1> DEFINE r == Billed(cur, Members(cur))
<1>1. /\ cur \in Run /\ tally \in Book /\ Booked(cur) /\ Posed(place, cur, tally, disturbed)
      /\ cur.book \in Book /\ cur.book.used \in Bill
  BY RecordSets DEF Accounts, IInv, TypeOK
<1>2. cur.status = "running"
  BY <1>1 DEF Posed
<1>3. Members(cur) \in SUBSET Assignments /\ Members(cur) \subseteq cur.team
  BY <1>1, RecordSets
<1>4. r \in Run /\ r.work = cur.work /\ r.team = cur.team /\ r.status = cur.status
  BY <1>1, BilledType
<1>5. /\ Used(cur.book) <= Used(r.book)
      /\ Used(r.book) <= Used(cur.book) + Cardinality(Members(cur))
      /\ r.book.started = cur.book.started
      /\ cur.book.over => r.book.over
      /\ \A a \in Assignments :
           r.book.used[a] = IF a \in Members(cur) THEN cur.book.used[a] + 1 ELSE cur.book.used[a]
  BY <1>1, <1>3, BilledUse
<1>6. /\ n \in Run /\ n.team = cur.team /\ n.status = "running" /\ n.book = r.book
      /\ \A a \in Assignments : n.work[a] = IF a \in Members(cur) THEN w ELSE cur.work[a]
  <2>1. w \in WorkStatus
    BY DEF WorkStatus
  <2> HIDE DEF r
  <2>2. n = WithWork(r, Members(cur), w)
    BY DEF r
  <2> QED BY <1>2, <1>4, <2>1, <2>2, WithWorkType DEF Run
<1> HIDE DEF r
<1>7. NotLess(cur.book, n.book)
  <2>1. r.book.started >= cur.book.started /\ Used(r.book) >= Used(cur.book)
    <3>1. cur.book.started \in Nat /\ Used(cur.book) \in Nat /\ Used(r.book) \in Nat
      BY <1>1, <1>4, RecordSets, UsedInNat
    <3> QED BY <1>5, <3>1
  <2> QED BY <1>5, <1>6, <2>1 DEF NotLess
<1>8. Members(n) = {}
  <2>1. cur.team \in SUBSET Assignments
    BY <1>1 DEF Run
  <2>2. \A a \in cur.team : n.work[a] # "running"
    BY <1>6, <2>1 DEF Members
  <2> QED BY <1>6, <2>2 DEF Members
<1>9. Admits(n) => Charged(n.book.used) /\ Unbilled(n, n.book.used)
  <2>1. Unbilled(n, n.book.used)
    BY <1>8 DEF Unbilled
  <2>2. ASSUME Admits(n) PROVE Charged(n.book.used)
    <3>1. \A a \in Members(cur) : outcome[a] \in Terminal /\ n.book.used[a] = 1
      BY <1>1, <1>3, <1>5, <1>6, <2>2 DEF Booked, Unbilled
    <3>2. \A a \in Assignments \ Members(cur) : n.book.used[a] = cur.book.used[a]
      BY <1>5, <1>6
    <3> QED BY <1>1, <3>1, <3>2 DEF Booked, Charged
  <2> QED BY <2>1, <2>2
<1>10. Posed(then, n, Reconciled(tally, n.book), disturbed)
  <2>1. Reconciled(tally, n.book).used \in {tally.used, n.book.used}
    BY <1>1, <1>6, ReconciledBalances DEF Run
  <2>2. \A a \in In(n, "running") : a \in Assignments \ Members(cur) /\ cur.work[a] = "running"
                                    /\ n.book.used[a] = cur.book.used[a]
    BY <1>3, <1>5, <1>6 DEF In
  <2>3. Resuming(then) =>
          \A a \in In(n, "running") \ exposed :
            Reconciled(tally, n.book).used[a] = 0 /\ n.book.used[a] = 0
    BY <1>1, <2>1, <2>2 DEF Posed, In
  <2> QED BY <1>6, <1>8, <2>3 DEF Posed, Quiet
<1>11. else # "off" => Posed(else, cur, tally, TRUE)
  BY <1>1, <1>2 DEF Posed, Quiet, Resuming
<1>12. then \in Place /\ else \in Place
  BY DEF Place
<1>13. /\ w \in {"failed", "cancelled"} =>
            \A a \in Members(cur) : outcome[a] = "good" => disturbed \/ n.book.over
       /\ n.book.started = cur.book.started /\ w # "running"
       /\ Used(n.book) <= Used(cur.book) + Cardinality(IF w = "running" THEN {} ELSE Members(cur))
  BY <1>5, <1>6
<1> QED BY <1>6, <1>7, <1>9, <1>10, <1>11, <1>12, <1>13, TeamUpdateAccounts

\* What the members of a team have come to is the same for each.
LEMMA TeamShares ==
  ASSUME IInv, Accounts, place # "off", ~disturbed \/ cur = run
  PROVE  Shared(cur)
<1>1. cur = run
  BY DEF Accounts, Balanced, IInv, Agree
<1> QED BY <1>1 DEF Accounts, Faithful

LEMMA DroppedAccounts ==
  ASSUME IInv, Accounts, place \notin {"off", "opening", "blocking"}, step = Idle,
         \/ \E a \in Members(cur) : outcome[a] \in Terminal \ {"good"}
         \/ /\ \A a \in Members(cur) : outcome[a] = "good"
            /\ disturbed \/ cur.book.over,
         NEW then \in {"loop", "resuming"}, Resuming(then) => Resuming(place),
         NEW else \in {"off", "blocking"},
         Write(Dropped, then, else)
  PROVE  Accounts'
<1>1. PICK w \in {"failed", "cancelled"} :
        Dropped = WithWork(Billed(cur, Members(cur)), Members(cur), w)
  BY DEF Dropped
<1>2. "good" \in Terminal
  BY DEF Terminal, Finished
<1>3. Admits(Dropped) => \A a \in Members(cur) : outcome[a] \in Terminal
  BY <1>2, AdmitsLast, TeamShares DEF Shared
<1>4. \A a \in Members(cur) : outcome[a] = "good" => disturbed \/ cur.book.over
  BY TeamShares DEF Shared
<1>5. ~Resuming(else)
  BY DEF Resuming
<1> QED BY <1>1, <1>3, <1>4, <1>5, BilledAccounts

LEMMA SettleAccounts ==
  ASSUME IInv, Accounts, place \notin {"off", "opening", "blocking"}, step = Idle,
         NEW then \in {"loop", "resuming"}, NEW retry \in {"dropping", "redropping"},
         NEW else \in {"blocking", "off"},
         Resuming(then) \/ Resuming(retry) => Resuming(place),
         SettleTeam(then, retry, else)
  PROVE  Accounts'
<1> DEFINE done == WithWork(Billed(cur, Members(cur)), Members(cur), "completed")
<1> DEFINE stopped == [cur EXCEPT !.status = "interrupted"]
<1>1. \/ /\ \A a \in Members(cur) : outcome[a] = "good"
         /\ IF cur.book.over THEN Write(Dropped, then, else) ELSE Write(done, then, retry)
      \/ /\ \E a \in Members(cur) : outcome[a] \in Terminal \ {"good"}
         /\ Write(Dropped, then, else)
      \/ Write(stopped, "off", else)
  BY Zenon DEF SettleTeam
<1>2. CASE /\ Write(Dropped, then, else)
           /\ \/ \E a \in Members(cur) : outcome[a] \in Terminal \ {"good"}
              \/ (\A a \in Members(cur) : outcome[a] = "good") /\ cur.book.over
  BY <1>2, DroppedAccounts
<1>3. CASE (\A a \in Members(cur) : outcome[a] = "good") /\ Write(done, then, retry)
  <2> HIDE DEF done
  <2>1. "good" \in Terminal
    BY DEF Terminal, Finished
  <2>2. \A a \in Members(cur) : outcome[a] \in Terminal
    BY <1>3, <2>1
  <2> QED BY <1>3, <2>2, BilledAccounts DEF done
<1>4. CASE Write(stopped, "off", else)
  <2>1. /\ cur \in Run /\ Booked(cur) /\ cur.status = "running"
        /\ cur.book.started \in Nat /\ Used(cur.book) \in Nat /\ Cardinality({}) = 0
    <3>1. cur \in Run /\ Booked(cur) /\ Posed(place, cur, tally, disturbed)
      BY DEF Accounts, IInv, TypeOK
    <3> QED BY <3>1, RecordSets, UsedByUses, UsedInNat, Counts DEF Posed
  <2>2. /\ stopped \in Run /\ stopped.work = cur.work /\ stopped.team = cur.team
        /\ stopped.book = cur.book /\ stopped.status = "interrupted"
    BY <2>1 DEF Run, GoalStatus, Unresolved
  <2> HIDE DEF stopped
  <2>3. \A a \in Assignments :
          stopped.work[a] = IF a \in Members(cur) THEN "running" ELSE cur.work[a]
    BY <2>2 DEF Members
  <2>4. NotLess(cur.book, stopped.book)
        /\ Used(stopped.book) <= Used(cur.book) + Cardinality({})
    BY <2>1, <2>2 DEF NotLess
  <2>5. Charged(stopped.book.used) /\ Unbilled(stopped, stopped.book.used)
    BY <2>1, <2>2 DEF Booked, Unbilled, Members
  <2>6. else # "off" => Posed(else, cur, tally, TRUE)
    BY <2>1 DEF Posed, Quiet, Resuming
  <2>7. "off" \in Place /\ else \in Place
    BY DEF Place
  <2> QED BY <1>4, <2>2, <2>3, <2>4, <2>5, <2>6, <2>7, TeamUpdateAccounts
<1> QED BY <1>1, <1>2, <1>3, <1>4

LEMMA LoseTeamAccounts == ASSUME IInv, Accounts, LoseTeam PROVE Accounts'
<1>1. /\ place = "team" /\ step = Idle /\ cur \in Run /\ Booked(cur)
      /\ Posed(place, cur, tally, disturbed)
  BY DEF LoseTeam, IInv, Placed, TypeOK, Accounts
<1>2. PICK w \in {"failed", "cancelled"} : Write(WithWork(cur, Members(cur), w), "loop", "blocking")
  BY DEF LoseTeam
<1> DEFINE n == WithWork(cur, Members(cur), w)
<1>3. cur.status = "running" /\ \A a \in Members(cur) : outcome[a] \in {"none", "open"} \/ a \in belied
  BY <1>1 DEF Posed
<1>4. /\ n \in Run /\ n.team = cur.team /\ n.status = "running" /\ n.book = cur.book
      /\ \A a \in Assignments : n.work[a] = IF a \in Members(cur) THEN w ELSE cur.work[a]
  <2>1. w \in WorkStatus
    BY DEF WorkStatus
  <2> QED BY <1>1, <1>3, <2>1, WithWorkType DEF Run
<1>5. Write(n, "loop", "blocking")
  BY <1>2
<1> HIDE DEF n
<1>6. Members(cur) \in SUBSET Assignments /\ Members(cur) \subseteq cur.team
      /\ Cardinality(Members(cur)) \in Nat /\ Used(cur.book) \in Nat /\ cur.book.started \in Nat
  BY <1>1, RecordSets, UsedInNat
<1>7. NotLess(cur.book, n.book) /\ n.book.started = cur.book.started
      /\ Used(n.book) <= Used(cur.book) + Cardinality(IF w = "running" THEN {} ELSE Members(cur))
  <2>1. Used(cur.book) <= Used(cur.book) + Cardinality(Members(cur)) /\ w # "running"
    BY <1>6
  <2> QED BY <1>4, <1>6, <2>1 DEF NotLess
<1>8. Members(n) = {}
  BY <1>1, <1>4 DEF Members, Run
<1>9. Charged(n.book.used) /\ Unbilled(n, n.book.used)
  BY <1>1, <1>4, <1>8 DEF Booked, Unbilled
<1>10. /\ Posed("loop", n, Reconciled(tally, n.book), disturbed)
       /\ Posed("blocking", cur, tally, TRUE)
       /\ "loop" \in Place /\ "blocking" \in Place
  BY <1>3, <1>4, <1>8 DEF Posed, Quiet, Resuming, Place
<1>11. \A a \in Members(cur) : outcome[a] = "good" => disturbed \/ n.book.over \/ a \in belied
  BY <1>3
<1> QED BY <1>1, <1>4, <1>5, <1>7, <1>9, <1>10, <1>11, TeamUpdateAccounts

LEMMA TeamEndsAccount ==
  ASSUME IInv, Accounts, LoseTeam \/ Settle \/ Drop \/ RecoverTeam
  PROVE  Accounts'
<1>1. CASE LoseTeam
  BY <1>1, LoseTeamAccounts
<1>2. CASE Settle
  <2>1. place = "settling" /\ step = Idle /\ SettleTeam("loop", "dropping", "blocking")
        /\ ~Resuming("loop") /\ ~Resuming("dropping")
    BY <1>2 DEF Settle, IInv, Placed, Resuming
  <2> QED BY <2>1, SettleAccounts
<1>3. CASE Drop
  <2>1. /\ place = "dropping" /\ step = Idle /\ Write(Dropped, "loop", "blocking")
        /\ ~Resuming("loop")
        /\ disturbed /\ \A a \in Members(cur) : outcome[a] = "good"
    BY <1>3 DEF Drop, IInv, Placed, Resuming, Accounts, Posed
  <2> QED BY <2>1, DroppedAccounts
<1>4. CASE RecoverTeam
  <2>1. CASE place = "resuming" /\ SettleTeam("resuming", "redropping", "off")
    <3>1. step = Idle /\ Resuming(place)
      BY <2>1 DEF IInv, Placed, Resuming
    <3> QED BY <2>1, <3>1, SettleAccounts
  <2>2. CASE place = "redropping" /\ Write(Dropped, "resuming", "off")
    <3>1. /\ step = Idle /\ Resuming(place)
          /\ disturbed /\ \A a \in Members(cur) : outcome[a] = "good"
      BY <2>2 DEF IInv, Placed, Resuming, Accounts, Posed
    <3> QED BY <2>2, <3>1, DroppedAccounts
  <2> QED BY <1>4, <2>1, <2>2 DEF RecoverTeam
<1> QED BY <1>1, <1>2, <1>3, <1>4

LEMMA RecoverAgentAccounts ==
  ASSUME IInv, Accounts, NEW a \in Assignments, RecoverAgent(a)
  PROVE  Accounts'
<1> DEFINE t == Bills(tally, a)
<1> DEFINE book == [t EXCEPT !.over = @ \/ outcome[a] = "dear"]
<1> DEFINE n1 == [cur EXCEPT !.work[a] = outcome[a], !.book = tally]
<1> DEFINE n2 == [cur EXCEPT !.work[a] = "completed", !.book = book]
<1>1. /\ place = "resuming" /\ place # "off" /\ step = Idle /\ Members(cur) = {}
      /\ cur.work[a] = "running" /\ AgentsEnded(cur) /\ cur \in Run /\ tally \in Book
      /\ disturbed \in BOOLEAN /\ Posed(place, cur, tally, disturbed) /\ Balanced
  BY DEF RecoverAgent, IInv, Placed, Resuming, TypeOK, Accounts
<1>2. outcome[a] \in Terminal
  BY <1>1 DEF AgentsEnded, Members
<1>3. \/ Go("off")
      \/ outcome[a] \in {"failed", "cancelled"} /\ Write(n1, "resuming", "off")
      \/ outcome[a] \notin {"failed", "cancelled"} /\ Write(n2, "resuming", "off")
  BY Zenon DEF RecoverAgent
<1>4. "resuming" \in Place /\ "off" \in Place /\ tally.used \in Bill /\ cur.book.used \in Bill
  BY <1>1, RecordSets DEF Place, Book
<1>5. /\ cur.status = "running"
      /\ \A b \in In(cur, "running") \ exposed : tally.used[b] = 0 /\ cur.book.used[b] = 0
  BY <1>1 DEF Posed, Resuming
<1>6. CASE Go("off")
  BY <1>1, <1>4, <1>6, GoAccounts
<1>7. CASE outcome[a] \in {"failed", "cancelled"} /\ Write(n1, "resuming", "off")
  <2>1. /\ n1 \in Run /\ n1.team = cur.team /\ n1.status = cur.status /\ n1.book = tally
        /\ \A b \in Assignments : n1.work[b] = IF b = a THEN outcome[a] ELSE cur.work[b]
    BY <1>1, <1>7 DEF Run, WorkStatus
  <2>2. Write(n1, "resuming", "off")
    BY <1>7
  <2> HIDE DEF n1
  <2>3. Admits(n1) => Faithful(n1, disturbed) /\ Unbilled(n1, tally.used)
    BY <1>1, <1>7, <2>1, TallyFaithful
  <2>4. Posed("resuming", n1, Reconciled(tally, n1.book), disturbed)
    <3>1. Reconciled(tally, n1.book).used = tally.used
      BY <1>1, <2>1, ReconciledBalances
    <3>2. In(n1, "running") \subseteq In(cur, "running")
      BY <1>7, <2>1 DEF In
    <3> QED BY <1>5, <2>1, <3>1, <3>2 DEF Posed, Quiet, Resuming
  <2> QED BY <1>1, <1>4, <2>1, <2>2, <2>3, <2>4, WriteAccounts
<1>8. CASE outcome[a] \notin {"failed", "cancelled"} /\ Write(n2, "resuming", "off")
  <2>1. /\ t \in Book /\ t.started = tally.started
        /\ \A b \in Assignments : /\ b # a => t.used[b] = tally.used[b]
                                  /\ t.used[b] <= tally.used[b] + 1
    BY <1>1, BillsUse
  <2> HIDE DEF t
  <2>2. book \in Book /\ book.used = t.used /\ book.started = tally.started
    <3>1. (t.over \/ outcome[a] = "dear") \in BOOLEAN
      OBVIOUS
    <3>2. \A f \in BOOLEAN : /\ [t EXCEPT !.over = f] \in Book
                             /\ [t EXCEPT !.over = f].used = t.used
                             /\ [t EXCEPT !.over = f].started = tally.started
      BY <2>1 DEF Book
    <3> QED BY <3>1, <3>2, Zenon
  <2>3. Write(n2, "resuming", "off")
    BY <1>8
  <2> HIDE DEF book
  <2>4. /\ n2 \in Run /\ n2.team = cur.team /\ n2.status = cur.status /\ n2.book = book
        /\ \A b \in Assignments : n2.work[b] = IF b = a THEN "completed" ELSE cur.work[b]
    BY <1>1, <2>2 DEF Run, WorkStatus
  <2> HIDE DEF n2
  <2>5. Members(n2) = {}
    BY <1>1, <2>4 DEF Members, Run
  <2>6. Charged(n2.book.used)
    <3>1. tally.used[a] = 0 \/ a \in exposed
      BY <1>1, <1>5 DEF In
    <3>2. Charged(tally.used) /\ book.used \in Bill
      BY <1>1, <2>2 DEF Balanced, Book
    <3>3. book.used[a] <= 1 \/ a \in exposed
      BY <1>4, <2>1, <2>2, <3>1, <3>2 DEF Bill
    <3> QED BY <1>2, <2>1, <2>2, <2>4, <3>2, <3>3 DEF Charged
  <2>7. ASSUME Admits(n2) PROVE Faithful(n2, disturbed) /\ Unbilled(n2, tally.used)
    <3>1. Unbilled(n2, n2.book.used) /\ Unbilled(n2, tally.used)
      BY <2>5 DEF Unbilled
    <3>2. ASSUME ~disturbed
          PROVE  /\ Used(n2.book) + Cardinality(Members(n2)) <= n2.book.started
                 /\ n2.book.started <= Cardinality(Started(cur))
      <4>1. Used(n2.book) <= n2.book.started /\ cur = run /\ Faithful(run, disturbed)
        BY <1>1, <2>7, AdmitsLast DEF Admits, MayFollow, WellFormed, Accounts
      <4>2. Cardinality(Members(n2)) = 0 /\ Used(n2.book) \in Nat
        BY <2>2, <2>4, <2>5, Counts, UsedInNat
      <4>3. tally.started <= cur.book.started /\ cur.book.started <= Cardinality(Started(cur))
        <5>1. tally.started + Cardinality(At("marked")) <= cur.book.started
          BY <1>1, <3>2 DEF Balanced
        <5>2. Cardinality(At("marked")) = 0 /\ tally.started \in Nat
          BY <1>1, IdleCounts DEF Book
        <5> QED BY <3>2, <4>1, <5>1, <5>2 DEF Faithful, Sparing
      <4>4. tally.started \in Nat /\ cur.book.started \in Nat /\ Cardinality(Started(cur)) \in Nat
        BY <1>1, RecordSets DEF Book
      <4> QED BY <2>2, <2>4, <4>1, <4>2, <4>3, <4>4
    <3>3. Faithful(n2, disturbed)
      BY <1>1, <2>4, <2>6, <2>7, <3>1, <3>2, NextFaithful
    <3> QED BY <3>1, <3>3
  <2>8. Posed("resuming", n2, Reconciled(tally, n2.book), disturbed)
    <3>1. Reconciled(tally, n2.book).used \in {tally.used, book.used}
      BY <1>1, <2>2, <2>4, ReconciledBalances
    <3>2. \A b \in In(n2, "running") : b \in In(cur, "running") /\ book.used[b] = tally.used[b]
      BY <2>1, <2>2, <2>4 DEF In
    <3> QED BY <1>5, <2>4, <3>1, <3>2 DEF Posed, Quiet, Resuming
  <2> QED BY <1>1, <1>4, <2>3, <2>4, <2>7, <2>8, WriteAccounts
<1> QED BY <1>3, <1>6, <1>7, <1>8

(***************************************************************************)
(* Starting and resuming, and what leaves the accounts alone.              *)
(***************************************************************************)
LEMMA NothingUsed == Used(NoBook) = 0 /\ \A a \in Assignments : NoBook.used[a] = 0
<1>1. \A a \in Assignments : NoBook.used[a] = 0
  BY DEF NoBook
<1>2. Uses(NoBook.used) = {}
  BY <1>1 DEF Uses
<1> QED BY <1>1, <1>2, UsedByUses, UsedInNat, Counts

\* Nothing is recorded, and nothing was created.
LEMMA NewFaithful ==
  ASSUME NEW r \in {NoRun, NewRun}, NEW d \in BOOLEAN, step = Idle,
         \A a \in Assignments : outcome[a] = "none"
  PROVE  Faithful(r, d) /\ r.book = NoBook /\ r.team = {} /\ Members(r) = {}
<1>1. r \in Run /\ r.book = NoBook /\ r.team = {} /\ \A a \in Assignments : r.work[a] = "pending"
  <2>1. r \in Run
    BY FirstRecords
  <2> QED BY <2>1 DEF NoRun, NewRun
<1>2. Members(r) = {} /\ Engaged(r) = {} /\ Started(r) \in SUBSET Assignments
  BY <1>1, IdleCounts DEF Members, Engaged, Started
<1>3. NoBook.started = 0 /\ Cardinality({}) = 0 /\ Cardinality(Started(r)) \in Nat
  BY <1>2, Counts DEF NoBook
<1>4. Booked(r)
  BY <1>1, <1>2, NothingUsed DEF Booked, Charged, Unbilled
<1>5. WellFormed(r) /\ Cardinality(Engaged(r)) <= r.book.started /\ Sparing(r)
  BY <1>1, <1>2, <1>3, NothingUsed DEF WellFormed, Sparing
<1>6. Shared(r) /\ Deserved(r, d)
  BY <1>1, <1>2 DEF Shared, Deserved
<1> QED BY <1>1, <1>2, <1>4, <1>5, <1>6 DEF Faithful

LEMMA InitAccounts == Init => Accounts
<1> SUFFICES ASSUME Init PROVE Accounts
  OBVIOUS
<1>1. Faithful(run, disturbed)
  BY NewFaithful DEF Init
<1> QED BY <1>1 DEF Init, Accounts

LEMMA StartAccounts == ASSUME IInv, Accounts, Start PROVE Accounts'
<1> USE DEF Start, Supervisor
<1>1. \A a \in Assignments : outcome[a] = "none"
  BY DEF IInv, Sound, Recorded, NoRun, NewRun
<1>2. /\ place = "off" /\ step = Idle /\ disturbed \in BOOLEAN /\ run' = NewRun /\ place' = "opening"
      /\ cur' = NewRun /\ behind' = FALSE /\ tally' = NoBook
      /\ UNCHANGED <<outcome, exposed, belied, step, disturbed>>
  BY DEF IInv, Placed, TypeOK
<1>3. Faithful(NewRun, disturbed) /\ NewRun.book = NoBook /\ NewRun.team = {} /\ Members(NewRun) = {}
      /\ NewRun \in Run
  BY <1>1, <1>2, NewFaithful, FirstRecords
<1>4. Faithful(run, disturbed)'
  <2>1. At("marked")' = At("marked")
    BY <1>2 DEF At
  <2> QED BY <1>2, <1>3, <2>1, FaithfulStays
<1>5. Booked(cur)'
  BY <1>2, <1>3, BookedStays DEF Faithful
<1>6. Balanced'
  <2>1. /\ tally'.started = 0 /\ cur'.book = NoBook
        /\ Used(tally)' = 0 /\ Used(cur.book)' = 0
        /\ \A a \in Assignments : tally'.used[a] = 0
    BY <1>2, <1>3, NothingUsed DEF NoBook
  <2>2. /\ Cardinality(At("working"))' = 0 /\ Cardinality(At("marked"))' = 0
        /\ Cardinality(Waiting)' = 0
    <3>1. At("working")' = At("working") /\ At("marked")' = At("marked") /\ Waiting' = Waiting
      BY <1>2 DEF At, Waiting
    <3> QED BY <1>2, <3>1, IdleCounts
  <2>3. Charged(tally.used)' /\ Unbilled(cur, tally.used)'
    BY <1>2, <1>3, <2>1 DEF Charged, Unbilled, Members
  <2>4. cur'.book.started = 0 /\ ~cur'.book.over
    BY <2>1 DEF NoBook
  <2> QED BY <1>2, <2>1, <2>2, <2>3, <2>4 DEF Balanced
<1>7. Posed(place, cur, tally, disturbed)'
  <2>1. ~Resuming("opening")
    BY DEF Resuming
  <2> QED BY <1>2, <1>3, <2>1, NothingUsed DEF Posed, Quiet, In
<1>8. Executing'
  BY <1>2, IdleExecutes
<1> QED BY <1>2, <1>4, <1>5, <1>6, <1>7, <1>8 DEF Accounts

LEMMA ResumeAccounts == ASSUME IInv, Accounts, Resume PROVE Accounts'
<1> USE DEF Resume, durable
<1>1. /\ place = "off" /\ step = Idle /\ ~behind /\ run \in Run /\ run.book \in Book
      /\ disturbed \in BOOLEAN /\ Faithful(run, disturbed) /\ Booked(run)
  BY DEF IInv, Placed, Agree, TypeOK, Run, Accounts, Faithful
<1>2. /\ place' = "opening" /\ run' = run /\ cur' = run /\ tally' = run.book /\ recovering' = TRUE
      /\ UNCHANGED <<outcome, behind, step, disturbed>> /\ exposed \subseteq exposed'
      /\ belied' = belied
      /\ \A a \in In(run, "running") \ exposed' : ~(run.book.used[a] > 0)
  OBVIOUS
<1>3. Faithful(run, disturbed)'
  <2>1. At("marked")' = At("marked")
    BY <1>2 DEF At
  <2> QED BY <1>1, <1>2, <2>1, FaithfulStays
<1>4. Booked(cur)'
  BY <1>2, <1>3 DEF Faithful, Booked, Charged, Unbilled, Members, Started
<1>5. Balanced'
  <2>1. /\ cur'.book = run.book /\ tally'.started = run.book.started /\ tally'.over = run.book.over
        /\ Used(tally)' = Used(run.book) /\ Used(cur.book)' = Used(run.book)
    BY <1>2
  <2>2. /\ Cardinality(At("working"))' = 0 /\ Cardinality(At("marked"))' = 0
        /\ Cardinality(Waiting)' = 0
    <3>1. At("working")' = At("working") /\ At("marked")' = At("marked") /\ Waiting' = Waiting
      BY <1>2 DEF At, Waiting
    <3> QED BY <1>1, <3>1, IdleCounts
  <2>3. Charged(tally.used)' /\ Unbilled(cur, tally.used)'
    BY <1>2, <1>4 DEF Booked, Charged, Unbilled, Members
  <2>4. run.book.started \in Nat /\ Used(run.book) \in Nat /\ run.book.started <= MaxStarts
        /\ Used(run.book) <= run.book.started
    BY <1>1, UsedInNat DEF Faithful, WellFormed, Book
  <2> QED BY <1>1, <1>2, <2>1, <2>2, <2>3, <2>4 DEF Balanced
<1>6. Posed(place, cur, tally, disturbed)'
  <2>1. \A a \in In(run, "running") \ exposed' : run.book.used[a] = 0
    <3>1. \A a \in Assignments : run.book.used[a] \in Nat
      BY <1>1 DEF Book, Bill
    <3> QED BY <1>2, <3>1 DEF In
  <2>2. ~Resuming("opening")
    BY DEF Resuming
  <2> QED BY <1>2, <2>1, <2>2 DEF Posed, Quiet, In
<1>7. Executing'
  BY <1>1, <1>2, IdleExecutes
<1> QED BY <1>2, <1>3, <1>4, <1>5, <1>6, <1>7 DEF Accounts

\* What the accounts speak of is left alone.
LEMMA SameAccounts ==
  ASSUME IInv, Accounts,
         UNCHANGED <<run, outcome, place, cur, behind, tally, step, recovering, disturbed,
                     exposed, belied>>
  PROVE  Accounts'
<1>1. run \in Run /\ disturbed \in BOOLEAN
  BY DEF IInv, TypeOK
<1>2. At("marked")' = At("marked") /\ At("working")' = At("working") /\ Waiting' = Waiting
  BY DEF At, Waiting
<1>3. Faithful(run, disturbed)'
  BY <1>1, <1>2, FaithfulStays DEF Accounts
<1>4. Booked(cur) => Booked(cur)'
  BY BookedStays DEF IInv, TypeOK
<1>5. Balanced => Balanced'
  BY <1>2 DEF Balanced, Charged, Unbilled, Members
<1>6. Posed(place, cur, tally, disturbed) => Posed(place, cur, tally, disturbed)'
  BY PosedStays
<1>7. Executing => Executing'
  BY DEF Executing
<1> QED BY <1>3, <1>4, <1>5, <1>6, <1>7 DEF Accounts

LEMMA CrashAccounts == ASSUME IInv, Accounts, Crash PROVE Accounts'
<1>1. /\ run \in Run /\ disturbed \in BOOLEAN /\ place' = "off" /\ step' = Idle
      /\ UNCHANGED <<run, outcome, exposed, belied, disturbed>>
  BY DEF IInv, TypeOK, Crash, durable, history
<1>2. At("marked")' \subseteq At("marked")
  BY <1>1 DEF At, Idle
<1>3. Faithful(run, disturbed)'
  BY <1>1, <1>2, FaithfulStays DEF Accounts
<1> QED BY <1>1, <1>3 DEF Accounts

(***************************************************************************)
(* The logs of a team.                                                     *)
(***************************************************************************)
\* A team that works goes on: its members have no use to their account yet.
LEMMA LogsFaithful ==
  ASSUME run \in Run, Faithful(run, disturbed), UNCHANGED <<run, step, disturbed, exposed>>,
         belied \subseteq belied',
         NEW end, \A a \in Members(run) : outcome[a] \in {"none", "open"} /\ outcome'[a] = end,
         \A a \in Assignments \ Members(run) : outcome'[a] = outcome[a]
  PROVE  Faithful(run, disturbed)'
<1>1. /\ Members(run) \subseteq run.team /\ run.team \in SUBSET Assignments
      /\ Engaged(run) \in SUBSET Assignments
      /\ \A a \in Members(run) : run.work[a] = "running" /\ run.book.used[a] = 0
  BY RecordSets DEF Members, Faithful, Booked, Unbilled
<1>2. Booked(run)'
  <2>1. Charged(run.book.used)'
    <3>1. Charged(run.book.used)
      BY DEF Faithful, Booked
    <3> QED BY <1>1, <3>1 DEF Charged
  <2> QED BY <2>1 DEF Faithful, Booked, Unbilled, Members, Started
<1>3. Cardinality(Engaged(run)') <= run.book.started
  <2>1. At("marked")' = At("marked")
    BY DEF At
  <2>2. Engaged(run)' \subseteq Engaged(run)
    BY <1>1, <2>1 DEF Engaged
  <2>3. Cardinality(Engaged(run)') <= Cardinality(Engaged(run)) /\ Cardinality(Engaged(run)') \in Nat
    BY <1>1, <2>2, Counts
  <2> QED BY <2>3, RecordSets DEF Faithful
<1>4. Shared(run)'
  BY DEF Shared, Members
<1>5. Deserved(run, disturbed)'
  BY <1>1 DEF Deserved, Faithful
<1>6. WellFormed(run)' /\ (~disturbed' => Sparing(run)')
  BY DEF Faithful, WellFormed, Sparing, Members, Started
<1> QED BY <1>2, <1>3, <1>4, <1>5, <1>6 DEF Faithful

LEMMA LogsAccount ==
  ASSUME IInv, Accounts, place \notin {"off", "batch"}, step = Idle,
         UNCHANGED <<run, cur, behind, tally, step, recovering, disturbed, exposed>>,
         belied \subseteq belied',
         NEW end, \A a \in Members(run) : outcome[a] \in {"none", "open"} /\ outcome'[a] = end,
         \A a \in Assignments \ Members(run) : outcome'[a] = outcome[a],
         place' # "off", place' # "blocking" => run.team = cur.team,
         Posed(place, cur, tally, disturbed)'
  PROVE  Accounts'
<1>1. /\ run \in Run /\ cur \in Run /\ Faithful(run, disturbed) /\ Booked(cur) /\ Balanced
      /\ cur.book.used \in Bill /\ tally.used \in Bill
  BY RecordSets DEF IInv, TypeOK, Accounts, Book
<1>2. \A a \in Members(run) : outcome[a] \notin Terminal
  BY DEF Terminal, Finished
<1>3. Charged(cur.book.used)'
  <2>1. Charged(cur.book.used)
    BY <1>1 DEF Booked
  <2> QED BY <1>1, <1>2, <2>1 DEF Charged, Bill
<1>4. Charged(tally.used)'
  <2>1. Charged(tally.used)
    BY <1>1 DEF Balanced
  <2> QED BY <1>1, <1>2, <2>1 DEF Charged, Bill
<1>5. Faithful(run, disturbed)'
  BY <1>1, LogsFaithful
<1>6. Booked(cur)'
  BY <1>1, <1>3 DEF Booked, Unbilled, Members, Started
<1>7. Balanced'
  <2>1. At("marked")' = At("marked") /\ At("working")' = At("working")
    BY DEF At
  <2>2. Waiting = {} /\ Waiting' = {}
    BY DEF Waiting, Idle
  <2> QED BY <1>1, <1>4, <2>1, <2>2 DEF Balanced, Unbilled, Members
<1>8. Executing'
  BY IdleExecutes
<1> QED BY <1>5, <1>6, <1>7, <1>8 DEF Accounts

LEMMA StartTeamAccounts == ASSUME IInv, Accounts, StartTeam PROVE Accounts'
<1> USE DEF StartTeam, volatile, history
<1>1. /\ place = "team" /\ step = Idle /\ cur = run /\ run \in Run
      /\ Posed(place, cur, tally, disturbed)
  BY DEF IInv, Placed, Agree, TypeOK, Accounts
<1>2. /\ outcome' = [a \in Assignments |-> IF a \in Members(run) THEN "open" ELSE outcome[a]]
      /\ UNCHANGED <<place, run, cur, behind, tally, step, recovering, disturbed, exposed, belied>>
  BY <1>1
<1>3. Members(run) \in SUBSET Assignments /\ Members(run)' = Members(run)
  <2>1. run.team \in SUBSET Assignments
    BY <1>1 DEF Run
  <2> QED BY <1>1, <1>2, <2>1 DEF Members
<1>4. Posed(place, cur, tally, disturbed)'
  BY <1>1, <1>2, <1>3 DEF Posed, Members, In, Resuming, Quiet
<1> QED BY <1>1, <1>2, <1>3, <1>4, LogsAccount

LEMMA EndTeamAccounts == ASSUME IInv, Accounts, EndTeam PROVE Accounts'
<1> USE DEF EndTeam, history
<1>1. /\ place = "team" /\ step = Idle /\ cur = run /\ run \in Run
      /\ Posed(place, cur, tally, disturbed)
  BY DEF IInv, Placed, Agree, TypeOK, Accounts
<1>2. PICK end \in Terminal \union {"open"} :
        outcome' = [a \in Assignments |-> IF a \in Members(run) THEN end ELSE outcome[a]]
  BY <1>1
<1>3. /\ UNCHANGED <<run, cur, behind, tally, step, recovering, disturbed, exposed, belied>>
      /\ place' = "settling" /\ cur.status = "running"
  BY <1>1 DEF Posed
<1>4. Members(run) \in SUBSET Assignments /\ \A a \in Members(run) : outcome[a] = "open"
  BY <1>1, RecordSets
<1>5. Posed(place, cur, tally, disturbed)'
  BY <1>3 DEF Posed, Resuming, Quiet
<1> QED BY <1>1, <1>2, <1>3, <1>4, <1>5, LogsAccount

LEMMA EndTeamUnheardAccounts == ASSUME IInv, Accounts, EndTeamUnheard PROVE Accounts'
<1> USE DEF EndTeamUnheard, volatile
<1>1. /\ place = "team" /\ step = Idle /\ cur = run /\ run \in Run
      /\ Posed(place, cur, tally, disturbed)
  BY DEF IInv, Placed, Agree, TypeOK, Accounts
<1>2. PICK end \in Terminal :
        outcome' = [a \in Assignments |-> IF a \in Members(run) THEN end ELSE outcome[a]]
  BY <1>1
<1>3. /\ UNCHANGED <<place, run, cur, behind, tally, step, recovering, disturbed, exposed>>
      /\ belied' = belied \union Members(run)
  BY <1>1
<1>4. Members(run) \in SUBSET Assignments /\ \A a \in Members(run) : outcome[a] = "open"
  BY <1>1, RecordSets
<1>5. Members(run)' = Members(run)
  BY <1>3 DEF Members
<1>6. Posed(place, cur, tally, disturbed)'
  BY <1>1, <1>3, <1>5 DEF Posed, In, Resuming, Quiet
<1> QED BY <1>1, <1>2, <1>3, <1>4, <1>6, LogsAccount

LEMMA ResumeTeamAccounts == ASSUME IInv, Accounts, ResumeTeam PROVE Accounts'
<1> USE DEF ResumeTeam, volatile, history
<1>1. place # "batch" /\ step = Idle /\ run \in Run /\ disturbed \in BOOLEAN
      /\ Faithful(run, disturbed)
  BY DEF IInv, Placed, TypeOK, Accounts
<1>2. PICK end \in Terminal :
        outcome' = [a \in Assignments |-> IF a \in Members(run) THEN end ELSE outcome[a]]
  OBVIOUS
<1>3. UNCHANGED <<place, run, cur, behind, tally, step, recovering, disturbed, exposed, belied>>
  OBVIOUS
<1>4. Members(run) \in SUBSET Assignments /\ \A a \in Members(run) : outcome[a] = "open"
  BY <1>1, RecordSets
<1>5. CASE place # "off"
  <2>1. Posed(place, cur, tally, disturbed) /\ (place # "blocking" => run.team = cur.team)
    BY <1>5 DEF Accounts
  <2>2. Posed(place, cur, tally, disturbed)'
    BY <1>3, <2>1 DEF Posed, Members, In, Resuming, Quiet
  <2> QED BY <1>1, <1>2, <1>3, <1>4, <1>5, <2>1, <2>2, LogsAccount
<1>6. CASE place = "off"
  <2>1. Faithful(run, disturbed)'
    BY <1>1, <1>2, <1>3, <1>4, LogsFaithful
  <2> QED BY <1>3, <1>6, <2>1 DEF Accounts
<1> QED BY <1>5, <1>6

(***************************************************************************)
(* One execution.                                                          *)
(***************************************************************************)
LEMMA Batching ==
  ASSUME IInv, Accounts, place = "batch"
  PROVE  /\ run \in Run /\ cur \in Run /\ tally \in Book /\ disturbed \in BOOLEAN
         /\ step \in [Assignments -> Step]
         /\ Faithful(run, disturbed) /\ Booked(cur) /\ Balanced /\ Executing
         /\ run.team = cur.team /\ cur.status = "running" /\ Members(cur) = {}
  BY DEF IInv, TypeOK, Accounts, Posed

\* Steps that leave the journal, the logs and the shared budget alone.
LEMMA ExecutionAccounts ==
  ASSUME IInv, Accounts, place = "batch",
         UNCHANGED <<run, outcome, place, cur, behind, tally, disturbed, exposed, belied>>,
         At("marked")' \subseteq At("marked"), At("working")' = At("working"),
         Waiting \subseteq Waiting', Executing'
  PROVE  Accounts'
<1>1. /\ run \in Run /\ cur \in Run /\ tally \in Book /\ disturbed \in BOOLEAN
      /\ Faithful(run, disturbed) /\ Booked(cur) /\ Balanced
      /\ Posed(place, cur, tally, disturbed) /\ run.team = cur.team
  BY Batching DEF Accounts
<1>2. Faithful(run, disturbed)'
  BY <1>1, FaithfulStays
<1>3. Booked(cur)'
  BY <1>1, BookedStays
<1>4. Balanced'
  <2>1. /\ Cardinality(At("marked")') <= Cardinality(At("marked"))
        /\ Cardinality(Waiting) <= Cardinality(Waiting')
        /\ Cardinality(At("marked")') \in Nat /\ Cardinality(At("marked")) \in Nat
        /\ Cardinality(Waiting) \in Nat /\ Cardinality(Waiting') \in Nat
    <3>1. At("marked") \in SUBSET Assignments /\ Waiting' \in SUBSET Assignments
      BY DEF At, Waiting
    <3> QED BY <3>1, Counts
  <2>2. tally.started \in Nat /\ cur.book.started \in Nat
    BY <1>1, RecordSets DEF Book
  <2>3. cur'.book.started <= tally'.started + Cardinality(Waiting')
    BY <1>1, <2>1, <2>2 DEF Balanced
  <2>4. ~disturbed' => tally'.started + Cardinality(At("marked")') <= cur'.book.started
    BY <1>1, <2>1, <2>2 DEF Balanced
  <2> QED BY <1>1, <2>3, <2>4 DEF Balanced, Charged, Unbilled, Members
<1>5. Posed(place, cur, tally, disturbed)'
  BY <1>1 DEF Posed, Resuming, Members, Quiet
<1> QED BY <1>1, <1>2, <1>3, <1>4, <1>5 DEF Accounts

LEMMA StartBatchAccounts == ASSUME IInv, Accounts, StartBatch PROVE Accounts'
<1> USE DEF StartBatch, durable, history
<1>1. /\ place = "loop" /\ step = Idle /\ run \in Run /\ cur \in Run /\ disturbed \in BOOLEAN
      /\ Faithful(run, disturbed) /\ Booked(cur) /\ Balanced
      /\ Posed(place, cur, tally, disturbed) /\ run.team = cur.team
  BY DEF AtLoop, IInv, Placed, TypeOK, Accounts
<1>2. PICK S \in SUBSET ReadyDirect(cur) : Ask(S)
  OBVIOUS
<1>3. \A a \in Assignments : step'[a] = IF a \in S THEN "asked" ELSE "idle"
  BY <1>1, <1>2 DEF Ask, Idle
<1>4. /\ UNCHANGED <<run, outcome, cur, behind, tally, recovering, disturbed, exposed, belied>>
      /\ place' = "batch"
  OBVIOUS
<1>5. /\ At("marked")' = At("marked") /\ At("working")' = At("working") /\ Waiting' = Waiting
  BY <1>1, <1>3 DEF At, Waiting, Idle
<1>6. Faithful(run, disturbed)'
  BY <1>1, <1>4, <1>5, FaithfulStays
<1>7. Booked(cur)'
  BY <1>1, <1>4, BookedStays
<1>8. Balanced'
  BY <1>1, <1>4, <1>5 DEF Balanced, Charged, Unbilled, Members
<1>9. Posed(place, cur, tally, disturbed)'
  <2>1. In(cur, "pending") # {}
    BY DEF ReadyDirect, Ready, In
  <2>2. Members(cur) = {} /\ cur.status = "running"
    BY <1>1, <2>1 DEF Posed
  <2> QED BY <1>4, <2>2 DEF Posed, Members, Quiet, Resuming
<1>10. Executing'
  <2>1. \A a \in S : cur.work[a] = "pending" /\ a \notin cur.team
    BY <1>1 DEF ReadyDirect, Ready, Booked, Started
  <2> QED BY <1>3, <1>4, <2>1 DEF Executing
<1> QED BY <1>1, <1>4, <1>6, <1>7, <1>8, <1>9, <1>10 DEF Accounts

LEMMA HandOffAccounts == ASSUME IInv, Accounts, NEW a \in Assignments, HandOff(a) PROVE Accounts'
<1> USE DEF HandOff, durable, history
<1>1. place = "batch"
  BY DEF IInv, Placed, Idle
<1>2. \A b \in Assignments : step'[b] = IF b = a THEN "asked" ELSE step[b]
  BY DEF Ask
<1>3. At("marked")' = At("marked") /\ At("working")' = At("working") /\ Waiting' = Waiting
  BY <1>2 DEF At, Waiting
<1>4. Executing'
  <2>1. cur.work[a] = "pending" /\ a \notin cur.team
    BY <1>1, Batching DEF MayHandOff, Booked, Started
  <2> QED BY <1>1, <1>2, <2>1, Batching DEF Executing
<1> QED BY <1>1, <1>3, <1>4, ExecutionAccounts

LEMMA ClaimAccounts == ASSUME IInv, Accounts, NEW a \in Assignments, Claim(a) PROVE Accounts'
<1> USE DEF Claim, durable, history
<1>1. place = "batch"
  BY DEF IInv, Placed, Idle
<1>2. PICK to \in {"claimed", "idle"} : step' = [step EXCEPT ![a] = to]
  OBVIOUS
<1>3. \A b \in Assignments : step'[b] = IF b = a THEN to ELSE step[b]
  BY <1>1, <1>2, Batching
<1>4. At("marked")' = At("marked") /\ At("working")' = At("working") /\ Waiting' = Waiting
  BY <1>3 DEF At, Waiting
<1>5. Executing'
  BY <1>1, <1>3, Batching DEF Executing
<1> QED BY <1>1, <1>4, <1>5, ExecutionAccounts

LEMMA LaunchAccounts == ASSUME IInv, Accounts, NEW a \in Assignments, Launch(a) PROVE Accounts'
<1> USE DEF Launch, history
<1>1. place = "batch" /\ step[a] = "marked" /\ outcome[a] = "none"
  BY DEF IInv, Placed, Idle, Stepping
<1>2. /\ run \in Run /\ cur \in Run /\ tally \in Book /\ disturbed \in BOOLEAN
      /\ step \in [Assignments -> Step] /\ outcome \in [Assignments -> Outcome]
      /\ Faithful(run, disturbed) /\ Booked(cur) /\ Balanced /\ Executing
      /\ run.team = cur.team /\ Members(cur) = {} /\ run.work[a] = "running" /\ a \notin run.team
      /\ Posed(place, cur, tally, disturbed)
  BY <1>1, Batching DEF Executing, IInv, TypeOK, Accounts
<1>3. CASE step' = [step EXCEPT ![a] = "caught"] /\ UNCHANGED <<tally, outcome, launches>>
  <2>1. \A b \in Assignments : step'[b] = IF b = a THEN "caught" ELSE step[b]
    BY <1>2, <1>3
  <2>2. At("marked")' \subseteq At("marked") /\ At("working")' = At("working") /\ Waiting' = Waiting
    BY <1>1, <1>3, <2>1 DEF At, Waiting
  <2>3. Executing'
    BY <1>1, <1>2, <1>3, <2>1 DEF Executing
  <2> QED BY <1>1, <1>3, <2>2, <2>3, ExecutionAccounts
<1>4. CASE /\ tally.started < MaxStarts
           /\ tally' = [tally EXCEPT !.started = @ + 1]
           /\ outcome' = [outcome EXCEPT ![a] = "open"]
           /\ step' = [step EXCEPT ![a] = "working"]
  <2>0. a \notin belied
    BY <1>1 DEF IInv, Launched
  <2>1. /\ \A b \in Assignments : step'[b] = IF b = a THEN "working" ELSE step[b]
        /\ \A b \in Assignments : outcome'[b] = IF b = a THEN "open" ELSE outcome[b]
        /\ tally'.started = tally.started + 1 /\ tally'.used = tally.used /\ tally'.over = tally.over
        /\ UNCHANGED <<run, place, cur, behind, recovering, disturbed, exposed, belied>>
    BY <1>2, <1>4 DEF Book
  <2>2. \A used \in Bill : Charged(used) => /\ used[a] = 0
                                            /\ \A b \in Assignments : used[b] > 0 => outcome'[b] \in Terminal \/ b \in belied
    BY <1>1, <2>0, <2>1 DEF Charged, Bill, Terminal, Finished
  <2>3. run.book.used \in Bill /\ cur.book.used \in Bill /\ tally.used \in Bill
        /\ Charged(run.book.used) /\ Charged(cur.book.used) /\ Charged(tally.used)
    BY <1>2, RecordSets DEF Book, Faithful, Booked, Balanced
  <2>4. Charged(run.book.used)' /\ Charged(cur.book.used)' /\ Charged(tally.used)'
    <3>1. Charged(run.book.used)'
      BY <2>1, <2>2, <2>3 DEF Charged
    <3>2. Charged(cur.book.used)'
      BY <2>1, <2>2, <2>3 DEF Charged
    <3>3. Charged(tally.used)'
      BY <2>1, <2>2, <2>3 DEF Charged
    <3> QED BY <3>1, <3>2, <3>3
  <2>5. Faithful(run, disturbed)'
    <3>1. Booked(run)'
      BY <1>2, <2>1, <2>4 DEF Faithful, Booked, Unbilled, Members, Started
    <3>2. Cardinality(Engaged(run)') <= run.book.started
      <4>1. Engaged(run)' \subseteq Engaged(run)
        BY <1>1, <2>1 DEF Engaged, At
      <4>2. Cardinality(Engaged(run)') <= Cardinality(Engaged(run)) /\ Cardinality(Engaged(run)') \in Nat
        BY <1>2, <4>1, RecordSets, Counts
      <4> QED BY <1>2, <4>2, RecordSets DEF Faithful
    <3>3. Shared(run)'
      BY <1>2, <2>1 DEF Faithful, Shared, Members, Run
    <3>4. Deserved(run, disturbed)'
      BY <1>2, <2>1 DEF Faithful, Deserved
    <3>5. WellFormed(run)' /\ (~disturbed' => Sparing(run)')
      BY <1>2, <2>1 DEF Faithful, WellFormed, Sparing, Members, Started
    <3> QED BY <3>1, <3>2, <3>3, <3>4, <3>5 DEF Faithful
  <2>6. Booked(cur)'
    BY <1>2, <2>1, <2>4 DEF Booked, Unbilled, Members, Started
  <2>7. Balanced'
    <3>1. /\ At("working") \in SUBSET Assignments /\ At("working")' \in SUBSET Assignments
          /\ At("marked") \in SUBSET Assignments /\ At("marked")' \in SUBSET Assignments
          /\ Waiting \in SUBSET Assignments /\ Waiting' \in SUBSET Assignments
      BY DEF At, Waiting
    <3>2. /\ At("working")' \subseteq At("working") \union {a}
          /\ a \in At("marked") /\ At("marked")' \subseteq At("marked") \ {a}
          /\ Waiting \subseteq Waiting' \union {a}
      BY <1>1, <2>1 DEF At, Waiting
    <3>3. /\ Cardinality(At("working")') <= Cardinality(At("working")) + 1
          /\ Cardinality(At("marked")') + 1 <= Cardinality(At("marked"))
          /\ Cardinality(Waiting) <= Cardinality(Waiting') + 1
      BY <3>1, <3>2, OneMore, OneLess
    <3>4. /\ Cardinality(At("working")) \in Nat /\ Cardinality(At("working")') \in Nat
          /\ Cardinality(At("marked")) \in Nat /\ Cardinality(At("marked")') \in Nat
          /\ Cardinality(Waiting) \in Nat /\ Cardinality(Waiting') \in Nat
          /\ tally.started \in Nat /\ cur.book.started \in Nat
          /\ Used(tally) \in Nat /\ Used(cur.book) \in Nat
      BY <1>2, <3>1, Counts, UsedInNat, RecordSets DEF Book
    <3>5. Used(tally)' = Used(tally) /\ Used(cur.book)' = Used(cur.book) /\ cur'.book = cur.book
      <4>1. Used(tally)' = Cardinality(Uses(tally'.used)) /\ Used(tally) = Cardinality(Uses(tally.used))
        BY UsedByUses
      <4> QED BY <2>1, <4>1
    <3>6. tally'.started <= MaxStarts /\ cur'.book.started <= MaxStarts
      BY <1>2, <1>4, <2>1, <3>4 DEF Balanced
    <3>7. Used(tally)' + Cardinality(At("working")') <= tally'.started
      BY <1>2, <2>1, <3>3, <3>4, <3>5 DEF Balanced
    <3>8. cur'.book.started <= tally'.started + Cardinality(Waiting')
      BY <1>2, <2>1, <3>3, <3>4, <3>5 DEF Balanced
    <3>9. ~disturbed' => ~behind' /\ tally'.started + Cardinality(At("marked")') <= cur'.book.started
      BY <1>2, <2>1, <3>3, <3>4, <3>5 DEF Balanced
    <3>10. Unbilled(cur, tally.used)' /\ (cur'.book.over => tally'.over) /\ Used(cur.book)' <= Used(tally)'
      BY <1>2, <2>1, <3>5 DEF Balanced, Unbilled, Members
    <3> QED BY <2>4, <3>6, <3>7, <3>8, <3>9, <3>10 DEF Balanced
  <2>8. Posed(place, cur, tally, disturbed)'
    BY <1>1, <1>2, <2>1 DEF Posed, Resuming, Members, Quiet
  <2>9. Executing'
    BY <1>1, <1>2, <2>0, <2>1 DEF Executing
  <2> QED BY <1>2, <2>1, <2>5, <2>6, <2>7, <2>8, <2>9 DEF Accounts
<1> QED BY <1>3, <1>4, Zenon

\* The call of an agent returns, and its use is billed or not.
LEMMA TurnAccounts ==
  ASSUME IInv, Accounts, NEW a \in Assignments, step[a] = "working", HandoffsOver(a),
         NEW end \in Terminal \union {"open"}, NEW to \in {"done", "caught"},
         outcome' = [outcome EXCEPT ![a] = end],
         step' = [b \in Assignments |->
                    IF b = a THEN to ELSE IF ParentOf[b] = a THEN "idle" ELSE step[b]],
         tally' \in Book, tally'.started = tally.started, tally.over => tally'.over,
         Used(tally) <= Used(tally'), Used(tally') <= Used(tally) + 1,
         \A b \in Assignments : /\ b # a => tally'.used[b] = tally.used[b]
                                /\ tally'.used[b] <= tally.used[b] + 1,
         belied \subseteq belied', belied' \subseteq belied \union {a},
         end = "open" => a \in belied',
         to = "caught" /\ end = "good" => tally'.over \/ a \in belied',
         UNCHANGED <<run, place, cur, behind, recovering, disturbed, exposed>>
  PROVE  Accounts'
<1>1. place = "batch" /\ step[a] = "working" /\ outcome[a] = "open"
  BY DEF IInv, Placed, Idle, Stepping
<1>2. /\ run \in Run /\ cur \in Run /\ tally \in Book /\ disturbed \in BOOLEAN
      /\ step \in [Assignments -> Step] /\ outcome \in [Assignments -> Outcome]
      /\ Faithful(run, disturbed) /\ Booked(cur) /\ Balanced /\ Executing
      /\ run.team = cur.team /\ Members(cur) = {} /\ run.work[a] = "running" /\ a \notin run.team
      /\ Posed(place, cur, tally, disturbed) /\ a \notin belied
  BY <1>1, Batching DEF Executing, IInv, TypeOK, Accounts
<1>3. /\ \A b \in Assignments : outcome'[b] = IF b = a THEN end ELSE outcome[b]
      /\ step'[a] = to
      /\ \A b \in Assignments \ {a} : step'[b] = step[b]
           \/ (step'[b] = "idle" /\ step[b] \in {"idle", "refused"})
  BY <1>2 DEF HandoffsOver
<1>4. run.book.used \in Bill /\ cur.book.used \in Bill /\ tally.used \in Bill /\ tally'.used \in Bill
      /\ Charged(run.book.used) /\ Charged(cur.book.used) /\ Charged(tally.used)
  BY <1>2, RecordSets DEF Book, Faithful, Booked, Balanced
<1>5. Charged(run.book.used)' /\ Charged(cur.book.used)' /\ Charged(tally.used)'
  <2>1. Charged(run.book.used)'
    BY <1>3, <1>4 DEF Charged
  <2>2. Charged(cur.book.used)'
    BY <1>3, <1>4 DEF Charged
  <2>3. Charged(tally.used)'
    <3>1. tally.used[a] = 0 /\ "open" \notin Terminal
      BY <1>1, <1>2, <1>4 DEF Charged, Bill, Terminal, Finished
    <3>2. tally'.used[a] <= 1
      BY <1>4, <3>1
    <3> QED BY <1>3, <1>4, <3>2 DEF Charged
  <2> QED BY <2>1, <2>2, <2>3
<1>6. /\ At("marked")' = At("marked") /\ Waiting' = Waiting
      /\ a \in At("working") /\ At("working")' \subseteq At("working") \ {a}
  <2>1. step'[a] \in {"done", "caught"} /\ outcome'[a] # "none"
    BY <1>3 DEF Terminal, Finished
  <2>2. \A b \in Assignments \ {a} : outcome'[b] = outcome[b]
    BY <1>3
  <2>3. At("marked")' = At("marked") /\ a \in At("working") /\ At("working")' \subseteq At("working") \ {a}
    BY <1>1, <1>3, <2>1 DEF At
  <2>4. Waiting' = Waiting
    <3> SUFFICES ASSUME NEW b \in Assignments PROVE b \in Waiting' <=> b \in Waiting
      BY DEF Waiting
    <3>1. CASE b = a
      BY <1>1, <2>1, <3>1 DEF Waiting
    <3>2. CASE b # a
      BY <1>3, <2>2, <3>2 DEF Waiting
    <3> QED BY <3>1, <3>2
  <2> QED BY <2>3, <2>4
<1>7. Faithful(run, disturbed)'
  <2>1. Booked(run)'
    BY <1>2, <1>3, <1>5 DEF Faithful, Booked, Unbilled, Members, Started
  <2>2. Cardinality(Engaged(run)') <= run.book.started
    <3>1. Engaged(run)' \subseteq Engaged(run)
      BY <1>1, <1>3, <1>6 DEF Engaged
    <3>2. Cardinality(Engaged(run)') <= Cardinality(Engaged(run)) /\ Cardinality(Engaged(run)') \in Nat
      BY <1>2, <3>1, RecordSets, Counts
    <3> QED BY <1>2, <3>2, RecordSets DEF Faithful
  <2>3. Shared(run)'
    BY <1>2, <1>3 DEF Faithful, Shared, Members, Run
  <2>4. Deserved(run, disturbed)'
    BY <1>2, <1>3 DEF Faithful, Deserved
  <2>5. WellFormed(run)' /\ (~disturbed' => Sparing(run)')
    BY <1>2, <1>3 DEF Faithful, WellFormed, Sparing, Members, Started
  <2> QED BY <1>3, <2>1, <2>2, <2>3, <2>4, <2>5 DEF Faithful
<1>8. Booked(cur)'
  BY <1>2, <1>3, <1>5 DEF Booked, Unbilled, Members, Started
<1>9. Balanced'
  <2>1. /\ At("working") \in SUBSET Assignments /\ At("working")' \in SUBSET Assignments
        /\ At("marked") \in SUBSET Assignments /\ Waiting \in SUBSET Assignments
    BY DEF At, Waiting
  <2>2. Cardinality(At("working")') + 1 <= Cardinality(At("working"))
    BY <1>6, <2>1, OneLess
  <2>3. /\ Cardinality(At("working")) \in Nat /\ Cardinality(At("working")') \in Nat
        /\ tally.started \in Nat /\ cur.book.started \in Nat
        /\ Used(tally) \in Nat /\ Used(tally)' \in Nat /\ Used(cur.book) \in Nat
    BY <1>2, <2>1, Counts, UsesFinite, UsedInNat, RecordSets DEF Book
  <2>4. Used(tally)' + Cardinality(At("working")') <= tally'.started
    BY <1>2, <2>2, <2>3 DEF Balanced
  <2>5. Used(cur.book)' <= Used(tally)' /\ cur'.book = cur.book
    BY <1>2, <1>3, <2>3 DEF Balanced
  <2>6. (cur'.book.over => tally'.over) /\ Unbilled(cur, tally.used)'
    BY <1>2, <1>3 DEF Balanced, Unbilled, Members
  <2>7. /\ tally'.started <= MaxStarts /\ cur'.book.started <= MaxStarts
        /\ cur'.book.started <= tally'.started + Cardinality(Waiting')
        /\ ~disturbed' => ~behind' /\ tally'.started + Cardinality(At("marked")') <= cur'.book.started
    BY <1>2, <1>3, <1>6 DEF Balanced
  <2> QED BY <1>5, <2>4, <2>5, <2>6, <2>7 DEF Balanced
<1>10. Posed(place, cur, tally, disturbed)'
  BY <1>1, <1>2, <1>3 DEF Posed, Resuming, Members, Quiet
<1>11. Executing'
  <2>1. step'[a] = "caught" /\ end = "good" => tally'.over \/ a \in belied'
    BY <1>3
  <2>2. step'[a] \in {"done", "caught"} /\ cur'.work[a] = "running" /\ run'.work[a] = "running"
        /\ a \notin cur'.team
    BY <1>1, <1>2, <1>3 DEF Executing
  <2>3. \A b \in Assignments \ {a} :
          /\ step'[b] = step[b] \/ step'[b] = "idle"
          /\ outcome'[b] = outcome[b] /\ (b \in belied' <=> b \in belied)
    BY <1>3
  <2>4. cur' = cur /\ run' = run /\ disturbed' = disturbed /\ (tally.over => tally'.over)
        /\ outcome'[a] = end
    BY <1>3
  <2> SUFFICES ASSUME NEW b \in Assignments
               PROVE (/\ step[b] \notin {"idle", "refused"} => b \notin cur.team
                      /\ step[b] \in {"asked", "claimed"} => cur.work[b] = "pending"
                      /\ step[b] \in {"marked", "working", "done"} =>
                           cur.work[b] = "running" /\ run.work[b] = "running"
                      /\ step[b] = "working" => b \notin belied
                      /\ step[b] \in {"caught", "failed", "cancelled"} /\ outcome[b] = "good" =>
                           disturbed \/ tally.over \/ b \in belied)'
    BY DEF Executing
  <2>5. CASE b = a
    BY <2>1, <2>2, <2>4, <2>5
  <2>6. CASE b # a
    BY <1>2, <2>3, <2>4, <2>6 DEF Executing
  <2> QED BY <2>5, <2>6
<1> QED BY <1>2, <1>3, <1>7, <1>8, <1>9, <1>10, <1>11 DEF Accounts

LEMMA EndTurnAccounts == ASSUME IInv, Accounts, NEW a \in Assignments, EndTurn(a) PROVE Accounts'
<1>1. step[a] = "working" /\ HandoffsOver(a) /\ tally \in Book
      /\ UNCHANGED <<run, place, cur, behind, recovering, disturbed, exposed, belied>>
  BY DEF EndTurn, history, IInv, TypeOK
<1> DEFINE t == Bills(tally, a)
<1>2. PICK end \in Terminal :
        /\ outcome' = [outcome EXCEPT ![a] = end]
        /\ step' = [b \in Assignments |->
                     IF b = a THEN IF end = "good" /\ ~tally.over THEN "done" ELSE "caught"
                     ELSE IF ParentOf[b] = a THEN "idle" ELSE step[b]]
        /\ tally' = [t EXCEPT !.over = @ \/ end = "dear"] \/ tally' = tally
  BY Zenon DEF EndTurn
<1>3. PICK to \in {"done", "caught"} :
        /\ to = "caught" /\ end = "good" => tally.over
        /\ outcome' = [outcome EXCEPT ![a] = end]
        /\ step' = [b \in Assignments |->
                      IF b = a THEN to ELSE IF ParentOf[b] = a THEN "idle" ELSE step[b]]
  BY <1>2
<1>4. /\ tally' \in Book /\ tally'.started = tally.started
      /\ tally.over => tally'.over
      /\ Used(tally) <= Used(tally') /\ Used(tally') <= Used(tally) + 1
      /\ \A b \in Assignments : /\ b # a => tally'.used[b] = tally.used[b]
                                /\ tally'.used[b] <= tally.used[b] + 1
  <2>1. /\ t \in Book /\ t.started = tally.started /\ t.over = tally.over
        /\ Used(tally) <= Used(t) /\ Used(t) <= Used(tally) + 1
        /\ \A b \in Assignments : /\ b # a => t.used[b] = tally.used[b]
                                  /\ t.used[b] <= tally.used[b] + 1
    BY <1>1, BillsUse
  <2> HIDE DEF t
  <2>2. CASE tally' = [t EXCEPT !.over = @ \/ end = "dear"]
    <3>1. (t.over \/ end = "dear") \in BOOLEAN
      OBVIOUS
    <3>2. \A f \in BOOLEAN : /\ [t EXCEPT !.over = f] \in Book
                             /\ [t EXCEPT !.over = f].used = t.used
                             /\ [t EXCEPT !.over = f].started = t.started
                             /\ [t EXCEPT !.over = f].over = f
      BY <2>1 DEF Book
    <3>3. /\ tally' \in Book /\ tally'.used = t.used /\ tally'.started = t.started
          /\ tally'.over = (t.over \/ end = "dear")
      BY <2>2, <3>1, <3>2, Zenon
    <3>4. Used(tally') = Used(t)
      <4>1. Used(tally') = Cardinality(Uses(tally'.used)) /\ Used(t) = Cardinality(Uses(t.used))
        BY UsedByUses
      <4> QED BY <3>3, <4>1
    <3>5. tally.over => tally'.over
      BY <2>1, <3>3, Zenon
    <3> QED BY <2>1, <3>3, <3>4, <3>5
  <2>3. CASE tally' = tally
    <3>1. Used(tally) \in Nat /\ \A b \in Assignments : tally.used[b] \in Nat
      BY <1>1, UsedInNat DEF Book, Bill
    <3> QED BY <1>1, <2>3, <3>1
  <2> QED BY <1>2, <2>2, <2>3
<1> HIDE DEF t
<1> HIDE DEF t
<1>5. to = "caught" /\ end = "good" => tally'.over
  BY <1>3, <1>4
<1>6. end \in Terminal \union {"open"} /\ end # "open"
  BY DEF Terminal, Finished
<1> QED BY <1>1, <1>3, <1>4, <1>5, <1>6, TurnAccounts

LEMMA EndTurnUnheardAccounts ==
  ASSUME IInv, Accounts, NEW a \in Assignments, EndTurnUnheard(a)
  PROVE  Accounts'
<1>1. /\ step[a] = "working" /\ HandoffsOver(a) /\ tally \in Book
      /\ UNCHANGED <<run, place, cur, behind, recovering, disturbed, exposed>>
      /\ belied' = belied \union {a}
      /\ step' = [b \in Assignments |->
                    IF b = a THEN "caught" ELSE IF ParentOf[b] = a THEN "idle" ELSE step[b]]
  BY DEF EndTurnUnheard, IInv, TypeOK
<1>2. PICK end \in Finished \union {"open"} :
        outcome' = [outcome EXCEPT ![a] = end] /\ tally' \in {Bills(tally, a), tally}
  BY Zenon DEF EndTurnUnheard
<1>3. end \in Terminal \union {"open"}
  BY DEF Terminal
<1>4. /\ tally' \in Book /\ tally'.started = tally.started /\ tally'.over = tally.over
      /\ Used(tally) <= Used(tally') /\ Used(tally') <= Used(tally) + 1
      /\ \A b \in Assignments : /\ b # a => tally'.used[b] = tally.used[b]
                                /\ tally'.used[b] <= tally.used[b] + 1
  <2>1. CASE tally' = Bills(tally, a)
    BY <1>1, <2>1, BillsUse
  <2>2. CASE tally' = tally
    <3>1. Used(tally) \in Nat /\ \A b \in Assignments : tally.used[b] \in Nat
      BY <1>1, UsedInNat DEF Book, Bill
    <3> QED BY <1>1, <2>2, <3>1
  <2> QED BY <1>2, <2>1, <2>2
<1>5. tally.over => tally'.over
  BY <1>4
<1> QED BY <1>1, <1>2, <1>3, <1>4, <1>5, TurnAccounts

\* What an update of an execution does.
LEMMA UpdateCases ==
  ASSUME IInv, Accounts, place = "batch", NEW a \in Assignments, NEW next, NEW then, NEW else,
         Update(a, next, then, else)
  PROVE  /\ UNCHANGED <<outcome, tally, place, recovering, exposed, belied>>
         /\ disturbed' \in BOOLEAN /\ (disturbed => disturbed')
         /\ \/ /\ Admits(next) /\ run' = next /\ cur' = next /\ behind' = behind
               /\ step' = [step EXCEPT ![a] = then]
               /\ Overlap(a) => disturbed'
            \/ /\ ~Admits(next) /\ UNCHANGED <<run, cur, behind>>
               /\ step' = [step EXCEPT ![a] = else]
               /\ Overlap(a) => disturbed'
            \/ /\ Admits(next) /\ disturbed' = TRUE /\ run' \in {run, next} /\ cur' = cur
               /\ step' = [step EXCEPT ![a] = else]
<1>1. disturbed \in BOOLEAN /\ Overlap(a) \in BOOLEAN
  BY DEF IInv, TypeOK, Overlap
<1>2. /\ UNCHANGED <<outcome, tally, place, recovering, exposed, belied>>
      /\ \/ /\ Admits(next) /\ run' = next /\ cur' = next /\ behind' = behind
            /\ step' = [step EXCEPT ![a] = then]
            /\ disturbed' = (disturbed \/ Overlap(a))
         \/ /\ ~Admits(next) /\ UNCHANGED <<run, cur, behind>>
            /\ step' = [step EXCEPT ![a] = else]
            /\ disturbed' = (disturbed \/ Overlap(a))
         \/ /\ Admits(next) /\ disturbed' = TRUE /\ (run' = run \/ run' = next) /\ cur' = cur
            /\ step' = [step EXCEPT ![a] = else]
  BY Zenon DEF Update
<1>3. disturbed' = (disturbed \/ Overlap(a)) =>
        disturbed' \in BOOLEAN /\ (disturbed => disturbed') /\ (Overlap(a) => disturbed')
  BY <1>1, Zenon
<1> QED BY <1>2, <1>3

\* No sibling is recorded as started and missing in the shared budget.
LEMMA NoOverlap ==
  ASSUME NEW a \in Assignments, ~Overlap(a), a \notin At("marked"), a \notin Waiting
  PROVE  At("marked") = {} /\ Waiting = {}
  BY DEF Overlap, At, Waiting

\* An update that is not accepted, or of which that is not known.
LEMMA UpdateFails ==
  ASSUME IInv, Accounts, place = "batch",
         NEW a \in Assignments, step[a] \in {"claimed", "done", "failed", "cancelled"},
         a \notin cur.team,
         NEW next \in Run, next.team = cur.team, \A b \in Assignments \ {a} : next.work[b] = cur.work[b],
         NEW else \in {"idle", "refused", "caught"},
         UNCHANGED <<outcome, tally, place, recovering, exposed, belied, cur>>,
         step' = [step EXCEPT ![a] = else],
         disturbed' \in BOOLEAN, disturbed => disturbed', ~disturbed' => ~behind',
         \/ run' = run
         \/ run' = next /\ cur = run /\ disturbed' = TRUE /\ Faithful(next, TRUE),
         else = "caught" /\ outcome[a] = "good" => disturbed' \/ tally.over
  PROVE  Accounts'
<1>1. /\ run \in Run /\ cur \in Run /\ tally \in Book /\ disturbed \in BOOLEAN
      /\ step \in [Assignments -> Step]
      /\ Faithful(run, disturbed) /\ Booked(cur) /\ Balanced /\ Executing
      /\ run.team = cur.team /\ Posed(place, cur, tally, disturbed)
  BY Batching DEF Accounts
<1>2. \A b \in Assignments : step'[b] = IF b = a THEN else ELSE step[b]
  BY <1>1
<1>3. At("marked")' = At("marked") /\ At("working")' = At("working") /\ Waiting \subseteq Waiting'
  BY <1>2 DEF At, Waiting
<1>4. Faithful(run, disturbed)'
  <2>1. PICK r \in {run, next}, d \in {disturbed, TRUE} :
          run' = r /\ Faithful(r, d) /\ (d => disturbed')
    BY <1>1
  <2> QED BY <1>1, <1>3, <2>1, FaithfulStays
<1>5. Booked(cur)'
  BY <1>1, BookedStays
<1>6. Balanced'
  <2>1. Cardinality(Waiting) <= Cardinality(Waiting') /\ Cardinality(At("marked")) \in Nat
        /\ Cardinality(Waiting) \in Nat /\ Cardinality(Waiting') \in Nat
    <3>1. At("marked") \in SUBSET Assignments /\ Waiting' \in SUBSET Assignments
      BY DEF At, Waiting
    <3> QED BY <1>3, <3>1, Counts
  <2>2. tally.started \in Nat /\ cur.book.started \in Nat
    BY <1>1, RecordSets DEF Book
  <2>3. cur'.book.started <= tally'.started + Cardinality(Waiting')
    BY <1>1, <2>1, <2>2 DEF Balanced
  <2>4. ~disturbed' => ~behind' /\ tally'.started + Cardinality(At("marked")') <= cur'.book.started
    BY <1>1, <1>3 DEF Balanced
  <2> QED BY <1>1, <1>3, <2>3, <2>4 DEF Balanced, Charged, Unbilled, Members
<1>7. Posed(place, cur, tally, disturbed)'
  BY <1>1 DEF Posed, Resuming, Members, Quiet
<1>8. run'.team = cur'.team
  BY <1>1
<1>9. Executing'
  <2>1. \A b \in Assignments \ {a} : step[b] \in {"marked", "working", "done"} => run'.work[b] = "running"
    BY <1>1 DEF Executing
  <2> QED BY <1>1, <1>2, <2>1 DEF Executing
<1> QED BY <1>4, <1>5, <1>6, <1>7, <1>8, <1>9 DEF Accounts

\* The update that ends an execution.
LEMMA EndingAccounts ==
  ASSUME IInv, Accounts, place = "batch",
         NEW a \in Assignments, step[a] \in {"done", "failed", "cancelled"},
         NEW next \in Run, next.team = cur.team, next.status = cur.status, next.book = tally,
         \A b \in Assignments \ {a} : next.work[b] = cur.work[b],
         next.work[a] = IF step[a] = "done" THEN "completed" ELSE step[a],
         NEW else \in {"idle", "refused", "caught"},
         else = "caught" => step[a] = "done",
         Update(a, next, "idle", else)
  PROVE  Accounts'
<1>1. /\ run \in Run /\ cur \in Run /\ tally \in Book /\ disturbed \in BOOLEAN
      /\ step \in [Assignments -> Step]
      /\ Faithful(run, disturbed) /\ Booked(cur) /\ Balanced /\ Executing
      /\ run.team = cur.team /\ cur.status = "running" /\ Members(cur) = {}
      /\ Posed(place, cur, tally, disturbed) /\ a \notin cur.team
  BY Batching DEF Executing, Accounts
<1>2. /\ a \notin At("marked") /\ a \notin Waiting
      /\ step[a] = "done" => outcome[a] = "good"
      /\ step[a] # "done" /\ outcome[a] = "good" => disturbed \/ tally.over \/ a \in belied
  BY <1>1 DEF At, Waiting, IInv, Stepping, Executing
<1>3. /\ UNCHANGED <<outcome, tally, place, recovering, exposed, belied>>
      /\ disturbed' \in BOOLEAN /\ (disturbed => disturbed')
      /\ \/ /\ Admits(next) /\ run' = next /\ cur' = next /\ behind' = behind
            /\ step' = [step EXCEPT ![a] = "idle"]
            /\ Overlap(a) => disturbed'
         \/ /\ ~Admits(next) /\ UNCHANGED <<run, cur, behind>>
            /\ step' = [step EXCEPT ![a] = else]
            /\ Overlap(a) => disturbed'
         \/ /\ Admits(next) /\ disturbed' = TRUE /\ run' \in {run, next} /\ cur' = cur
            /\ step' = [step EXCEPT ![a] = else]
  BY UpdateCases
<1>4. ASSUME Admits(next), NEW d \in BOOLEAN, disturbed => d PROVE Faithful(next, d)
  <2>1. \A b \in Assignments :
          \/ next.work[b] = cur.work[b]
          \/ next.work[b] \in {"completed", "failed", "cancelled"}
    OBVIOUS
  <2>2. \A b \in Assignments :
          /\ next.work[b] \in {"failed", "cancelled"} /\ next.work[b] # cur.work[b]
          /\ outcome[b] = "good"
          => d \/ tally.over \/ b \in belied
    BY <1>2, <1>4
  <2> QED BY <1>1, <1>4, <2>1, <2>2, TallyFaithful
<1>5. CASE /\ Admits(next) /\ run' = next /\ cur' = next /\ behind' = behind
           /\ step' = [step EXCEPT ![a] = "idle"]
           /\ Overlap(a) => disturbed'
  <2>1. \A b \in Assignments : step'[b] = IF b = a THEN "idle" ELSE step[b]
    BY <1>1, <1>5
  <2>2. At("marked")' = At("marked") /\ At("working")' = At("working") /\ Waiting' = Waiting
    BY <1>2, <1>3, <2>1 DEF At, Waiting
  <2>3. Faithful(next, disturbed')
    BY <1>3, <1>4, <1>5
  <2>4. Faithful(run, disturbed)'
    BY <1>3, <1>5, <2>2, <2>3, FaithfulStays
  <2>5. Booked(cur)'
    <3>1. Booked(next)
      BY <2>3 DEF Faithful
    <3> QED BY <1>3, <1>5, <3>1, BookedStays
  <2>6. Balanced'
    <3>1. Used(cur.book)' = Used(tally) /\ Used(tally)' = Used(tally) /\ cur'.book = tally
      BY <1>3, <1>5
    <3>2. ~disturbed' => At("marked") = {}
      BY <1>2, <1>5, NoOverlap
    <3>3. Unbilled(cur, tally.used)' /\ Charged(tally.used)'
      BY <1>1, <1>3, <1>5 DEF Balanced, Unbilled, Members, Charged, Run
    <3>4. tally.started \in Nat /\ Used(tally) \in Nat /\ Cardinality(Waiting) \in Nat /\ Cardinality({}) = 0
      <4>1. Waiting \in SUBSET Assignments
        BY DEF Waiting
      <4> QED BY <1>1, <4>1, UsedByUses, UsedInNat, Counts DEF Book
    <3>5. cur'.book.started <= tally'.started + Cardinality(Waiting')
      BY <1>3, <2>2, <3>1, <3>4
    <3>6. ASSUME ~disturbed'
          PROVE  ~behind' /\ tally'.started + Cardinality(At("marked")') <= cur'.book.started
      <4>1. ~disturbed /\ ~behind' /\ At("marked")' = {}
        BY <1>1, <1>3, <1>5, <2>2, <3>2, <3>6 DEF Balanced
      <4>2. Cardinality(At("marked")') = 0
        BY <3>4, <4>1
      <4>3. tally'.started = tally.started /\ cur'.book.started = tally.started
        BY <1>3, <3>1
      <4> QED BY <3>4, <4>1, <4>2, <4>3
    <3> QED BY <1>1, <1>3, <2>2, <3>1, <3>3, <3>4, <3>5, <3>6 DEF Balanced
  <2>7. Posed(place, cur, tally, disturbed)'
    <3>1. cur'.status = "running" /\ Members(cur)' = {}
      BY <1>1, <1>5 DEF Members, Run
    <3> QED BY <1>3, <3>1 DEF Posed, Resuming, Quiet
  <2>8. Executing'
    BY <1>1, <1>3, <1>5, <2>1 DEF Executing
  <2> QED BY <1>3, <1>5, <2>4, <2>5, <2>6, <2>7, <2>8 DEF Accounts
<1>6. ASSUME step[a] = "done", ~disturbed', ~tally.over, Overlap(a) => disturbed'
      PROVE  Admits(next)
  <2>1. ~disturbed /\ Waiting = {} /\ ~behind
    BY <1>1, <1>2, <1>3, <1>6, NoOverlap DEF Balanced
  <2>2. tally.started \in Nat /\ cur.book.started \in Nat /\ Used(tally) \in Nat /\ Cardinality({}) = 0
        /\ Cardinality(At("working")) \in Nat /\ Used(cur.book) \in Nat
    <3>1. At("working") \in SUBSET Assignments
      BY DEF At
    <3> QED BY <1>1, <3>1, UsedByUses, UsedInNat, Counts, RecordSets DEF Book
  <2>3. WellFormed(next)
    <3>1. Used(next.book) = Used(tally)
      OBVIOUS
    <3> QED BY <1>1, <2>2, <3>1 DEF Balanced, WellFormed
  <2>4. NotLess(cur.book, next.book)
    <3>1. tally.started >= cur.book.started
      BY <1>1, <2>1, <2>2 DEF Balanced
    <3>2. Used(next.book) >= Used(cur.book)
      BY <1>1, <2>2 DEF Balanced
    <3> QED BY <1>1, <3>1, <3>2 DEF Balanced, NotLess
  <2>5. next.status \in NextGoal(cur.status)
    BY <1>1 DEF NextGoal
  <2>6. \A b \in Assignments : next.work[b] \in NextWork(cur.work[b])
    BY <1>1, <1>6 DEF Executing, NextWork, Run, WorkStatus
  <2> QED BY <2>1, <2>3, <2>4, <2>5, <2>6 DEF Admits, MayFollow
<1>7. CASE /\ ~Admits(next) /\ UNCHANGED <<run, cur, behind>>
           /\ step' = [step EXCEPT ![a] = else]
           /\ Overlap(a) => disturbed'
  <2>1. ~disturbed' => ~behind'
    BY <1>1, <1>3, <1>7 DEF Balanced
  <2>2. else = "caught" => disturbed' \/ tally.over
    BY <1>6, <1>7
  <2> QED BY <1>1, <1>3, <1>7, <2>1, <2>2, UpdateFails
<1>8. CASE /\ Admits(next) /\ disturbed' = TRUE /\ run' \in {run, next} /\ cur' = cur
           /\ step' = [step EXCEPT ![a] = else]
  <2>1. cur = run /\ Faithful(next, TRUE)
    BY <1>4, <1>8, AdmitsLast
  <2> QED BY <1>1, <1>3, <1>8, <2>1, UpdateFails
<1> QED BY <1>3, <1>5, <1>7, <1>8

LEMMA CompleteAccounts == ASSUME IInv, Accounts, NEW a \in Assignments, Complete(a) PROVE Accounts'
<1>1. place = "batch" /\ step[a] = "done"
  BY DEF IInv, Placed, Idle, Complete
<1> DEFINE n == [cur EXCEPT !.work[a] = "completed", !.book = tally]
<1>2. /\ n \in Run /\ n.team = cur.team /\ n.status = cur.status /\ n.work[a] = "completed"
      /\ n.book = tally
  BY DEF IInv, TypeOK, Run, WorkStatus
<1>3. \A b \in Assignments \ {a} : n.work[b] = cur.work[b]
  BY DEF IInv, TypeOK, Run
<1>4. Update(a, n, "idle", "caught")
  BY DEF Complete
<1> HIDE DEF n
<1> QED BY <1>1, <1>2, <1>3, <1>4, EndingAccounts

LEMMA FailAccounts == ASSUME IInv, Accounts, NEW a \in Assignments, Fail(a) PROVE Accounts'
<1>1. place = "batch" /\ step[a] \in {"failed", "cancelled"}
  BY DEF IInv, Placed, Idle, Fail
<1> DEFINE n == [cur EXCEPT !.work[a] = step[a], !.book = tally]
<1>2. /\ n \in Run /\ n.team = cur.team /\ n.status = cur.status /\ n.work[a] = step[a]
      /\ n.book = tally
  BY <1>1 DEF IInv, TypeOK, Run, WorkStatus
<1>3. \A b \in Assignments \ {a} : n.work[b] = cur.work[b]
  BY DEF IInv, TypeOK, Run
<1>4. PICK else \in {"idle", "refused"} : Update(a, n, "idle", else)
  BY DEF Fail
<1> HIDE DEF n
<1> QED BY <1>1, <1>2, <1>3, <1>4, EndingAccounts

\* The record of a start covers one more than is engaged.
LEMMA MarkFaithful ==
  ASSUME IInv, Accounts, place = "batch",
         NEW a \in Assignments, cur.work[a] = "pending", a \notin cur.team,
         NEW n \in Run, n.team = cur.team,
         \A b \in Assignments : n.work[b] = IF b = a THEN "running" ELSE cur.work[b],
         n.book.started = cur.book.started + 1, n.book.used = cur.book.used,
         n.book.over = cur.book.over,
         Admits(n), NEW d \in BOOLEAN, disturbed => d
  PROVE  Faithful(n, d) /\ Cardinality(Engaged(n)) + 1 <= n.book.started
<1>1. cur = run /\ cur \in Run /\ Faithful(cur, disturbed) /\ WellFormed(n)
  BY AdmitsLast, Batching DEF Admits, MayFollow
<1>2. Members(n) = Members(cur) /\ Engaged(n) = Engaged(cur)
  <2>1. cur.team \in SUBSET Assignments
    BY <1>1 DEF Run
  <2> QED BY <2>1 DEF Members, Engaged
<1>3. a \in Started(n) /\ Started(cur) \subseteq Started(n) \ {a}
  BY DEF Started
<1>4. /\ Cardinality(Engaged(cur)) \in Nat /\ Cardinality(Started(cur)) \in Nat
      /\ Cardinality(Started(n)) \in Nat /\ cur.book.started \in Nat
      /\ Cardinality(Members(cur)) \in Nat /\ Used(cur.book) \in Nat
      /\ Started(n) \in SUBSET Assignments
  BY <1>1, RecordSets, UsedInNat
<1>5. Cardinality(Engaged(n)) + 1 <= n.book.started
  BY <1>1, <1>2, <1>4 DEF Faithful
<1>6. Booked(n)
  <2>1. Booked(cur)
    BY <1>1 DEF Faithful
  <2> QED BY <1>2, <1>3, <2>1 DEF Booked, Unbilled
<1>7. Shared(n) /\ Deserved(n, d)
  BY <1>1, <1>2 DEF Faithful, Shared, Deserved
<1>8. ASSUME ~d PROVE Sparing(n)
  <2>1. Sparing(cur)
    BY <1>1, <1>8 DEF Faithful
  <2>2. Cardinality(Started(cur)) + 1 <= Cardinality(Started(n))
    BY <1>3, <1>4, OneLess
  <2>3. Used(n.book) = Used(cur.book)
    <3>1. Used(n.book) = Cardinality(Uses(n.book.used)) /\ Used(cur.book) = Cardinality(Uses(cur.book.used))
      BY UsedByUses
    <3> QED BY <3>1
  <2> QED BY <1>2, <1>4, <2>1, <2>2, <2>3 DEF Sparing
<1>9. Cardinality(Engaged(n)) <= n.book.started
  BY <1>2, <1>4, <1>5
<1> QED BY <1>1, <1>5, <1>6, <1>7, <1>8, <1>9 DEF Faithful

\* The start of an assignment is recorded.
LEMMA MarkedAccounts ==
  ASSUME IInv, Accounts, place = "batch",
         NEW a \in Assignments, step[a] = "claimed",
         NEW n \in Run, n.team = cur.team, n.status = cur.status,
         \A b \in Assignments : n.work[b] = IF b = a THEN "running" ELSE cur.work[b],
         n.book.started = cur.book.started + 1, n.book.used = cur.book.used,
         n.book.over = cur.book.over,
         UNCHANGED <<outcome, tally, place, recovering, exposed, belied>>,
         disturbed' \in BOOLEAN, disturbed => disturbed',
         run' = n, cur' = n, behind' = behind, step' = [step EXCEPT ![a] = "marked"],
         Faithful(n, disturbed'), Cardinality(Engaged(n)) + 1 <= n.book.started
  PROVE  Accounts'
<1>0. /\ run \in Run /\ cur \in Run /\ tally \in Book /\ disturbed \in BOOLEAN
      /\ step \in [Assignments -> Step] /\ cur.book \in Book /\ outcome[a] = "none"
      /\ Booked(cur) /\ Balanced /\ Executing
      /\ run.team = cur.team /\ cur.status = "running" /\ Members(cur) = {}
      /\ cur.work[a] = "pending" /\ a \notin cur.team
  BY Batching, RecordSets DEF Executing, IInv, Stepping
<1>1. \A b \in Assignments : step'[b] = IF b = a THEN "marked" ELSE step[b]
  BY <1>0
<1>2. /\ At("marked")' \subseteq At("marked") \union {a} /\ At("working")' = At("working")
      /\ a \in Waiting' /\ Waiting \subseteq Waiting' \ {a}
      /\ At("marked") \in SUBSET Assignments /\ At("marked")' \in SUBSET Assignments
      /\ Waiting \in SUBSET Assignments /\ Waiting' \in SUBSET Assignments
  BY <1>0, <1>1 DEF At, Waiting
<1>3. WellFormed(n)
  BY DEF Faithful
<1>4. Booked(n)' /\ Faithful(run, disturbed)'
  <2>1. Booked(n)'
    BY <1>3 DEF Faithful, Booked, Charged, Unbilled, Members, Started
  <2>2. Cardinality(Engaged(n)') <= n.book.started
    <3>1. Engaged(n)' \subseteq Engaged(n) \union {a} /\ Engaged(n)' \in SUBSET Assignments
      BY <1>2, RecordSets DEF Engaged
    <3>2. Cardinality(Engaged(n)') <= Cardinality(Engaged(n)) + 1
      BY <3>1, OneMore, RecordSets
    <3> QED BY <1>3, <3>1, <3>2, Counts, RecordSets
  <2>3. Shared(run)'
    BY DEF Faithful, Shared, Members
  <2>4. Deserved(run, disturbed)'
    BY DEF Faithful, Deserved
  <2>5. WellFormed(run)' /\ (~disturbed' => Sparing(run)')
    BY <1>3 DEF Faithful, WellFormed, Sparing, Members, Started
  <2>6. Booked(run)'
    BY <2>1 DEF Booked, Charged, Unbilled, Members, Started
  <2>7. Cardinality(Engaged(run)') <= run'.book.started
    BY <2>2 DEF Engaged
  <2> QED BY <2>1, <2>3, <2>4, <2>5, <2>6, <2>7 DEF Faithful
<1>5. Balanced'
  <2>1. /\ cur'.book.started = cur.book.started + 1
        /\ tally' = tally /\ cur'.book.over = cur.book.over /\ cur'.book.started <= MaxStarts
    BY <1>3 DEF WellFormed
  <2>2. /\ Used(tally)' = Used(tally) /\ Used(cur.book)' = Used(cur.book)
    <3>1. Used(n.book) = Cardinality(Uses(n.book.used)) /\ Used(cur.book) = Cardinality(Uses(cur.book.used))
      BY UsedByUses
    <3>2. Used(n.book) = Used(cur.book)
      BY <3>1
    <3> QED BY <2>1, <3>2
  <2>3. Cardinality(At("marked")') <= Cardinality(At("marked")) + 1
        /\ Cardinality(Waiting) + 1 <= Cardinality(Waiting')
    BY <1>2, OneMore, OneLess
  <2>4. /\ Cardinality(At("marked")) \in Nat /\ Cardinality(At("marked")') \in Nat
        /\ Cardinality(Waiting) \in Nat /\ Cardinality(Waiting') \in Nat
        /\ tally.started \in Nat /\ cur.book.started \in Nat
    BY <1>0, <1>2, Counts DEF Book
  <2>5. cur'.book.started <= tally'.started + Cardinality(Waiting')
    BY <1>0, <2>1, <2>3, <2>4 DEF Balanced
  <2>6. ~disturbed' => ~behind' /\ tally'.started + Cardinality(At("marked")') <= cur'.book.started
    <3>1. ~disturbed' => /\ ~behind'
                         /\ tally.started + Cardinality(At("marked")) <= cur.book.started
      BY <1>0 DEF Balanced
    <3> QED BY <2>1, <2>3, <2>4, <3>1
  <2>7. Charged(tally.used)'
    BY <1>0 DEF Balanced, Charged
  <2>8. Unbilled(cur, tally.used)'
    BY <1>0 DEF Unbilled, Members, Run
  <2> QED BY <1>0, <1>2, <2>1, <2>2, <2>5, <2>6, <2>7, <2>8 DEF Balanced
<1>6. Posed(place, cur, tally, disturbed)'
  <2>1. Members(cur)' = {} /\ cur'.status = "running" /\ place' = "batch"
    BY <1>0 DEF Members, Run
  <2> QED BY <2>1 DEF Posed, Resuming, Quiet
<1>7. Executing'
  BY <1>0, <1>1 DEF Executing
<1>8. Booked(cur)'
  BY <1>4 DEF Booked, Charged, Unbilled, Members, Started
<1> QED BY <1>0, <1>4, <1>5, <1>6, <1>7, <1>8 DEF Accounts

LEMMA MarkAccounts == ASSUME IInv, Accounts, NEW a \in Assignments, Mark(a) PROVE Accounts'
<1> DEFINE n == [cur EXCEPT !.work[a] = "running", !.book.started = @ + 1]
<1>1. place = "batch" /\ step[a] = "claimed" /\ outcome[a] = "none"
  BY DEF IInv, Placed, Idle, Stepping, Mark
<1>2. /\ run \in Run /\ cur \in Run /\ tally \in Book /\ disturbed \in BOOLEAN
      /\ step \in [Assignments -> Step] /\ cur.book \in Book
      /\ Booked(cur) /\ Balanced /\ Executing
      /\ run.team = cur.team /\ cur.status = "running" /\ Members(cur) = {}
      /\ cur.work[a] = "pending" /\ a \notin cur.team
      /\ Posed(place, cur, tally, disturbed)
  BY <1>1, Batching, RecordSets DEF Executing, Accounts
<1>3. /\ n \in Run /\ n.team = cur.team /\ n.status = cur.status
      /\ \A b \in Assignments : n.work[b] = IF b = a THEN "running" ELSE cur.work[b]
      /\ n.book.started = cur.book.started + 1 /\ n.book.used = cur.book.used
      /\ n.book.over = cur.book.over
  <2>1. [cur.book EXCEPT !.started = @ + 1] \in Book
    BY <1>2 DEF Book
  <2>2. [cur.work EXCEPT ![a] = "running"] \in [Assignments -> WorkStatus]
    BY <1>2 DEF Run, WorkStatus
  <2>3. n = [cur EXCEPT !.work = [cur.work EXCEPT ![a] = "running"],
                        !.book = [cur.book EXCEPT !.started = @ + 1]]
    BY <1>2 DEF Run
  <2> QED BY <1>2, <2>1, <2>2, <2>3 DEF Run, Book
<1>4. \/ Update(a, n, "marked", "caught")
      \/ /\ step' = [step EXCEPT ![a] = "caught"]
         /\ UNCHANGED <<durable, history, place, cur, behind, tally, recovering, aborted, moved, upsets>>
  BY Zenon DEF Mark
<1> HIDE DEF n
<1>5. ASSUME Admits(n), NEW d \in BOOLEAN, disturbed => d
      PROVE  Faithful(n, d) /\ Cardinality(Engaged(n)) + 1 <= n.book.started
  BY <1>1, <1>2, <1>3, <1>5, MarkFaithful
<1>6. CASE /\ step' = [step EXCEPT ![a] = "caught"]
           /\ UNCHANGED <<durable, history, place, cur, behind, tally, recovering, aborted, moved, upsets>>
  <2>1. \A b \in Assignments : step'[b] = IF b = a THEN "caught" ELSE step[b]
    BY <1>2, <1>6
  <2>2. At("marked")' = At("marked") /\ At("working")' = At("working") /\ Waiting \subseteq Waiting'
    BY <1>1, <1>6, <2>1 DEF At, Waiting, durable
  <2>3. Executing'
    BY <1>1, <1>2, <1>6, <2>1 DEF Executing, durable, history
  <2> QED BY <1>1, <1>6, <2>2, <2>3, ExecutionAccounts DEF durable, history
<1>7. CASE Update(a, n, "marked", "caught")
  <2>1. /\ UNCHANGED <<outcome, tally, place, recovering, exposed, belied>>
        /\ disturbed' \in BOOLEAN /\ (disturbed => disturbed')
        /\ \/ /\ Admits(n) /\ run' = n /\ cur' = n /\ behind' = behind
              /\ step' = [step EXCEPT ![a] = "marked"]
              /\ Overlap(a) => disturbed'
           \/ /\ ~Admits(n) /\ UNCHANGED <<run, cur, behind>>
              /\ step' = [step EXCEPT ![a] = "caught"]
              /\ Overlap(a) => disturbed'
           \/ /\ Admits(n) /\ disturbed' = TRUE /\ run' \in {run, n} /\ cur' = cur
              /\ step' = [step EXCEPT ![a] = "caught"]
    BY <1>1, <1>7, UpdateCases
  <2>2. CASE /\ ~Admits(n) /\ UNCHANGED <<run, cur, behind>>
             /\ step' = [step EXCEPT ![a] = "caught"]
             /\ Overlap(a) => disturbed'
    <3>1. ~disturbed' => ~behind'
      BY <1>2, <2>1, <2>2 DEF Balanced
    <3> QED BY <1>1, <1>2, <1>3, <2>1, <2>2, <3>1, UpdateFails
  <2>3. CASE /\ Admits(n) /\ disturbed' = TRUE /\ run' \in {run, n} /\ cur' = cur
             /\ step' = [step EXCEPT ![a] = "caught"]
    <3>1. cur = run /\ Faithful(n, TRUE)
      BY <1>1, <1>2, <1>5, <2>3, AdmitsLast
    <3> QED BY <1>1, <1>2, <1>3, <2>1, <2>3, <3>1, UpdateFails
  <2>4. CASE /\ Admits(n) /\ run' = n /\ cur' = n /\ behind' = behind
             /\ step' = [step EXCEPT ![a] = "marked"]
             /\ Overlap(a) => disturbed'
    <3>1. Faithful(n, disturbed') /\ Cardinality(Engaged(n)) + 1 <= n.book.started
      BY <1>5, <2>1, <2>4
    <3> QED BY <1>1, <1>2, <1>3, <2>1, <2>4, <3>1, MarkedAccounts
  <2> QED BY <2>1, <2>2, <2>3, <2>4
<1> QED BY <1>4, <1>6, <1>7

LEMMA CatchAccounts == ASSUME IInv, Accounts, NEW a \in Assignments, Catch(a) PROVE Accounts'
<1> USE DEF Catch, durable
<1>1. place = "batch" /\ step[a] = "caught"
  BY DEF IInv, Placed, Idle
<1>2. /\ run \in Run /\ cur \in Run /\ tally \in Book /\ disturbed \in BOOLEAN
      /\ step \in [Assignments -> Step] /\ cur.book \in Book
      /\ Faithful(run, disturbed) /\ Booked(cur) /\ Balanced /\ Executing
      /\ run.team = cur.team /\ cur.status = "running" /\ Members(cur) = {}
  BY <1>1, Batching, RecordSets
<1>3. PICK to \in {"failed", "cancelled"} : step' = [step EXCEPT ![a] = to]
  OBVIOUS
<1>4. \A b \in Assignments : step'[b] = IF b = a THEN to ELSE step[b]
  BY <1>2, <1>3
<1>5. /\ UNCHANGED <<run, outcome, place, cur, behind, recovering, exposed, belied>>
      /\ disturbed' \in BOOLEAN /\ (disturbed => disturbed') /\ (Overlap(a) => disturbed')
  <2>1. disturbed' = (disturbed \/ Overlap(a)) /\ Overlap(a) \in BOOLEAN
    BY Zenon DEF Overlap
  <2>2. disturbed' \in BOOLEAN /\ (disturbed => disturbed') /\ (Overlap(a) => disturbed')
    BY <1>2, <2>1, Zenon
  <2> QED BY <2>2
<1>6. /\ tally' \in Book /\ tally'.started = Larger(tally.started, cur.book.started)
      /\ tally'.used = tally.used /\ (tally.over => tally'.over) /\ (cur.book.over => tally'.over)
  <2>1. Used(cur.book) \in Nat /\ Used(tally) \in Nat /\ Used(tally) >= Used(cur.book)
    BY <1>2, UsedInNat DEF Balanced
  <2>2. /\ tally' = Reconciled(tally, cur.book) /\ tally' \in Book
        /\ tally'.started = Larger(tally.started, cur.book.started)
        /\ tally'.used = tally.used
    BY <1>2, <2>1, ReconciledBalances
  <2>3. tally'.over = (tally.over \/ cur.book.over)
    BY <2>2 DEF Reconciled
  <2>4. (tally.over => tally'.over) /\ (cur.book.over => tally'.over)
    BY <2>3, Zenon
  <2> QED BY <2>2, <2>4
<1>7. At("marked")' = At("marked") /\ At("working")' = At("working")
  BY <1>1, <1>4 DEF At
<1>8. Faithful(run, disturbed)'
  BY <1>2, <1>5, <1>7, FaithfulStays
<1>9. Booked(cur)'
  BY <1>2, <1>5, BookedStays
<1>10. Balanced'
  <2>1. /\ At("marked") \in SUBSET Assignments /\ At("working") \in SUBSET Assignments
        /\ Waiting' \in SUBSET Assignments
    BY DEF At, Waiting
  <2>2. /\ Cardinality(At("marked")) \in Nat /\ Cardinality(At("working")) \in Nat
        /\ Cardinality(Waiting') \in Nat /\ Cardinality({}) = 0
        /\ tally.started \in Nat /\ cur.book.started \in Nat /\ Used(tally) \in Nat
    BY <1>2, <2>1, Counts, UsedInNat DEF Book
  <2>3. /\ tally'.started \in Nat /\ tally'.started <= MaxStarts
        /\ tally.started <= tally'.started /\ cur.book.started <= tally'.started
        /\ tally.started <= cur.book.started => tally'.started <= cur.book.started
    BY <1>2, <1>6, <2>2 DEF Balanced, Larger
  <2>4. Used(tally)' = Used(tally) /\ Used(cur.book)' = Used(cur.book) /\ cur'.book = cur.book
    <3>1. Used(tally)' = Cardinality(Uses(tally'.used)) /\ Used(tally) = Cardinality(Uses(tally.used))
      BY UsedByUses
    <3> QED BY <1>5, <1>6, <3>1
  <2>5. Used(tally)' + Cardinality(At("working")') <= tally'.started
    BY <1>2, <1>7, <2>2, <2>3, <2>4 DEF Balanced
  <2>6. cur'.book.started <= tally'.started + Cardinality(Waiting')
    BY <2>2, <2>3, <2>4
  <2>7. ASSUME ~disturbed'
        PROVE  ~behind' /\ tally'.started + Cardinality(At("marked")') <= cur'.book.started
    <3>1. /\ ~behind' /\ tally.started + Cardinality(At("marked")) <= cur.book.started
      BY <1>2, <1>5, <2>7 DEF Balanced
    <3>2. At("marked") = {}
      BY <1>1, <1>5, <2>7 DEF Overlap, At
    <3>3. Cardinality(At("marked")') = 0
      BY <1>7, <2>2, <3>2
    <3> QED BY <2>2, <2>3, <2>4, <3>1, <3>2, <3>3
  <2>8. Charged(tally.used)' /\ Unbilled(cur, tally.used)'
    BY <1>2, <1>5, <1>6 DEF Balanced, Charged, Unbilled, Members
  <2> QED BY <1>2, <1>6, <2>3, <2>4, <2>5, <2>6, <2>7, <2>8 DEF Balanced
<1>11. Posed(place, cur, tally, disturbed)'
  <2>1. Members(cur)' = {} /\ cur'.status = "running" /\ place' = "batch"
    BY <1>1, <1>2, <1>5 DEF Members
  <2> QED BY <2>1 DEF Posed, Resuming, Quiet
<1>12. Executing'
  BY <1>1, <1>2, <1>4, <1>5, <1>6 DEF Executing
<1> QED BY <1>2, <1>5, <1>8, <1>9, <1>10, <1>11, <1>12 DEF Accounts

LEMMA StepAccounts == IInv /\ Accounts /\ [Next]_vars => Accounts'
<1> SUFFICES ASSUME IInv, Accounts, [Next]_vars PROVE Accounts'
  OBVIOUS
<1>1. CASE Start
  BY <1>1, StartAccounts
<1>2. CASE Resume
  BY <1>2, ResumeAccounts
<1>3. CASE \E a \in Assignments : HandOff(a)
  BY <1>3, HandOffAccounts
<1>4. CASE \E a \in Assignments : Execute(a)
  BY <1>4, ClaimAccounts, MarkAccounts, LaunchAccounts, EndTurnAccounts,
     EndTurnUnheardAccounts, CompleteAccounts, CatchAccounts, FailAccounts DEF Execute
<1>5. CASE Supervise
  <2>1. CASE StopRecovery \/ GiveUp \/ Decide \/ EngageTeam \/ EndBatch \/ Stall \/ EndRecovery
    BY <2>1, DecisionsAccount
  <2>2. CASE LoseTeam \/ Settle \/ Drop \/ RecoverTeam
    BY <2>2, LoseTeamAccounts, TeamEndsAccount
  <2>3. CASE Open \/ StartBatch \/ BlockPending \/ Conclude
    BY <2>3, OpenAccounts, StartBatchAccounts, BlockPendingAccounts, ConcludeAccounts
  <2>4. CASE MarkTeam \/ StartTeam \/ EndTeam \/ EndTeamUnheard
    BY <2>4, MarkTeamAccounts, StartTeamAccounts, EndTeamAccounts, EndTeamUnheardAccounts
  <2>5. CASE \E a \in Assignments : RecoverAgent(a)
    BY <2>5, RecoverAgentAccounts
  <2> QED BY <1>5, <2>1, <2>2, <2>3, <2>4, <2>5 DEF Supervise
<1>6. CASE ResumeTeam
  BY <1>6, ResumeTeamAccounts
<1>7. CASE Crash
  BY <1>7, CrashAccounts
<1>8. CASE Abort \/ UNCHANGED vars
  BY <1>8, SameAccounts DEF Abort, vars, durable, history
<1> QED BY <1>1, <1>2, <1>3, <1>4, <1>5, <1>6, <1>7, <1>8 DEF Next, Work

\* The books of a goal balance, whatever is lost and whenever it is resumed: the
\* record in the journal reserves at least what was created, holds no more than that
\* unless something was lost or overtaken, and the budget the running assignments
\* share follows it.
THEOREM AccountsHold == Spec => []Accounts
<1>1. Init => Accounts
  BY InitAccounts
<1>2. IInv /\ Accounts /\ [Next]_vars => Accounts'
  BY StepAccounts
<1> QED BY <1>1, <1>2, IInvHolds, PTL DEF Spec

\* What is recorded completed was, and what succeeded is recorded failed or cancelled
\* only after a lost write, an overtaken start or a cost above the ceiling, or because
\* its own call failed although its log had ended (#completeAssignment,
\* #failAssignment, #settleTeamResult, and the catch of #executeCompanyTeam).
THEOREM OutcomesHold == Spec => []OutcomesAreTrue
<1>1. IInv /\ Accounts => OutcomesAreTrue
  BY DEF IInv, Sound, AllCompleted, CompletionsAreTrue, Accounts, Faithful, Deserved,
         OutcomesAreTrue
<1> QED BY <1>1, IInvHolds, AccountsHold, PTL

\* The journal's budget covers every agent and team that was created and, unless a
\* start was overtaken or a write lost, counts nothing else; a use is billed to what
\* has ended, or whose call has, and twice only to an assignment a resume found already
\* billed
\* (#markStarted, #markTeamStarted, #reconcileBudget, #resumeOwned).
THEOREM BudgetsCoverWork == Spec => []BudgetCoversWork
<1>1. ASSUME IInv, Accounts PROVE BudgetCoversWork
  <2> DEFINE Created == {a \in Assignments : outcome[a] # "none"}
  <2>1. run \in Run /\ Faithful(run, disturbed) /\ Charged(run.book.used)
    BY <1>1 DEF IInv, TypeOK, Accounts, Faithful, Booked
  <2>2. Cardinality(Created) <= run.book.started
    <3>1. Created \in SUBSET Engaged(run) /\ Engaged(run) \in SUBSET Assignments
      BY <2>1, RecordSets DEF Engaged
    <3>2. Cardinality(Created) <= Cardinality(Engaged(run)) /\ Cardinality(Created) \in Nat
      BY <3>1, Counts
    <3> QED BY <2>1, <3>2, RecordSets DEF Faithful
  <2>3. disturbed \/ run.book.started <= Cardinality(Started(run))
    BY <2>1 DEF Faithful, Sparing
  <2> QED BY <2>1, <2>2, <2>3 DEF BudgetCoversWork, Charged, Started
<1> QED BY <1>1, IInvHolds, AccountsHold, PTL

(***************************************************************************)
(* The supervisor only appends what the journal accepts after its last     *)
(* record, although the record it believes to be last may be an older one. *)
(***************************************************************************)
Appends ==
  \/ run = NoRun /\ run' = NewRun
  \/ MayFollow(run, run')

LEMMA WriteAppends ==
  ASSUME IInv, place # "off", NEW next, NEW then, NEW else, Write(next, then, else)
  PROVE  run' = run \/ Appends
<1>1. run' = run \/ (Admits(next) /\ run' = next)
  BY Zenon DEF Write, Go
<1> QED BY <1>1, AdmitsLast DEF Appends, Admits

LEMMA UpdateAppends ==
  ASSUME IInv, place # "off", NEW a, NEW next, NEW then, NEW else, Update(a, next, then, else)
  PROVE  run' = run \/ Appends
<1>1. run' = run \/ (Admits(next) /\ run' = next)
  BY Zenon DEF Update
<1> QED BY <1>1, AdmitsLast DEF Appends, Admits

LEMMA TeamAppends ==
  ASSUME IInv, place # "off", NEW then, NEW retry, NEW else, SettleTeam(then, retry, else)
  PROVE  run' = run \/ Appends
<1>1. \E next, to, or : Write(next, to, or)
  BY Zenon DEF SettleTeam
<1> QED BY <1>1, WriteAppends

\* Every line of a goal's journal is the first or one that validateTransition accepts
\* after the line before it, however updates fail and whoever resumes.
THEOREM AppendsRecords == Spec => [][Appends]_run
<1>1. IInv /\ [Next]_vars => [Appends]_run
  <2> SUFFICES ASSUME IInv, [Next]_vars PROVE run' = run \/ Appends
    OBVIOUS
  <2>1. CASE Start
    BY <2>1 DEF Start, Appends
  <2>2. CASE Resume \/ ResumeTeam \/ Abort \/ Crash \/ (\E a \in Assignments : HandOff(a)) \/ UNCHANGED vars
    BY <2>2 DEF Resume, ResumeTeam, Abort, Crash, HandOff, vars, durable
  <2>3. ASSUME NEW a \in Assignments, Execute(a) PROVE run' = run \/ Appends
    <3>1. place = "batch"
      BY <2>3 DEF IInv, Placed, Idle, Execute, Claim, Mark, Launch, EndTurn, EndTurnUnheard,
                    Complete, Catch, Fail
    <3>2. CASE Claim(a) \/ Launch(a) \/ EndTurn(a) \/ EndTurnUnheard(a) \/ Catch(a)
      BY <3>2 DEF Claim, Launch, EndTurn, EndTurnUnheard, Catch, durable
    <3>3. CASE Mark(a)
      <4>1. run' = run \/ \E next, then, else : Update(a, next, then, else)
        BY <3>3, Zenon DEF Mark, durable
      <4> QED BY <3>1, <4>1, UpdateAppends
    <3>4. CASE Complete(a) \/ Fail(a)
      <4>1. \E next, then, else : Update(a, next, then, else)
        BY <3>4, Zenon DEF Complete, Fail
      <4> QED BY <3>1, <4>1, UpdateAppends
    <3> QED BY <2>3, <3>2, <3>3, <3>4 DEF Execute
  <2>4. CASE Supervise
    <3>1. CASE StopRecovery \/ GiveUp \/ Decide \/ EngageTeam \/ EndBatch \/ Stall \/ EndRecovery
      BY <3>1 DEF StopRecovery, GiveUp, Decide, EngageTeam, EndBatch, Stall, EndRecovery, Go
    <3>2. CASE StartBatch \/ StartTeam \/ EndTeam \/ EndTeamUnheard
      BY <3>2 DEF StartBatch, StartTeam, EndTeam, EndTeamUnheard, durable
    <3>3. CASE Open \/ BlockPending \/ Conclude \/ MarkTeam \/ LoseTeam \/ Drop
      <4>1. place # "off"
        BY <3>3 DEF Open, BlockPending, Conclude, MarkTeam, LoseTeam, Drop
      <4>2. run' = run \/ \E next, then, else : Write(next, then, else)
        <5>1. CASE Open
          BY <5>1, Zenon DEF Open, Go
        <5>2. CASE BlockPending \/ Conclude \/ MarkTeam \/ LoseTeam \/ Drop
          BY <5>2, Zenon DEF BlockPending, Conclude, MarkTeam, LoseTeam, Drop
        <5> QED BY <3>3, <5>1, <5>2
      <4> QED BY <4>1, <4>2, WriteAppends
    <3>4. CASE Settle \/ RecoverTeam
      <4>1. place # "off"
        BY <3>4 DEF Settle, RecoverTeam
      <4>2. \/ \E then, retry, else : SettleTeam(then, retry, else)
            \/ \E next, then, else : Write(next, then, else)
        BY <3>4, Zenon DEF Settle, RecoverTeam
      <4> QED BY <4>1, <4>2, WriteAppends, TeamAppends
    <3>5. ASSUME NEW a \in Assignments, RecoverAgent(a) PROVE run' = run \/ Appends
      <4>1. place # "off"
        BY <3>5 DEF RecoverAgent
      <4>2. run' = run \/ \E next, then, else : Write(next, then, else)
        BY <3>5, Zenon DEF RecoverAgent, Go
      <4> QED BY <4>1, <4>2, WriteAppends
    <3> QED BY <2>4, <3>1, <3>2, <3>3, <3>4, <3>5 DEF Supervise
  <2> QED BY <2>1, <2>2, <2>3, <2>4 DEF Next, Work
<1> QED BY <1>1, IInvHolds, PTL DEF Spec
=============================================================================
