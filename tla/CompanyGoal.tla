----------------------------- MODULE CompanyGoal -----------------------------
(***************************************************************************)
(* The company goal supervisor: it starts a goal, works through its plan   *)
(* with child agents and teams, records every step in the goal's journal,  *)
(* and resumes a goal that a crash, an abort or a failed update left       *)
(* unresolved.                                                             *)
(*                                                                         *)
(* The owner lease admits one start or resume at a time, so one runtime is *)
(* enough; "off" is the time in which nobody holds the lease.  Assignments *)
(* run concurrently inside that runtime, share its budget (tally) and take *)
(* turns at its journal: an update reads the record and the budget when    *)
(* its turn has come, never when it was asked for.                         *)
(***************************************************************************)
EXTENDS CompanyGoalRun

CONSTANTS MaxConcurrent,  \* assignments that may be active at once
          MaxUpsets       \* bound of the model: crashes, aborts, failed writes and calls

ASSUME GoalAssumption ==
  /\ MaxConcurrent \in Nat \ {0}
  /\ MaxUpsets \in Nat

VARIABLES
  run,        \* the last record of the journal
  outcome,    \* of the agent, or team, that works on an assignment (its own log)
  launches,   \* how many agents or teams were created for it
  place,      \* where the supervisor is
  cur,        \* the record it believes to be last (GoalJournal.current)
  behind,     \* it is not: an update that was reported failed is in the file
  tally,      \* the budget the assignments share
  step,       \* where the execution of an assignment is
  recovering, \* this runtime is a resume
  aborted,    \* the user has cancelled
  moved,      \* the journal has advanced since the batch was started
  upsets,     \* how many upsets there have been
  disturbed,  \* history: a write failed, or an execution settled while a sibling
              \* was recorded as started and not yet in the shared budget
  exposed,    \* history: assignments a resume found running though already billed
  belied      \* history: assignments whose call failed apart from what their own log
              \* says: it ended, or never ended

durable  == <<run, outcome, launches>>
volatile == <<place, cur, behind, tally, step, recovering, aborted, moved>>
history  == <<disturbed, exposed, belied>>
vars == <<run, outcome, launches, place, cur, behind, tally, step, recovering,
          aborted, moved, upsets, disturbed, exposed, belied>>

(***************************************************************************)
(* An agent's log is open until it ends: "good"; "bare", without evidence; *)
(* "dear", at a cost above the goal's ceiling; failed or cancelled.        *)
(***************************************************************************)
Finished  == {"good", "bare", "dear"}
Terminal  == Finished \union {"failed", "cancelled"}
Outcome   == {"none", "open"} \union Terminal

Step == {"idle", "refused", "asked", "claimed", "marked", "working", "done", "caught",
         "failed", "cancelled"}

Place == {"off", "opening", "resuming", "redropping", "loop", "batch", "blocking",
          "marking", "team", "settling", "dropping",
          "failing", "cancelling", "completed", "failed", "cancelled"}

Idle == [a \in Assignments |-> "idle"]

Active == {a \in Assignments : step[a] \notin {"idle", "refused", "asked"}}

Larger(m, n) == IF m >= n THEN m ELSE n

\* #reconcileBudget
Reconciled(t, book) ==
  [started |-> Larger(t.started, book.started),
   used    |-> IF Used(t) >= Used(book) THEN t.used ELSE book.used,
   over    |-> t.over \/ book.over]

\* A sibling is recorded as started and not yet in the shared budget.
Overlap(a) ==
  \E b \in Assignments \ {a} :
    step[b] = "marked" \/ (step[b] = "caught" /\ outcome[b] = "none")

\* The use of a, up to the limit.
Bills(t, a) == IF Used(t) < MaxStarts THEN [t EXCEPT !.used[a] = @ + 1] ELSE t

\* A cost that has reached the ceiling lets nothing start; an end is refused only above.
MayBeSpent(t) == t.over \/ Used(t) > 0

TypeOK ==
  /\ run \in Run
  /\ outcome \in [Assignments -> Outcome]
  /\ launches \in [Assignments -> Nat]
  /\ place \in Place
  /\ cur \in Run
  /\ behind \in BOOLEAN
  /\ tally \in Book
  /\ step \in [Assignments -> Step]
  /\ recovering \in BOOLEAN
  /\ aborted \in BOOLEAN
  /\ moved \in BOOLEAN
  /\ upsets \in 0..MaxUpsets
  /\ disturbed \in BOOLEAN
  /\ exposed \in SUBSET Assignments
  /\ belied \in SUBSET Assignments

Init ==
  /\ run = NoRun
  /\ outcome = [a \in Assignments |-> "none"]
  /\ launches = [a \in Assignments |-> 0]
  /\ place = "off"
  /\ cur = NoRun
  /\ behind = FALSE
  /\ tally = NoBook
  /\ step = Idle
  /\ recovering = FALSE
  /\ aborted = FALSE
  /\ moved = FALSE
  /\ upsets = 0
  /\ disturbed = FALSE
  /\ exposed = {}
  /\ belied = {}

(***************************************************************************)
(* The journal.                                                            *)
(***************************************************************************)
Upset == upsets < MaxUpsets /\ upsets' = upsets + 1

Admits(next) == ~behind /\ MayFollow(cur, next)

\* The supervisor goes on at a place, or gives the lease back.
Supervisor(p, c, b, t) ==
  /\ place' = p
  /\ IF p = "off"
     THEN /\ cur' = NoRun
          /\ behind' = FALSE
          /\ tally' = NoBook
          /\ recovering' = FALSE
          /\ aborted' = FALSE
     ELSE /\ cur' = c
          /\ behind' = b
          /\ tally' = t
          /\ UNCHANGED <<recovering, aborted>>
  /\ moved' = FALSE
  /\ UNCHANGED <<outcome, launches, step, exposed, belied>>

Go(p) == Supervisor(p, cur, behind, tally) /\ UNCHANGED <<run, upsets, disturbed>>

\* An update: accepted, refused, or failed with or without its line written.
Write(next, then, else) ==
  \/ /\ Admits(next)
     /\ run' = next
     /\ Supervisor(then, next, FALSE, Reconciled(tally, next.book))
     /\ UNCHANGED <<upsets, disturbed>>
  \/ ~Admits(next) /\ Go(else)
  \/ /\ Admits(next)
     /\ Upset /\ disturbed' = TRUE
     /\ \/ run' = run /\ Supervisor(else, cur, FALSE, tally)
        \/ run' = next /\ Supervisor(else, cur, TRUE, tally)

\* The same by an assignment's execution, which goes on at a step.
Update(a, next, then, else) ==
  /\ \/ /\ Admits(next)
        /\ run' = next /\ cur' = next /\ moved' = TRUE
        /\ step' = [step EXCEPT ![a] = then]
        /\ disturbed' = (disturbed \/ Overlap(a))
        /\ UNCHANGED <<behind, upsets>>
     \/ /\ ~Admits(next)
        /\ step' = [step EXCEPT ![a] = else]
        /\ disturbed' = (disturbed \/ Overlap(a))
        /\ UNCHANGED <<run, cur, moved, behind, upsets>>
     \/ /\ Admits(next)
        /\ Upset /\ disturbed' = TRUE
        /\ \/ UNCHANGED <<run, behind>>
           \/ run' = next /\ behind' = TRUE
        /\ step' = [step EXCEPT ![a] = else]
        /\ UNCHANGED <<cur, moved>>
  /\ UNCHANGED <<outcome, launches, tally, place, recovering, aborted, exposed, belied>>

\* Only the updates of a resume watch its signal.
Stopped == recovering /\ aborted

(***************************************************************************)
(* Starting.                                                               *)
(***************************************************************************)
\* start, up to the first record
Start ==
  /\ place = "off"
  /\ run = NoRun
  /\ run' = NewRun
  /\ Supervisor("opening", NewRun, FALSE, NoBook)
  /\ UNCHANGED <<upsets, disturbed>>

\* resume, up to #preflightRecoveredChildren: the agents of running assignments
\* have ended, below parents that are completed; otherwise it is refused.
Recoverable(a) ==
  /\ outcome[a] \in Terminal
  /\ ParentOf[a] # NoParent => run.work[ParentOf[a]] = "completed"

Resume ==
  /\ place = "off"
  /\ run.status \in Unresolved
  /\ \A a \in In(run, "running") \ run.team : Recoverable(a)
  /\ place' = "opening"
  /\ cur' = run
  /\ tally' = run.book
  /\ recovering' = TRUE
  /\ exposed' = exposed \union {a \in In(run, "running") : run.book.used[a] > 0}
  /\ UNCHANGED <<durable, behind, step, aborted, moved, upsets, disturbed, belied>>

\* The goal becomes running; an abort is noticed here by both.
Open ==
  /\ place = "opening"
  /\ LET next == IF recovering THEN "resuming" ELSE "loop"
     IN IF aborted THEN Go("off")
        ELSE IF cur.status = "running" THEN Go(next)
        ELSE Write([cur EXCEPT !.status = "running"], next, "off")

(***************************************************************************)
(* One execution of an assignment.                                         *)
(***************************************************************************)
\* #executeAssignment up to its first await, called by #finish
Ask(S) == step' = [a \in Assignments |-> IF a \in S THEN "asked" ELSE step[a]]

\* requestHandoff: an agent at work asks for an assignment of its own.  A request
\* that is refused changes nothing and is left out.  Bound of the model: once not
\* even the failure of a handoff could be recorded the agent stops asking for it.
HandOff(a) ==
  /\ step[a] = "idle"
  /\ ParentOf[a] # NoParent
  /\ step[ParentOf[a]] = "working"
  /\ MayHandOff(cur, a)
  /\ Ask({a})
  /\ UNCHANGED <<durable, history, place, cur, behind, tally, recovering,
                 aborted, moved, upsets>>

AskedByAgent(a) == ParentOf[a] # NoParent /\ step[ParentOf[a]] = "working"

\* #claim, after the awaits that prepare it; either may fail.
Claim(a) ==
  /\ step[a] = "asked"
  /\ \/ /\ Cardinality(Active) < MaxConcurrent
        /\ step' = [step EXCEPT ![a] = "claimed"]
     \/ /\ ~AskedByAgent(a)
        /\ step' = [step EXCEPT ![a] = "idle"]
  /\ UNCHANGED <<durable, history, place, cur, behind, tally, recovering,
                 aborted, moved, upsets>>

\* Mutant: the assignment is started before its start is recorded.
MarkNothing(a) ==
  /\ step[a] = "claimed"
  /\ step' = [step EXCEPT ![a] = "marked"]
  /\ UNCHANGED <<durable, history, place, cur, behind, tally, recovering,
                 aborted, moved, upsets>>

\* Mutant: the start is recorded and nothing is reserved for it.
MarkUnreserved(a) ==
  /\ step[a] = "claimed"
  /\ Update(a, [cur EXCEPT !.work[a] = "running"], "marked", "caught")

\* #markStarted: the start is durable before anything is started.
Mark(a) ==
  /\ step[a] = "claimed"
  /\ \/ /\ cur.book.started < MaxStarts /\ ~cur.book.over
        /\ Update(a, [cur EXCEPT !.work[a] = "running", !.book.started = @ + 1],
                  "marked", "caught")
     \/ /\ cur.book.started >= MaxStarts \/ MayBeSpent(cur.book)
        /\ step' = [step EXCEPT ![a] = "caught"]
        /\ UNCHANGED <<durable, history, place, cur, behind, tally, recovering,
                       aborted, moved, upsets>>

\* delegate: the shared budget is checked and raised, the session created.  It
\* refuses for that budget, or for the parent, the policy, the route or the limit of
\* concurrent children.
Launch(a) ==
  /\ step[a] = "marked"
  /\ \/ /\ ~aborted /\ tally.started < MaxStarts /\ ~tally.over
        /\ tally' = [tally EXCEPT !.started = @ + 1]
        /\ outcome' = [outcome EXCEPT ![a] = "open"]
        /\ launches' = [launches EXCEPT ![a] = @ + 1]
        /\ step' = [step EXCEPT ![a] = "working"]
        /\ UNCHANGED upsets
     \/ /\ \/ /\ aborted \/ tally.started >= MaxStarts \/ MayBeSpent(tally)
              /\ UNCHANGED upsets
           \/ Upset
        /\ step' = [step EXCEPT ![a] = "caught"]
        /\ UNCHANGED <<tally, outcome, launches>>
  /\ UNCHANGED <<run, place, cur, behind, recovering, aborted, moved, history>>

HandoffsOver(a) == \A b \in Assignments : ParentOf[b] = a => step[b] \in {"idle", "refused"}

\* The agent ends, none of its handoffs being under way, and delegate resolves or
\* rejects as the log says.  Its use is billed at once, unless its turn has not
\* started (the preflight failed).
EndTurn(a) ==
  /\ step[a] = "working"
  /\ HandoffsOver(a)
  /\ \E end \in Terminal :
       /\ end = "cancelled" => aborted
       /\ outcome' = [outcome EXCEPT ![a] = end]
       /\ \/ tally' = [Bills(tally, a) EXCEPT !.over = @ \/ end = "dear"]
          \/ end \notin Finished /\ UNCHANGED tally
       /\ step' = [b \in Assignments |->
                     IF b = a THEN IF end = "good" /\ ~tally.over THEN "done" ELSE "caught"
                     ELSE IF ParentOf[b] = a THEN "idle" ELSE step[b]]
  /\ UNCHANGED <<run, launches, place, cur, behind, recovering, aborted, moved,
                 upsets, history>>

\* delegate rejects although the log does not say so: an event, the release of the
\* session or the last append failed after the turn was completed, or nothing could
\* end the log, or create it, and it stays open.  The use is billed if the turn had
\* started, the cost never.
EndTurnUnheard(a) ==
  /\ step[a] = "working"
  /\ HandoffsOver(a)
  /\ Upset
  /\ \E end \in Finished \union {"open"} :
       /\ outcome' = [outcome EXCEPT ![a] = end]
       /\ \/ tally' = Bills(tally, a)
          \/ end = "open" /\ UNCHANGED tally
  /\ step' = [b \in Assignments |->
                IF b = a THEN "caught" ELSE IF ParentOf[b] = a THEN "idle" ELSE step[b]]
  /\ belied' = belied \union {a}
  /\ UNCHANGED <<run, launches, place, cur, behind, recovering, aborted, moved,
                 disturbed, exposed>>

\* #completeAssignment
Complete(a) ==
  /\ step[a] = "done"
  /\ Update(a, [cur EXCEPT !.work[a] = "completed", !.book = tally], "idle", "caught")

\* #failAssignment, up to its update
Catch(a) ==
  /\ step[a] = "caught"
  /\ tally' = Reconciled(tally, cur.book)
  /\ step' = [step EXCEPT ![a] = IF aborted \/ outcome[a] = "cancelled"
                                 THEN "cancelled" ELSE "failed"]
  /\ disturbed' = (disturbed \/ Overlap(a))
  /\ UNCHANGED <<durable, place, cur, behind, recovering, aborted, moved,
                 upsets, exposed, belied>>

\* Its update; accepted or not, the execution ends with an error.
Fail(a) ==
  /\ step[a] \in {"failed", "cancelled"}
  /\ Update(a, [cur EXCEPT !.work[a] = step[a], !.book = tally], "idle",
            IF AskedByAgent(a) THEN "refused" ELSE "idle")

(***************************************************************************)
(* The supervisor's loop (#finish).  It only decides when no assignment    *)
(* is being executed.                                                      *)
(***************************************************************************)
Lost(r) == In(r, "failed") \union In(r, "cancelled")

\* assertRecoveryActive
StopRecovery ==
  /\ place \in {"loop", "resuming", "redropping", "completed", "failed", "cancelled",
               "blocking", "failing", "cancelling"}
  /\ Stopped
  /\ Go("off")

AtLoop == place = "loop" /\ ~Stopped

\* An assignment has failed: what is pending is blocked, then the goal ends.
GiveUp ==
  /\ AtLoop
  /\ \E a \in Lost(cur) :
       Go(IF cur.work[a] = "cancelled" \/ aborted THEN "cancelling" ELSE "failing")

\* Mutant: what is still running is not looked at.
DecideEarly ==
  /\ AtLoop
  /\ Lost(cur) = {} /\ In(cur, "pending") = {}
  /\ Go(IF In(cur, "blocked") # {} THEN "failed" ELSE "completed")

\* No assignment is pending, and none has failed.
Decide ==
  /\ AtLoop
  /\ Lost(cur) = {} /\ In(cur, "pending") = {}
  /\ IF In(cur, "blocked") # {} THEN Go("failed")
     ELSE IF In(cur, "running") # {} THEN Go("off")    \* it has no result
     ELSE Go("completed")

\* #executeCompanyTeam up to its first update, or why it cannot start
EngageTeam ==
  /\ AtLoop
  /\ Lost(cur) = {} /\ Frontier(cur) # {}
  /\ \/ /\ ~tally.over
        /\ cur.book.started + Cardinality(Frontier(cur)) <= MaxStarts
        /\ Go("marking")
     \/ Go("blocking")

\* The assignments that are ready and need no team are started together.
StartBatch ==
  /\ AtLoop
  /\ Lost(cur) = {} /\ Frontier(cur) = {} /\ ReadyDirect(cur) # {}
  /\ \E S \in SUBSET ReadyDirect(cur) :
       /\ Cardinality(S) = Min({MaxConcurrent, Cardinality(ReadyDirect(cur))})
       /\ Ask(S)
  /\ place' = "batch"
  /\ moved' = FALSE
  /\ UNCHANGED <<durable, history, cur, behind, tally, recovering, aborted, upsets>>

\* Mutant: a batch without progress is started again.
EndAnyBatch ==
  /\ place = "batch"
  /\ step = Idle
  /\ Go("loop")

\* Promise.allSettled; without progress the rest of the plan is blocked.
EndBatch ==
  /\ place = "batch"
  /\ step = Idle
  /\ Go(IF moved THEN "loop" ELSE "blocking")

\* Something is pending, nothing is ready.
Stall ==
  /\ AtLoop
  /\ Lost(cur) = {} /\ In(cur, "pending") # {}
  /\ Frontier(cur) = {} /\ ReadyDirect(cur) = {}
  /\ Go("blocking")

Blocked(r) ==
  [r EXCEPT !.work = [a \in Assignments |-> IF @[a] = "pending" THEN "blocked" ELSE @[a]],
            !.book = tally]

\* #blockPending, and what follows it
BlockPending ==
  /\ ~Stopped
  /\ \/ place = "blocking" /\ Write(Blocked(cur), "loop", "off")
     \/ place = "failing" /\ Write(Blocked(cur), "failed", "off")
     \/ place = "cancelling" /\ Write(Blocked(cur), "cancelled", "off")

\* The last record of the goal.
Conclude ==
  /\ place \in {"completed", "failed", "cancelled"} /\ ~Stopped
  /\ Write([cur EXCEPT !.status = place, !.book = tally], "off", "off")

(***************************************************************************)
(* A team.                                                                 *)
(***************************************************************************)
Members(r) == {a \in r.team : r.work[a] = "running"}

WithWork(r, S, status) ==
  [r EXCEPT !.work = [a \in Assignments |-> IF a \in S THEN status ELSE @[a]]]

Billed(r, S) ==
  [r EXCEPT !.book.used = [a \in Assignments |-> IF a \in S THEN @[a] + 1 ELSE @[a]],
            !.book.over = @ \/ \E a \in S : outcome[a] = "dear"]

\* #markTeamStarted
MarkTeam ==
  /\ place = "marking"
  /\ Write([WithWork(cur, Frontier(cur), "running") EXCEPT
               !.team = @ \union Frontier(cur),
               !.book.started = @ + Cardinality(Frontier(cur))],
            "team", "blocking")

\* startCompanyForeground creates the team's run.
StartTeam ==
  /\ place = "team"
  /\ \A a \in Members(cur) : outcome[a] = "none"
  /\ outcome' = [a \in Assignments |-> IF a \in Members(cur) THEN "open" ELSE outcome[a]]
  /\ launches' = [a \in Assignments |-> launches[a] + IF a \in Members(cur) THEN 1 ELSE 0]
  /\ UNCHANGED <<run, volatile, upsets, history>>

\* The team returns: approved, otherwise ended, or interrupted ("open").
EndTeam ==
  /\ place = "team"
  /\ \A a \in Members(cur) : outcome[a] = "open"
  /\ \E end \in Terminal \union {"open"} :
       outcome' = [a \in Assignments |-> IF a \in Members(cur) THEN end ELSE outcome[a]]
  /\ place' = "settling"
  /\ UNCHANGED <<run, launches, cur, behind, tally, step, recovering, aborted,
                 moved, upsets, history>>

\* Its run ends, yet startCompanyForeground is going to throw: the last record is
\* reported failed though it is written, or the owner lock cannot be released.
EndTeamUnheard ==
  /\ place = "team"
  /\ \A a \in Members(cur) : outcome[a] = "open"
  /\ Upset
  /\ \E end \in Terminal :
       outcome' = [a \in Assignments |-> IF a \in Members(cur) THEN end ELSE outcome[a]]
  /\ belied' = belied \union Members(cur)
  /\ UNCHANGED <<run, launches, volatile, disturbed, exposed>>

\* It throws: without a run of its own, with one that has not ended, or after that.
LoseTeam ==
  /\ place = "team"
  /\ Write(WithWork(cur, Members(cur), IF aborted THEN "cancelled" ELSE "failed"),
            "loop", "blocking")

\* The end of a team that has ended without an approval that counts.
Dropped ==
  WithWork(Billed(cur, Members(cur)), Members(cur),
           IF /\ \A a \in Members(cur) : outcome[a] \in {"failed", "cancelled"}
              /\ aborted \/ \E a \in Members(cur) : outcome[a] = "cancelled"
           THEN "cancelled" ELSE "failed")

\* #settleTeamResult: approved, ended otherwise, or neither.
SettleTeam(then, retry, else) ==
  \/ /\ \A a \in Members(cur) : outcome[a] = "good"
     /\ IF cur.book.over
        THEN Write(Dropped, then, else)
        ELSE Write(WithWork(Billed(cur, Members(cur)), Members(cur), "completed"),
                    then, retry)
  \/ /\ \E a \in Members(cur) : outcome[a] \in Terminal \ {"good"}
     /\ Write(Dropped, then, else)
  \/ /\ \E a \in Members(cur) : outcome[a] \in {"none", "open"}
     /\ Write([cur EXCEPT !.status = "interrupted"], "off", else)

Settle == place = "settling" /\ SettleTeam("loop", "dropping", "blocking")

\* The completion could not be recorded: the assignments fail.
Drop == place = "dropping" /\ Write(Dropped, "loop", "blocking")

\* The user resumes the team's own run, which then ends (/team resume).  While
\* agents work there is none to resume.
ResumeTeam ==
  /\ place \notin {"batch", "team", "settling", "dropping", "redropping"}
  /\ Members(run) # {}
  /\ \A a \in Members(run) : outcome[a] = "open"
  /\ \E end \in Terminal :
       outcome' = [a \in Assignments |-> IF a \in Members(run) THEN end ELSE outcome[a]]
  /\ UNCHANGED <<run, launches, volatile, upsets, history>>

(***************************************************************************)
(* Resuming: teams first, then agents, then the loop.                      *)
(***************************************************************************)
RecoverTeam ==
  /\ ~Stopped
  /\ \/ place = "resuming" /\ Members(cur) # {} /\ SettleTeam("resuming", "redropping", "off")
     \/ place = "redropping" /\ Write(Dropped, "resuming", "off")

\* A failed agent is recorded as it is, without its use; a finished one is
\* billed and completed, or the resume throws.
RecoverAgent(a) ==
  /\ place = "resuming" /\ ~Stopped
  /\ Members(cur) = {}
  /\ cur.work[a] = "running"
  /\ LET book == [Bills(tally, a) EXCEPT !.over = @ \/ outcome[a] = "dear"]
     IN IF outcome[a] \in {"failed", "cancelled"}
        THEN Write([cur EXCEPT !.work[a] = outcome[a], !.book = tally], "resuming", "off")
        ELSE IF outcome[a] = "bare" \/ book.over THEN Go("off")
        ELSE Write([cur EXCEPT !.work[a] = "completed", !.book = book], "resuming", "off")

EndRecovery ==
  /\ place = "resuming" /\ ~Stopped
  /\ In(cur, "running") = {}
  /\ Go("loop")

(***************************************************************************)
(* Upsets.                                                                 *)
(***************************************************************************)
\* The user cancels.
Abort ==
  /\ place # "off" /\ ~aborted
  /\ Upset
  /\ aborted' = TRUE
  /\ UNCHANGED <<durable, place, cur, behind, tally, step, recovering, moved, history>>

\* The process dies, and every agent and team in it; their logs stay.
Crash ==
  /\ place # "off"
  /\ Upset
  /\ place' = "off"
  /\ cur' = NoRun
  /\ behind' = FALSE
  /\ tally' = NoBook
  /\ step' = Idle
  /\ recovering' = FALSE
  /\ aborted' = FALSE
  /\ moved' = FALSE
  /\ UNCHANGED <<durable, history>>

Execute(a) ==
  \/ Claim(a) \/ Mark(a) \/ Launch(a) \/ EndTurn(a) \/ EndTurnUnheard(a)
  \/ Complete(a) \/ Catch(a) \/ Fail(a)

Supervise ==
  \/ Open \/ StopRecovery \/ GiveUp \/ Decide \/ EngageTeam \/ StartBatch
  \/ EndBatch \/ Stall \/ BlockPending \/ Conclude
  \/ MarkTeam \/ StartTeam \/ EndTeam \/ EndTeamUnheard \/ LoseTeam \/ Settle \/ Drop
  \/ RecoverTeam \/ (\E a \in Assignments : RecoverAgent(a)) \/ EndRecovery

Work == Supervise \/ \E a \in Assignments : Execute(a)

Next ==
  \/ Start \/ Resume \/ Work \/ ResumeTeam \/ Abort \/ Crash
  \/ \E a \in Assignments : HandOff(a)

Spec == Init /\ [][Next]_vars

\* Requests, tools and file calls settle and an agent's turn ends (its steps are
\* limited); the user returns to an unresolved goal and to a team it needs.
FairSpec ==
  /\ Spec
  /\ WF_vars(Work)
  /\ WF_vars(Resume) /\ WF_vars(ResumeTeam)

-----------------------------------------------------------------------------
(***************************************************************************)
(* Properties.                                                             *)
(***************************************************************************)
\* The start is recorded before the work (#markStarted before delegate) and
\* nothing recorded is started again, whatever is lost in between: there is at
\* most one agent or team for an assignment, the record says that it was
\* started, and what it depends on came first.
WorkStartsOnce ==
  \A a \in Assignments :
    /\ launches[a] <= 1
    /\ outcome[a] # "none" =>
         /\ run.work[a] \notin {"pending", "blocked"}
         /\ \A b \in DependsOn[a] : \/ run.work[b] = "completed"
                                   \/ {a, b} \subseteq run.team
         /\ ParentOf[a] # NoParent => outcome[ParentOf[a]] # "none"

\* A goal recorded completed is completed in every part, and an assignment
\* recorded completed was.
CompletionsAreTrue ==
  /\ run.status = "completed" => \A a \in Assignments : run.work[a] = "completed"
  /\ \A a \in Assignments : run.work[a] = "completed" => outcome[a] = "good"

\* Completions are true; an assignment recorded failed or cancelled although its
\* agent or team succeeded lost its record to a failed write or to the budget of a
\* sibling that was just being started, or the ceiling was exceeded, or its own call
\* failed after its log had ended.
OutcomesAreTrue ==
  /\ CompletionsAreTrue
  /\ \A a \in Assignments :
       run.work[a] \in {"failed", "cancelled"} /\ outcome[a] = "good" =>
         disturbed \/ run.book.over \/ a \in belied

\* The recorded budget covers every agent and team that was created, and counts
\* nothing else unless a sibling's start was overtaken; what one of them used is
\* billed once, after its end or its call's, unless a resume found it running though
\* it had been billed.
BudgetCoversWork ==
  /\ Cardinality({a \in Assignments : outcome[a] # "none"}) <= run.book.started
  /\ \/ disturbed
     \/ run.book.started <= Cardinality({a \in Assignments :
                                run.work[a] \notin {"pending", "blocked"}})
  /\ \A a \in Assignments :
       /\ run.book.used[a] > 0 => outcome[a] \in Terminal \/ a \in belied
       /\ run.book.used[a] <= 1 \/ a \in exposed

\* What no resume gets past: the agent of a running assignment has no session or
\* no end, or ended without evidence or above the ceiling, or its parent is not
\* recorded completed; a team was never created; or a use that is already billed
\* does not fit the reserve a second time.
BeyondRecovery ==
  /\ place = "off" /\ run.status \in Unresolved
  /\ \/ \E a \in In(run, "running") \ run.team :
          \/ ~Recoverable(a)
          \/ outcome[a] \in {"bare", "dear"}
          \/ outcome[a] = "good" /\ run.book.over
          \/ outcome[a] = "good" /\ Used(run.book) >= run.book.started
     \/ \E a \in Members(run) : outcome[a] = "none"

\* An unresolved goal ends, if only the user returns to it, or is in one of the
\* states above.
GoalsAreResolved ==
  run.status \in Unresolved ~>
    run.status \in {"completed", "failed", "cancelled"} \/ BeyondRecovery
=============================================================================
