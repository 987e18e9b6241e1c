---------------------------- MODULE CronScheduler ----------------------------
(***************************************************************************)
(* services/cron/scheduler.ts and service.ts, with the rows of cron_jobs   *)
(* (store/repos/cron-job.ts) and the routes of server/routes/cron.ts.      *)
(*                                                                         *)
(* A tick asks the database for the due jobs and starts some of them later,*)
(* when the answer is there; an execution that ends leaves a mark behind   *)
(* that nobody awaits: it reads the row, computes the next run from what it*)
(* read, and writes it.  Time is counted in minutes; a schedule is the set *)
(* of minutes it matches.  What an execution does, its message, and the    *)
(* columns that only report (status, error, counters) are left out.        *)
(***************************************************************************)
EXTENDS BoundedPool, Integers

CONSTANTS
  Jobs,           \* job ids
  Ticks,          \* bound: ticks under way at once
  Schedules,      \* the schedules jobs are given: sets of minutes
  Horizon,        \* bound: the last minute of the clock
  MaxConcurrent,  \* maxConcurrent
  MaxMarks,       \* bound: marks of one job under way at once
  Troubles        \* bound: edits, runs by hand, failures and restarts together

ASSUME CSAssumption ==
  /\ IsFiniteSet(Jobs)
  /\ Schedules \subseteq SUBSET (0..Horizon)
  /\ {Horizon, MaxConcurrent, MaxMarks, Troubles} \subseteq Nat

VARIABLES
  now,      \* the clock
  row,      \* cron_jobs
  started,  \* schedulerStarted: someone has called the API since the start
  found,    \* the due jobs a tick has been answered and not gone through yet
  active,   \* activeJobs
  exec,     \* where executeJob stands, and who called it
  marks,    \* markCompleted and markFailed under way
  budget    \* troubles left

vars == <<now, row, started, found, active, exec, marks, budget>>

Minutes == 0..Horizon + 1
Never   == Horizon + 1     \* a year from now

Row  == [life: {"unborn", "kept", "deleted"}, enabled: BOOLEAN,
         schedule: Schedules \cup {{}}, next: Minutes]
Idle == [at |-> "none", by |-> "nobody"]
Exec == {Idle} \cup [at: {"loading", "running"}, by: {"tick", "hand"}]
Mark == [at: {"none", "reading", "writing"}, next: Minutes]

NoMark == [at |-> "none", next |-> 0]

Kept(j) == row[j].life = "kept"

\* enabled = true AND next_run <= now
Due(j) == Kept(j) /\ row[j].enabled /\ row[j].next <= now

\* calculateNextRun: the first matching minute after this one, or in a year.
NextRun(s) ==
  CHOOSE m \in Minutes : /\ m > now
                         /\ m \in s \/ m = Never
                         /\ \A k \in s : k > now => m <= k

Trouble == budget > 0 /\ budget' = budget - 1

Init ==
  /\ now = 0
  /\ row = [j \in Jobs |-> [life |-> "unborn", enabled |-> TRUE,
                            schedule |-> {}, next |-> 0]]
  /\ started = FALSE
  /\ found = [t \in Ticks |-> {}]
  /\ active = {}
  /\ exec = [j \in Jobs |-> Idle]
  /\ marks = [j \in Jobs |-> [k \in 1..MaxMarks |-> NoMark]]
  /\ budget = Troubles

-----------------------------------------------------------------------------
(* The routes.  Those that start the scheduler do so before they return.   *)

CreateJob(j, s) ==
  /\ row[j].life = "unborn"
  /\ row' = [row EXCEPT ![j] = [life |-> "kept", enabled |-> TRUE,
                                schedule |-> s, next |-> NextRun(s)]]
  /\ started' = TRUE
  /\ UNCHANGED <<now, found, active, exec, marks, budget>>

ListJobs ==
  /\ started' = TRUE
  /\ UNCHANGED <<now, row, found, active, exec, marks, budget>>

\* updateJob: a new schedule brings a new next_run, other fields leave it.
ChangeSchedule(j, s) ==
  /\ Kept(j) /\ Trouble
  /\ row' = [row EXCEPT ![j].schedule = s, ![j].next = NextRun(s)]
  /\ UNCHANGED <<now, started, found, active, exec, marks>>

SwitchJob(j) ==
  /\ Kept(j) /\ Trouble
  /\ row' = [row EXCEPT ![j].enabled = ~@]
  /\ UNCHANGED <<now, started, found, active, exec, marks>>

DeleteJob(j) ==
  /\ Kept(j) /\ Trouble
  /\ row' = [row EXCEPT ![j].life = "deleted"]
  /\ UNCHANGED <<now, started, found, active, exec, marks>>

\* executeJob(id) of the route: no limit, but not a job that runs already.
RunByHand(j) ==
  /\ Trouble /\ started' = TRUE
  /\ \/ /\ j \in active
        /\ UNCHANGED <<active, exec>>
     \/ /\ j \notin active
        /\ active' = active \cup {j}
        /\ exec' = [exec EXCEPT ![j] = [at |-> "loading", by |-> "hand"]]
  /\ UNCHANGED <<now, row, found, marks>>

-----------------------------------------------------------------------------
(* tick: the query, and the loop over its answer, which does not await.    *)

AskDue(t) ==
  /\ started /\ found[t] = {}
  /\ found' = [found EXCEPT ![t] = {j \in Jobs : Due(j)}]
  /\ UNCHANGED <<now, row, started, active, exec, marks, budget>>

Room == IF Cardinality(active) < MaxConcurrent
        THEN MaxConcurrent - Cardinality(active) ELSE 0

\* A mutant: the limit is looked at once, before the loop.
PickedAllAtOnce(S, t) ==
  S = IF Room > 0 THEN found[t] \ active ELSE {}

\* The loop skips active jobs and stops at the limit; the rows have no order.
Picked(S, t) ==
  /\ S \subseteq found[t] \ active
  /\ Cardinality(S) = Least(Room, Cardinality(found[t] \ active))

StartDue(t) ==
  /\ found[t] # {}
  /\ \E S \in SUBSET found[t] :
       /\ Picked(S, t)
       /\ active' = active \cup S
       /\ exec' = [j \in Jobs |->
            IF j \in S THEN [at |-> "loading", by |-> "tick"] ELSE exec[j]]
  /\ found' = [found EXCEPT ![t] = {}]
  /\ UNCHANGED <<now, row, started, marks, budget>>

-----------------------------------------------------------------------------
(* executeJob *)

Free(j, k) == marks[j][k].at = "none" /\ \A l \in 1..k - 1 : marks[j][l].at # "none"

\* finally: the job leaves activeJobs, and its mark, if any, is on its way.
EndMarked(j) ==
  /\ active' = active \ {j}
  /\ exec' = [exec EXCEPT ![j] = Idle]
  /\ \E k \in 1..MaxMarks :
       /\ Free(j, k)
       /\ marks' = [marks EXCEPT ![j][k].at = "reading"]

EndUnmarked(j) ==
  /\ active' = active \ {j}
  /\ exec' = [exec EXCEPT ![j] = Idle]
  /\ UNCHANGED marks

\* A mutant: the return for a job that is gone stands before the finally.
LoadLeaks(j) ==
  /\ exec[j].at = "loading"
  /\ exec' = [exec EXCEPT ![j].at = IF Kept(j) THEN "running" ELSE "none"]
  /\ UNCHANGED <<now, row, started, found, active, marks, budget>>

\* getJob answers: the job is there, or it has been deleted meanwhile.
Load(j) ==
  /\ exec[j].at = "loading"
  /\ \/ /\ Kept(j)
        /\ exec' = [exec EXCEPT ![j].at = "running"]
        /\ UNCHANGED <<active, marks>>
     \/ ~Kept(j) /\ EndUnmarked(j)
  /\ UNCHANGED <<now, row, started, found, budget>>

LoadFails(j) ==
  /\ exec[j].at = "loading" /\ Trouble
  /\ EndMarked(j)
  /\ UNCHANGED <<now, row, started, found>>

\* A mutant: a run that fails is forgotten, as if markFailed kept next_run.
EndRunForgets(j) ==
  /\ exec[j].at = "running"
  /\ EndMarked(j) \/ EndUnmarked(j)
  /\ UNCHANGED <<now, row, started, found, budget>>

\* The action or the agent run ends, well or badly, or the timer aborts it.
EndRun(j) ==
  /\ exec[j].at = "running"
  /\ EndMarked(j)
  /\ UNCHANGED <<now, row, started, found, budget>>

-----------------------------------------------------------------------------
(* markCompleted and markFailed: read the row, then write the next run.    *)

MarkReads(j, k) ==
  /\ marks[j][k].at = "reading"
  /\ marks' = [marks EXCEPT ![j][k] =
       IF Kept(j) THEN [at |-> "writing", next |-> NextRun(row[j].schedule)]
                  ELSE NoMark]
  /\ UNCHANGED <<now, row, started, found, active, exec, budget>>

MarkWrites(j, k) ==
  /\ marks[j][k].at = "writing"
  /\ row' = IF Kept(j) THEN [row EXCEPT ![j].next = marks[j][k].next] ELSE row
  /\ marks' = [marks EXCEPT ![j][k] = NoMark]
  /\ UNCHANGED <<now, started, found, active, exec, budget>>

\* An unhandled rejection; whether it ends the process is Crash's business.
MarkFails(j, k) ==
  /\ marks[j][k].at # "none" /\ Trouble
  /\ marks' = [marks EXCEPT ![j][k] = NoMark]
  /\ UNCHANGED <<now, row, started, found, active, exec>>

-----------------------------------------------------------------------------
Minute ==
  /\ now < Horizon /\ now' = now + 1
  /\ UNCHANGED <<row, started, found, active, exec, marks, budget>>

\* Only the rows survive, and nothing ticks before the next call of the API.
Crash ==
  /\ Trouble
  /\ started' = FALSE
  /\ found' = [t \in Ticks |-> {}]
  /\ active' = {}
  /\ exec' = [j \in Jobs |-> Idle]
  /\ marks' = [j \in Jobs |-> [k \in 1..MaxMarks |-> NoMark]]
  /\ UNCHANGED <<now, row>>

Next ==
  \/ ListJobs \/ Minute \/ Crash
  \/ \E j \in Jobs :
       \/ \E s \in Schedules : CreateJob(j, s) \/ ChangeSchedule(j, s)
       \/ SwitchJob(j) \/ DeleteJob(j) \/ RunByHand(j)
       \/ Load(j) \/ LoadFails(j) \/ EndRun(j)
       \/ \E k \in 1..MaxMarks :
            MarkReads(j, k) \/ MarkWrites(j, k) \/ MarkFails(j, k)
  \/ \E t \in Ticks : AskDue(t) \/ StartDue(t)

Spec == Init /\ [][Next]_vars

\* The timer ticks, the database answers, and a run ends by its own timer at
\* the latest.  Nobody has to call the API.
Fairness ==
  /\ WF_vars(Minute)
  /\ \A t \in Ticks : WF_vars(AskDue(t)) /\ WF_vars(StartDue(t))
  /\ \A j \in Jobs :
       /\ WF_vars(Load(j)) /\ WF_vars(EndRun(j))
       /\ \A k \in 1..MaxMarks : WF_vars(MarkReads(j, k)) /\ WF_vars(MarkWrites(j, k))

FairSpec == Spec /\ Fairness

-----------------------------------------------------------------------------
TypeOK ==
  /\ now \in 0..Horizon
  /\ row \in [Jobs -> Row]
  /\ started \in BOOLEAN
  /\ found \in [Ticks -> SUBSET Jobs]
  /\ active \subseteq Jobs
  /\ exec \in [Jobs -> Exec]
  /\ marks \in [Jobs -> [1..MaxMarks -> Mark]]
  /\ budget \in 0..Troubles

\* activeJobs holds exactly the jobs an execution of which has not ended: no
\* way out of executeJob leaves a job behind that could never start again.
ActiveIsRunning == active = {j \in Jobs : exec[j].at # "none"}

\* However many ticks are answered at once and whatever is run by hand, the
\* executions started by ticks stay within the limit.
TicksWithinLimit ==
  Cardinality({j \in Jobs : exec[j].by = "tick"}) <= MaxConcurrent

\* A due job is run and gets a later next_run, unless it is switched off,
\* edited or deleted, or the server restarts and nobody calls the API.
DueJobsMoveOn == \A j \in Jobs : (started /\ Due(j)) ~> (~started \/ ~Due(j))

\* A late mark may overwrite the next_run of a schedule changed meanwhile;
\* a job does not stay that way once the wrong time has passed.
Misplaced(j) == Kept(j) /\ row[j].next \notin row[j].schedule \cup {Never}
ScheduleReturns == \A j \in Jobs :
  (started /\ Misplaced(j) /\ row[j].enabled)
    ~> (~started \/ ~Misplaced(j) \/ ~row[j].enabled)
==============================================================================
