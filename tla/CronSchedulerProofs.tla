-------------------------- MODULE CronSchedulerProofs --------------------------
(***************************************************************************)
(* What holds of the scheduler for any jobs and schedules, any number of   *)
(* ticks answered at once and any limit.                                   *)
(***************************************************************************)
EXTENDS CronScheduler, FiniteSetTheorems, WellFoundedInduction,
        TLAPS

LEMMA Bounds ==
  /\ Horizon \in Nat /\ MaxConcurrent \in Nat /\ MaxMarks \in Nat /\ Troubles \in Nat
  /\ IsFiniteSet(Jobs)
BY CSAssumption

\* calculateNextRun finds a minute for every schedule, and a later one.
LEMMA NextRunType ==
  ASSUME NEW s \in SUBSET (0..Horizon), now \in 0..Horizon
  PROVE  NextRun(s) \in Minutes /\ NextRun(s) > now
<1> USE Bounds
<1> DEFINE Later == {m \in s \cup {Never} : m > now}
<1>1. Later \in SUBSET Nat /\ Never \in Later
  <2>1. Never \in Nat /\ Never > now
    BY DEF Never
  <2>2. s \subseteq Nat
    BY DEF Never
  <2> QED BY <2>1, <2>2
<1>2. PICK m \in Later : \A k \in Later : m <= k
  <2> DEFINE R == OpToRel(<, Nat)
  <2>1. \A x, y \in Nat : x < y => <<x, y>> \in R
    BY DEF OpToRel
  <2>2. IsWellFoundedOn(R, Nat)
    BY NatLessThanWellFounded
  <2>3. Later # {} /\ Later \in SUBSET Nat
    BY <1>1
  <2> HIDE DEF Later, R
  <2>4. PICK m \in Later : \A k \in Later : <<k, m>> \notin R
    BY <2>2, <2>3, WFMin
  <2>5. ASSUME NEW k \in Later PROVE m <= k
    <3>1. m \in Nat /\ k \in Nat
      BY <2>3
    <3>2. ~(k < m)
      BY <2>1, <2>4, <3>1, Zenon
    <3> QED BY <3>1, <3>2
  <2> QED BY <2>5
<1>3. /\ m \in Minutes /\ m > now
      /\ m \in s \/ m = Never
      /\ \A k \in s : k > now => m <= k
  BY <1>2 DEF Minutes, Never
<1> QED BY <1>3 DEF NextRun

-----------------------------------------------------------------------------
(* Types, and the jobs that are active.                                    *)

CInv == TypeOK /\ ActiveIsRunning

LEMMA CInvInit == Init => CInv
<1> SUFFICES ASSUME Init PROVE CInv
  OBVIOUS
<1>1. 0 \in 0..Horizon /\ 0 \in Minutes /\ Troubles \in 0..Troubles
  BY Bounds DEF Minutes
<1>2. TypeOK
  BY <1>1 DEF Init, TypeOK, Row, Exec, Idle, Mark, NoMark
<1>3. ActiveIsRunning
  BY DEF Init, ActiveIsRunning, Idle
<1> QED BY <1>2, <1>3 DEF CInv

LEMMA Scheduled ==
  ASSUME TypeOK, NEW j \in Jobs
  PROVE  row[j].schedule \in SUBSET (0..Horizon)
BY CSAssumption DEF TypeOK, Row

LEMMA EndFacts ==
  ASSUME CInv, NEW j \in Jobs, EndMarked(j) \/ EndUnmarked(j)
  PROVE  /\ active' \subseteq Jobs
         /\ exec' \in [Jobs -> Exec]
         /\ marks' \in [Jobs -> [1..MaxMarks -> Mark]]
         /\ ActiveIsRunning'
<1>1. active' = active \ {j} /\ exec' = [exec EXCEPT ![j] = Idle]
  BY DEF EndMarked, EndUnmarked
<1>2. active' \subseteq Jobs /\ exec' \in [Jobs -> Exec] /\ ActiveIsRunning'
  BY <1>1 DEF CInv, TypeOK, ActiveIsRunning, Exec, Idle
<1>3. CASE EndUnmarked(j)
  BY <1>2, <1>3 DEF EndUnmarked, CInv, TypeOK
<1>4. CASE EndMarked(j)
  <2>1. PICK k \in 1..MaxMarks : marks' = [marks EXCEPT ![j][k].at = "reading"]
    BY <1>4 DEF EndMarked
  <2>0. marks[j][k] \in Mark
    BY DEF CInv, TypeOK
  <2>2. [marks[j][k] EXCEPT !.at = "reading"] \in Mark
    BY <2>0 DEF Mark
  <2>3. marks' \in [Jobs -> [1..MaxMarks -> Mark]]
    BY <2>1, <2>2 DEF CInv, TypeOK
  <2> QED BY <1>2, <2>3
<1> QED BY <1>3, <1>4

LEMMA CInvNext == CInv /\ [Next]_vars => CInv'
<1> SUFFICES ASSUME CInv, [Next]_vars PROVE CInv'
  OBVIOUS
<1> USE Bounds DEF CInv
<1>1. budget' \in 0..Troubles
  <2>1. Trouble => budget' \in 0..Troubles
    BY DEF Trouble, TypeOK
  <2>2. Trouble \/ budget' = budget
    BY DEF Next, vars, ListJobs, Minute, Crash, CreateJob, ChangeSchedule,
     SwitchJob, DeleteJob, RunByHand, Load, LoadFails, EndRun, MarkReads, MarkWrites,
     MarkFails, AskDue, StartDue
  <2> QED BY <2>1, <2>2 DEF TypeOK
<1>2. CASE UNCHANGED vars
  BY <1>2 DEF vars, TypeOK, ActiveIsRunning
<1>3. CASE ListJobs \/ Minute
  <2>1. now' \in 0..Horizon /\ started' \in BOOLEAN
    <3>1. CASE ListJobs
      BY <3>1 DEF ListJobs, TypeOK
    <3>2. CASE Minute
      BY <3>2 DEF Minute, TypeOK
    <3> QED BY <1>3, <3>1, <3>2
  <2> QED BY <1>1, <1>3, <2>1 DEF ListJobs, Minute, TypeOK, ActiveIsRunning
<1>4. CASE Crash
  <2>1. NoMark \in Mark /\ Idle \in Exec
    BY DEF NoMark, Mark, Exec, Minutes
  <2> QED BY <1>1, <1>4, <2>1 DEF Crash, TypeOK, ActiveIsRunning, Idle
<1>5. ASSUME NEW j \in Jobs, NEW s \in Schedules, CreateJob(j, s) \/ ChangeSchedule(j, s)
      PROVE  CInv'
  <2>1. NextRun(s) \in Minutes
    BY NextRunType, CSAssumption DEF TypeOK
  <2>2. row' \in [Jobs -> Row]
    <3>1. row[j] \in Row
      BY DEF TypeOK
    <3>2. [life |-> "kept", enabled |-> TRUE, schedule |-> s, next |-> NextRun(s)] \in Row
      BY <2>1 DEF Row
    <3>3. [row[j] EXCEPT !.schedule = s, !.next = NextRun(s)] \in Row
      BY <2>1, <3>1 DEF Row
    <3>4. CASE CreateJob(j, s)
      BY <3>2, <3>4 DEF CreateJob, TypeOK
    <3>5. CASE ChangeSchedule(j, s)
      BY <3>3, <3>5 DEF ChangeSchedule, TypeOK
    <3> QED BY <1>5, <3>4, <3>5
  <2> QED BY <1>1, <1>5, <2>2 DEF CreateJob, ChangeSchedule, TypeOK, ActiveIsRunning
<1>6. ASSUME NEW j \in Jobs, SwitchJob(j) \/ DeleteJob(j)
      PROVE  CInv'
  <2>1. row' \in [Jobs -> Row]
    <3>1. row[j] \in Row
      BY DEF TypeOK
    <3>2. [row[j] EXCEPT !.enabled = ~@] \in Row /\ [row[j] EXCEPT !.life = "deleted"] \in Row
      BY <3>1 DEF Row
    <3> QED BY <1>6, <3>2 DEF SwitchJob, DeleteJob, TypeOK
  <2> QED BY <1>1, <1>6, <2>1 DEF SwitchJob, DeleteJob, TypeOK, ActiveIsRunning
<1>7. ASSUME NEW j \in Jobs, RunByHand(j)
      PROVE  CInv'
  <2>1. active' \subseteq Jobs /\ exec' \in [Jobs -> Exec]
    BY <1>7 DEF RunByHand, TypeOK, Exec
  <2>2. ActiveIsRunning'
    BY <1>7 DEF RunByHand, TypeOK, ActiveIsRunning
  <2> QED BY <1>1, <1>7, <2>1, <2>2 DEF RunByHand, TypeOK
<1>8. ASSUME NEW j \in Jobs, Load(j)
      PROVE  CInv'
  <2>1. CASE EndUnmarked(j)
    BY <1>1, <1>8, <2>1, EndFacts DEF Load, TypeOK
  <2>2. CASE exec' = [exec EXCEPT ![j].at = "running"] /\ UNCHANGED <<active, marks>>
    <3>1. exec[j] # Idle /\ exec[j] \in Exec
      BY <1>8 DEF Load, Idle, TypeOK
    <3>2. exec' \in [Jobs -> Exec]
      BY <2>2, <3>1 DEF TypeOK, Exec
    <3>3. ActiveIsRunning'
      BY <1>8, <2>2 DEF Load, TypeOK, ActiveIsRunning
    <3> QED BY <1>1, <1>8, <2>2, <3>2, <3>3 DEF Load, TypeOK
  <2> QED BY <1>8, <2>1, <2>2 DEF Load
<1>9. ASSUME NEW j \in Jobs, LoadFails(j) \/ EndRun(j)
      PROVE  CInv'
  BY <1>1, <1>9, EndFacts DEF LoadFails, EndRun, TypeOK
<1>10. ASSUME NEW j \in Jobs, NEW k \in 1..MaxMarks, MarkReads(j, k)
       PROVE  CInv'
  <2>1. NextRun(row[j].schedule) \in Minutes
    BY Scheduled, NextRunType DEF TypeOK
  <2>2. marks' \in [Jobs -> [1..MaxMarks -> Mark]]
    BY <1>10, <2>1 DEF MarkReads, TypeOK, Mark, NoMark, Minutes
  <2> QED BY <1>1, <1>10, <2>2 DEF MarkReads, TypeOK, ActiveIsRunning
<1>11. ASSUME NEW j \in Jobs, NEW k \in 1..MaxMarks, MarkWrites(j, k) \/ MarkFails(j, k)
       PROVE  CInv'
  <2>1. marks[j][k].next \in Minutes
    BY DEF TypeOK, Mark
  <2>2. row' \in [Jobs -> Row]
    <3>1. row[j] \in Row
      BY DEF TypeOK
    <3>2. [row[j] EXCEPT !.next = marks[j][k].next] \in Row
      BY <2>1, <3>1 DEF Row
    <3> QED BY <1>11, <3>2 DEF MarkWrites, MarkFails, TypeOK
  <2>3. marks' \in [Jobs -> [1..MaxMarks -> Mark]]
    <3>1. NoMark \in Mark
      BY DEF Mark, NoMark, Minutes
    <3>2. marks' = [marks EXCEPT ![j][k] = NoMark]
      BY <1>11 DEF MarkWrites, MarkFails
    <3> QED BY <3>1, <3>2 DEF TypeOK
  <2> QED BY <1>1, <1>11, <2>2, <2>3 DEF MarkWrites, MarkFails, TypeOK, ActiveIsRunning
<1>12. ASSUME NEW t \in Ticks, AskDue(t)
       PROVE  CInv'
  BY <1>1, <1>12 DEF AskDue, TypeOK, ActiveIsRunning
<1>13. ASSUME NEW t \in Ticks, StartDue(t)
       PROVE  CInv'
  <2>1. PICK S \in SUBSET found[t] :
          /\ active' = active \cup S
          /\ exec' = [j \in Jobs |->
               IF j \in S THEN [at |-> "loading", by |-> "tick"] ELSE exec[j]]
    BY <1>13 DEF StartDue
  <2>2. S \subseteq Jobs
    BY DEF TypeOK
  <2>3. active' \subseteq Jobs /\ exec' \in [Jobs -> Exec]
    BY <2>1, <2>2 DEF TypeOK, Exec
  <2>4. ActiveIsRunning'
    BY <2>1, <2>2 DEF ActiveIsRunning, TypeOK
  <2> QED BY <1>1, <1>13, <2>3, <2>4 DEF StartDue, TypeOK
<1> QED BY <1>2, <1>3, <1>4, <1>5, <1>6, <1>7, <1>8, <1>9, <1>10, <1>11, <1>12, <1>13
        DEF Next

LEMMA CInvAlways == Spec => []CInv
<1>1. Init => CInv
  BY CInvInit
<1>2. CInv /\ [Next]_vars => CInv'
  BY CInvNext
<1> QED BY <1>1, <1>2, PTL DEF Spec

\* Every variable keeps its type: every next_run is a minute of the clock or
\* the year from now, and an execution has a caller exactly while it lasts.
THEOREM TypeCorrect == Spec => []TypeOK
<1>1. CInv => TypeOK
  BY DEF CInv
<1> QED BY <1>1, CInvAlways, PTL

\* activeJobs never keeps a job whose execution has ended nor loses one whose
\* execution goes on, whichever way executeJob is left.
THEOREM NothingLeftActive == Spec => []ActiveIsRunning
<1>1. CInv => ActiveIsRunning
  BY DEF CInv
<1> QED BY <1>1, CInvAlways, PTL

-----------------------------------------------------------------------------
(* The limit.                                                              *)

ByTick == {j \in Jobs : exec[j].by = "tick"}

LEMMA ByTickFacts ==
  ASSUME CInv
  PROVE  /\ ByTick \subseteq active /\ IsFiniteSet(active) /\ IsFiniteSet(ByTick)
         /\ Cardinality(active) \in Nat /\ Cardinality(ByTick) \in Nat
         /\ Cardinality(ByTick) <= Cardinality(active)
<1>1. ByTick \subseteq active
  BY DEF ByTick, CInv, TypeOK, ActiveIsRunning, Exec, Idle
<1>2. IsFiniteSet(active)
  BY Bounds, FS_Subset DEF CInv, TypeOK
<1>3. IsFiniteSet(ByTick) /\ Cardinality(ByTick) <= Cardinality(active)
  BY <1>1, <1>2, FS_Subset
<1> QED BY <1>1, <1>2, <1>3, FS_CardinalityType

\* A tick goes no further than the limit counted over all active jobs.
LEMMA StartsWithin ==
  ASSUME CInv, CInv', TicksWithinLimit, NEW t \in Ticks, StartDue(t)
  PROVE  TicksWithinLimit'
<1>1. PICK S \in SUBSET found[t] :
        /\ Picked(S, t)
        /\ exec' = [j \in Jobs |->
             IF j \in S THEN [at |-> "loading", by |-> "tick"] ELSE exec[j]]
  BY DEF StartDue
<1>2. S \subseteq Jobs /\ S \cap active = {} /\ found[t] \subseteq Jobs
  BY <1>1 DEF Picked, CInv, TypeOK
<1>3. ByTick' = ByTick \cup S
  BY <1>1, <1>2 DEF ByTick
<1>4. ByTick \cap S = {}
  BY <1>2, ByTickFacts
<1>5. IsFiniteSet(S) /\ IsFiniteSet(found[t] \ active)
  BY <1>2, Bounds, FS_Subset
<1>6. Cardinality(S) \in Nat /\ Cardinality(found[t] \ active) \in Nat
  BY <1>5, FS_CardinalityType
<1>7. Cardinality(ByTick') = Cardinality(ByTick) + Cardinality(S)
  <2>1. Cardinality(ByTick \cap S) = 0
    BY <1>4, FS_EmptySet
  <2>2. Cardinality(ByTick \cup S)
          = Cardinality(ByTick) + Cardinality(S) - Cardinality(ByTick \cap S)
    BY <1>5, ByTickFacts, FS_Union
  <2> QED BY <1>3, <1>6, <2>1, <2>2, ByTickFacts
<1>8. Cardinality(S) <= Room
  BY <1>1, <1>6, Bounds, ByTickFacts DEF Picked, Least, Room
<1>9. Cardinality(ByTick) <= MaxConcurrent
  BY DEF TicksWithinLimit, ByTick
<1>10. Cardinality(ByTick') <= MaxConcurrent
  BY <1>6, <1>7, <1>8, <1>9, Bounds, ByTickFacts DEF Room
<1> QED BY <1>10 DEF TicksWithinLimit, ByTick

LEMMA NoneAdded ==
  ASSUME CInv, TicksWithinLimit, ByTick' \subseteq ByTick
  PROVE  TicksWithinLimit'
<1>1. IsFiniteSet(ByTick') /\ Cardinality(ByTick') <= Cardinality(ByTick)
  BY ByTickFacts, FS_Subset
<1>2. Cardinality(ByTick') \in Nat
  BY <1>1, FS_CardinalityType
<1>3. Cardinality(ByTick) <= MaxConcurrent
  BY DEF TicksWithinLimit, ByTick
<1>4. Cardinality(ByTick') <= MaxConcurrent
  BY <1>1, <1>2, <1>3, Bounds, ByTickFacts
<1> QED BY <1>4 DEF TicksWithinLimit, ByTick

\* No more than maxConcurrent executions of scheduled jobs run at a time,
\* however many ticks wait for their answers and whatever is run by hand.
THEOREM LimitHolds == Spec => []TicksWithinLimit
<1>1. Init => TicksWithinLimit
  <2> SUFFICES ASSUME Init PROVE TicksWithinLimit
    OBVIOUS
  <2>1. {j \in Jobs : exec[j].by = "tick"} = {}
    BY DEF Init, Idle
  <2> QED BY <2>1, FS_EmptySet, Bounds DEF TicksWithinLimit
<1>2. TicksWithinLimit /\ CInv /\ CInv' /\ [Next]_vars => TicksWithinLimit'
  <2> SUFFICES ASSUME TicksWithinLimit, CInv, CInv', [Next]_vars
               PROVE  TicksWithinLimit'
    OBVIOUS
  <2>1. ASSUME NEW t \in Ticks, StartDue(t) PROVE TicksWithinLimit'
    BY <2>1, StartsWithin
  <2>2. CASE ~\E t \in Ticks : StartDue(t)
    <3>1. CASE exec' = exec
      <4>1. ByTick' = ByTick
        BY <3>1 DEF ByTick
      <4> QED BY <4>1, NoneAdded
    <3>2. ASSUME NEW j \in Jobs, RunByHand(j) \/ Load(j) \/ LoadFails(j) \/ EndRun(j)
          PROVE  ByTick' \subseteq ByTick
      <4>1. CASE RunByHand(j)
        BY <4>1 DEF RunByHand, ByTick, CInv, TypeOK
      <4>2. CASE exec' = [exec EXCEPT ![j] = Idle]
        BY <4>2 DEF Idle, ByTick, CInv, TypeOK
      <4>3. CASE exec' = [exec EXCEPT ![j].at = "running"]
        <5>1. exec'[j].by = exec[j].by
          BY <4>3 DEF CInv, TypeOK, Exec, Idle
        <5> QED BY <4>3, <5>1 DEF ByTick, CInv, TypeOK
      <4> QED BY <3>2, <4>1, <4>2, <4>3
              DEF Load, LoadFails, EndRun, EndMarked, EndUnmarked
    <3>3. CASE Crash
      <4>1. ByTick' = {}
        BY <3>3 DEF Crash, ByTick, Idle
      <4> QED BY <4>1, NoneAdded
    <3>4. exec' = exec \/ Crash
            \/ \E j \in Jobs : RunByHand(j) \/ Load(j) \/ LoadFails(j) \/ EndRun(j)
      BY <2>2 DEF Next, vars, ListJobs, Minute, CreateJob, ChangeSchedule, SwitchJob,
         DeleteJob, MarkReads, MarkWrites, MarkFails, AskDue
    <3> QED BY <3>1, <3>2, <3>3, <3>4, NoneAdded
  <2> QED BY <2>1, <2>2
<1> QED BY <1>1, <1>2, CInvAlways, PTL DEF Spec

-----------------------------------------------------------------------------
(* What a step may do to an execution and to a job that is due.            *)

\* An execution is never started over while it lasts, whichever ticks and requests
\* find the job due, and its caller stays the same (scheduler.ts:52, 62-65, 146).
ExecutionsMoveOn ==
  [][\A j \in Jobs : exec'[j] # exec[j] =>
       \/ exec[j].at = "none" /\ exec'[j].at = "loading"
       \/ exec[j].at = "loading" /\ exec'[j].at = "running" /\ exec'[j].by = exec[j].by
       \/ exec[j].at # "none" /\ exec'[j] = Idle]_vars

\* A due job loses its turn to nothing but a mark of an execution of its own or to an
\* edit: not to the limit, a failed mark, the clock or a restart (scheduler.ts:40-58,
\* service.ts:157-214).
DueStaysDue ==
  [][\A j \in Jobs : Due(j) /\ ~Due(j)' =>
       \/ \E k \in 1..MaxMarks :
            marks[j][k].at = "writing" /\ row'[j].next = marks[j][k].next
       \/ budget' < budget /\ exec' = exec /\ row'[j] # row[j]]_vars

ExecMoved(j) ==
  exec'[j] # exec[j] =>
    \/ exec[j].at = "none" /\ exec'[j].at = "loading"
    \/ exec[j].at = "loading" /\ exec'[j].at = "running" /\ exec'[j].by = exec[j].by
    \/ exec[j].at # "none" /\ exec'[j] = Idle

DueKept(j) ==
  Due(j) /\ ~Due(j)' =>
    \/ \E k \in 1..MaxMarks :
         marks[j][k].at = "writing" /\ row'[j].next = marks[j][k].next
    \/ budget' < budget /\ exec' = exec /\ row'[j] # row[j]

LEMMA ExecStep ==
  ASSUME CInv, Next
  PROVE  \A j \in Jobs : ExecMoved(j)
<1> USE DEF CInv
<1>1. CASE exec' = exec
  BY <1>1 DEF ExecMoved
<1>2. exec \in [Jobs -> Exec] /\ \A j \in Jobs : exec[j].at # "none" <=> j \in active
  BY DEF TypeOK, ActiveIsRunning
<1>3. CASE Crash
  <2>1. \A j \in Jobs : exec[j].at = "none" => exec[j] = Idle
    BY <1>2 DEF Exec, Idle
  <2> QED BY <1>3, <2>1 DEF Crash, ExecMoved
<1>4. ASSUME NEW j \in Jobs, RunByHand(j) \/ Load(j) \/ LoadFails(j) \/ EndRun(j)
      PROVE  \A i \in Jobs : ExecMoved(i)
  <2>1. CASE j \notin active /\ exec' = [exec EXCEPT ![j] = [at |-> "loading", by |-> "hand"]]
    BY <1>2, <2>1 DEF ExecMoved
  <2>2. CASE exec[j].at = "loading" /\ exec' = [exec EXCEPT ![j].at = "running"]
    <3>1. exec'[j].at = "running" /\ exec'[j].by = exec[j].by
      BY <1>2, <2>2 DEF Exec, Idle
    <3> QED BY <1>2, <2>2, <3>1 DEF ExecMoved
  <2>3. CASE exec[j].at \in {"loading", "running"} /\ exec' = [exec EXCEPT ![j] = Idle]
    BY <1>2, <2>3 DEF ExecMoved
  <2> QED BY <1>1, <1>4, <2>1, <2>2, <2>3
          DEF RunByHand, Load, LoadFails, EndRun, EndMarked, EndUnmarked
<1>5. ASSUME NEW t \in Ticks, StartDue(t)
      PROVE  \A j \in Jobs : ExecMoved(j)
  <2>1. PICK S \in SUBSET found[t] :
          /\ S \subseteq found[t] \ active
          /\ exec' = [j \in Jobs |->
               IF j \in S THEN [at |-> "loading", by |-> "tick"] ELSE exec[j]]
    BY <1>5 DEF StartDue, Picked
  <2> QED BY <1>2, <2>1 DEF ExecMoved
<1>6. \/ exec' = exec \/ Crash
      \/ \E j \in Jobs : RunByHand(j) \/ Load(j) \/ LoadFails(j) \/ EndRun(j)
      \/ \E t \in Ticks : StartDue(t)
  BY DEF Next, ListJobs, Minute, CreateJob, ChangeSchedule, SwitchJob, DeleteJob,
     MarkReads, MarkWrites, MarkFails, AskDue
<1> QED BY <1>1, <1>3, <1>4, <1>5, <1>6

LEMMA DueStep ==
  ASSUME CInv, Next
  PROVE  \A j \in Jobs : DueKept(j)
<1> USE DEF CInv
<1>1. budget \in Nat /\ now \in Nat /\ row \in [Jobs -> Row]
  BY Bounds DEF TypeOK
<1>2. CASE row' = row /\ now' \in {now, now + 1}
  <2>1. \A j \in Jobs : row[j].next \in Nat
    BY <1>1, Bounds DEF Row, Minutes
  <2>2. \A j \in Jobs : Due(j) => Due(j)'
    BY <1>1, <1>2, <2>1 DEF Due, Kept
  <2> QED BY <2>2 DEF DueKept
<1>3. ASSUME NEW j \in Jobs, Trouble, exec' = exec, now' = now,
             \A i \in Jobs : i # j => row'[i] = row[i]
      PROVE  \A i \in Jobs : DueKept(i)
  <2>1. budget' < budget
    BY <1>1, <1>3 DEF Trouble
  <2>2. \A i \in Jobs : row'[i] = row[i] => (Due(i) => Due(i)')
    BY <1>3 DEF Due, Kept
  <2> QED BY <1>3, <2>1, <2>2 DEF DueKept
<1>4. ASSUME NEW j \in Jobs, NEW s \in Schedules, CreateJob(j, s)
      PROVE  \A i \in Jobs : DueKept(i)
  <2>1. ~Due(j) /\ now' = now /\ \A i \in Jobs : i # j => row'[i] = row[i]
    BY <1>1, <1>4 DEF CreateJob, Due, Kept
  <2>2. \A i \in Jobs : Due(i) => Due(i)'
    BY <2>1 DEF Due, Kept
  <2> QED BY <2>2 DEF DueKept
<1>5. ASSUME NEW j \in Jobs, NEW k \in 1..MaxMarks, MarkWrites(j, k)
      PROVE  \A i \in Jobs : DueKept(i)
  <2>1. /\ now' = now /\ marks[j][k].at = "writing"
        /\ \A i \in Jobs : i # j => row'[i] = row[i]
        /\ row'[j].next = marks[j][k].next \/ row'[j] = row[j]
    BY <1>1, <1>5 DEF MarkWrites, Row
  <2>2. \A i \in Jobs : row'[i] = row[i] => (Due(i) => Due(i)')
    BY <2>1 DEF Due, Kept
  <2> QED BY <2>1, <2>2 DEF DueKept
<1>6. \A j \in Jobs :
        SwitchJob(j) \/ DeleteJob(j) \/ (\E s \in Schedules : ChangeSchedule(j, s)) =>
          /\ Trouble /\ exec' = exec /\ now' = now
          /\ \A i \in Jobs : i # j => row'[i] = row[i]
  BY <1>1 DEF SwitchJob, DeleteJob, ChangeSchedule
<1>7. \/ row' = row /\ now' \in {now, now + 1}
      \/ \E j \in Jobs : \/ SwitchJob(j) \/ DeleteJob(j)
                         \/ \E s \in Schedules : ChangeSchedule(j, s)
      \/ \E j \in Jobs, s \in Schedules : CreateJob(j, s)
      \/ \E j \in Jobs, k \in 1..MaxMarks : MarkWrites(j, k)
  BY DEF Next, ListJobs, Minute, Crash, RunByHand, Load, LoadFails, EndRun,
     MarkReads, MarkFails, AskDue, StartDue
<1> QED BY <1>2, <1>3, <1>4, <1>5, <1>6, <1>7

\* A job is never executed twice at once, and no tick or request takes an execution
\* over that goes on.
THEOREM NeverStartedOver == Spec => ExecutionsMoveOn
<1>1. CInv /\ [Next]_vars => [\A j \in Jobs : ExecMoved(j)]_vars
  BY ExecStep
<1>2. (\A j \in Jobs : ExecMoved(j)) =>
        \A j \in Jobs : exec'[j] # exec[j] =>
          \/ exec[j].at = "none" /\ exec'[j].at = "loading"
          \/ exec[j].at = "loading" /\ exec'[j].at = "running" /\ exec'[j].by = exec[j].by
          \/ exec[j].at # "none" /\ exec'[j] = Idle
  BY DEF ExecMoved
<1> QED BY <1>1, <1>2, CInvAlways, PTL DEF Spec, ExecutionsMoveOn

\* A job that is due stays due until an execution of it has been marked or somebody
\* edits it; that the mark or the edit comes is DueJobsMoveOn, which TLC checks.
THEOREM DueIsNotForgotten == Spec => DueStaysDue
<1>1. CInv /\ [Next]_vars => [\A j \in Jobs : DueKept(j)]_vars
  BY DueStep
<1>2. (\A j \in Jobs : DueKept(j)) =>
        \A j \in Jobs : Due(j) /\ ~Due(j)' =>
          \/ \E k \in 1..MaxMarks :
               marks[j][k].at = "writing" /\ row'[j].next = marks[j][k].next
          \/ budget' < budget /\ exec' = exec /\ row'[j] # row[j]
  BY DEF DueKept
<1> QED BY <1>1, <1>2, CInvAlways, PTL DEF Spec, DueStaysDue
================================================================================
