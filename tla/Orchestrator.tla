----------------------------- MODULE Orchestrator -----------------------------
(***************************************************************************)
(* runCoordinated and runParallel of services/agent/orchestrator.ts: a     *)
(* coordinator plans subtasks, which run side by side under one parent row *)
(* (POST /agents/run-coordinated, in server/routes/agents.ts, starts one). *)
(*                                                                         *)
(* One workflow: Root is the parent's id, Coord the id runSingle makes for *)
(* the coordinator, Subs the ids of the subtasks in the order of the plan. *)
(* runParallel may also be called by itself ("direct"), with fresh ids.    *)
(***************************************************************************)
EXTENDS AgentTasks, Sequences

CONSTANTS
  Root,    \* the parent task
  Coord,   \* the coordinator's own task
  Subs,    \* bound: the subtasks a plan can have, in order
  Limited  \* the subtasks whose agent has a turn limit, as all but general and
           \* unknown ones have

SubIds == {Subs[i] : i \in 1 .. Len(Subs)}

ASSUME ORAssumption ==
  /\ Singles = {Coord}
  /\ Rows = {Root, Coord} \cup SubIds
  /\ Root # Coord /\ Root \notin SubIds /\ Coord \notin SubIds
  /\ Limited \subseteq SubIds

VARIABLES
  flow,    \* how the workflow was called: "none", "direct", "coordinated"
  plan,    \* how many subtasks it has
  next,    \* the subtask the sequential loops of runParallel have reached
  asking   \* whether a subtask waits for its user; bound: one question each

orVars  == <<flow, plan, next>>
allVars == <<taskVars, orVars, asking>>

\* The workflow is parked at at[Root]; its places, besides those of AgentTasks.
FlowPlaces == {"idle", "root", "planning", "closing", "parent", "subs",
               "running", "collecting", "merging", "returned", "threw"}

Planned == {Subs[i] : i \in 1 .. plan}
Of(i)   == Subs[i]

Init ==
  /\ TaskInit
  /\ flow = "none"
  /\ plan = 0
  /\ next = 0
  /\ asking = [t \in SubIds |-> "no"]

\* recordTask: the id is the primary key, so a second INSERT fails.
Insert(t) == row[t] = "none" /\ Write(t, "pending")

InsertFails(t) ==
  \/ row[t] # "none" /\ UNCHANGED <<row, faults>>
  \/ Fault

Throw ==
  /\ Move(Root, "threw")
  /\ UNCHANGED <<controllers, plan, next>>

-----------------------------------------------------------------------------
(* runCoordinated up to the plan.                                          *)

Coordinate ==
  /\ at[Root] = "idle"
  /\ flow' = "coordinated"
  /\ Move(Root, "root")
  /\ UNCHANGED <<row, controllers, aborted, cancelling, faults, plan, next>>

\* The parent row is inserted and runSingle called for the coordinator.
RootRecorded ==
  /\ at[Root] = "root"
  /\ \/ /\ Insert(Root)
        /\ at' = [at EXCEPT ![Root] = "planning", ![Coord] = "recording"]
        /\ UNCHANGED <<controllers, plan, next>>
     \/ InsertFails(Root) /\ Throw
  /\ UNCHANGED <<aborted, cancelling, flow>>

\* The output of the coordinator is parsed, that of a failed one included.
PlanParsed ==
  /\ at[Root] = "planning"
  /\ \/ /\ at[Coord] = "returned"
        /\ plan' \in 0 .. Len(Subs)
        /\ Move(Root, IF plan' = 0 THEN "closing" ELSE "parent")
     \/ /\ at[Coord] = "threw"
        /\ Move(Root, "threw")
        /\ UNCHANGED plan
  /\ UNCHANGED <<row, controllers, aborted, cancelling, faults, flow, next>>

\* The last write of runCoordinated.
Closed ==
  /\ at[Root] = "closing"
  /\ \/ /\ Write(Root, IF plan # 0 /\ \A t \in Planned : at[t] = "bad"
                       THEN "failed" ELSE "completed")
        /\ Move(Root, "returned")
     \/ Fault /\ Move(Root, "threw")
  /\ UNCHANGED <<controllers, aborted, cancelling, orVars>>

-----------------------------------------------------------------------------
(* runParallel.                                                            *)

Parallel ==
  /\ at[Root] = "idle"
  /\ flow' = "direct"
  /\ plan' \in 0 .. Len(Subs)
  /\ Move(Root, "parent")
  /\ UNCHANGED <<row, controllers, aborted, cancelling, faults, next>>

\* Called by runCoordinated the parent's row is there already.
ParentRecorded ==
  /\ at[Root] = "parent"
  /\ \/ /\ Insert(Root)
        /\ next' = 1
        /\ Move(Root, IF plan = 0 THEN "merging" ELSE "subs")
        /\ UNCHANGED <<controllers, plan>>
     \/ InsertFails(Root) /\ Throw
  /\ UNCHANGED <<aborted, cancelling, flow>>

\* After the last INSERT all controllers are made and all subtasks set off.
SubRecorded ==
  /\ at[Root] = "subs"
  /\ \/ /\ Insert(Of(next))
        /\ next' = next + 1
        /\ IF next < plan
           THEN UNCHANGED <<at, controllers>>
           ELSE /\ controllers' = controllers \cup Planned
                /\ at' = [t \in Rows |-> IF t \in Planned THEN "marking"
                                    ELSE IF t = Root THEN "running" ELSE at[t]]
        /\ UNCHANGED plan
     \/ InsertFails(Of(next)) /\ Throw
  /\ UNCHANGED <<aborted, cancelling, flow>>

SubMarked(t) ==
  /\ at[t] = "marking"
  /\ \/ Write(t, "running") /\ Move(t, "agent")
     \/ Fault /\ Move(t, "bad")
  /\ UNCHANGED <<controllers, aborted, cancelling, orVars, asking>>

\* ask_user, through the callback of whichever stream the tool registry holds:
\* the run waits, and does not look at its signal.
SubAsks(t) ==
  /\ at[t] = "agent" /\ asking[t] = "no"
  /\ asking' = [asking EXCEPT ![t] = "waiting"]
  /\ UNCHANGED <<taskVars, orVars>>

SubAnswered(t) ==
  /\ asking[t] = "waiting"
  /\ asking' = [asking EXCEPT ![t] = "answered"]
  /\ UNCHANGED <<taskVars, orVars>>

SubSettles(t) ==
  /\ at[t] = "agent" /\ asking[t] # "waiting"
  /\ \E outcome \in {"ok", "bad"} : Move(t, outcome)
  /\ UNCHANGED <<row, controllers, aborted, cancelling, faults, orVars, asking>>

\* Mutant of AllSettled: only subtasks that succeed are waited for.
AllSettledWhenOk ==
  /\ at[Root] = "running"
  /\ \A t \in Planned : at[t] = "ok"
  /\ Move(Root, "collecting")
  /\ next' = 1
  /\ controllers' = controllers \ {Of(1)}
  /\ UNCHANGED <<row, aborted, cancelling, faults, flow, plan>>

\* Promise.allSettled: the loop that stores the results starts.
AllSettled ==
  /\ at[Root] = "running"
  /\ \A t \in Planned : at[t] \in {"ok", "bad"}
  /\ Move(Root, "collecting")
  /\ next' = 1
  /\ controllers' = controllers \ {Of(1)}
  /\ UNCHANGED <<row, aborted, cancelling, faults, flow, plan>>

Outcome(t) == IF at[t] = "ok" THEN "completed" ELSE "failed"

\* Mutant of Collected: the controllers of the later subtasks are not removed.
CollectedKeepsControllers ==
  /\ at[Root] = "collecting"
  /\ \/ /\ Write(Of(next), Outcome(Of(next)))
        /\ next' = next + 1
        /\ Move(Root, IF next < plan THEN "collecting" ELSE "merging")
     \/ Fault /\ Move(Root, "threw") /\ UNCHANGED next
  /\ UNCHANGED <<controllers, aborted, cancelling, flow, plan>>

\* One result is stored; the next subtask's controller goes before its write.
Collected ==
  /\ at[Root] = "collecting"
  /\ \/ /\ Write(Of(next), Outcome(Of(next)))
        /\ next' = next + 1
        /\ IF next < plan
           THEN controllers' = controllers \ {Of(next + 1)} /\ UNCHANGED at
           ELSE Move(Root, "merging") /\ UNCHANGED controllers
        /\ UNCHANGED plan
     \/ Fault /\ Throw
  /\ UNCHANGED <<aborted, cancelling, flow>>

\* Mutant of Overall: one failure is enough to fail the parent.
OverallAnyFailure ==
  IF \E t \in Planned : at[t] = "bad" THEN "failed" ELSE "completed"

\* failedCount = 0 is looked at first: an empty batch is completed.
Overall ==
  IF plan # 0 /\ \A t \in Planned : at[t] = "bad" THEN "failed" ELSE "completed"

\* runCoordinated would write the same result once more.
Merged ==
  /\ at[Root] = "merging"
  /\ \/ /\ Write(Root, Overall)
        /\ Move(Root, IF flow = "direct" THEN "returned" ELSE "closing")
     \/ Fault /\ Move(Root, "threw")
  /\ UNCHANGED <<controllers, aborted, cancelling, orVars>>

-----------------------------------------------------------------------------
FlowStep ==
  /\ \/ RootRecorded \/ PlanParsed \/ Closed
     \/ ParentRecorded \/ SubRecorded \/ AllSettled \/ Collected \/ Merged
  /\ UNCHANGED asking

CoordStep == SingleStep(Coord) /\ UNCHANGED <<orVars, asking>>

Next ==
  \/ (Coordinate \/ Parallel) /\ UNCHANGED asking
  \/ FlowStep
  \/ \E t \in SubIds : SubMarked(t) \/ SubSettles(t) \/ SubAsks(t) \/ SubAnswered(t)
  \/ CoordStep
  \/ Cancellation /\ UNCHANGED <<orVars, asking>>

Spec == Init /\ [][Next]_allVars

\* Queries come back, and so does the coordinator, which has a turn limit and no
\* ask_user.  A subtask owes its end to a turn limit or to a signal it looks at:
\* general agents and unknown types have no limit, and nobody has to answer.
Fairness ==
  /\ WF_allVars(FlowStep)
  /\ WF_allVars(CoordStep)
  /\ \A t \in SubIds :
       /\ WF_allVars(SubMarked(t))
       /\ WF_allVars((t \in Limited \/ Sees(t)) /\ SubSettles(t))

FairSpec == Spec /\ Fairness

-----------------------------------------------------------------------------
(* Properties.                                                             *)

FlowTypeOK ==
  /\ row \in [Rows -> {"none"} \cup StatusCheck]
  /\ controllers \subseteq Rows
  /\ cancelling \subseteq aborted
  /\ aborted \subseteq Rows
  /\ at \in [Rows -> Places \cup FlowPlaces]
  /\ faults \in 0 .. MaxFaults
  /\ flow \in {"none", "direct", "coordinated"}
  /\ plan \in 0 .. Len(Subs)
  /\ next \in 0 .. Len(Subs) + 1

TypeOK == FlowTypeOK /\ asking \in [SubIds -> {"no", "waiting", "answered"}]

\* The rows agree with each other when a batch has returned: every subtask is
\* final and the parent failed exactly if there were subtasks and all of them
\* failed, however cancellations and failed queries were mixed in
\* (orchestrator.ts:230-277).
ParentSummarisesSubs ==
  flow = "direct" /\ at[Root] = "returned" =>
    /\ \A t \in Planned : row[t] \in {"completed", "failed"}
    /\ row[Root] = "failed" <=>
         plan # 0 /\ \A t \in Planned : row[t] = "failed"

\* A batch that has returned left no controller behind, so none of its subtasks
\* can be cancelled any more.  One that throws leaves some only when storing a
\* result failed, and only those of the subtasks after that one
\* (orchestrator.ts:203-209, 236-261).
BatchLeavesNoController ==
  /\ at[Root] = "returned" => controllers \cap (SubIds \cup {Coord}) = {}
  /\ at[Root] = "threw" =>
       controllers \cap SubIds \subseteq {Of(i) : i \in next + 1 .. plan}

\* A subtask nobody makes end: it waits for an answer, or it has neither a turn
\* limit nor been cancelled.
Hangs(t) == at[t] = "agent" /\ (asking[t] = "waiting" \/ (t \notin Limited /\ ~Sees(t)))

\* A workflow that has been called comes to an end, whatever fails, unless one of
\* its subtasks hangs for ever: an answer, or the cancellation of a subtask that
\* asks nothing, is enough (orchestrator.ts:215-228).
WorkflowEnds ==
  \/ flow # "none" ~> at[Root] \in {"returned", "threw"}
  \/ \E t \in SubIds : <>[]Hangs(t)

\* runCoordinated: "identified subtasks are dispatched" and "results are
\* synthesized" (orchestrator.ts:295-299): with a healthy database a plan does
\* not make the workflow throw.
PlanIsDispatched ==
  flow = "coordinated" /\ faults = MaxFaults => at[Root] # "threw"
===============================================================================
