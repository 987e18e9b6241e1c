---------------------------- MODULE WorkflowEngine ----------------------------
(***************************************************************************)
(* WorkflowEngine.execute of services/agent/workflow-engine.ts: a team of  *)
(* agents run one after the other, by their dependencies, in a council or  *)
(* side by side; with its two callers, POST /agent-teams/:id/execute       *)
(* (server/routes/agent-teams.ts) and the tool workflow_run.               *)
(*                                                                         *)
(* The agents are the positions of input.agents; ids are assumed unique.   *)
(* Of an output it only matters whether it holds the text the conditions   *)
(* look for.  cancel() is left out: nothing in src/ calls it.              *)
(***************************************************************************)
EXTENDS BoundedPool

CONSTANTS
  NumAgents,      \* input.agents.length
  MaxConcurrent,  \* MAX_CONCURRENT_AGENTS
  Inputs,         \* the inputs considered
  MaxFaults       \* bound: queries on agent_tasks that fail

Agents  == 1 .. NumAgents
Unknown == 0             \* an id no agent of the team has
Modes   == {"single", "pipeline", "graph", "council", "parallel", "other"}

\* condition: output_contains or output_not_contains, on another agent's output.
NoCondition == [node |-> Unknown, contains |-> FALSE, given |-> FALSE]
Conditions  == {NoCondition} \cup
  [node : Agents \cup {Unknown}, contains : BOOLEAN, given : {TRUE}]

ASSUME WEAssumption ==
  /\ NumAgents \in Nat \ {0}
  /\ MaxConcurrent \in Nat \ {0}
  /\ MaxFaults \in Nat
  /\ Inputs \subseteq
       [mode        : Modes,
        dependsOn   : [Agents -> SUBSET (Agents \cup {Unknown})],
        condition   : [Agents -> Conditions],
        crossReview : BOOLEAN]

VARIABLES
  input,      \* this.input
  caller,     \* who called: "none", "route" or "tool"
  place,      \* where execute and its caller are parked
  round,      \* round of a council
  cursor,     \* graph mode: the agent the pass over stateMap has reached
  progress,   \* graph mode: some agent was decided in this pass
  ready,      \* graph mode: readyNodes
  todo,       \* parallelLimit: the tasks not claimed yet
  inflight,   \* the tasks that run
  settled,    \* what the tasks of this call of parallelLimit came to
  result,     \* agentResults; in graph mode, the results in stateMap
  status,     \* computeOverallStatus, "none" before
  announced,  \* workflow_complete events
  row,        \* agent_tasks.status of this workflow, "none": no row
  faults      \* queries that may still fail

poolVars  == <<todo, inflight, settled>>
scanVars  == <<cursor, progress, ready>>
rowVars   == <<row, faults>>
vars == <<input, caller, place, round, scanVars, poolVars, result, status,
          announced, rowVars>>

\* A completed run's output holds the text or not; the others have none.
Outcomes     == {"hit", "miss", "failed"}
Results      == Outcomes \cup {"none", "skipped"}
Completed(r) == r \in {"hit", "miss"}

NoResults == [a \in Agents |-> "none"]

Places == {"idle", "recording", "refused", "loading", "scan", "batch",
           "closing", "persisting", "storing", "rejected", "ended"}

\* A saved team has one of four modes, and its members get fresh ids whenever
\* they are stored, so what they depend on is never the id of a member.
Saved(in) ==
  /\ in.mode \notin {"single", "other"}
  /\ \A a \in Agents : in.dependsOn[a] \subseteq {Unknown}

Init ==
  /\ input \in Inputs
  /\ caller = "none"
  /\ place = "idle"
  /\ round = 1
  /\ cursor = 1 /\ progress = FALSE /\ ready = {}
  /\ todo = {} /\ inflight = {} /\ settled = NoResults
  /\ result = NoResults
  /\ status = "none"
  /\ announced = 0
  /\ row = "none" /\ faults = MaxFaults

-----------------------------------------------------------------------------
(* The callers.                                                            *)

Post ==
  /\ place = "idle" /\ Saved(input)
  /\ caller' = "route"
  /\ place' = "recording"
  /\ UNCHANGED <<input, round, scanVars, poolVars, result, status, announced,
                 rowVars>>

Recorded ==
  /\ place = "recording"
  /\ \/ row' = "pending" /\ place' = "loading" /\ UNCHANGED faults
     \/ faults > 0 /\ faults' = faults - 1 /\ place' = "refused" /\ UNCHANGED row
  /\ UNCHANGED <<input, caller, round, scanVars, poolVars, result, status,
                 announced>>

\* workflow_run makes no row in agent_tasks.
RunTool ==
  /\ place = "idle"
  /\ caller' = "tool"
  /\ place' = "loading"
  /\ UNCHANGED <<input, round, scanVars, poolVars, result, status, announced,
                 rowVars>>

-----------------------------------------------------------------------------
(* parallelLimit, with runAgent as its task.                               *)

\* The workers claim the first tasks; S is not empty.
Launch(S) ==
  /\ place' = "batch"
  /\ \E first \in SUBSET S :
       /\ Claims(first, S, MaxConcurrent)
       /\ inflight' = first
       /\ todo' = S \ first
  /\ settled' = NoResults

\* Round 2 of a council: who has something to review.
Reviews(a) ==
  /\ Completed(result[a])
  /\ \E b \in Agents \ {a} : Completed(result[b])

\* A task without a review is the result of round 1, carried forward.
OutcomesOf(a) ==
  IF round = 2 /\ ~Reviews(a) THEN {result[a]} ELSE Outcomes

\* Mutant of RunNext: a worker stops after its first task.
RunNextNever(a) == inflight' = inflight \ {a} /\ UNCHANGED todo

\* Mutant of RunNext: the index is used, but not incremented.
RunNextAgain(a) ==
  \/ todo = {} /\ inflight' = inflight \ {a} /\ UNCHANGED todo
  \/ \E b \in todo :
       /\ FirstOf(b, todo)
       /\ inflight' = (inflight \ {a}) \cup {b}
       /\ UNCHANGED todo

\* The worker that ran a ends, or claims the next task.
RunNext(a) ==
  \/ todo = {} /\ inflight' = inflight \ {a} /\ UNCHANGED todo
  \/ \E b \in todo :
       /\ FirstOf(b, todo)
       /\ inflight' = (inflight \ {a}) \cup {b}
       /\ todo' = todo \ {b}

\* runAgent never throws: an exception of the runner becomes a failed result, a
\* run aborted by its five minutes returns like one that is done.
AgentEnds(a) ==
  /\ a \in inflight
  /\ \E outcome \in OutcomesOf(a) : settled' = [settled EXCEPT ![a] = outcome]
  /\ RunNext(a)
  /\ UNCHANGED <<input, caller, place, round, scanVars, result, status,
                 announced, rowVars>>

\* Promise.all(workers).
Settled == place = "batch" /\ inflight = {} /\ todo = {}

Close == place' = "closing" /\ UNCHANGED poolVars

-----------------------------------------------------------------------------
(* execute: the settings are loaded, workflow_start is emitted and the mode *)
(* decides.                                                                 *)

AllAtOnce ==
  /\ input.mode \in {"council", "parallel"}
  /\ Launch(Agents)
  /\ UNCHANGED result

\* single runs input.agents[0] only, a pipeline starts with it.
FirstAgent ==
  /\ input.mode \in {"single", "pipeline"}
  /\ Launch({1})
  /\ UNCHANGED result

\* detectCycles: agents that depend on each other in a circle, or on themselves.
Cyclic ==
  \E S \in SUBSET Agents :
    S # {} /\ \A a \in S : input.dependsOn[a] \cap S # {}

Invalid == \E a \in Agents : Unknown \in input.dependsOn[a]

Scan ==
  /\ input.mode = "graph" /\ ~Cyclic /\ ~Invalid
  /\ place' = "scan"
  /\ UNCHANGED <<poolVars, result>>

\* executeGraph throws, and so does execute: workflow_start is its last event.
Reject ==
  /\ input.mode = "graph" /\ (Cyclic \/ Invalid)
  /\ place' = "rejected"
  /\ UNCHANGED <<poolVars, result>>

\* skipAllAgents.
UnknownMode ==
  /\ input.mode = "other"
  /\ result' = [a \in Agents |-> "skipped"]
  /\ Close

Loaded ==
  /\ place = "loading"
  /\ AllAtOnce \/ FirstAgent \/ Scan \/ Reject \/ UnknownMode
  /\ UNCHANGED <<input, caller, round, scanVars, status, announced, rowVars>>

-----------------------------------------------------------------------------
(* Single, parallel and council: the results are those of the last round.  *)

RoundSettled ==
  /\ Settled
  /\ input.mode \in {"single", "parallel", "council"}
  /\ result' = settled
  /\ IF input.mode = "council" /\ input.crossReview /\ round = 1
     THEN round' = 2 /\ Launch(Agents)
     ELSE Close /\ UNCHANGED round
  /\ UNCHANGED <<input, caller, scanVars, status, announced, rowVars>>

-----------------------------------------------------------------------------
(* Pipeline.                                                               *)

\* a is the agent whose turn it was.  A failure ends the pipeline: skipRemaining
\* gives the other agents a result.
StageSettled(a) ==
  /\ Settled
  /\ input.mode = "pipeline" /\ settled[a] # "none"
  /\ IF Completed(settled[a])
     THEN /\ result' = [result EXCEPT ![a] = settled[a]]
          /\ IF a < NumAgents THEN Launch({a + 1}) ELSE Close
     ELSE /\ result' = [b \in Agents |-> IF b < a THEN result[b]
                                    ELSE IF b = a THEN settled[b]
                                    ELSE "skipped"]
          /\ Close
  /\ UNCHANGED <<input, caller, round, scanVars, status, announced, rowVars>>

-----------------------------------------------------------------------------
(* Graph: passes over stateMap.  Between two waves no agent runs, so nothing *)
(* happens between two steps of a pass.                                      *)

Done(a) == a \in Agents /\ result[a] # "none"

\* evaluateCondition; a node that has no result yet fails it.
Holds(c) ==
  c.given => Done(c.node) /\ (result[c.node] = "hit" <=> c.contains)

Visit(a) == place = "scan" /\ cursor = a /\ a \in Agents

Skip(a) ==
  /\ result' = [result EXCEPT ![a] = "skipped"]
  /\ progress' = TRUE
  /\ UNCHANGED ready

\* The agent is not pending, or waits for a dependency: the pass goes on.
Undecided(a) ==
  Done(a) \/ \E d \in input.dependsOn[a] : ~Done(d)

\* Mutant of Spoilt: a dependency that was skipped does not count.
SpoiltByFailure(a) == \E d \in input.dependsOn[a] : result[d] = "failed"

Spoilt(a) == \E d \in input.dependsOn[a] : ~Completed(result[d])

VisitNode(a) ==
  /\ Visit(a)
  /\ cursor' = a + 1
  /\ \/ Undecided(a) /\ UNCHANGED <<result, progress, ready>>
     \/ ~Undecided(a) /\ ~Holds(input.condition[a]) /\ Skip(a)
     \/ ~Undecided(a) /\ Holds(input.condition[a]) /\ Spoilt(a) /\ Skip(a)
     \/ /\ ~Undecided(a) /\ Holds(input.condition[a]) /\ ~Spoilt(a)
        /\ ready' = ready \cup {a}
        /\ UNCHANGED <<result, progress>>
  /\ UNCHANGED <<input, caller, place, round, poolVars, status, announced,
                 rowVars>>

Restart == cursor' = 1 /\ progress' = FALSE /\ ready' = {}

PassEnds == place = "scan" /\ cursor = NumAgents + 1

\* Mutant of NothingReady: a pass that only skipped agents is the last one.
NothingReadyStops ==
  /\ PassEnds /\ ready = {}
  /\ Close
  /\ Restart
  /\ UNCHANGED <<input, caller, round, result, status, announced, rowVars>>

\* Without progress the loop is over, with progress there is another pass.
NothingReady ==
  /\ PassEnds /\ ready = {}
  /\ IF progress THEN UNCHANGED <<place, poolVars>> ELSE Close
  /\ Restart
  /\ UNCHANGED <<input, caller, round, result, status, announced, rowVars>>

Wave ==
  /\ PassEnds /\ ready # {}
  /\ Launch(ready)
  /\ Restart
  /\ UNCHANGED <<input, caller, round, result, status, announced, rowVars>>

WaveSettled ==
  /\ Settled
  /\ input.mode = "graph"
  /\ result' = [a \in Agents |->
                  IF settled[a] # "none" THEN settled[a] ELSE result[a]]
  /\ settled' = NoResults
  /\ place' = "scan"
  /\ UNCHANGED <<input, caller, round, scanVars, todo, inflight, status,
                 announced, rowVars>>

-----------------------------------------------------------------------------
(* The end of execute and of its callers.                                  *)

\* single gives one result, whatever the number of agents.
Given == {a \in Agents : result[a] # "none"}

\* Mutant of Overall: any completed agent completes the workflow.
OverallOptimistic ==
  IF \E a \in Given : Completed(result[a]) THEN "completed" ELSE "failed"

Overall ==
  IF Given = {} THEN "failed"
  ELSE IF \A a \in Given : result[a] # "failed" THEN "completed"
  ELSE IF \A a \in Given : ~Completed(result[a]) THEN "failed"
  ELSE "partial"

Closed ==
  /\ place = "closing"
  /\ status' = Overall
  /\ announced' = announced + 1
  /\ place' = "persisting"
  /\ UNCHANGED <<input, caller, round, scanVars, poolVars, result, rowVars>>

\* updateStatus changes no row when there is none; a failing write is swallowed.
Persist(s) ==
  \/ row' = (IF row = "none" THEN row ELSE s) /\ UNCHANGED faults
  \/ faults > 0 /\ faults' = faults - 1 /\ UNCHANGED row

RowStatus == IF status = "completed" THEN "completed" ELSE "failed"

Persisted ==
  /\ place = "persisting"
  /\ Persist(RowStatus)
  /\ place' = IF caller = "route" THEN "storing" ELSE "ended"
  /\ UNCHANGED <<input, caller, round, scanVars, poolVars, result, status,
                 announced>>

\* The route writes the same status once more.
Stored ==
  /\ place = "storing"
  /\ Persist(RowStatus)
  /\ place' = "ended"
  /\ UNCHANGED <<input, caller, round, scanVars, poolVars, result, status,
                 announced>>

\* Mutant of Caught: the clients are not told.
CaughtSilently ==
  /\ place = "rejected" /\ caller = "route"
  /\ Persist("failed")
  /\ place' = "ended"
  /\ UNCHANGED <<input, caller, round, scanVars, poolVars, result, status,
                 announced>>

\* The route's catch; workflow_run lets its caller have the exception.
Caught ==
  /\ place = "rejected" /\ caller = "route"
  /\ Persist("failed")
  /\ announced' = announced + 1
  /\ place' = "ended"
  /\ UNCHANGED <<input, caller, round, scanVars, poolVars, result, status>>

-----------------------------------------------------------------------------
EngineStep ==
  \/ Recorded \/ Loaded
  \/ RoundSettled \/ WaveSettled
  \/ \E a \in Agents : StageSettled(a) \/ VisitNode(a)
  \/ NothingReady \/ Wave
  \/ Closed \/ Persisted \/ Stored \/ Caught

Next ==
  \/ Post \/ RunTool
  \/ EngineStep
  \/ \E a \in Agents : AgentEnds(a)

Spec == Init /\ [][Next]_vars

\* Queries come back, and an agent's run ends: five minutes after its start its
\* signal is fired.
Fairness ==
  /\ WF_vars(EngineStep)
  /\ \A a \in Agents : WF_vars(AgentEnds(a))

FairSpec == Spec /\ Fairness
-----------------------------------------------------------------------------
(* Properties.                                                             *)

TypeOK ==
  /\ input \in Inputs
  /\ caller \in {"none", "route", "tool"}
  /\ place \in Places
  /\ round \in {1, 2}
  /\ cursor \in 1 .. NumAgents + 1
  /\ progress \in BOOLEAN
  /\ ready \subseteq Agents
  /\ todo \subseteq Agents
  /\ inflight \subseteq Agents
  /\ todo \cap inflight = {}
  /\ settled \in [Agents -> Results]
  /\ result \in [Agents -> Results]
  /\ status \in {"none", "completed", "failed", "partial"}
  /\ announced \in {0, 1}
  /\ row \in {"none", "pending", "completed", "failed"}
  /\ faults \in 0 .. MaxFaults

\* While a batch runs there are never more agents than the limit, and never fewer
\* while one waits, in whatever order they end (workflow-engine.ts:33-57).
PoolBusy == place = "batch" => Busy(todo, inflight, MaxConcurrent)

\* The loop over the graph is over; a rejected graph has no status.
GraphOver ==
  input.mode = "graph" /\ (place = "closing" \/ status # "none")

\* What graph mode must come to, read off the results alone: every agent has one,
\* and an agent was skipped exactly if something it depends on did not complete
\* or its condition does not hold.  A condition on an agent it does not depend on
\* may be looked at before that one has run (workflow-engine.ts:459-552).
GraphOutcome ==
  GraphOver => \A a \in Agents :
    LET c == input.condition[a] IN
    /\ result[a] # "none"
    /\ Spoilt(a) \/ ~Holds(c) => result[a] = "skipped"
    /\ result[a] = "skipped" =>
         \/ Spoilt(a) \/ ~Holds(c)
         \/ c.given /\ c.node \notin input.dependsOn[a]

\* One failing query does not keep a workflow's row from ending as its results
\* say: the row is written twice (workflow-engine.ts:337-344,
\* agent-teams.ts:175-184).
RowReportsResults ==
  place = "ended" /\ caller = "route" /\ status # "none" /\ MaxFaults - faults < 2
    => IF \A a \in Agents : result[a] # "failed"
       THEN row = "completed" ELSE row = "failed"

\* A workflow ends, and its end is announced exactly once; only workflow_run on
\* an invalid graph ends with an exception and without an announcement.
WorkflowEnds ==
  caller # "none" ~>
    \/ place = "refused"
    \/ place = "rejected" /\ caller = "tool"
    \/ place = "ended" /\ announced = 1

-----------------------------------------------------------------------------
(* Pipelines, parallel teams, councils of one round and graphs run agents by *)
(* their dependencies.                                                       *)

Needs ==
  [a \in Agents |->
     IF input.mode = "graph" THEN input.dependsOn[a] \cap Agents
     ELSE IF input.mode = "pipeline" THEN {b \in Agents : b = a - 1}
     ELSE {}]

Optional ==
  {a \in Agents : \/ input.mode = "other"
                  \/ input.mode = "graph" /\ input.condition[a].given}

StateOf(a) ==
  LET r == IF settled[a] # "none" THEN settled[a] ELSE result[a] IN
  IF input.mode = "council" /\ input.crossReview THEN "waiting"
  ELSE IF a \in inflight THEN "running"
  ELSE IF r = "none" THEN "waiting"
  ELSE IF Completed(r) THEN "completed" ELSE r

Graph == INSTANCE DependencyGraph WITH
  Nodes <- Agents, needs <- Needs, optional <- Optional,
  state <- [a \in Agents |-> StateOf(a)]

\* No agent starts before everything it depends on has completed, or twice, and
\* none is given up without a reason (workflow-engine.ts:382-567, 712-739).
RunsByDependencies == Graph!Spec
===============================================================================
