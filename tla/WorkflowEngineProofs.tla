------------------------- MODULE WorkflowEngineProofs -------------------------
(***************************************************************************)
(* What holds of a workflow for any number of agents, any limit and any    *)
(* dependencies and conditions.                                            *)
(***************************************************************************)
EXTENDS WorkflowEngine, FiniteSetTheorems, TLAPS

-----------------------------------------------------------------------------
(* The pool.                                                               *)

LEMMA Limits ==
  NumAgents \in Nat \ {0} /\ MaxConcurrent \in Nat \ {0} /\ MaxFaults \in Nat
BY WEAssumption

LEMMA AgentsFinite == IsFiniteSet(Agents)
BY Limits, FS_Interval DEF Agents

\* The workers that are launched fill the pool.
LEMMA LaunchFacts ==
  ASSUME NEW S \in SUBSET Agents, Launch(S)
  PROVE  /\ place' = "batch" /\ settled' = NoResults
         /\ todo' \subseteq Agents /\ inflight' \subseteq Agents
         /\ todo' \cap inflight' = {} /\ todo' \cup inflight' = S
         /\ Busy(todo', inflight', MaxConcurrent)
<1>1. PICK first \in SUBSET S :
        /\ Claims(first, S, MaxConcurrent)
        /\ inflight' = first /\ todo' = S \ first
  BY DEF Launch
<1>2. IsFiniteSet(S)
  BY AgentsFinite, FS_Subset
<1>3. /\ Cardinality(S) \in Nat /\ Cardinality(first) \in Nat
      /\ Cardinality(first) <= Cardinality(S)
      /\ Cardinality(first) = Cardinality(S) => first = S
  BY <1>2, FS_Subset, FS_CardinalityType
<1>4. Cardinality(first) = Least(MaxConcurrent, Cardinality(S))
  BY <1>1 DEF Claims
<1>5. /\ Cardinality(first) <= MaxConcurrent
      /\ Cardinality(first) # MaxConcurrent => Cardinality(first) = Cardinality(S)
  BY <1>3, <1>4, Limits DEF Least
<1>6. Busy(todo', inflight', MaxConcurrent)
  BY <1>1, <1>3, <1>5 DEF Busy
<1>7. place' = "batch" /\ settled' = NoResults
  BY DEF Launch
<1> QED BY <1>1, <1>6, <1>7

\* When a worker claims the next task the pool stays full.
LEMMA RunNextFacts ==
  ASSUME todo \subseteq Agents, inflight \subseteq Agents, todo \cap inflight = {},
         Busy(todo, inflight, MaxConcurrent),
         NEW a \in inflight, RunNext(a)
  PROVE  /\ todo' \cap inflight' = {}
         /\ todo' \cup inflight' = (todo \cup inflight) \ {a}
         /\ Busy(todo', inflight', MaxConcurrent)
<1>1. /\ IsFiniteSet(inflight) /\ IsFiniteSet(inflight \ {a})
      /\ Cardinality(inflight \ {a}) = Cardinality(inflight) - 1
      /\ Cardinality(inflight) \in Nat
  <2>1. IsFiniteSet(inflight)
    BY AgentsFinite, FS_Subset
  <2> QED BY <2>1, FS_RemoveElement, FS_CardinalityType
<1>2. CASE todo = {} /\ inflight' = inflight \ {a} /\ todo' = todo
  BY <1>1, <1>2, Limits DEF Busy
<1>3. ASSUME NEW b \in todo, inflight' = (inflight \ {a}) \cup {b},
             todo' = todo \ {b}
      PROVE  /\ todo' \cap inflight' = {}
             /\ todo' \cup inflight' = (todo \cup inflight) \ {a}
             /\ Busy(todo', inflight', MaxConcurrent)
  <2>1. Cardinality(inflight') = Cardinality(inflight)
    <3>1. b \notin inflight \ {a}
      OBVIOUS
    <3>2. Cardinality((inflight \ {a}) \cup {b}) = Cardinality(inflight \ {a}) + 1
      BY <1>1, <3>1, FS_AddElement
    <3> QED BY <1>1, <1>3, <3>2
  <2>2. todo # {}
    OBVIOUS
  <2> QED BY <1>3, <2>1, <2>2 DEF Busy
<1> QED BY <1>2, <1>3 DEF RunNext

-----------------------------------------------------------------------------
(* Types, the pool, and what is known at each place.                       *)

Early == {"idle", "recording", "refused", "loading", "rejected"}
Late  == {"persisting", "storing", "ended"}

PlaceInv ==
  /\ place # "batch" => todo = {} /\ inflight = {}
  /\ \A a \in todo \cup inflight : settled[a] = "none"
  /\ place \in Early => result = NoResults /\ settled = NoResults /\ round = 1
  /\ place = "scan" => settled = NoResults
  /\ place \notin Late => status = "none" /\ announced = 0
  /\ place \in {"persisting", "storing"} => status # "none"

PInv == TypeOK /\ PoolBusy /\ PlaceInv

LEMMA PInvInit == Init => PInv
<1> SUFFICES ASSUME Init PROVE PInv
  OBVIOUS
<1>1. 1 \in 1 .. NumAgents + 1 /\ MaxFaults \in 0 .. MaxFaults
  BY Limits
<1>2. NoResults \in [Agents -> Results]
  BY DEF NoResults, Results
<1>3. TypeOK
  BY <1>1, <1>2 DEF Init, TypeOK, Places
<1>4. PoolBusy /\ PlaceInv
  BY DEF Init, PoolBusy, PlaceInv, Early, Late
<1> QED BY <1>3, <1>4 DEF PInv

LEMMA PInvNext == PInv /\ [Next]_vars => PInv'
<1> SUFFICES ASSUME PInv, [Next]_vars PROVE PInv'
  OBVIOUS
<1> USE Limits DEF Places, Early, Late
<1>0. CASE UNCHANGED vars
  BY <1>0 DEF vars, scanVars, poolVars, rowVars, PInv, TypeOK, PoolBusy, PlaceInv
<1>1. CASE Post \/ Recorded \/ RunTool
  <2>1. UNCHANGED <<input, round, scanVars, poolVars, result, status, announced>>
    BY <1>1 DEF Post, Recorded, RunTool, rowVars
  <2>2. TypeOK'
    BY <1>1, <2>1 DEF Post, Recorded, RunTool, scanVars, poolVars, rowVars, PInv,
       TypeOK
  <2>3. place \in Early /\ place' \in Early
    BY <1>1 DEF Post, Recorded, RunTool
  <2> QED BY <2>1, <2>2, <2>3 DEF scanVars, poolVars, PInv, PoolBusy, PlaceInv
<1>2. CASE Loaded
  <2>1. CASE AllAtOnce \/ FirstAgent
    <3>1. PICK S \in SUBSET Agents : Launch(S)
      BY <2>1, Limits DEF AllAtOnce, FirstAgent, Agents
    <3> QED BY <1>2, <2>1, <3>1, LaunchFacts DEF Loaded, AllAtOnce, FirstAgent,
          scanVars, rowVars, PInv, TypeOK, PoolBusy, PlaceInv, NoResults, Results, Outcomes
  <2>2. CASE Scan \/ Reject
    BY <1>2, <2>2 DEF Loaded, Scan, Reject, scanVars, poolVars, rowVars, PInv,
       TypeOK, PoolBusy, PlaceInv
  <2>3. CASE UnknownMode
    BY <1>2, <2>3 DEF Loaded, UnknownMode, Close, scanVars, poolVars, rowVars,
       PInv, TypeOK, PoolBusy, PlaceInv, Results
  <2> QED BY <1>2, <2>1, <2>2, <2>3 DEF Loaded
<1>3. CASE RoundSettled
  <2>1. CASE Launch(Agents) /\ round' = 2
    BY <1>3, <2>1, LaunchFacts DEF RoundSettled, Settled, scanVars, rowVars, PInv,
       TypeOK, PoolBusy, PlaceInv, NoResults, Results, Outcomes
  <2>2. CASE Close /\ UNCHANGED round
    BY <1>3, <2>2 DEF RoundSettled, Settled, Close, scanVars, poolVars, rowVars,
       PInv, TypeOK, PoolBusy, PlaceInv
  <2> QED BY <1>3, <2>1, <2>2 DEF RoundSettled
<1>4. ASSUME NEW a \in Agents, StageSettled(a) PROVE PInv'
  <2>1. result' \in [Agents -> Results]
    BY <1>4 DEF StageSettled, PInv, TypeOK, Results
  <2>2. CASE a < NumAgents /\ Launch({a + 1})
    <3>1. {a + 1} \in SUBSET Agents
      BY <2>2 DEF Agents
    <3> QED BY <1>4, <2>1, <2>2, <3>1, LaunchFacts DEF StageSettled, Settled,
          scanVars, rowVars, PInv, TypeOK, PoolBusy, PlaceInv, NoResults, Results,
          Outcomes
  <2>3. CASE Close
    BY <1>4, <2>1, <2>3 DEF StageSettled, Settled, Close, scanVars, poolVars,
       rowVars, PInv, TypeOK, PoolBusy, PlaceInv
  <2> QED BY <1>4, <2>2, <2>3 DEF StageSettled
<1>5. CASE WaveSettled
  BY <1>5 DEF WaveSettled, Settled, scanVars, rowVars, PInv, TypeOK, PoolBusy,
     PlaceInv, NoResults, Results
<1>6. ASSUME NEW a \in Agents, VisitNode(a) PROVE PInv'
  <2>1. UNCHANGED <<input, caller, place, round, poolVars, status, announced, rowVars>>
        /\ place = "scan" /\ cursor' = a + 1
    BY <1>6 DEF VisitNode, Visit
  <2>2. /\ result' \in [Agents -> Results] /\ progress' \in BOOLEAN
        /\ ready' \subseteq Agents
    BY <1>6 DEF VisitNode, Skip, PInv, TypeOK, Results
  <2>3. cursor' \in 1 .. NumAgents + 1
    BY <2>1 DEF Agents
  <2> QED BY <2>1, <2>2, <2>3 DEF poolVars, rowVars, PInv, TypeOK, PoolBusy, PlaceInv
<1>7. CASE NothingReady
  <2>1. /\ UNCHANGED <<input, caller, round, poolVars, result, status, announced, rowVars>>
        /\ place = "scan" /\ place' \in {"scan", "closing"}
        /\ cursor' = 1 /\ progress' = FALSE /\ ready' = {}
    BY <1>7 DEF NothingReady, PassEnds, Close, Restart
  <2>2. cursor' \in 1 .. NumAgents + 1
    <3>1. 1 \in 1 .. NumAgents + 1
      OBVIOUS
    <3> QED BY <2>1, <3>1
  <2>3. progress' \in BOOLEAN /\ place' \in Places
    BY <2>1
  <2>4. TypeOK'
    BY <2>1, <2>2, <2>3 DEF poolVars, rowVars, PInv, TypeOK
  <2> QED BY <2>1, <2>4 DEF poolVars, PInv, PoolBusy, PlaceInv
<1>8. CASE Wave
  <2>1. /\ UNCHANGED <<input, caller, round, result, status, announced, rowVars>>
        /\ place = "scan" /\ Launch(ready)
        /\ cursor' = 1 /\ progress' = FALSE /\ ready' = {}
    BY <1>8 DEF Wave, PassEnds, Restart
  <2>2. ready \in SUBSET Agents /\ NoResults \in [Agents -> Results]
    BY DEF PInv, TypeOK, NoResults, Results
  <2>3. cursor' \in 1 .. NumAgents + 1
    <3>1. 1 \in 1 .. NumAgents + 1
      OBVIOUS
    <3> QED BY <2>1, <3>1
  <2>4. progress' \in BOOLEAN
    BY <2>1
  <2>5. TypeOK'
    BY <2>1, <2>2, <2>3, <2>4, LaunchFacts DEF rowVars, PInv, TypeOK
  <2> QED BY <2>1, <2>2, <2>5, LaunchFacts DEF PInv, PoolBusy, PlaceInv, NoResults
<1>9. CASE Closed
  BY <1>9 DEF Closed, Overall, scanVars, poolVars, rowVars, PInv, TypeOK, PoolBusy,
     PlaceInv
<1>10. CASE Persisted \/ Stored \/ Caught
  <2>1. /\ UNCHANGED <<input, caller, round, scanVars, poolVars, result, status>>
        /\ place' \in {"storing", "ended"} /\ place # "batch"
        /\ place' = "storing" => status # "none"
        /\ announced' \in {0, 1}
    BY <1>10 DEF Persisted, Stored, Caught, PInv, TypeOK, PlaceInv
  <2>2. /\ row' \in {"none", "pending", "completed", "failed"}
        /\ faults' \in 0 .. MaxFaults
    BY <1>10 DEF Persisted, Stored, Caught, Persist, RowStatus, PInv, TypeOK
  <2> QED BY <2>1, <2>2 DEF scanVars, poolVars, PInv, TypeOK, PoolBusy, PlaceInv
<1>11. ASSUME NEW a \in Agents, AgentEnds(a) PROVE PInv'
  <2>1. place = "batch" /\ a \in inflight /\ RunNext(a)
    BY <1>11 DEF AgentEnds, PInv, PlaceInv
  <2>2. /\ todo' \cap inflight' = {}
        /\ todo' \cup inflight' = (todo \cup inflight) \ {a}
        /\ Busy(todo', inflight', MaxConcurrent)
    BY <2>1, RunNextFacts DEF PInv, TypeOK, PoolBusy
  <2>3. PICK outcome \in OutcomesOf(a) : settled' = [settled EXCEPT ![a] = outcome]
    BY <1>11 DEF AgentEnds
  <2>4. outcome \in Results
    BY <2>3 DEF OutcomesOf, Outcomes, Results, PInv, TypeOK
  <2> QED BY <1>11, <2>1, <2>2, <2>3, <2>4 DEF AgentEnds, scanVars, rowVars, PInv, TypeOK,
        PoolBusy, PlaceInv
<1> QED BY <1>0, <1>1, <1>2, <1>3, <1>4, <1>5, <1>6, <1>7, <1>8, <1>9, <1>10, <1>11
        DEF Next, EngineStep

\* Every variable has its type in every workflow, and a task is never claimed
\* twice: the agents that run and those that wait are disjoint.
THEOREM TypeCorrect == Spec => []TypeOK
<1>1. PInv => TypeOK
  BY DEF PInv
<1> QED BY <1>1, PInvInit, PInvNext, PTL DEF Spec

\* The pool is full while an agent waits, for any number of agents and limit.
THEOREM PoolIsBusy == Spec => []PoolBusy
<1>1. PInv => PoolBusy
  BY DEF PInv
<1> QED BY <1>1, PInvInit, PInvNext, PTL DEF Spec

-----------------------------------------------------------------------------
(* The passes over the graph.                                              *)

\* What it takes to run a.
Runnable(a) ==
  /\ ~Done(a)
  /\ \A d \in input.dependsOn[a] : Done(d)
  /\ Holds(input.condition[a])
  /\ ~Spoilt(a)

\* The result of a is the one it should have.
Judged(a) ==
  /\ \A d \in input.dependsOn[a] : Done(d)
  /\ Spoilt(a) \/ ~Holds(input.condition[a]) => result[a] = "skipped"
  /\ result[a] = "skipped" =>
       \/ Spoilt(a) \/ ~Holds(input.condition[a])
       \/ /\ input.condition[a].given
          /\ input.condition[a].node \notin input.dependsOn[a]

InGraph ==
  input.mode = "graph" /\ (place \in {"scan", "batch", "closing"} \/ status # "none")

Batched(a) == a \in todo \cup inflight \/ settled[a] # "none"

GraphInv ==
  /\ place # "scan" => cursor = 1 /\ ready = {}
  /\ input.mode = "graph" => round = 1
  /\ InGraph => ~Cyclic /\ ~Invalid /\ \A a \in Agents : Done(a) => Judged(a)
  /\ InGraph /\ place = "scan" =>
       /\ \A a \in ready : a < cursor /\ Runnable(a)
       /\ ~progress /\ ready = {} => \A a \in Agents : a < cursor => Undecided(a)
  /\ InGraph /\ place = "batch" =>
       \A a \in Agents :
         Batched(a) => Runnable(a) /\ settled[a] \in Outcomes \cup {"none"}
  /\ GraphOver => \A a \in Agents : Done(a)

\* One agent's turn in a pipeline; the first round of the other modes.
PipelineInv ==
  input.mode = "pipeline" /\ place = "batch" =>
    \E k \in Agents :
      /\ \A a \in Agents : Batched(a) <=> a = k
      /\ \A a \in Agents : IF a < k THEN Completed(result[a]) ELSE result[a] = "none"

RoundInv ==
  /\ place = "scan" => input.mode = "graph"
  /\ round = 2 => input.mode = "council" /\ input.crossReview
  /\ input.mode \notin {"pipeline", "graph"} /\ place = "batch"
     /\ ~(input.mode = "council" /\ input.crossReview) => result = NoResults
  /\ round = 1 /\ place = "batch" =>
       \A a \in Agents : settled[a] \in Outcomes \cup {"none"}

EngineInv == PInv /\ GraphInv /\ PipelineInv /\ RoundInv

\* Results that are known do not change, and so a decision taken on them stands.
Grows ==
  /\ UNCHANGED input
  /\ \A b \in Agents : Done(b) => result'[b] = result[b]

LEMMA Stable ==
  ASSUME Grows, NEW a \in Agents, \A d \in input.dependsOn[a] : Done(d)
  PROVE  /\ (\A d \in input.dependsOn[a] : Done(d))'
         /\ Spoilt(a)' <=> Spoilt(a)
         /\ Holds(input.condition[a]) => Holds(input.condition[a])'
         /\ ~Holds(input.condition[a]) =>
              \/ ~Holds(input.condition[a])'
              \/ /\ input.condition[a].given
                 /\ input.condition[a].node \notin input.dependsOn[a]
<1> DEFINE c == input.condition[a]
<1>1. \A d : Done(d) => d \in Agents /\ Done(d)' /\ result'[d] = result[d]
  BY DEF Grows, Done
<1>2. (\A d \in input.dependsOn[a] : Done(d))'
  BY <1>1 DEF Grows
<1>3. Spoilt(a)' <=> Spoilt(a)
  BY <1>1 DEF Grows, Spoilt
<1>4. Holds(c) => Holds(c)'
  BY <1>1 DEF Grows, Holds
<1>5. ASSUME ~Holds(c), Holds(c)' PROVE c.given /\ c.node \notin input.dependsOn[a]
  <2>1. c' = c
    BY DEF Grows
  <2>2. c.given /\ ~Done(c.node)
    BY <1>1, <1>5, <2>1 DEF Holds
  <2> QED BY <2>2
<1> QED BY <1>2, <1>3, <1>4, <1>5

\* What is judged or runnable stays so while results are added.
LEMMA StillJudged ==
  ASSUME Grows, NEW a \in Agents, Done(a), Judged(a) PROVE Judged(a)'
<1>1. result'[a] = result[a]
  BY DEF Grows
<1>2. \A d \in input.dependsOn[a] : Done(d)
  BY DEF Judged
<1>3. UNCHANGED input
  BY DEF Grows
<1> QED BY <1>1, <1>2, <1>3, Stable DEF Judged

LEMMA StillRunnable ==
  ASSUME Grows, NEW a \in Agents, Runnable(a), ~Done(a)' PROVE Runnable(a)'
<1>1. \A d \in input.dependsOn[a] : Done(d)
  BY DEF Runnable
<1> QED BY <1>1, Stable DEF Runnable

\* A run agent has the result it should have, and so has one that is skipped.
LEMMA RunIsJudged ==
  ASSUME Grows, NEW a \in Agents, Runnable(a), result'[a] \in Outcomes
  PROVE  Judged(a)'
<1>1. \A d \in input.dependsOn[a] : Done(d)
  BY DEF Runnable
<1>2. result'[a] # "skipped"
  BY DEF Outcomes
<1> QED BY <1>1, <1>2, Stable DEF Runnable, Judged

LEMMA SkipIsJudged ==
  ASSUME Grows, NEW a \in Agents, ~Undecided(a),
         ~Holds(input.condition[a]) \/ Spoilt(a), result'[a] = "skipped"
  PROVE  Judged(a)'
<1>1. \A d \in input.dependsOn[a] : Done(d)
  BY DEF Undecided
<1>2. UNCHANGED input
  BY DEF Grows
<1> QED BY <1>1, <1>2, Stable DEF Judged

\* When a pass decides nothing, every agent has its result: the others would
\* depend on each other in a circle.
LEMMA NobodyLeft ==
  ASSUME ~Cyclic, ~Invalid, \A a \in Agents : Undecided(a),
         input.dependsOn \in [Agents -> SUBSET (Agents \cup {Unknown})]
  PROVE  \A a \in Agents : Done(a)
<1> DEFINE S == {a \in Agents : ~Done(a)}
<1> SUFFICES ASSUME S # {} PROVE FALSE
  OBVIOUS
<1>1. ASSUME NEW a \in S PROVE input.dependsOn[a] \cap S # {}
  <2>1. PICK d \in input.dependsOn[a] : ~Done(d)
    BY <1>1 DEF Undecided
  <2>2. d \in Agents
    BY <1>1, <2>1 DEF Invalid
  <2> QED BY <2>1, <2>2
<1> QED BY <1>1 DEF Cyclic

LEMMA InputTypes ==
  ASSUME TypeOK
  PROVE  /\ input.mode \in Modes /\ input.crossReview \in BOOLEAN
         /\ input.dependsOn \in [Agents -> SUBSET (Agents \cup {Unknown})]
         /\ input.condition \in [Agents -> Conditions]
BY WEAssumption DEF TypeOK

\* Nothing that GraphInv speaks of is disturbed.
LEMMA GraphInvKept ==
  ASSUME GraphInv, UNCHANGED <<input, round, scanVars, poolVars, result>>,
         (InGraph' => InGraph) /\ (GraphOver' => GraphOver),
         place' = "scan" <=> place = "scan", place' = "batch" <=> place = "batch"
  PROVE  GraphInv'
<1>1. \A a : Done(a)' <=> Done(a)
  BY DEF Done
<1>2. \A a \in Agents : Judged(a)' <=> Judged(a)
  BY <1>1 DEF Judged, Spoilt, Holds
<1>3. \A a : Runnable(a)' <=> Runnable(a)
  BY <1>1 DEF Runnable, Spoilt, Holds
<1>4. \A a : Undecided(a)' <=> Undecided(a)
  BY <1>1 DEF Undecided
<1>5. \A a : Batched(a)' <=> Batched(a)
  BY DEF Batched, poolVars
<1>6. (~Cyclic => ~Cyclic') /\ (~Invalid => ~Invalid')
  BY DEF Cyclic, Invalid
<1> QED BY <1>1, <1>2, <1>3, <1>4, <1>5, <1>6 DEF GraphInv, scanVars, poolVars

LEMMA EngineInvInit == Init => EngineInv
<1> SUFFICES ASSUME Init PROVE EngineInv
  OBVIOUS
<1>1. GraphInv
  BY DEF Init, GraphInv, InGraph, GraphOver
<1>2. PipelineInv /\ RoundInv
  BY DEF Init, PipelineInv, RoundInv
<1> QED BY <1>1, <1>2, PInvInit DEF EngineInv

\* The graph part.
LEMMA GraphInvNext == EngineInv /\ [Next]_vars => GraphInv'
<1> SUFFICES ASSUME EngineInv, [Next]_vars PROVE GraphInv'
  OBVIOUS
<1> USE DEF EngineInv, PInv
<1>0. CASE UNCHANGED vars
  <2>1. UNCHANGED <<input, round, scanVars, poolVars, result, place, status>>
    BY <1>0 DEF vars
  <2> QED BY <2>1, GraphInvKept DEF InGraph, GraphOver
<1>1. CASE Post \/ Recorded \/ RunTool
  <2>1. UNCHANGED <<input, round, scanVars, poolVars, result, status>>
        /\ place' \in Early /\ place \in Early
    BY <1>1 DEF Post, Recorded, RunTool, Early
  <2> QED BY <2>1, GraphInvKept DEF InGraph, GraphOver, Early
<1>2. CASE Loaded
  <2>1. /\ UNCHANGED <<input, round, scanVars, status>> /\ place = "loading"
        /\ status = "none" /\ result = NoResults
    BY <1>2 DEF Loaded, PlaceInv, Early, Late
  <2>2. CASE ~Scan
    <3>1. place' # "scan" /\ ~InGraph' /\ ~GraphOver'
      BY <1>2, <2>1, <2>2 DEF Loaded, AllAtOnce, FirstAgent, Scan, Reject, UnknownMode,
         Close, Launch, InGraph, GraphOver
    <3> QED BY <2>1, <3>1 DEF GraphInv, scanVars
  <2>3. CASE Scan
    <3>1. ~Cyclic' /\ ~Invalid'
      BY <2>1, <2>3 DEF Scan, Cyclic, Invalid
    <3>2. \A a \in Agents : ~Done(a)'
      BY <2>1, <2>3 DEF Scan, Done, NoResults
    <3>3. cursor' = 1 /\ ready' = {} /\ place' = "scan" /\ round' = round
      BY <2>1, <2>3 DEF GraphInv, scanVars, Scan
    <3>4. \A a \in Agents : ~(a < cursor')
      BY <3>3, Limits DEF Agents
    <3> QED BY <2>1, <3>1, <3>2, <3>3, <3>4 DEF GraphInv, GraphOver
  <2> QED BY <2>2, <2>3
<1>3. CASE RoundSettled \/ \E a \in Agents : StageSettled(a)
  <2>1. /\ UNCHANGED <<input, scanVars, status>> /\ place = "batch"
        /\ input.mode # "graph"
        /\ place' # "scan"
    BY <1>3 DEF RoundSettled, StageSettled, Settled, Launch, Close
  <2> QED BY <2>1 DEF GraphInv, InGraph, GraphOver, scanVars
<1>4. CASE WaveSettled
  <2>1. /\ UNCHANGED <<input, round, scanVars, status>> /\ place = "batch"
        /\ place' = "scan" /\ input.mode = "graph" /\ settled' = NoResults
        /\ inflight = {} /\ todo = {}
        /\ result' = [a \in Agents |->
                  IF settled[a] # "none" THEN settled[a] ELSE result[a]]
    BY <1>4 DEF WaveSettled, Settled
  <2>2. InGraph /\ status = "none"
    BY <2>1 DEF InGraph, PlaceInv, Late
  <2>3. Grows
    <3>1. \A b \in Agents : Done(b) => settled[b] = "none"
      BY <2>1, <2>2 DEF GraphInv, Batched, Runnable
    <3> QED BY <2>1, <3>1 DEF Grows
  <2>4. ASSUME NEW a \in Agents, Done(a)' PROVE Judged(a)'
    <3>1. CASE Done(a)
      BY <2>2, <2>3, <3>1, StillJudged DEF GraphInv
    <3>2. CASE ~Done(a)
      <4>1. settled[a] # "none" /\ result'[a] = settled[a]
        BY <2>1, <2>4, <3>2 DEF Done
      <4>2. Runnable(a) /\ settled[a] \in Outcomes
        BY <2>1, <2>2, <4>1 DEF GraphInv, Batched
      <4> QED BY <2>3, <4>1, <4>2, RunIsJudged
    <3> QED BY <3>1, <3>2
  <2>5. ~Cyclic' /\ ~Invalid'
    BY <2>1, <2>2 DEF GraphInv, Cyclic, Invalid
  <2>6. cursor' = 1 /\ ready' = {} /\ round' = 1
    BY <2>1 DEF GraphInv, scanVars
  <2>7. \A a \in Agents : ~(a < cursor')
    BY <2>6, Limits DEF Agents
  <2> QED BY <2>1, <2>2, <2>4, <2>5, <2>6, <2>7 DEF GraphInv, GraphOver
<1>5. ASSUME NEW a \in Agents, VisitNode(a) PROVE GraphInv'
  <2>1. /\ UNCHANGED <<input, place, round, poolVars, status>>
        /\ place = "scan" /\ cursor = a /\ cursor' = a + 1 /\ status = "none"
    BY <1>5 DEF VisitNode, Visit, PlaceInv, Late
  <2>2. CASE ~InGraph
    BY <2>1, <2>2 DEF GraphInv, InGraph, GraphOver
  <2>3. CASE InGraph
    <3>1. ~Cyclic' /\ ~Invalid'
      BY <2>1, <2>3 DEF GraphInv, Cyclic, Invalid
    <3>2. result \in [Agents -> Results] /\ a \in Int /\ cursor \in Int
          /\ \A b \in Agents : b \in Int
      BY <2>1 DEF TypeOK, Agents
    <3>3. CASE Undecided(a) /\ UNCHANGED <<result, progress, ready>>
      <4>1. \A b \in Agents : /\ (Done(b) <=> Done(b)') /\ (Judged(b)' <=> Judged(b))
                              /\ (Runnable(b) <=> Runnable(b)')
                              /\ (Undecided(b) <=> Undecided(b)')
        BY <2>1, <3>3 DEF Done, Judged, Runnable, Spoilt, Holds, Undecided
      <4>2. \A b \in Agents : b < cursor' => b < cursor \/ b = a
        BY <2>1, <3>2
      <4>3. \A b \in ready' : b < cursor' /\ Runnable(b)'
        BY <2>1, <2>3, <3>2, <3>3, <4>1 DEF GraphInv, TypeOK
      <4>4. ~progress' /\ ready' = {} => \A b \in Agents : b < cursor' => Undecided(b)'
        BY <2>3, <2>1, <3>3, <4>1, <4>2 DEF GraphInv
      <4> QED BY <2>1, <2>3, <3>1, <4>1, <4>3, <4>4 DEF GraphInv, GraphOver
    <3>4. CASE /\ ~Undecided(a) /\ Skip(a)
               /\ ~Holds(input.condition[a]) \/ Spoilt(a)
      <4>1. /\ Grows /\ result'[a] = "skipped" /\ progress' /\ ready' = ready
            /\ ~Done(a) /\ \A b \in Agents \ {a} : result'[b] = result[b]
        BY <2>1, <3>2, <3>4 DEF Skip, Grows, Undecided, Done
      <4>2. ASSUME NEW b \in Agents, Done(b)' PROVE Judged(b)'
        <5>1. CASE b = a
          BY <3>4, <4>1, <5>1, SkipIsJudged
        <5>2. CASE b # a
          <6>1. Done(b)
            BY <4>1, <4>2, <5>2 DEF Done
          <6>2. Judged(b)
            BY <2>3, <6>1 DEF GraphInv
          <6> QED BY <4>1, <6>1, <6>2, StillJudged
        <5> QED BY <5>1, <5>2
      <4>3. ASSUME NEW b \in ready' PROVE b < cursor' /\ Runnable(b)'
        <5>1. b \in Agents /\ b < cursor /\ Runnable(b)
          BY <2>1, <2>3, <4>1, <4>3 DEF GraphInv, TypeOK
        <5>2. b # a /\ b < cursor'
          BY <2>1, <3>2, <5>1
        <5>3. ~Done(b)'
          BY <4>1, <5>1, <5>2 DEF Done, Runnable
        <5> QED BY <4>1, <5>1, <5>2, <5>3, StillRunnable
      <4> QED BY <2>1, <2>3, <3>1, <4>1, <4>2, <4>3 DEF GraphInv, GraphOver
    <3>5. CASE /\ ~Undecided(a) /\ Holds(input.condition[a]) /\ ~Spoilt(a)
               /\ ready' = ready \cup {a} /\ UNCHANGED <<result, progress>>
      <4>1. \A b \in Agents : /\ (Done(b) <=> Done(b)') /\ (Judged(b)' <=> Judged(b))
                              /\ (Runnable(b) <=> Runnable(b)')
        BY <2>1, <3>5 DEF Done, Judged, Runnable, Spoilt, Holds
      <4>2. Runnable(a)
        BY <3>5 DEF Runnable, Undecided
      <4>3. \A b \in ready' : b < cursor' /\ Runnable(b)'
        BY <2>1, <2>3, <3>2, <3>5, <4>1, <4>2 DEF GraphInv, TypeOK
      <4> QED BY <2>1, <2>3, <3>1, <3>5, <4>1, <4>3 DEF GraphInv, GraphOver
    <3> QED BY <1>5, <3>3, <3>4, <3>5 DEF VisitNode
  <2> QED BY <2>2, <2>3
<1>6. CASE NothingReady
  <2>1. /\ UNCHANGED <<input, round, poolVars, result, status>> /\ status = "none"
        /\ place = "scan" /\ place' = (IF progress THEN "scan" ELSE "closing")
        /\ cursor = NumAgents + 1 /\ cursor' = 1 /\ ready = {} /\ ready' = {}
    BY <1>6 DEF NothingReady, PassEnds, Close, Restart, PlaceInv, Late, TypeOK
  <2>2. CASE ~(input.mode = "graph")
    BY <2>1, <2>2 DEF GraphInv, InGraph, GraphOver
  <2>3. CASE input.mode = "graph"
    <3>1. InGraph /\ InGraph'
      BY <2>1, <2>3 DEF InGraph
    <3>2. ~Cyclic' /\ ~Invalid'
      BY <2>1, <3>1 DEF GraphInv, Cyclic, Invalid
    <3>3. \A b \in Agents : (Done(b) <=> Done(b)') /\ (Judged(b)' <=> Judged(b))
      BY <2>1 DEF Done, Judged, Spoilt, Holds
    <3>4. \A a \in Agents : ~(a < cursor') /\ a < cursor
      BY <2>1, Limits DEF Agents
    <3>5. ~progress => \A a \in Agents : Done(a)
      BY <2>1, <3>1, <3>4, NobodyLeft, InputTypes DEF GraphInv
    <3> QED BY <2>1, <2>3, <3>1, <3>2, <3>3, <3>4, <3>5 DEF GraphInv, GraphOver
  <2> QED BY <2>2, <2>3
<1>7. CASE Wave
  <2>1. /\ UNCHANGED <<input, round, result, status>> /\ status = "none"
        /\ place = "scan" /\ Launch(ready)
        /\ cursor' = 1 /\ ready' = {}
    BY <1>7 DEF Wave, PassEnds, Restart, PlaceInv, Late
  <2>2. ready \in SUBSET Agents
    BY DEF TypeOK
  <2>3. place' = "batch" /\ settled' = NoResults /\ todo' \cup inflight' = ready
    BY <2>1, <2>2, LaunchFacts
  <2>4. CASE ~(input.mode = "graph")
    BY <2>1, <2>3, <2>4 DEF GraphInv, InGraph, GraphOver
  <2>5. CASE input.mode = "graph"
    <3>1. InGraph
      BY <2>1, <2>5 DEF InGraph
    <3>2. ~Cyclic' /\ ~Invalid'
      BY <2>1, <3>1 DEF GraphInv, Cyclic, Invalid
    <3>3. \A b \in Agents : /\ (Done(b) <=> Done(b)') /\ (Judged(b)' <=> Judged(b))
                            /\ (Runnable(b) <=> Runnable(b)')
      BY <2>1 DEF Done, Judged, Runnable, Spoilt, Holds
    <3>4. ASSUME NEW b \in Agents, Batched(b)'
          PROVE  Runnable(b)' /\ settled'[b] \in Outcomes \cup {"none"}
      <4>1. settled'[b] = "none" /\ b \in ready
        BY <2>3, <3>4 DEF Batched, NoResults
      <4> QED BY <2>1, <3>1, <3>3, <4>1 DEF GraphInv
    <3> QED BY <2>1, <2>3, <3>1, <3>2, <3>3, <3>4 DEF GraphInv, GraphOver
  <2> QED BY <2>4, <2>5
<1>8. CASE Closed
  <2>1. /\ UNCHANGED <<input, round, scanVars, poolVars, result>>
        /\ place = "closing" /\ place' = "persisting"
    BY <1>8 DEF Closed
  <2> QED BY <2>1, GraphInvKept DEF InGraph, GraphOver
<1>9. CASE Persisted \/ Stored \/ Caught
  <2>1. /\ UNCHANGED <<input, round, scanVars, poolVars, result, status>>
        /\ place \in {"persisting", "storing", "rejected"}
        /\ place' \in {"storing", "ended"}
    BY <1>9 DEF Persisted, Stored, Caught
  <2> QED BY <2>1, GraphInvKept DEF InGraph, GraphOver
<1>10. ASSUME NEW a \in Agents, AgentEnds(a) PROVE GraphInv'
  <2>1. /\ UNCHANGED <<input, place, round, scanVars, result, status>>
        /\ place = "batch" /\ a \in inflight /\ RunNext(a) /\ status = "none"
    BY <1>10 DEF AgentEnds, PlaceInv, Late
  <2>2. todo' \cup inflight' = (todo \cup inflight) \ {a}
    BY <2>1, RunNextFacts DEF TypeOK, PoolBusy
  <2>3. CASE ~(input.mode = "graph")
    BY <2>1, <2>3 DEF GraphInv, InGraph, GraphOver, scanVars
  <2>4. CASE input.mode = "graph"
    <3>1. InGraph
      BY <2>1, <2>4 DEF InGraph
    <3>2. ~Cyclic' /\ ~Invalid'
      BY <2>1, <3>1 DEF GraphInv, Cyclic, Invalid
    <3>3. \A b \in Agents : /\ (Done(b) <=> Done(b)') /\ (Judged(b)' <=> Judged(b))
                            /\ (Runnable(b) <=> Runnable(b)')
      BY <2>1 DEF Done, Judged, Runnable, Spoilt, Holds
    <3>4. PICK outcome \in Outcomes : settled' = [settled EXCEPT ![a] = outcome]
      <4>1. round = 1
        BY <2>4 DEF GraphInv
      <4>2. OutcomesOf(a) = Outcomes
        BY <4>1 DEF OutcomesOf
      <4> QED BY <1>10, <4>2 DEF AgentEnds
    <3>5. ASSUME NEW b \in Agents, Batched(b)'
          PROVE  Runnable(b)' /\ settled'[b] \in Outcomes \cup {"none"}
      <4>1. Batched(b)
        BY <2>1, <2>2, <3>4, <3>5 DEF Batched, TypeOK
      <4>2. Runnable(b) /\ settled[b] \in Outcomes \cup {"none"}
        BY <2>1, <3>1, <4>1 DEF GraphInv
      <4>3. settled'[b] \in Outcomes \cup {"none"}
        BY <3>4, <4>2 DEF TypeOK
      <4> QED BY <3>3, <4>2, <4>3
    <3> QED BY <2>1, <3>1, <3>2, <3>3, <3>5 DEF GraphInv, GraphOver, scanVars
  <2> QED BY <2>3, <2>4
<1> QED BY <1>0, <1>1, <1>2, <1>3, <1>4, <1>5, <1>6, <1>7, <1>8, <1>9, <1>10
        DEF Next, EngineStep

\* The other modes.
LEMMA RoundsNext == EngineInv /\ [Next]_vars => PipelineInv' /\ RoundInv'
<1> SUFFICES ASSUME EngineInv, [Next]_vars PROVE PipelineInv' /\ RoundInv'
  OBVIOUS
<1> USE DEF EngineInv, PInv
<1>0. CASE UNCHANGED <<input, round, poolVars, result, place>>
  BY <1>0 DEF PipelineInv, RoundInv, poolVars, Batched
<1>1. ASSUME UNCHANGED <<input, round>>, place' # "batch",
             place' = "scan" => input.mode = "graph"
      PROVE  PipelineInv' /\ RoundInv'
  BY <1>1 DEF PipelineInv, RoundInv
<1>2. CASE Loaded
  <2>1. /\ UNCHANGED <<input, round>> /\ result = NoResults /\ round = 1
    BY <1>2 DEF Loaded, PlaceInv, Early
  <2>2. CASE Scan \/ Reject \/ UnknownMode
    <3>1. place' # "batch" /\ (place' = "scan" => input.mode = "graph")
      BY <1>2, <2>2 DEF Scan, Reject, UnknownMode, Close
    <3> QED BY <1>1, <2>1, <3>1
  <2>3. CASE AllAtOnce
    <3>1. /\ settled' = NoResults /\ input.mode # "pipeline" /\ UNCHANGED result
          /\ place' = "batch"
      BY <2>3, LaunchFacts DEF AllAtOnce
    <3> QED BY <2>1, <3>1 DEF PipelineInv, RoundInv, NoResults
  <2>4. CASE FirstAgent
    <3>1. 1 \in Agents /\ \A a \in Agents : ~(a < 1)
      BY Limits DEF Agents
    <3>2. /\ settled' = NoResults /\ UNCHANGED result /\ place' = "batch"
          /\ todo' \cup inflight' = {1} /\ {1} \in SUBSET Agents
      BY <2>4, <3>1, LaunchFacts DEF FirstAgent
    <3>3. \A a \in Agents : Batched(a)' <=> a = 1
      BY <3>2 DEF Batched, NoResults
    <3> QED BY <2>1, <3>1, <3>2, <3>3 DEF PipelineInv, RoundInv, NoResults
  <2> QED BY <1>2, <2>2, <2>3, <2>4 DEF Loaded
<1>3. CASE RoundSettled
  <2>1. UNCHANGED input /\ place = "batch" /\ input.mode # "pipeline"
    BY <1>3 DEF RoundSettled, Settled
  <2>2. CASE Close /\ UNCHANGED round
    BY <1>1, <2>1, <2>2 DEF Close
  <2>3. CASE /\ input.mode = "council" /\ input.crossReview /\ round' = 2
             /\ Launch(Agents)
    BY <2>1, LaunchFacts, <2>3 DEF PipelineInv, RoundInv
  <2> QED BY <1>3, <2>2, <2>3 DEF RoundSettled
<1>4. ASSUME NEW a \in Agents, StageSettled(a) PROVE PipelineInv' /\ RoundInv'
  <2>1. /\ UNCHANGED <<input, round>> /\ place = "batch" /\ input.mode = "pipeline"
        /\ inflight = {} /\ todo = {} /\ settled[a] # "none"
    BY <1>4 DEF StageSettled, Settled
  <2>2. /\ Batched(a)
        /\ \A b \in Agents : IF b < a THEN Completed(result[b]) ELSE result[b] = "none"
    BY <2>1 DEF PipelineInv, Batched
  <2>3. CASE Close
    BY <1>1, <2>1, <2>3 DEF Close
  <2>4. CASE /\ Completed(settled[a]) /\ result' = [result EXCEPT ![a] = settled[a]]
             /\ a < NumAgents /\ Launch({a + 1})
    <3>1. a + 1 \in Agents /\ \A b \in Agents : b < a + 1 => b < a \/ b = a
      BY <2>4, Limits DEF Agents
    <3>2. {a + 1} \in SUBSET Agents /\ settled' = NoResults
          /\ todo' \cup inflight' = {a + 1} /\ place' = "batch"
      BY <2>4, <3>1, LaunchFacts
    <3>3. \A b \in Agents : Batched(b)' <=> b = a + 1
      BY <3>2 DEF Batched, NoResults
    <3>4. \A b \in Agents :
            IF b < a + 1 THEN Completed(result'[b]) ELSE result'[b] = "none"
      <4>1. \A b \in Agents : b < a \/ b = a => b < a + 1
        BY Limits DEF Agents
      <4>2. \A b \in Agents : result'[b] = IF b = a THEN settled[a] ELSE result[b]
        BY <2>4 DEF TypeOK
      <4> QED BY <2>2, <2>4, <3>1, <4>1, <4>2
    <3> QED BY <2>1, <3>1, <3>2, <3>3, <3>4 DEF PipelineInv, RoundInv, NoResults
  <2> QED BY <1>4, <2>3, <2>4 DEF StageSettled
<1>5. CASE Wave
  <2>1. UNCHANGED <<input, round, result>> /\ Launch(ready) /\ ready \in SUBSET Agents
    BY <1>5 DEF Wave, TypeOK
  <2>2. settled' = NoResults
    BY <2>1, LaunchFacts
  <2>3. place = "scan" /\ place' = "batch"
    BY <1>5, <2>1, LaunchFacts DEF Wave, PassEnds
  <2> QED BY <2>1, <2>2, <2>3 DEF PipelineInv, RoundInv, NoResults
<1>6. ASSUME NEW a \in Agents, AgentEnds(a) PROVE PipelineInv' /\ RoundInv'
  <2>1. /\ UNCHANGED <<input, place, round, result>>
        /\ place = "batch" /\ a \in inflight /\ RunNext(a)
    BY <1>6 DEF AgentEnds, PlaceInv
  <2>2. todo' \cup inflight' = (todo \cup inflight) \ {a}
    BY <2>1, RunNextFacts DEF TypeOK, PoolBusy
  <2>3. PICK outcome \in OutcomesOf(a) : settled' = [settled EXCEPT ![a] = outcome]
    BY <1>6 DEF AgentEnds
  <2>4. round = 1 => outcome \in Outcomes
    BY <2>3 DEF OutcomesOf
  <2>5. round = 1 => \A b \in Agents : Batched(b)' <=> Batched(b)
    BY <2>1, <2>2, <2>3, <2>4 DEF Batched, TypeOK, Outcomes
  <2>6. input.mode = "pipeline" => round = 1
    BY DEF RoundInv, TypeOK
  <2>7. PipelineInv'
    BY <2>1, <2>5, <2>6 DEF PipelineInv
  <2>8. RoundInv'
    BY <2>1, <2>3, <2>4 DEF RoundInv, TypeOK
  <2> QED BY <2>7, <2>8
<1>7. CASE Post \/ Recorded \/ RunTool \/ WaveSettled \/ NothingReady \/ Closed
           \/ Persisted \/ Stored \/ Caught
  <2>1. /\ UNCHANGED <<input, round>> /\ place' # "batch"
        /\ place' = "scan" => input.mode = "graph"
    BY <1>7 DEF RoundInv, Post, Recorded, RunTool, WaveSettled, NothingReady, PassEnds, Close,
       Closed, Persisted, Stored, Caught
  <2> QED BY <1>1, <2>1
<1>8. CASE \E a \in Agents : VisitNode(a)
  <2>1. /\ UNCHANGED <<input, round>> /\ place' # "batch"
        /\ place' = "scan" => input.mode = "graph"
    BY <1>8 DEF RoundInv, VisitNode, Visit
  <2> QED BY <1>1, <2>1
<1> QED BY <1>0, <1>2, <1>3, <1>4, <1>5, <1>6, <1>7, <1>8 DEF Next, EngineStep, vars

LEMMA EngineInvNext == EngineInv /\ [Next]_vars => EngineInv'
BY PInvNext, GraphInvNext, RoundsNext DEF EngineInv

\* In a graph of any size every agent gets the result its dependencies and its
\* condition ask for.
THEOREM GraphsEndRight == Spec => []GraphOutcome
<1>1. EngineInv => GraphOutcome
  <2> SUFFICES ASSUME EngineInv, GraphOver, NEW a \in Agents
               PROVE  /\ result[a] # "none"
                      /\ Spoilt(a) \/ ~Holds(input.condition[a]) => result[a] = "skipped"
                      /\ result[a] = "skipped" =>
                           \/ Spoilt(a) \/ ~Holds(input.condition[a])
                           \/ /\ input.condition[a].given
                              /\ input.condition[a].node \notin input.dependsOn[a]
    BY DEF GraphOutcome
  <2>1. InGraph /\ Done(a)
    BY DEF EngineInv, GraphInv, GraphOver, InGraph
  <2>2. Judged(a)
    BY <2>1 DEF EngineInv, GraphInv
  <2> QED BY <2>1, <2>2 DEF Judged, Done
<1> QED BY <1>1, EngineInvInit, EngineInvNext, PTL DEF Spec

-----------------------------------------------------------------------------
(* The refinement.                                                         *)

Reviewed == input.mode = "council" /\ input.crossReview

\* What a step does to one agent, in the words of DependencyGraph.
Moves(a) ==
  \/ StateOf(a)' = StateOf(a)
  \/ /\ StateOf(a) = "waiting" /\ StateOf(a)' = "running"
     /\ \A d \in Needs[a] : StateOf(d) = "completed"
  \/ StateOf(a) = "running" /\ StateOf(a)' \in {"completed", "failed"}
  \/ /\ StateOf(a) = "waiting" /\ StateOf(a)' = "skipped"
     /\ a \in Optional \/ \E d \in Needs[a] : StateOf(d)' \in {"failed", "skipped"}

LEMMA NeedsTypes ==
  Needs \in [Agents -> SUBSET Agents] /\ Optional \in SUBSET Agents
BY DEF Needs, Optional

LEMMA MovesSuffice ==
  ASSUME TypeOK', UNCHANGED input, \A a \in Agents : Moves(a)
  PROVE  Graph!Next
<1>1. Needs' = Needs /\ Optional' = Optional
  BY DEF Needs, Optional
<1>2. [a \in Agents |-> StateOf(a)]' \in [Agents -> Graph!States]
  <2>1. ASSUME NEW a \in Agents PROVE StateOf(a)' \in Graph!States
    <3>1. settled'[a] \in Results /\ result'[a] \in Results
      BY DEF TypeOK
    <3> QED BY <3>1 DEF StateOf, Graph!States, Results, Outcomes, Completed
  <2> QED BY <2>1
<1>3. ASSUME NEW n \in Agents
      PROVE  \/ [a \in Agents |-> StateOf(a)]'[n] = [a \in Agents |-> StateOf(a)][n]
             \/ Graph!Starts(n) \/ Graph!Ends(n) \/ Graph!GivenUp(n)
  <2>1. \A d \in Needs[n] : d \in Agents
    BY NeedsTypes
  <2>2. Moves(n)
    OBVIOUS
  <2> QED BY <2>1, <2>2 DEF Moves, Graph!Starts, Graph!Ends, Graph!GivenUp
<1> QED BY <1>1, <1>2, <1>3 DEF Graph!Next

LEMMA GraphInit == Init => Graph!Init
<1> SUFFICES ASSUME Init PROVE Graph!Init
  OBVIOUS
<1>1. \A a \in Agents : StateOf(a) = "waiting"
  BY DEF Init, StateOf, NoResults
<1> QED BY <1>1, NeedsTypes DEF Graph!Init

\* Nothing moves when neither the results nor the agents that run change.
LEMMA NothingMoves ==
  ASSUME UNCHANGED <<input, inflight, settled, result>>
  PROVE  \A a \in Agents : Moves(a)
BY DEF Moves, StateOf

LEMMA AllMove == EngineInv /\ [Next]_vars => \A n \in Agents : Moves(n)
<1> SUFFICES ASSUME EngineInv, [Next]_vars PROVE \A n \in Agents : Moves(n)
  OBVIOUS
<1> USE DEF EngineInv, PInv
<1>1. UNCHANGED input
  BY DEF Next, EngineStep, Post, Recorded, RunTool, Loaded, RoundSettled, StageSettled,
     WaveSettled, VisitNode, NothingReady, Wave, Closed, Persisted, Stored, Caught,
     AgentEnds, vars
<1>2. CASE Reviewed
  BY <1>1, <1>2 DEF Reviewed, StateOf, Moves
<1> SUFFICES ASSUME ~Reviewed PROVE \A n \in Agents : Moves(n)
  BY <1>2
<1>3. round = 1
  BY DEF RoundInv, Reviewed, TypeOK
<1>4. \A a : StateOf(a) =
        LET r == IF settled[a] # "none" THEN settled[a] ELSE result[a] IN
        IF a \in inflight THEN "running"
        ELSE IF r = "none" THEN "waiting"
        ELSE IF Completed(r) THEN "completed" ELSE r
  BY DEF StateOf, Reviewed
<1>5. \A a : StateOf(a)' =
        LET r == IF settled'[a] # "none" THEN settled'[a] ELSE result'[a] IN
        IF a \in inflight' THEN "running"
        ELSE IF r = "none" THEN "waiting"
        ELSE IF Completed(r) THEN "completed" ELSE r
  BY <1>1 DEF StateOf, Reviewed
<1>6. \A d \in Agents : Completed(result[d]) /\ settled[d] = "none" /\ d \notin inflight
        => StateOf(d) = "completed"
  BY <1>4 DEF Completed
<1>7. CASE UNCHANGED vars
  BY <1>7, NothingMoves DEF vars, poolVars
<1>8. CASE \/ Post \/ Recorded \/ RunTool \/ NothingReady \/ Closed \/ Persisted
           \/ Stored \/ Caught
  <2>1. UNCHANGED <<input, inflight, settled, result>>
    BY <1>8 DEF Post, Recorded, RunTool, NothingReady, Close, Closed, Persisted, Stored,
       Caught, poolVars
  <2> QED BY <2>1, NothingMoves
<1>9. CASE Loaded
  <2>1. result = NoResults /\ settled = NoResults /\ inflight = {}
    BY <1>9 DEF Loaded, PlaceInv, Early
  <2>2. \A n \in Agents : StateOf(n) = "waiting"
    BY <1>4, <2>1 DEF NoResults
  <2>3. CASE Scan \/ Reject
    <3>1. UNCHANGED <<input, inflight, settled, result>>
      BY <1>1, <2>3 DEF Scan, Reject, poolVars
    <3> QED BY <3>1, NothingMoves
  <2>4. CASE UnknownMode
    <3>1. \A n \in Agents : StateOf(n)' = "skipped" /\ n \in Optional
      BY <1>5, <2>1, <2>4 DEF UnknownMode, Close, poolVars, NoResults, Completed, Optional
    <3> QED BY <2>2, <3>1 DEF Moves
  <2>5. CASE AllAtOnce \/ FirstAgent
    <3>1. PICK S \in SUBSET Agents :
            Launch(S) /\ (input.mode \in {"single", "pipeline"} => S = {1})
      BY <2>5, Limits DEF AllAtOnce, FirstAgent, Agents
    <3>2. settled' = NoResults /\ inflight' \subseteq S
      BY <3>1, LaunchFacts
    <3>3. result' = NoResults
      BY <2>1, <2>5 DEF AllAtOnce, FirstAgent
    <3>4. \A n \in Agents : StateOf(n)' \in {"waiting", "running"}
      BY <1>5, <3>2, <3>3 DEF NoResults
    <3>5. ASSUME NEW n \in Agents, n \in inflight' PROVE Needs[n] = {}
      <4>1. CASE input.mode = "pipeline"
        <5>1. n = 1 /\ \A b \in Agents : b # n - 1
          BY <3>1, <3>2, <3>5, <4>1, Limits DEF Agents
        <5> QED BY <4>1, <5>1 DEF Needs
      <4>2. CASE input.mode # "pipeline"
        BY <2>5, <4>2 DEF AllAtOnce, FirstAgent, Needs
      <4> QED BY <4>1, <4>2
    <3>6. \A n \in Agents : n \notin inflight' => StateOf(n)' = "waiting"
      BY <1>5, <3>2, <3>3 DEF NoResults
    <3> QED BY <2>2, <3>4, <3>5, <3>6 DEF Moves
  <2> QED BY <1>9, <2>3, <2>4, <2>5 DEF Loaded
<1>10. CASE RoundSettled
  <2>1. /\ inflight = {} /\ inflight' = {} /\ settled' = settled /\ result' = settled
        /\ result = NoResults
    BY <1>3, <1>10 DEF RoundSettled, Settled, Reviewed, Close, poolVars, RoundInv
  <2>2. \A n \in Agents : StateOf(n)' = StateOf(n)
    BY <1>4, <1>5, <2>1 DEF NoResults
  <2> QED BY <2>2 DEF Moves
<1>11. ASSUME NEW a \in Agents, StageSettled(a) PROVE \A n \in Agents : Moves(n)
  <2>1. /\ place = "batch" /\ input.mode = "pipeline"
        /\ inflight = {} /\ todo = {} /\ settled[a] # "none"
    BY <1>11 DEF StageSettled, Settled
  <2>2. /\ \A b \in Agents : Batched(b) <=> b = a
        /\ \A b \in Agents : IF b < a THEN Completed(result[b]) ELSE result[b] = "none"
    BY <2>1 DEF PipelineInv, Batched
  <2>3. \A b \in Agents \ {a} : settled[b] = "none"
    BY <2>2 DEF Batched
  <2>4. settled[a] \in Outcomes
    BY <1>3, <2>1 DEF RoundInv
  <2>5. \A b \in Agents : b \in Int
    BY DEF Agents
  <2>6. \A b \in Agents : StateOf(b) =
          IF b < a THEN "completed"
          ELSE IF b = a THEN IF Completed(settled[a]) THEN "completed" ELSE settled[a]
          ELSE "waiting"
    BY <1>4, <2>1, <2>2, <2>3, <2>5 DEF Completed
  <2>7. CASE Completed(settled[a])
    <3>1. \A b \in Agents : result'[b] = IF b = a THEN settled[a] ELSE result[b]
      BY <1>11, <2>7 DEF StageSettled, TypeOK
    <3>2. CASE Close
      <4>1. inflight' = {} /\ settled' = settled
        BY <2>1, <3>2 DEF Close, poolVars
      <4>2. \A b \in Agents : StateOf(b)' = StateOf(b)
        BY <1>4, <1>5, <2>1, <2>3, <3>1, <4>1
      <4> QED BY <4>2 DEF Moves
    <3>3. CASE a < NumAgents /\ Launch({a + 1})
      <4>1. {a + 1} \in SUBSET Agents
        BY <3>3, Limits DEF Agents
      <4>2. settled' = NoResults /\ inflight' \subseteq {a + 1}
        BY <3>3, <4>1, LaunchFacts
      <4>3. \A b \in Agents : b # a + 1 => StateOf(b)' = StateOf(b)
        BY <1>4, <1>5, <2>1, <2>3, <3>1, <4>2 DEF NoResults
      <4>4. /\ StateOf(a + 1) = "waiting" /\ StateOf(a) = "completed"
            /\ StateOf(a + 1)' \in {"waiting", "running"}
        <5>1. a + 1 \in Agents /\ ~(a + 1 < a) /\ a + 1 # a /\ ~(a < a)
          BY <2>5, <4>1
        <5>2. StateOf(a + 1) = "waiting" /\ StateOf(a) = "completed"
          BY <2>6, <2>7, <5>1
        <5>3. result'[a + 1] = "none" /\ settled'[a + 1] = "none"
          BY <2>2, <3>1, <4>2, <5>1 DEF NoResults
        <5> QED BY <1>5, <5>2, <5>3
      <4>5. Needs[a + 1] = {a}
        <5>1. a + 1 \in Agents /\ \A b \in Agents : b = (a + 1) - 1 <=> b = a
          BY <2>5, <4>1
        <5> QED BY <2>1, <5>1 DEF Needs
      <4> QED BY <4>3, <4>4, <4>5 DEF Moves
    <3> QED BY <1>11, <2>7, <3>2, <3>3 DEF StageSettled
  <2>8. CASE ~Completed(settled[a])
    <3>1. /\ inflight' = {} /\ settled' = settled
          /\ \A b \in Agents : result'[b] = IF b < a THEN result[b]
                                 ELSE IF b = a THEN settled[b] ELSE "skipped"
      BY <1>11, <2>1, <2>8 DEF StageSettled, Close, poolVars
    <3>2. \A b \in Agents : b < a => StateOf(b)' = StateOf(b)
      BY <1>4, <1>5, <2>1, <2>3, <2>5, <3>1
    <3>3. StateOf(a)' = settled[a] /\ StateOf(a) = settled[a] /\ settled[a] = "failed"
      BY <1>4, <1>5, <2>1, <2>4, <2>8, <3>1 DEF Outcomes, Completed
    <3>4. \A b \in Agents : b > a => StateOf(b)' = "skipped" /\ StateOf(b) = "waiting"
      BY <1>5, <2>3, <2>5, <2>6, <3>1 DEF Completed
    <3>5. ASSUME NEW b \in Agents, b > a
          PROVE  \E d \in Needs[b] : StateOf(d)' \in {"failed", "skipped"}
      <4>1. b - 1 \in Agents /\ (b - 1 = a \/ b - 1 > a)
        BY <3>5, Limits DEF Agents
      <4>2. b - 1 \in Needs[b]
        BY <2>1, <4>1 DEF Needs
      <4> QED BY <3>3, <3>4, <4>1, <4>2
    <3>6. \A b \in Agents : b < a \/ b = a \/ b > a
      BY <2>5
    <3> QED BY <3>2, <3>3, <3>4, <3>5, <3>6 DEF Moves
  <2> QED BY <2>7, <2>8
<1>12. CASE WaveSettled
  <2>1. /\ inflight = {} /\ inflight' = {} /\ settled' = NoResults
        /\ \A b \in Agents :
             result'[b] = IF settled[b] # "none" THEN settled[b] ELSE result[b]
    BY <1>12 DEF WaveSettled, Settled
  <2>2. \A b \in Agents : StateOf(b)' = StateOf(b)
    BY <1>4, <1>5, <2>1 DEF NoResults
  <2> QED BY <2>2 DEF Moves
<1>13. ASSUME NEW a \in Agents, VisitNode(a) PROVE \A n \in Agents : Moves(n)
  <2>1. /\ place = "scan" /\ settled = NoResults /\ inflight = {}
        /\ UNCHANGED <<settled, inflight>>
        /\ input.mode = "graph"
    BY <1>13 DEF VisitNode, Visit, poolVars, PlaceInv, RoundInv
  <2>2. InGraph
    BY <2>1 DEF InGraph
  <2>3. CASE UNCHANGED result
    BY <1>1, <2>1, <2>3, NothingMoves
  <2>4. CASE /\ ~Undecided(a) /\ Skip(a)
             /\ ~Holds(input.condition[a]) \/ Spoilt(a)
    <3>1. \A b \in Agents : result'[b] = IF b = a THEN "skipped" ELSE result[b]
      BY <2>4 DEF Skip, TypeOK
    <3>2. \A b \in Agents : b # a => StateOf(b)' = StateOf(b)
      BY <1>4, <1>5, <2>1, <3>1
    <3>3. StateOf(a) = "waiting" /\ StateOf(a)' = "skipped"
      BY <1>4, <1>5, <2>1, <2>4, <3>1 DEF Undecided, Done, NoResults, Completed
    <3>4. CASE ~Holds(input.condition[a])
      <4>1. a \in Optional
        BY <2>1, <3>4 DEF Optional, Holds
      <4> QED BY <3>2, <3>3, <4>1 DEF Moves
    <3>5. CASE Spoilt(a)
      <4>1. PICK d \in input.dependsOn[a] : ~Completed(result[d])
        BY <3>5 DEF Spoilt
      <4>2. Done(d) /\ d \in Agents /\ d # a /\ result[d] # "none"
        BY <2>4, <4>1 DEF Undecided, Done
      <4>3. result[d] \in {"failed", "skipped"}
        BY <4>1, <4>2 DEF TypeOK, Results, Outcomes, Completed
      <4>4. StateOf(d)' \in {"failed", "skipped"}
        BY <1>5, <2>1, <3>1, <4>2, <4>3 DEF NoResults, Completed
      <4>5. d \in Needs[a]
        BY <2>1, <4>1, <4>2 DEF Needs
      <4> QED BY <3>2, <3>3, <4>4, <4>5 DEF Moves
    <3> QED BY <2>4, <3>4, <3>5
  <2> QED BY <1>13, <2>3, <2>4 DEF VisitNode
<1>14. CASE Wave
  <2>1. /\ place = "scan" /\ settled = NoResults /\ inflight = {} /\ Launch(ready)
        /\ UNCHANGED result /\ input.mode = "graph" /\ ready \in SUBSET Agents
    BY <1>14 DEF Wave, PassEnds, PlaceInv, RoundInv, TypeOK
  <2>2. settled' = NoResults /\ inflight' \subseteq ready
    BY <2>1, LaunchFacts
  <2>3. \A b \in Agents : b \notin inflight' => StateOf(b)' = StateOf(b)
    BY <1>4, <1>5, <2>1, <2>2
  <2>4. ASSUME NEW b \in Agents, b \in inflight' PROVE Moves(b)
    <3>1. Runnable(b)
      BY <2>1, <2>2, <2>4 DEF GraphInv, InGraph
    <3>2. StateOf(b) = "waiting" /\ StateOf(b)' = "running"
      BY <1>4, <1>5, <2>1, <2>4, <3>1 DEF Runnable, Done, NoResults
    <3>3. \A d \in Needs[b] : StateOf(d) = "completed"
      BY <1>6, <2>1, <3>1 DEF Needs, Runnable, Spoilt, NoResults
    <3> QED BY <3>2, <3>3 DEF Moves
  <2> QED BY <2>3, <2>4 DEF Moves
<1>15. ASSUME NEW a \in Agents, AgentEnds(a) PROVE \A n \in Agents : Moves(n)
  <2>1. /\ UNCHANGED result /\ place = "batch" /\ a \in inflight /\ RunNext(a)
    BY <1>15 DEF AgentEnds, PlaceInv
  <2>2. todo' \cup inflight' = (todo \cup inflight) \ {a}
    BY <2>1, RunNextFacts DEF TypeOK, PoolBusy
  <2>3. PICK outcome \in Outcomes : settled' = [settled EXCEPT ![a] = outcome]
    <3>1. OutcomesOf(a) = Outcomes
      BY <1>3 DEF OutcomesOf
    <3> QED BY <1>15, <3>1 DEF AgentEnds
  <2>4. \A b \in Agents : settled'[b] = IF b = a THEN outcome ELSE settled[b]
    BY <2>3 DEF TypeOK
  <2>5. StateOf(a) = "running" /\ StateOf(a)' \in {"completed", "failed"}
    <3>1. a \notin inflight'
      BY <2>2
    <3> QED BY <1>4, <1>5, <2>1, <2>4, <3>1 DEF Outcomes, Completed
  <2>6. ASSUME NEW b \in Agents, b # a, b \notin todo \/ b \notin inflight'
        PROVE  StateOf(b)' = StateOf(b)
    <3>1. b \in inflight' <=> b \in inflight
      <4>1. inflight \ {a} \subseteq inflight' /\ inflight' \subseteq inflight \cup todo
        BY <2>1 DEF RunNext
      <4> QED BY <2>6, <4>1, <2>2
    <3> QED BY <1>4, <1>5, <2>1, <2>4, <2>6, <3>1
  <2>7. ASSUME NEW b \in Agents, b # a, b \in todo, b \in inflight' PROVE Moves(b)
    <3>1. settled[b] = "none" /\ b \notin inflight /\ Batched(a) /\ Batched(b)
      BY <2>1, <2>7 DEF PlaceInv, TypeOK, Batched
    <3>2. StateOf(b)' = "running"
      BY <1>5, <2>7
    <3>3. CASE input.mode = "graph"
      <4>1. Runnable(b) /\ InGraph
        BY <2>1, <3>1, <3>3 DEF GraphInv, InGraph
      <4>2. StateOf(b) = "waiting"
        BY <1>4, <3>1, <4>1 DEF Runnable, Done
      <4>3. ASSUME NEW d \in Needs[b] PROVE StateOf(d) = "completed"
        <5>1. d \in Agents /\ Done(d) /\ Completed(result[d])
          BY <3>3, <4>1, <4>3 DEF Needs, Runnable, Spoilt
        <5>2. ~Batched(d)
          BY <2>1, <4>1, <5>1 DEF GraphInv, Runnable
        <5> QED BY <1>6, <5>1, <5>2 DEF Batched
      <4> QED BY <3>2, <4>2, <4>3 DEF Moves
    <3>4. CASE input.mode = "pipeline"
      BY <2>1, <2>7, <3>1, <3>4 DEF PipelineInv
    <3>5. CASE input.mode \notin {"graph", "pipeline"}
      <4>1. result = NoResults /\ Needs[b] = {}
        BY <2>1, <3>5 DEF RoundInv, Reviewed, Needs
      <4>2. StateOf(b) = "waiting"
        BY <1>4, <3>1, <4>1 DEF NoResults
      <4> QED BY <3>2, <4>1, <4>2 DEF Moves
    <3> QED BY <3>3, <3>4, <3>5
  <2> QED BY <2>5, <2>6, <2>7 DEF Moves
<1> QED BY <1>7, <1>8, <1>9, <1>10, <1>11, <1>12, <1>13, <1>14, <1>15 DEF Next, EngineStep

\* Every workflow of one round, of any size, runs its agents by their dependencies:
\* execute implements DependencyGraph.
THEOREM ImplementsGraph == Spec => RunsByDependencies
<1>1. EngineInv /\ EngineInv' /\ [Next]_vars => [Graph!Next]_(Graph!graphVars)
  <2> SUFFICES ASSUME EngineInv, EngineInv', [Next]_vars
               PROVE  [Graph!Next]_(Graph!graphVars)
    OBVIOUS
  <2>1. UNCHANGED input
    BY DEF Next, EngineStep, Post, Recorded, RunTool, Loaded, RoundSettled, StageSettled,
       WaveSettled, VisitNode, NothingReady, Wave, Closed, Persisted, Stored, Caught,
       AgentEnds, vars
  <2>2. TypeOK'
    BY DEF EngineInv, PInv
  <2> QED BY <2>1, <2>2, AllMove, MovesSuffice
<1> QED BY <1>1, GraphInit, EngineInvInit, EngineInvNext, PTL
        DEF Spec, RunsByDependencies, Graph!Spec

-----------------------------------------------------------------------------
(* The row of a workflow.                                                  *)

RowInv ==
  /\ place = "batch" => \E a \in Agents : Batched(a)
  /\ place = "closing" \/ status # "none" => Given # {}
  /\ status # "none" => place \in Late /\ status = Overall
  /\ caller = "route" /\ place \notin {"recording", "refused"} => row # "none"
  /\ caller = "route" /\ place = "storing" =>
       row = RowStatus \/ MaxFaults - faults >= 1
  /\ caller = "route" /\ place = "ended" /\ status # "none" =>
       row = RowStatus \/ MaxFaults - faults >= 2
  /\ place = "storing" => caller = "route"
  /\ place = "idle" <=> caller = "none"

\* Both rounds of a council are about all agents.
CouncilInv ==
  input.mode = "council" =>
    /\ place = "batch" => \A a \in Agents : Batched(a)
    /\ round = 2 => \A a \in Agents : result[a] # "none"

LEMMA CouncilInvNext ==
  EngineInv /\ CouncilInv /\ [Next]_vars => CouncilInv'
<1> SUFFICES ASSUME EngineInv, CouncilInv, [Next]_vars, input'.mode = "council"
             PROVE  /\ place' = "batch" => \A a \in Agents : Batched(a)'
                    /\ round' = 2 => \A a \in Agents : result'[a] # "none"
  BY DEF CouncilInv
<1> USE DEF EngineInv, PInv
<1>1. ASSUME UNCHANGED <<input, round, result, poolVars>>,
             place' = "batch" => place = "batch"
      PROVE  /\ place' = "batch" => \A a \in Agents : Batched(a)'
             /\ round' = 2 => \A a \in Agents : result'[a] # "none"
  BY <1>1 DEF CouncilInv, poolVars, Batched
<1>2. CASE Loaded
  <2>1. input.mode = "council" /\ round' = 1
    BY <1>2 DEF Loaded, PlaceInv, Early
  <2>2. Launch(Agents)
    BY <1>2, <2>1 DEF Loaded, AllAtOnce, FirstAgent, Scan, Reject, UnknownMode
  <2> QED BY <2>1, <2>2, LaunchFacts DEF Batched
<1>3. CASE RoundSettled
  <2>1. \A a \in Agents : result'[a] # "none"
    BY <1>3 DEF RoundSettled, Settled, CouncilInv, Batched
  <2>2. place' = "batch" => \A a \in Agents : Batched(a)'
    BY <1>3, LaunchFacts DEF RoundSettled, Close, Batched
  <2> QED BY <2>1, <2>2
<1>4. ASSUME NEW a \in Agents, AgentEnds(a)
      PROVE  /\ place' = "batch" => \A b \in Agents : Batched(b)'
             /\ round' = 2 => \A b \in Agents : result'[b] # "none"
  <2>1. /\ UNCHANGED <<input, result, place, round>> /\ place = "batch"
        /\ a \in inflight /\ RunNext(a)
    BY <1>4 DEF AgentEnds, PlaceInv
  <2>2. todo' \cup inflight' = (todo \cup inflight) \ {a}
    BY <2>1, RunNextFacts DEF TypeOK, PoolBusy
  <2>3. PICK outcome \in OutcomesOf(a) : settled' = [settled EXCEPT ![a] = outcome]
    BY <1>4 DEF AgentEnds
  <2>4. outcome # "none"
    BY <2>1, <2>3 DEF OutcomesOf, Outcomes, CouncilInv
  <2>5. \A b \in Agents : Batched(b)'
    BY <2>1, <2>2, <2>3, <2>4 DEF CouncilInv, Batched, TypeOK
  <2> QED BY <2>1, <2>5 DEF CouncilInv
<1>5. CASE Post \/ Recorded \/ RunTool \/ NothingReady \/ Closed \/ Persisted \/ Stored
           \/ Caught
  <2>1. UNCHANGED <<input, round, result, poolVars>> /\ place' # "batch"
    BY <1>5 DEF Post, Recorded, RunTool, NothingReady, PassEnds, Close, Closed, Persisted,
       Stored, Caught
  <2> QED BY <1>1, <2>1
<1>6. ~WaveSettled /\ ~Wave /\ \A a \in Agents : ~StageSettled(a) /\ ~VisitNode(a)
  BY DEF WaveSettled, Wave, PassEnds, StageSettled, VisitNode, Visit, RoundInv
<1>7. CASE UNCHANGED vars
  BY <1>1, <1>7 DEF vars
<1> QED BY <1>2, <1>3, <1>4, <1>5, <1>6, <1>7 DEF Next, EngineStep

\* A step before the end of the workflow that leaves the row alone.
LEMMA RowInvBefore ==
  ASSUME RowInv, UNCHANGED <<row, caller>>, status = "none", status' = "none",
         place \notin {"idle", "recording", "refused", "storing"},
         place' \notin {"idle", "recording", "refused", "storing"},
         place' = "batch" => (\E a \in Agents : Batched(a))',
         place' = "closing" => Given' # {}
  PROVE  RowInv'
BY DEF RowInv

LEMMA RowInvNext ==
  EngineInv /\ EngineInv' /\ CouncilInv /\ RowInv /\ [Next]_vars => RowInv'
<1> SUFFICES ASSUME EngineInv, EngineInv', CouncilInv, RowInv, [Next]_vars PROVE RowInv'
  OBVIOUS
<1> USE DEF EngineInv, PInv
<1>1. CASE UNCHANGED vars
  BY <1>1 DEF vars, poolVars, rowVars, RowInv, Batched, Given, Overall, RowStatus, Late
<1>2. CASE Post \/ Recorded \/ RunTool
  <2>1. status' = "none"
    BY <1>2 DEF Post, Recorded, RunTool, PlaceInv, Late
  <2> QED BY <1>2, <2>1 DEF Post, Recorded, RunTool, RowInv, rowVars
<1>3. CASE Loaded
  <2>1. /\ UNCHANGED <<caller, row>> /\ place = "loading"
        /\ status = "none" /\ status' = "none"
    BY <1>3 DEF Loaded, PlaceInv, Late, rowVars
  <2>2. CASE Scan \/ Reject
    <3>1. place' \in {"scan", "rejected"}
      BY <2>2 DEF Scan, Reject
    <3> QED BY <2>1, <3>1, RowInvBefore
  <2>3. CASE UnknownMode
    <3>1. place' = "closing" /\ result' = [a \in Agents |-> "skipped"] /\ 1 \in Agents
      BY <2>3, Limits DEF UnknownMode, Close, Agents
    <3>2. Given' # {}
      BY <3>1 DEF Given
    <3> QED BY <2>1, <3>1, <3>2, RowInvBefore
  <2>4. CASE AllAtOnce \/ FirstAgent
    <3>1. 1 \in Agents
      BY Limits DEF Agents
    <3>2. PICK S \in SUBSET Agents : Launch(S) /\ S # {}
      BY <2>4, <3>1 DEF AllAtOnce, FirstAgent
    <3>3. place' = "batch" /\ (\E a \in Agents : Batched(a))'
      BY <3>2, LaunchFacts DEF Batched
    <3> QED BY <2>1, <3>3, RowInvBefore
  <2> QED BY <1>3, <2>2, <2>3, <2>4 DEF Loaded
<1>4. CASE RoundSettled
  <2>1. /\ UNCHANGED <<caller, row>> /\ place = "batch" /\ result' = settled
        /\ status = "none" /\ status' = "none" /\ todo = {} /\ inflight = {}
    BY <1>4 DEF RoundSettled, Settled, PlaceInv, Late, rowVars
  <2>2. Given' # {}
    BY <2>1 DEF RowInv, Batched, Given
  <2>3. CASE Close
    BY <2>1, <2>2, <2>3, RowInvBefore DEF Close
  <2>4. CASE Launch(Agents)
    <3>1. 1 \in Agents
      BY Limits DEF Agents
    <3>2. place' = "batch" /\ (\E a \in Agents : Batched(a))'
      BY <2>4, <3>1, LaunchFacts DEF Batched
    <3> QED BY <2>1, <3>2, RowInvBefore
  <2> QED BY <1>4, <2>3, <2>4 DEF RoundSettled
<1>5. ASSUME NEW a \in Agents, StageSettled(a) PROVE RowInv'
  <2>1. /\ UNCHANGED <<caller, row>> /\ place = "batch" /\ settled[a] # "none"
        /\ status = "none" /\ status' = "none"
        /\ result \in [Agents -> Results] /\ a \in Int
    BY <1>5 DEF StageSettled, Settled, PlaceInv, Late, rowVars, TypeOK, Agents
  <2>2. Given' # {}
    BY <1>5, <2>1 DEF StageSettled, Given
  <2>3. CASE Close
    BY <2>1, <2>2, <2>3, RowInvBefore DEF Close
  <2>4. CASE a < NumAgents /\ Launch({a + 1})
    <3>1. a + 1 \in Agents
      BY <2>4, Limits DEF Agents
    <3>2. place' = "batch" /\ (\E b \in Agents : Batched(b))'
      BY <2>4, <3>1, LaunchFacts DEF Batched
    <3> QED BY <2>1, <3>2, RowInvBefore
  <2> QED BY <1>5, <2>3, <2>4 DEF StageSettled
<1>6. CASE WaveSettled \/ \E a \in Agents : VisitNode(a)
  <2>1. /\ UNCHANGED <<caller, row>> /\ place \in {"batch", "scan"}
        /\ status = "none" /\ status' = "none" /\ place' = "scan"
    BY <1>6 DEF WaveSettled, VisitNode, Visit, Settled, PlaceInv, Late, rowVars
  <2> QED BY <2>1, RowInvBefore
<1>7. CASE NothingReady
  <2>1. /\ UNCHANGED <<caller, row>> /\ place = "scan" /\ input.mode = "graph"
        /\ status = "none" /\ status' = "none" /\ place' \in {"scan", "closing"}
        /\ UNCHANGED input
    BY <1>7 DEF NothingReady, PassEnds, Close, PlaceInv, RoundInv, Late, rowVars
  <2>2. ASSUME place' = "closing" PROVE Given' # {}
    <3>1. 1 \in Agents /\ Done(1)'
      BY <2>1, <2>2, Limits DEF GraphInv, GraphOver, Agents
    <3> QED BY <3>1 DEF Given, Done
  <2> QED BY <2>1, <2>2, RowInvBefore
<1>8. CASE Wave
  <2>1. /\ UNCHANGED <<caller, row>> /\ place = "scan" /\ Launch(ready)
        /\ status = "none" /\ status' = "none" /\ ready # {} /\ ready \in SUBSET Agents
    BY <1>8 DEF Wave, PassEnds, PlaceInv, Late, rowVars, TypeOK
  <2>2. place' = "batch" /\ (\E b \in Agents : Batched(b))'
    BY <2>1, LaunchFacts DEF Batched
  <2> QED BY <2>1, <2>2, RowInvBefore
<1>9. CASE Closed
  <2>1. /\ UNCHANGED <<caller, row, result>> /\ place = "closing" /\ place' = "persisting"
        /\ status' = Overall
    BY <1>9 DEF Closed, rowVars
  <2>2. Given' = Given /\ Overall' = Overall
    BY <2>1 DEF Given, Overall
  <2> QED BY <2>1, <2>2 DEF RowInv, Late
<1>10. CASE Persisted \/ Stored
  <2>1. /\ UNCHANGED <<caller, result, status>> /\ place \in {"persisting", "storing"}
        /\ place' \in {"storing", "ended"} /\ status # "none"
        /\ Persist(RowStatus)
    BY <1>10 DEF Persisted, Stored, PlaceInv
  <2>2. Given' = Given /\ Overall' = Overall /\ RowStatus' = RowStatus
    BY <2>1 DEF Given, Overall, RowStatus
  <2>3. /\ MaxFaults \in Int /\ faults \in Int
        /\ MaxFaults - faults >= 0
    BY Limits DEF TypeOK
  <2>4. CASE Persisted
    <3>1. caller = "route" => row # "none"
      BY <2>1, <2>4 DEF Persisted, RowInv
    <3>2. caller = "route" => row' = RowStatus \/ MaxFaults - faults' >= 1
      BY <2>1, <2>3, <3>1 DEF Persist
    <3>3. row # "none" => row' # "none"
      BY <2>1 DEF Persist, RowStatus
    <3>4. IF caller = "route" THEN place' = "storing" ELSE place' = "ended"
      BY <2>4 DEF Persisted
    <3> QED BY <2>1, <2>2, <2>4, <3>1, <3>2, <3>3, <3>4 DEF RowInv, Late
  <2>5. CASE Stored
    <3>1. caller = "route" /\ row # "none" /\ place' = "ended"
          /\ (row = RowStatus \/ MaxFaults - faults >= 1)
      BY <2>1, <2>5 DEF Stored, RowInv
    <3>2. row' = RowStatus \/ MaxFaults - faults' >= 2
      BY <2>1, <2>3, <3>1 DEF Persist
    <3>3. row' # "none"
      BY <2>1, <3>1 DEF Persist, RowStatus
    <3> QED BY <2>1, <2>2, <3>1, <3>2, <3>3 DEF RowInv, Late
  <2> QED BY <1>10, <2>4, <2>5
<1>11. CASE Caught
  <2>1. /\ UNCHANGED <<caller, result, status>> /\ status = "none" /\ place = "rejected"
        /\ place' = "ended" /\ Persist("failed")
    BY <1>11 DEF Caught, PlaceInv, Late
  <2>2. row # "none" => row' # "none"
    BY <2>1 DEF Persist
  <2> QED BY <2>1, <2>2 DEF RowInv
<1>12. ASSUME NEW a \in Agents, AgentEnds(a) PROVE RowInv'
  <2>1. /\ UNCHANGED <<caller, row, result, place>> /\ place = "batch"
        /\ status = "none" /\ status' = "none"
    BY <1>12 DEF AgentEnds, PlaceInv, Late, rowVars
  <2>2. PICK outcome \in OutcomesOf(a) : settled' = [settled EXCEPT ![a] = outcome]
    BY <1>12 DEF AgentEnds
  <2>3. outcome # "none"
    <3>1. CASE round = 2 /\ ~Reviews(a)
      BY <2>2, <3>1 DEF OutcomesOf, CouncilInv, RoundInv
    <3>2. CASE ~(round = 2 /\ ~Reviews(a))
      <4>1. OutcomesOf(a) = Outcomes
        BY <3>2 DEF OutcomesOf
      <4> QED BY <2>2, <4>1 DEF Outcomes
    <3> QED BY <3>1, <3>2
  <2>4. settled'[a] # "none"
    BY <2>2, <2>3 DEF TypeOK
  <2>5. (\E b \in Agents : Batched(b))'
    BY <2>4 DEF Batched
  <2> QED BY <2>1, <2>5, RowInvBefore
<1> QED BY <1>1, <1>2, <1>3, <1>4, <1>5, <1>6, <1>7, <1>8, <1>9, <1>10, <1>11, <1>12
        DEF Next, EngineStep

\* One failing query never keeps the row of a workflow from ending as its results
\* say, in any mode.
THEOREM RowTellsResults == Spec => []RowReportsResults
<1>1. Init => RowInv /\ CouncilInv
  BY DEF Init, RowInv, CouncilInv, Late, Given
<1>2. EngineInv /\ RowInv => RowReportsResults
  <2> SUFFICES ASSUME EngineInv, RowInv, place = "ended", caller = "route",
                      status # "none", MaxFaults - faults < 2
               PROVE  IF \A a \in Agents : result[a] # "failed"
                      THEN row = "completed" ELSE row = "failed"
    BY DEF RowReportsResults
  <2>1. MaxFaults \in Int /\ faults \in Int
    BY Limits DEF EngineInv, PInv, TypeOK
  <2>2. row = RowStatus /\ status = Overall /\ Given # {}
    BY <2>1 DEF RowInv
  <2>3. status = "completed" <=> \A a \in Agents : result[a] # "failed"
    BY <2>2 DEF Overall, Given
  <2> QED BY <2>2, <2>3 DEF RowStatus
<1> QED BY <1>1, <1>2, EngineInvInit, EngineInvNext, CouncilInvNext, RowInvNext, PTL DEF Spec

-----------------------------------------------------------------------------
(* What WorkflowEnds rests on: every step brings a workflow closer to its end. *)

Phase ==
  CASE place = "idle"                  -> 7
    [] place = "recording"             -> 6
    [] place = "loading"               -> 5
    [] place \in {"scan", "batch"}     -> 4
    [] place \in {"closing", "rejected"} -> 3
    [] place = "persisting"            -> 2
    [] place = "storing"               -> 1
    [] OTHER                           -> 0

WithoutResult == {a \in Agents : result[a] = "none"}
ToDecide      == Cardinality(WithoutResult)

\* A pass that has made progress is followed by another one.
Pass ==
  CASE place = "scan" /\ progress  -> 2
    [] place = "scan" /\ ~progress -> 1
    [] OTHER                       -> 0

ToGo ==
  IF place = "scan" THEN NumAgents + 1 - cursor ELSE Cardinality(todo \cup inflight)

\* A step ends a phase or a round, gives an agent its result, ends a pass, or is
\* one of the agents of a pass or a batch.
WorkflowProgresses ==
  [][\/ Phase' < Phase
     \/ /\ Phase' = Phase
        /\ \/ round' > round
           \/ /\ round' = round
              /\ \/ ToDecide' < ToDecide
                 \/ ToDecide' = ToDecide /\ Pass' < Pass
                 \/ ToDecide' = ToDecide /\ Pass' = Pass /\ ToGo' < ToGo]_vars

LEMMA FewerToDecide ==
  ASSUME \A b \in Agents : result'[b] = "none" => result[b] = "none",
         NEW a \in Agents, result[a] = "none", result'[a] # "none"
  PROVE  ToDecide' < ToDecide
<1> DEFINE before == {b \in Agents : result[b] = "none"}
           after  == {b \in Agents : result'[b] = "none"}
<1>1. after \subseteq before /\ after # before /\ before \subseteq Agents
  OBVIOUS
<1> HIDE DEF before, after
<1>2. IsFiniteSet(before)
  BY <1>1, AgentsFinite, FS_Subset
<1>3. /\ Cardinality(after) <= Cardinality(before)
      /\ Cardinality(after) # Cardinality(before)
      /\ Cardinality(after) \in Nat /\ Cardinality(before) \in Nat
  BY <1>1, <1>2, FS_Subset, FS_CardinalityType
<1>4. ToDecide = Cardinality(before) /\ ToDecide' = Cardinality(after)
  BY DEF ToDecide, WithoutResult, before, after
<1> QED BY <1>3, <1>4

\* For any team, limit, graph and conditions every step of a workflow brings it
\* closer to its end; a graph cannot keep the engine in its passes.
THEOREM EveryStepProgresses == Spec => WorkflowProgresses
<1>1. EngineInv /\ RowInv /\ [Next]_vars =>
        [\/ Phase' < Phase
         \/ /\ Phase' = Phase
            /\ \/ round' > round
               \/ /\ round' = round
                  /\ \/ ToDecide' < ToDecide
                     \/ ToDecide' = ToDecide /\ Pass' < Pass
                     \/ ToDecide' = ToDecide /\ Pass' = Pass /\ ToGo' < ToGo]_vars
  <2> DEFINE Goal ==
        \/ Phase' < Phase
        \/ /\ Phase' = Phase
           /\ \/ round' > round
              \/ /\ round' = round
                 /\ \/ ToDecide' < ToDecide
                    \/ ToDecide' = ToDecide /\ Pass' < Pass
                    \/ ToDecide' = ToDecide /\ Pass' = Pass /\ ToGo' < ToGo
  <2> SUFFICES ASSUME EngineInv, RowInv, Next PROVE Goal
    OBVIOUS
  <2>1. CASE Post \/ RunTool \/ Recorded \/ Closed \/ Persisted \/ Stored \/ Caught
    BY <2>1 DEF Post, RunTool, Recorded, Closed, Persisted, Stored, Caught, Phase
  <2>2. CASE Loaded
    <3>1. place = "loading" /\ place' \in {"batch", "scan", "rejected", "closing"}
      BY <2>2 DEF Loaded, AllAtOnce, FirstAgent, Scan, Reject, UnknownMode, Launch, Close
    <3> QED BY <3>1 DEF Phase
  <2>3. CASE RoundSettled
    <3>1. place = "batch"
          /\ \/ place' = "closing"
             \/ place' = "batch" /\ round = 1 /\ round' = 2
      BY <2>3 DEF RoundSettled, Settled, Close, Launch
    <3> QED BY <3>1 DEF Phase
  <2>4. ASSUME NEW a \in Agents, StageSettled(a) PROVE Goal
    <3>1. place = "batch" /\ round' = round /\ place' \in {"batch", "closing"}
      BY <2>4 DEF StageSettled, Settled, Close, Launch
    <3>2. CASE place' = "closing"
      BY <3>1, <3>2 DEF Phase
    <3>3. CASE place' = "batch"
      <4>1. /\ settled[a] # "none" /\ input.mode = "pipeline"
            /\ result' = [result EXCEPT ![a] = settled[a]]
        BY <2>4, <3>3 DEF StageSettled, Close
      <4>2. result[a] = "none"
        <5>1. PICK k \in Agents :
                /\ \A b \in Agents : Batched(b) <=> b = k
                /\ \A b \in Agents :
                     IF b < k THEN Completed(result[b]) ELSE result[b] = "none"
          BY <3>1, <4>1 DEF EngineInv, PipelineInv
        <5>2. a = k
          BY <4>1, <5>1 DEF Batched
        <5>3. ~(k < k)
          BY DEF Agents
        <5> QED BY <5>1, <5>2, <5>3
      <4>3. result \in [Agents -> Results]
        BY DEF EngineInv, PInv, TypeOK
      <4>4. ToDecide' < ToDecide
        <5>1. \A b \in Agents : result'[b] = "none" => result[b] = "none"
          BY <4>1, <4>2, <4>3
        <5>2. result'[a] # "none"
          BY <4>1, <4>3
        <5> QED BY <4>2, <5>1, <5>2, FewerToDecide
      <4>5. Phase' = Phase
        BY <3>1, <3>3 DEF Phase
      <4> QED BY <3>1, <4>4, <4>5
    <3> QED BY <3>1, <3>2, <3>3
  <2>5. CASE WaveSettled
    <3>1. /\ place = "batch" /\ place' = "scan" /\ round' = round
          /\ todo = {} /\ inflight = {} /\ input.mode = "graph"
          /\ result' = [a \in Agents |->
                          IF settled[a] # "none" THEN settled[a] ELSE result[a]]
      BY <2>5 DEF WaveSettled, Settled
    <3>2. PICK a \in Agents : settled[a] # "none"
      BY <3>1 DEF RowInv, Batched
    <3>3. result[a] = "none"
      BY <3>1, <3>2 DEF EngineInv, GraphInv, InGraph, Batched, Runnable, Done
    <3>4. \A b \in Agents : result'[b] = "none" => result[b] = "none"
      BY <3>1
    <3>5. result'[a] # "none"
      BY <3>1, <3>2
    <3>6. ToDecide' < ToDecide
      BY <3>3, <3>4, <3>5, FewerToDecide
    <3>7. Phase' = Phase
      BY <3>1 DEF Phase
    <3> QED BY <3>1, <3>6, <3>7
  <2>6. ASSUME NEW a \in Agents, VisitNode(a) PROVE Goal
    <3>1. /\ place = "scan" /\ place' = "scan" /\ round' = round
          /\ cursor = a /\ cursor' = a + 1
      BY <2>6 DEF VisitNode, Visit
    <3>2. Phase' = Phase
      BY <3>1 DEF Phase
    <3>3. CASE result' = result /\ progress' = progress
      <4>1. ToDecide' = ToDecide /\ Pass' = Pass
        BY <3>1, <3>3 DEF ToDecide, WithoutResult, Pass
      <4>2. ToGo' < ToGo
        BY <3>1, Limits DEF ToGo, Agents
      <4> QED BY <3>1, <3>2, <4>1, <4>2
    <3>4. CASE ~Undecided(a) /\ Skip(a)
      <4>1. result[a] = "none" /\ result' = [result EXCEPT ![a] = "skipped"]
        BY <3>4 DEF Undecided, Done, Skip
      <4>2. result \in [Agents -> Results]
        BY DEF EngineInv, PInv, TypeOK
      <4>3. \A b \in Agents : result'[b] = "none" => result[b] = "none"
        BY <4>1, <4>2
      <4>4. result'[a] # "none"
        BY <4>1, <4>2
      <4> QED BY <3>1, <3>2, <4>1, <4>3, <4>4, FewerToDecide
    <3> QED BY <2>6, <3>3, <3>4 DEF VisitNode
  <2>7. CASE NothingReady \/ Wave
    <3>1. /\ place = "scan" /\ round' = round /\ result' = result /\ progress' = FALSE
          /\ \/ place' = "closing" \/ place' = "batch"
             \/ progress /\ place' = place
      BY <2>7 DEF NothingReady, Wave, PassEnds, Close, Restart, Launch
    <3>2. ToDecide' = ToDecide
      BY <3>1 DEF ToDecide, WithoutResult
    <3>3. CASE place' = "closing"
      BY <3>1, <3>3 DEF Phase
    <3>4. CASE place' = "batch" \/ (progress /\ place' = place)
      <4>1. Phase' = Phase
        BY <3>1, <3>4 DEF Phase
      <4>2. progress \in BOOLEAN
        BY DEF EngineInv, PInv, TypeOK
      <4>3. Pass' < Pass
        BY <3>1, <3>4, <4>2 DEF Pass
      <4> QED BY <3>1, <3>2, <4>1, <4>3
    <3> QED BY <3>1, <3>3, <3>4
  <2>8. ASSUME NEW a \in Agents, AgentEnds(a) PROVE Goal
    <3>1. /\ a \in inflight /\ RunNext(a)
          /\ UNCHANGED <<place, round, result, cursor, progress>>
      BY <2>8 DEF AgentEnds, scanVars
    <3>2. place = "batch"
      BY <3>1 DEF EngineInv, PInv, PlaceInv
    <3>3. todo' \cup inflight' = (todo \cup inflight) \ {a}
      BY <3>1, <3>2, RunNextFacts DEF EngineInv, PInv, TypeOK, PoolBusy
    <3> DEFINE open == todo \cup inflight
    <3>4. IsFiniteSet(open) /\ a \in open
      BY <3>1, AgentsFinite, FS_Subset DEF EngineInv, PInv, TypeOK
    <3>5. Cardinality(open) \in Nat /\ Cardinality(open \ {a}) = Cardinality(open) - 1
      BY <3>4, FS_RemoveElement, FS_CardinalityType
    <3>6. ToGo = Cardinality(open) /\ ToGo' = Cardinality(open \ {a})
      BY <3>1, <3>2, <3>3 DEF ToGo
    <3>7. Phase' = Phase /\ ToDecide' = ToDecide /\ Pass' = Pass
      BY <3>1 DEF Phase, ToDecide, WithoutResult, Pass
    <3> QED BY <3>1, <3>5, <3>6, <3>7
  <2> QED BY <2>1, <2>2, <2>3, <2>4, <2>5, <2>6, <2>7, <2>8 DEF Next, EngineStep
<1>2. Init => RowInv /\ CouncilInv
  BY DEF Init, RowInv, CouncilInv, Late, Given
<1> QED BY <1>1, <1>2, EngineInvInit, EngineInvNext, CouncilInvNext, RowInvNext, PTL
        DEF Spec, WorkflowProgresses

\* A batch has an agent whose end is awaited or is over, and then the code knows
\* what to do next; a pass stands at an agent or at its end.
WorkflowGoesOn ==
  /\ place = "batch" =>
       \/ inflight # {}
       \/ /\ Settled
          /\ \/ input.mode \in {"single", "parallel", "council", "graph"}
             \/ input.mode = "pipeline" /\ \E a \in Agents : settled[a] # "none"
  /\ place = "scan" => cursor \in Agents \/ PassEnds
  /\ place = "storing" => caller = "route"

ModeInv == place = "batch" => input.mode # "other"

LEMMA ModeInvNext == EngineInv /\ ModeInv /\ [Next]_vars => ModeInv'
<1> SUFFICES ASSUME EngineInv, ModeInv, [Next]_vars, place' = "batch"
             PROVE  input'.mode # "other"
  BY DEF ModeInv
<1>1. input' = input
  BY DEF Next, EngineStep, Post, Recorded, RunTool, Loaded, RoundSettled, StageSettled,
     WaveSettled, VisitNode, NothingReady, Wave, Closed, Persisted, Stored, Caught,
     AgentEnds, vars
<1>2. CASE place = "batch"
  BY <1>1, <1>2 DEF ModeInv
<1>3. CASE place # "batch"
  <2>1. Loaded \/ Wave
    BY <1>3 DEF Next, EngineStep, Post, Recorded, RunTool, RoundSettled, StageSettled,
       WaveSettled, Settled, VisitNode, Visit, NothingReady, Close, PassEnds, Closed,
       Persisted, Stored, Caught, AgentEnds, vars
  <2>2. CASE Loaded
    BY <1>1, <2>2 DEF Loaded, AllAtOnce, FirstAgent, Scan, Reject, UnknownMode, Close
  <2>3. CASE Wave
    BY <1>1, <2>3 DEF Wave, PassEnds, EngineInv, RoundInv
  <2> QED BY <2>1, <2>2, <2>3
<1> QED BY <1>2, <1>3

\* For any team and graph, a workflow under way is never stuck among its agents.
THEOREM NeverStuck == Spec => []WorkflowGoesOn
<1>1. EngineInv /\ RowInv /\ ModeInv => WorkflowGoesOn
  <2> SUFFICES ASSUME EngineInv, RowInv, ModeInv PROVE WorkflowGoesOn
    OBVIOUS
  <2> USE DEF EngineInv, PInv
  <2>1. ASSUME place = "batch", inflight = {}
        PROVE  /\ Settled
               /\ \/ input.mode \in {"single", "parallel", "council", "graph"}
                  \/ input.mode = "pipeline" /\ \E a \in Agents : settled[a] # "none"
    <3>1. Cardinality(inflight) = 0
      BY <2>1, FS_EmptySet
    <3>2. todo = {}
      BY <2>1, <3>1, Limits DEF PoolBusy, Busy
    <3>3. \E a \in Agents : settled[a] # "none"
      BY <2>1, <3>2 DEF RowInv, Batched
    <3>4. input.mode \in Modes /\ input.mode # "other"
      BY <2>1, InputTypes DEF ModeInv
    <3> QED BY <2>1, <3>2, <3>3, <3>4 DEF Settled, Modes
  <2>2. place = "scan" => cursor \in Agents \/ PassEnds
    <3>1. cursor \in 1 .. NumAgents + 1
      BY DEF TypeOK
    <3> QED BY <3>1, Limits DEF PassEnds, Agents
  <2> QED BY <2>1, <2>2 DEF WorkflowGoesOn, RowInv
<1>2. Init => RowInv /\ CouncilInv /\ ModeInv
  BY DEF Init, RowInv, CouncilInv, ModeInv, Late, Given
<1> QED BY <1>1, <1>2, EngineInvInit, EngineInvNext, CouncilInvNext, RowInvNext,
        ModeInvNext, PTL DEF Spec
===============================================================================
