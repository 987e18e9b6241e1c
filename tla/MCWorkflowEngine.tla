--------------------------- MODULE MCWorkflowEngine ---------------------------
(* Instances of WorkflowEngine for TLC: three agents, of whom at most two run  *)
(* at a time, and one condition in a graph.                                    *)
EXTENDS WorkflowEngine

Free     == [a \in Agents |-> {}]
NoGuards == [a \in Agents |-> NoCondition]

\* One way to run a team for each mode besides graph.
Plain ==
  [mode : Modes \ {"graph"}, dependsOn : {Free}, condition : {NoGuards},
   crossReview : BOOLEAN]

\* All graphs on the agents, the cyclic ones included.
Edges == {e \in [Agents -> SUBSET Agents] : \A a \in Agents : a \notin e[a]}

\* A condition on the first or the last agent, so that a pass looks at it before
\* or after it looks at the agent it names.
Guarded ==
  {[NoGuards EXCEPT ![a] = c] : a \in {1, NumAgents},
     c \in {d \in Conditions : d.node # Unknown \/ ~d.given}}

Graphs ==
  [mode : {"graph"}, dependsOn : Edges, condition : Guarded, crossReview : {FALSE}]

\* Ids that name no agent, and an agent that depends on itself.
Broken ==
  [mode : {"graph"}, crossReview : {FALSE},
   dependsOn : {Free, [Free EXCEPT ![1] = {Unknown}], [Free EXCEPT ![1] = {1}]},
   condition : {NoGuards,
     [NoGuards EXCEPT ![1] = [node |-> Unknown, contains |-> FALSE, given |-> TRUE]]}]

AllInputs == Plain \cup Graphs \cup Broken
===============================================================================
