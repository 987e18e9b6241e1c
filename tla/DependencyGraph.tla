---------------------------- MODULE DependencyGraph ----------------------------
(***************************************************************************)
(* What running agents by their dependencies promises: an agent starts     *)
(* once, after everything it depends on has completed, and is given up     *)
(* without having started otherwise.  Nothing is said of waves, limits or  *)
(* the order of the agents.                                                *)
(***************************************************************************)
CONSTANT Nodes    \* the agents

VARIABLES
  needs,     \* needs[n]: the agents n depends on
  optional,  \* the agents that may be given up although nothing failed
  state      \* state[n]: how far agent n is

graphVars == <<needs, optional, state>>

States == {"waiting", "running", "completed", "failed", "skipped"}

Init ==
  /\ needs \in [Nodes -> SUBSET Nodes]
  /\ optional \in SUBSET Nodes
  /\ state = [n \in Nodes |-> "waiting"]

Starts(n) ==
  /\ state[n] = "waiting"
  /\ \A d \in needs[n] : state[d] = "completed"
  /\ state'[n] = "running"

Ends(n) ==
  /\ state[n] = "running"
  /\ state'[n] \in {"completed", "failed"}

\* What n depends on may be given up in the same step.
GivenUp(n) ==
  /\ state[n] = "waiting"
  /\ n \in optional \/ \E d \in needs[n] : state'[d] \in {"failed", "skipped"}
  /\ state'[n] = "skipped"

\* Any number of agents move in one step.
Next ==
  /\ UNCHANGED <<needs, optional>>
  /\ state' \in [Nodes -> States]
  /\ \A n \in Nodes :
       state'[n] = state[n] \/ Starts(n) \/ Ends(n) \/ GivenUp(n)

Spec == Init /\ [][Next]_graphVars
=============================================================================
