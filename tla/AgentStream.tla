----------------------------- MODULE AgentStream -----------------------------
(***************************************************************************)
(* POST /agents/run-stream (server/routes/agents.ts): a run whose events a *)
(* client reads as a stream, which the client may leave, and which may ask *)
(* its user questions and wait for the answers (the ask_user tool,         *)
(* waitForUserAnswer and resolveUserAnswer of the orchestrator).           *)
(*                                                                         *)
(* Every run has two ids: the task id runSingle makes, which names its row *)
(* and its controller, and the id the runner makes for itself, which its   *)
(* events carry.  The tool registry has one execution context for all runs.*)
(***************************************************************************)
EXTENDS AgentTasks

CONSTANTS
  None,      \* no run, no question, and the empty pendingTaskId
  Questions  \* bound: the questions all runs ask together

\* The id the runner of t makes, different from t and from every other.
RunnerId(t) == <<"run", t>>
RunnerIds   == {RunnerId(t) : t \in Singles}
Keys        == RunnerIds \cup {None}

ASSUME ASAssumption ==
  /\ None \notin Rows \cup Questions
  /\ Rows = Singles
  /\ \A t \in Singles : RunnerId(t) \notin Rows

VARIABLES
  context,    \* the run whose callback the tool registry holds
  announced,  \* pendingTaskId of each stream, None before its start event
  left,       \* streams whose client has disconnected
  resolver,   \* pendingUserAnswers: id -> the question its promise belongs to
  question    \* the questions: the run that asks, and whether it is open

streamVars == <<context, announced, left, resolver, question>>
allVars    == <<taskVars, streamVars>>

Init ==
  /\ TaskInit
  /\ context = None
  /\ announced = [t \in Singles |-> None]
  /\ left = {}
  /\ resolver = [k \in Keys |-> None]
  /\ question = [q \in Questions |-> [run |-> None, st |-> "new"]]

Open(q)    == question[q].st = "open"
Waiting(t) == \E q \in Questions : Open(q) /\ question[q].run = t

-----------------------------------------------------------------------------
\* The request replaces the execution context and calls runSingle.
Request(t) ==
  /\ Call(t)
  /\ context' = t
  /\ UNCHANGED <<announced, left, resolver, question>>

\* The runner's start event carries the runner's id.
Announce(t) ==
  /\ at[t] = "agent" /\ announced[t] = None
  /\ announced' = [announced EXCEPT ![t] = RunnerId(t)]
  /\ UNCHANGED <<taskVars, context, left, resolver, question>>

\* onAbort: cancel(pendingTaskId), once there is one.
Leave(t) ==
  /\ at[t] # "idle" /\ t \notin left
  /\ left' = left \cup {t}
  /\ IF announced[t] \in controllers
     THEN Cancel(announced[t])
     ELSE UNCHANGED taskVars
  /\ UNCHANGED <<context, announced, resolver, question>>

\* ask_user: the callback in the execution context may be another run's, and the
\* tools of one turn that are safe to run side by side include ask_user.
Ask(t, q) ==
  /\ at[t] = "agent" /\ announced[t] # None
  /\ question[q].st = "new"
  /\ question' = [question EXCEPT ![q] = [run |-> t, st |-> "open"]]
  /\ resolver' = [resolver EXCEPT ![announced[context]] = q]
  /\ UNCHANGED <<taskVars, context, announced, left>>

\* Mutant of Reply: the entry that was resolved is not deleted.
ReplyKeepsEntry(k) ==
  /\ resolver[k] # None
  /\ question' = [question EXCEPT ![resolver[k]].st = "answered"]
  /\ UNCHANGED <<taskVars, context, announced, left, resolver>>

\* POST /agents/message/:taskId with the id the question was shown with.
Reply(k) ==
  /\ resolver[k] # None
  /\ question' = [question EXCEPT ![resolver[k]].st = "answered"]
  /\ resolver' = [resolver EXCEPT ![k] = None]
  /\ UNCHANGED <<taskVars, context, announced, left>>

\* A runner that waits for a tool does not look at its signal.
RunStep(t) ==
  /\ at[t] = "agent" => announced[t] # None /\ ~Waiting(t)
  /\ SingleStep(t)
  /\ UNCHANGED streamVars

-----------------------------------------------------------------------------
Next ==
  \/ Cancellation /\ UNCHANGED streamVars
  \/ \E t \in Singles :
       \/ Request(t) \/ Announce(t) \/ Leave(t) \/ RunStep(t)
       \/ \E q \in Questions : Ask(t, q)
  \/ \E k \in RunnerIds : Reply(k)

Spec == Init /\ [][Next]_allVars

\* Queries come back, the runner starts, and one that looks at a signal that has
\* fired stops.  Nobody has to answer a question, or to cancel.
Fairness ==
  \A t \in Singles :
    /\ WF_allVars(at[t] # "agent" /\ RunStep(t))
    /\ WF_allVars(Announce(t))
    /\ WF_allVars(AgentAborted(t) /\ RunStep(t))

FairSpec == Spec /\ Fairness

-----------------------------------------------------------------------------
(* Properties.                                                             *)

TypeOK ==
  /\ TaskTypeOK
  /\ context \in Singles \cup {None}
  /\ announced \in [Singles -> Keys]
  /\ left \subseteq Singles
  /\ resolver \in [Keys -> Questions \cup {None}]
  /\ question \in [Questions -> [run: Singles \cup {None},
                                 st: {"new", "open", "answered"}]]

\* An entry of pendingUserAnswers belongs to an open question of a run that is
\* still parked in its agent, and to one entry only: no answer is swallowed by a
\* question that is over, or by a run that has ended.  What goes wrong takes two:
\* an entry has another id than its run's only when there is another stream, and
\* an open question has lost its entry only when another one has been asked, so
\* that one stream with one question can be answered under its own id
\* (orchestrator.ts:427-445).
AnswersFindTheirRun ==
  /\ \A k \in Keys : resolver[k] # None =>
       LET t == question[resolver[k]].run IN
         /\ Open(resolver[k]) /\ at[t] = "agent"
         /\ \A l \in Keys : resolver[l] = resolver[k] => l = k
         /\ k = RunnerId(t) \/ \E u \in Singles \ {t} : at[u] # "idle"
  /\ \A q \in Questions : Open(q) =>
       \/ \E k \in Keys : resolver[k] = q
       \/ \E p \in Questions \ {q} : question[p].st # "new"

\* Cancelling a run ends it, wherever the cancellation meets it: before the
\* write of "running", in the agent or while the result is stored.  The exception
\* is a run that waits for an answer, which cancel() does not wake.
CancelledRunsEnd ==
  \A t \in Singles : t \in aborted ~> (Ended(t) \/ Waiting(t))

\* "Detect client disconnect and cancel the running task" (agents.ts:265): the
\* step in which the client of an announced run leaves fires its signal.
LeavingCancels ==
  [][\A t \in Singles :
       t \in left' \ left /\ announced[t] # None /\ at[t] = "agent"
         => t \in aborted']_allVars
=============================================================================
