------------------------------ MODULE AgentTasks ------------------------------
(***************************************************************************)
(* runSingle and cancel of services/agent/orchestrator.ts, with the rows   *)
(* of agent_tasks they write (store/repos/agent-task.ts).                  *)
(*                                                                         *)
(* A query and the resumption of its caller are one step.  The runner is   *)
(* one step too: it looks at its abort signal before every turn and hands  *)
(* it to the model call, and when aborted it returns like a run that is    *)
(* done (agent-runner.ts:531-534).                                         *)
(***************************************************************************)
EXTENDS Naturals, FiniteSets

CONSTANTS
  Rows,      \* ids in agent_tasks
  Singles,   \* the ids runSingle makes
  MaxFaults  \* bound: queries that fail

ASSUME ATAssumption ==
  /\ Singles \subseteq Rows
  /\ MaxFaults \in Nat

VARIABLES
  row,          \* agent_tasks.status, "none" before the INSERT
  controllers,  \* this.activeControllers
  aborted,      \* tasks whose AbortController has fired
  cancelling,   \* cancel()'s unawaited status writes
  at,           \* where each run is parked
  faults        \* queries that may still fail

taskVars == <<row, controllers, aborted, cancelling, at, faults>>

Places == {"idle", "recording", "marking", "agent", "storing", "failing",
           "returned", "threw", "ok", "bad"}

\* Mutant of StatusCheck: the constraint admits the status cancel() writes.
StatusCheckWithCancelled ==
  {"pending", "running", "completed", "failed", "cancelled"}

\* The CHECK constraint of the status column.
StatusCheck == {"pending", "running", "completed", "failed"}

TaskInit ==
  /\ row = [t \in Rows |-> "none"]
  /\ controllers = {}
  /\ aborted = {}
  /\ cancelling = {}
  /\ at = [t \in Rows |-> "idle"]
  /\ faults = MaxFaults

Move(t, p)  == at' = [at EXCEPT ![t] = p]
Write(t, s) == row' = [row EXCEPT ![t] = s] /\ UNCHANGED faults
Fault       == faults > 0 /\ faults' = faults - 1 /\ UNCHANGED row

-----------------------------------------------------------------------------
(* runSingle.                                                              *)

Call(t) ==
  /\ at[t] = "idle"
  /\ Move(t, "recording")
  /\ UNCHANGED <<row, controllers, aborted, cancelling, faults>>

\* create() inserts every row as pending; the controller is registered next.
Recorded(t) ==
  /\ at[t] = "recording"
  /\ \/ Write(t, "pending") /\ controllers' = controllers \cup {t}
        /\ Move(t, "marking")
     \/ Fault /\ Move(t, "threw") /\ UNCHANGED controllers
  /\ UNCHANGED <<aborted, cancelling>>

\* This write stands before the try block: when it fails the controller stays.
Marked(t) ==
  /\ at[t] = "marking"
  /\ \/ Write(t, "running") /\ Move(t, "agent")
     \/ Fault /\ Move(t, "threw")
  /\ UNCHANGED <<controllers, aborted, cancelling>>

\* Mutant of Sees: the runner is given the caller's signal, not the task's.
SeesNothing(t) == FALSE

\* The signal in runOptions is the one cancel() fires.
Sees(t) == t \in aborted

AgentReturns(t) ==
  /\ at[t] = "agent"
  /\ Move(t, "storing")
  /\ UNCHANGED <<row, controllers, aborted, cancelling, faults>>

AgentAborted(t) == Sees(t) /\ AgentReturns(t)

AgentThrows(t) ==
  /\ at[t] = "agent"
  /\ Move(t, "failing")
  /\ UNCHANGED <<row, controllers, aborted, cancelling, faults>>

\* Mutant of Stored: the controller is only removed when the run failed.
StoredKeepsController(t) ==
  /\ at[t] = "storing"
  /\ \/ Write(t, "completed") /\ Move(t, "returned")
     \/ Fault /\ Move(t, "failing")
  /\ UNCHANGED <<controllers, aborted, cancelling>>

\* A failure of this write lands in the catch block.
Stored(t) ==
  /\ at[t] = "storing"
  /\ \/ Write(t, "completed") /\ Move(t, "returned")
        /\ controllers' = controllers \ {t}
     \/ Fault /\ Move(t, "failing") /\ UNCHANGED controllers
  /\ UNCHANGED <<aborted, cancelling>>

Failed(t) ==
  /\ at[t] = "failing"
  /\ \/ Write(t, "failed") /\ Move(t, "returned")
     \/ Fault /\ Move(t, "threw")
  /\ controllers' = controllers \ {t}
  /\ UNCHANGED <<aborted, cancelling>>

-----------------------------------------------------------------------------
(* cancel() answers true when it finds a controller.                       *)

Cancel(t) ==
  /\ t \in controllers
  /\ aborted' = aborted \cup {t}
  /\ controllers' = controllers \ {t}
  /\ cancelling' = cancelling \cup {t}
  /\ UNCHANGED <<row, at, faults>>

\* The write is swallowed when it fails, as the CHECK constraint makes it fail.
CancelWritten(t) ==
  /\ t \in cancelling
  /\ cancelling' = cancelling \ {t}
  /\ row' = IF "cancelled" \in StatusCheck
            THEN [row EXCEPT ![t] = "cancelled"] ELSE row
  /\ UNCHANGED <<controllers, aborted, at, faults>>

-----------------------------------------------------------------------------
SingleStep(t) ==
  \/ Recorded(t) \/ Marked(t) \/ AgentReturns(t) \/ AgentThrows(t)
  \/ Stored(t) \/ Failed(t)

Cancellation == \E t \in Rows : Cancel(t) \/ CancelWritten(t)

-----------------------------------------------------------------------------
(* Properties.                                                             *)

TaskTypeOK ==
  /\ row \in [Rows -> {"none"} \cup StatusCheck]
  /\ controllers \subseteq Rows
  /\ aborted \subseteq Rows
  /\ cancelling \subseteq aborted
  /\ at \in [Rows -> Places]
  /\ faults \in 0 .. MaxFaults

Ended(t) == at[t] \in {"returned", "threw"}

\* activeControllers holds running tasks only, so cancel() never reports success
\* for a run that is over; the one leak left is a run whose write of "running"
\* failed, which stands before the try block (orchestrator.ts:113-149).
ControllersLive ==
  \A t \in Singles : t \in controllers =>
    \/ at[t] \in {"marking", "agent", "storing", "failing"}
    \/ at[t] = "threw" /\ row[t] = "pending"

\* A run that has returned has a final row, whatever cancellations and failing
\* queries it met and in which order cancel()'s own write lands.
ReturnedIsFinal ==
  \A t \in Singles : at[t] = "returned" => row[t] \in {"completed", "failed"}
===============================================================================
