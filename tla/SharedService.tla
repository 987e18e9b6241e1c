---------------------------- MODULE SharedService ----------------------------
(***************************************************************************)
(* getSharedManager and parse of document-processors/docling-processor.ts: *)
(* one Docling process shared by every document that is being parsed, and  *)
(* started again by the next caller once it has died.  The Whisper client  *)
(* (subprocess/whisper-client.ts) follows the same code.                   *)
(*                                                                         *)
(* A call of parse() is named by the request it may send.  A manager starts*)
(* one child in its life, so the child is named as its manager.            *)
(***************************************************************************)
EXTENDS SubprocessManager

CONSTANTS
  Service,   \* "docling"
  Polls      \* how often a caller looks whether another's start is over

ASSUME SSAssumption ==
  /\ Names = {Service}
  /\ Children = Managers
  /\ Polls \in Nat \ {0}

VARIABLES
  shared,    \* _sharedMgr
  starting,  \* _sharedMgrStarting
  call       \* the parse() calls

ssVars == <<shared, starting, call>>
allVars == <<smVars, ssVars>>

Places == {"idle", "importing", "stabilizing", "waiting", "configuring",
           "parsing", "ended"}
Call   == [at: Places, mgr: Managers \cup {None}, polls: 0 .. Polls]

IsRunning(m) == m # None /\ entry[m][Service] # None

Init ==
  /\ SMInit
  /\ shared = None
  /\ starting = FALSE
  /\ call = [r \in Requests |-> [at |-> "idle", mgr |-> None, polls |-> 0]]

Goto(r, at)      == call' = [call EXCEPT ![r].at = at]
Use(r, m)        == call' = [call EXCEPT ![r].at = "configuring", ![r].mgr = m]

-----------------------------------------------------------------------------
(* getSharedManager().                                                     *)

\* The running manager is handed out at once.
GetRunning(r) ==
  /\ call[r].at = "idle" /\ IsRunning(shared)
  /\ Use(r, shared)
  /\ UNCHANGED <<smVars, shared, starting>>

\* Mutant of GetStarted: nobody looks whether another caller is starting it.
GetStartedUnguarded(r) ==
  /\ call[r].at = "idle" /\ ~IsRunning(shared)
  /\ \E m \in Managers :
       /\ Unborn(m) /\ \A q \in Requests : call[q].mgr # m
       /\ call' = [call EXCEPT ![r].at = "importing", ![r].mgr = m]
  /\ shared' = None
  /\ starting' = TRUE
  /\ UNCHANGED smVars

\* A dead manager is dropped (its stop() finds no process) and a new one made.
GetStarted(r) ==
  /\ call[r].at = "idle" /\ ~IsRunning(shared) /\ ~starting
  /\ \E m \in Managers :
       /\ Unborn(m) /\ \A q \in Requests : call[q].mgr # m
       /\ call' = [call EXCEPT ![r].at = "importing", ![r].mgr = m]
  /\ shared' = None
  /\ starting' = TRUE
  /\ UNCHANGED smVars

GetWaiting(r) ==
  /\ call[r].at = "idle" /\ ~IsRunning(shared) /\ starting
  /\ call' = [call EXCEPT ![r].at = "waiting", ![r].polls = Polls]
  /\ shared' = None
  /\ UNCHANGED <<smVars, starting>>

Launch(r) ==
  /\ call[r].at = "importing"
  /\ Start(call[r].mgr, Service, call[r].mgr)
  /\ Goto(r, "stabilizing")
  /\ UNCHANGED <<shared, starting>>

\* Mutant of LaunchFails: no finally resets _sharedMgrStarting.
LaunchFailsStuck(r) ==
  /\ call[r].at = "importing"
  /\ Goto(r, "ended")
  /\ UNCHANGED <<smVars, shared, starting>>

\* An import or the spawn itself throws.
LaunchFails(r) ==
  /\ call[r].at = "importing"
  /\ Goto(r, "ended")
  /\ starting' = FALSE
  /\ UNCHANGED <<smVars, shared>>

\* Mutant of Stabilized: the started manager is used but not remembered.
StabilizedForgets(r) ==
  /\ call[r].at = "stabilizing"
  /\ child[call[r].mgr].st # "starting"
  /\ starting' = FALSE
  /\ IF IsRunning(call[r].mgr) THEN Goto(r, "configuring") ELSE Goto(r, "ended")
  /\ UNCHANGED <<smVars, shared>>

\* Three seconds after start() returned.
Stabilized(r) ==
  /\ call[r].at = "stabilizing"
  /\ child[call[r].mgr].st # "starting"
  /\ starting' = FALSE
  /\ IF IsRunning(call[r].mgr)
     THEN shared' = call[r].mgr /\ Goto(r, "configuring")
     ELSE UNCHANGED shared /\ Goto(r, "ended")
  /\ UNCHANGED smVars

\* One of the 200 ms sleeps of a caller that waits for another's start.
Poll(r) ==
  /\ call[r].at = "waiting"
  /\ IF IsRunning(shared) THEN Use(r, shared)
     ELSE IF starting /\ call[r].polls > 1
     THEN call' = [call EXCEPT ![r].polls = @ - 1]
     ELSE Goto(r, "ended")
  /\ UNCHANGED <<smVars, shared, starting>>

-----------------------------------------------------------------------------
(* parse() once it has a manager: read the settings, send, await.          *)

Parse(r) ==
  /\ call[r].at = "configuring"
  /\ Send(call[r].mgr, Service, r)
  /\ Goto(r, "parsing")
  /\ UNCHANGED <<shared, starting>>

\* send() throws: the process went away while the settings were read.
ParseTooLate(r) ==
  /\ call[r].at = "configuring" /\ ~IsRunning(call[r].mgr)
  /\ Goto(r, "ended")
  /\ UNCHANGED <<smVars, shared, starting>>

\* The promise has settled: a document, an error or an exception.
Finish(r) ==
  /\ call[r].at = "parsing" /\ request[r].st # "waiting"
  /\ Goto(r, "ended")
  /\ UNCHANGED <<smVars, shared, starting>>

-----------------------------------------------------------------------------
Step(r) ==
  \/ GetRunning(r) \/ GetStarted(r) \/ GetWaiting(r)
  \/ Launch(r) \/ LaunchFails(r) \/ Stabilized(r) \/ Poll(r)
  \/ Parse(r) \/ ParseTooLate(r) \/ Finish(r)

Underway(r) == call[r].at \notin {"idle", "ended"}

Next ==
  \/ SMEvents /\ UNCHANGED ssVars
  \/ \E r \in Requests : Step(r)

Spec == Init /\ [][Next]_allVars

\* Sleeps, imports, reads of the settings and timers come to an end.
Fairness ==
  /\ \A r \in Requests :
       /\ WF_allVars(Underway(r) /\ Step(r))
       /\ WF_allVars(RequestTimeout(r) /\ UNCHANGED ssVars)
  /\ \A c \in Children : WF_allVars(Spawned(c) /\ UNCHANGED ssVars)

FairSpec == Spec /\ Fairness

-----------------------------------------------------------------------------
(* Properties.                                                             *)

Live(c) == child[c].st \in {"starting", "running"}

\* Type invariant; the manager of a call is known once it has one.
TypeOK ==
  /\ SMTypeOK
  /\ shared \in Managers \cup {None}
  /\ starting \in BOOLEAN
  /\ call \in [Requests -> Call]

\* However many documents are parsed at once and however often the process dies,
\* there is at most one live service process ("prevent concurrent
\* initialization", docling-processor.ts:28).
OneService == \A c, d \in Children : Live(c) /\ Live(d) => c = d

\* A live service process is always reachable: _sharedMgr is its manager, or the
\* call that started it is still going to store it (docling-processor.ts:47-58).
NoOrphanService ==
  \A c \in Children :
    Live(c) => \/ shared = c
               \/ \E r \in Requests : call[r].at = "stabilizing" /\ call[r].mgr = c

\* _sharedMgrStarting is set exactly while one call is starting the service: a
\* failed start never locks later callers out (docling-processor.ts:39, 70-72).
StartFlagOwned ==
  starting <=> \E r \in Requests :
    call[r].at \in {"importing", "stabilizing"}

\* Every parse() call ends, although the process may die at any moment, hang, or
\* fail to start, and although callers wait for each other.
EveryParseEnds == \A r \in Requests : Underway(r) ~> ~Underway(r)
=============================================================================
