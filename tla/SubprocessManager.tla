-------------------------- MODULE SubprocessManager --------------------------
(***************************************************************************)
(* subprocess/manager.ts: child processes that answer JSON lines.          *)
(*                                                                         *)
(* A manager keeps a map from names to children and a map from request ids *)
(* to pending promises, each with a timer.  A child is one spawned process;*)
(* what its code does is external: it may answer a request it was sent,    *)
(* and it may die.  Its exit event is delivered some time after its death. *)
(***************************************************************************)
EXTENDS Naturals, FiniteSets

CONSTANTS
  Managers,     \* SubprocessManager objects
  Names,        \* logical process names
  Children,     \* bound: processes that can be spawned
  Requests,     \* bound: send() calls, one fresh id each
  None,         \* undefined
  AwaitsSpawn   \* TRUE on Node.js, where start() awaits before it spawns

ASSUME SMAssumption ==
  /\ None \notin Children
  /\ AwaitsSpawn \in BOOLEAN

VARIABLES
  entry,     \* this.processes
  child,     \* the children: owner, name and life
  pending,   \* this.pendingRequests
  timers,    \* request timers that are armed
  request,   \* the child a request was written to, and its promise
  answers    \* answers written to a pipe and not read yet

smVars == <<entry, child, pending, timers, request, answers>>

Lives  == {"unborn", "starting", "running", "dead", "gone"}
Child  == [mgr: Managers \cup {None}, name: Names \cup {None}, st: Lives]
States == {"unsent", "waiting", "answered", "timedout", "rejected"}

Unborn(c) == child[c].st = "unborn"
Owned(r)  == child[request[r].child].mgr

SMInit ==
  /\ entry = [m \in Managers |-> [n \in Names |-> None]]
  /\ child = [c \in Children |-> [mgr |-> None, name |-> None, st |-> "unborn"]]
  /\ pending = [m \in Managers |-> {}]
  /\ timers = {}
  /\ request = [r \in Requests |-> [child |-> None, st |-> "unsent"]]
  /\ answers = {}

\* for (const [id, pending] of this.pendingRequests) ... reject.
RejectAll(m) ==
  /\ timers' = timers \ pending[m]
  /\ request' = [r \in Requests |->
       IF r \in pending[m] THEN [request[r] EXCEPT !.st = "rejected"]
                           ELSE request[r]]
  /\ pending' = [pending EXCEPT ![m] = {}]

-----------------------------------------------------------------------------
(* start().  Node.js awaits between the check and the spawn; Bun does not. *)

Spawn(m, n, c) ==
  /\ child' = [child EXCEPT ![c] = [mgr |-> m, name |-> n, st |-> "running"]]
  /\ entry' = [entry EXCEPT ![m][n] = c]

Start(m, n, c) ==
  /\ Unborn(c)
  /\ entry[m][n] = None
  /\ IF AwaitsSpawn
     THEN /\ child' = [child EXCEPT
               ![c] = [mgr |-> m, name |-> n, st |-> "starting"]]
          /\ UNCHANGED entry
     ELSE Spawn(m, n, c)
  /\ UNCHANGED <<pending, timers, request, answers>>

Spawned(c) ==
  /\ child[c].st = "starting"
  /\ Spawn(child[c].mgr, child[c].name, c)
  /\ UNCHANGED <<pending, timers, request, answers>>

-----------------------------------------------------------------------------
(* send(), its answer and its timer.                                       *)

\* Mutant of Send: the check for a running process is gone.
SendUnchecked(m, n, r) ==
  /\ request[r].st = "unsent"
  /\ request' = [request EXCEPT ![r] = [child |-> entry[m][n], st |-> "waiting"]]
  /\ pending' = [pending EXCEPT ![m] = @ \cup {r}]
  /\ timers' = timers \cup {r}
  /\ UNCHANGED <<entry, child, answers>>

Send(m, n, r) ==
  /\ request[r].st = "unsent"
  /\ entry[m][n] # None
  /\ request' = [request EXCEPT ![r] = [child |-> entry[m][n], st |-> "waiting"]]
  /\ pending' = [pending EXCEPT ![m] = @ \cup {r}]
  /\ timers' = timers \cup {r}
  /\ UNCHANGED <<entry, child, answers>>

\* The child answers a line it was sent, even one that has timed out.
Answer(r) ==
  /\ request[r].st \in {"waiting", "timedout"} /\ r \notin answers
  /\ child[request[r].child].st = "running"
  /\ answers' = answers \cup {r}
  /\ UNCHANGED <<entry, child, pending, timers, request>>

\* Mutant of ReadLine: the timer of an answered request stays armed.
ReadLineKeepsTimer(r) ==
  /\ r \in answers
  /\ answers' = answers \ {r}
  /\ IF r \in pending[Owned(r)]
     THEN /\ pending' = [pending EXCEPT ![Owned(r)] = @ \ {r}]
          /\ request' = [request EXCEPT ![r].st = "answered"]
     ELSE UNCHANGED <<pending, request>>
  /\ UNCHANGED <<entry, child, timers>>

\* _handleResponseLine: an id that is no longer pending is ignored.
ReadLine(r) ==
  /\ r \in answers
  /\ answers' = answers \ {r}
  /\ IF r \in pending[Owned(r)]
     THEN /\ timers' = timers \ {r}
          /\ pending' = [pending EXCEPT ![Owned(r)] = @ \ {r}]
          /\ request' = [request EXCEPT ![r].st = "answered"]
     ELSE UNCHANGED <<pending, timers, request>>
  /\ UNCHANGED <<entry, child>>

RequestTimeout(r) ==
  /\ r \in timers
  /\ timers' = timers \ {r}
  /\ pending' = [pending EXCEPT ![Owned(r)] = @ \ {r}]
  /\ request' = [request EXCEPT ![r].st = "timedout"]
  /\ UNCHANGED <<entry, child, answers>>

-----------------------------------------------------------------------------
(* The end of a child.  stop() and stopAll() are not here: nothing calls     *)
(* them on a manager whose process is running.                             *)

Die(c) ==
  /\ child[c].st = "running"
  /\ child' = [child EXCEPT ![c].st = "dead"]
  /\ UNCHANGED <<entry, pending, timers, request, answers>>

\* Mutant of ChildExit: the pending requests are forgotten, timers cleared.
ChildExitDropsRequests(c) ==
  /\ child[c].st = "dead"
  /\ child' = [child EXCEPT ![c].st = "gone"]
  /\ entry' = [entry EXCEPT ![child[c].mgr][child[c].name] = None]
  /\ timers' = timers \ pending[child[c].mgr]
  /\ pending' = [pending EXCEPT ![child[c].mgr] = {}]
  /\ UNCHANGED <<request, answers>>

\* _onProcessExit finds the entry by name, whichever child it now names.
ChildExit(c) ==
  /\ child[c].st = "dead"
  /\ child' = [child EXCEPT ![c].st = "gone"]
  /\ entry' = [entry EXCEPT ![child[c].mgr][child[c].name] = None]
  /\ RejectAll(child[c].mgr)
  /\ UNCHANGED answers

-----------------------------------------------------------------------------
SMEvents ==
  \/ \E c \in Children : Spawned(c) \/ Die(c) \/ ChildExit(c)
  \/ \E r \in Requests : Answer(r) \/ ReadLine(r) \/ RequestTimeout(r)

-----------------------------------------------------------------------------
(* Properties.                                                             *)

\* The type invariant; a request that was sent was written to a child.
SMTypeOK ==
  /\ entry \in [Managers -> [Names -> Children \cup {None}]]
  /\ child \in [Children -> Child]
  /\ pending \in [Managers -> SUBSET Requests]
  /\ timers \subseteq Requests
  /\ request \in [Requests -> [child: Children \cup {None}, st: States]]
  /\ answers \subseteq Requests
  /\ \A r \in Requests : request[r].st # "unsent" => request[r].child # None

\* Every promise send() returned is unsettled exactly while its id is pending in
\* the manager that owns its child and its timer is armed: no path leaks a timer
\* or forgets a promise (the five places of manager.ts that settle a request).
PromisesAccounted ==
  \A r \in Requests :
    /\ request[r].st = "waiting" <=> r \in timers
    /\ \A m \in Managers :
         r \in pending[m] <=> (request[r].st = "waiting" /\ Owned(r) = m)
=============================================================================
