-------------------------- MODULE SharedServiceProofs --------------------------
(***************************************************************************)
(* What holds of the shared Docling process for any number of documents    *)
(* that are parsed at once, on Node.js and on Bun alike.                   *)
(***************************************************************************)
EXTENDS SharedService, TLAPS

LEMMA Names1 ==
  /\ Names = {Service} /\ Children = Managers /\ None \notin Managers
  /\ Polls \in Nat \ {0} /\ AwaitsSpawn \in BOOLEAN
BY SMAssumption, SSAssumption

-----------------------------------------------------------------------------
(* The inductive invariant.                                                *)

Starting(r) == call[r].at \in {"importing", "stabilizing"}

\* A child carries its manager's name, and is its entry while it is known alive.
ChildInv ==
  \A m \in Managers :
    /\ child[m].st # "unborn" => child[m].mgr = m /\ child[m].name = Service
    /\ entry[m][Service] \in {None, m}
    /\ entry[m][Service] = m <=> child[m].st \in {"running", "dead"}

\* What a call's place says of its manager, its child and its request.
CallInv ==
  \A r \in Requests :
    /\ request[r].st # "unsent" =>
         request[r].child \in Managers /\ child[request[r].child].st # "unborn"
    /\ r \in answers => request[r].st # "unsent"
    /\ call[r].at \in {"importing", "stabilizing", "configuring", "parsing"} =>
         call[r].mgr \in Managers
    /\ call[r].at = "importing" => child[call[r].mgr].st = "unborn"
    /\ call[r].at = "stabilizing" => child[call[r].mgr].st # "unborn"

\* One call starts the service at a time, and nothing is shared meanwhile.
StartInv ==
  /\ starting => shared = None
  /\ StartFlagOwned
  /\ \A q, r \in Requests : Starting(q) /\ Starting(r) => q = r
  /\ shared # None => child[shared].st \in {"running", "dead", "gone"}

SInv == TypeOK /\ ChildInv /\ CallInv /\ StartInv /\ NoOrphanService /\ PromisesAccounted

-----------------------------------------------------------------------------
LEMMA SInvInit == Init => SInv
<1> SUFFICES ASSUME Init PROVE SInv
  OBVIOUS
<1> USE Names1
<1>1. TypeOK
  <2>1. SMTypeOK
    BY DEF Init, SMInit, SMTypeOK, Child, Lives, States
  <2>2. 0 \in 0 .. Polls
    OBVIOUS
  <2> QED BY <2>1, <2>2 DEF Init, TypeOK, Call, Places
<1>2. ChildInv /\ CallInv /\ StartInv
  BY DEF Init, SMInit, ChildInv, CallInv, StartInv, StartFlagOwned, Starting
<1>3. NoOrphanService /\ PromisesAccounted
  BY DEF Init, SMInit, NoOrphanService, Live, PromisesAccounted
<1> QED BY <1>1, <1>2, <1>3 DEF SInv

\* Where the request of a pending promise is.
LEMMA Owners ==
  ASSUME SInv, NEW r \in Requests
  PROVE  /\ request[r].st # "unsent" => Owned(r) \in Managers
         /\ r \in timers => Owned(r) \in Managers /\ request[r].st = "waiting"
BY Names1 DEF SInv, CallInv, ChildInv, Owned, PromisesAccounted

-----------------------------------------------------------------------------
(* Children: one spawned, one that dies, and one whose exit is noticed.    *)

LEMMA LaunchKeeps ==
  ASSUME SInv, NEW r \in Requests, Launch(r)
  PROVE  SInv'
<1> USE Names1
<1> DEFINE m == call[r].mgr
<1>1. m \in Managers /\ child[m].st = "unborn" /\ call[r].at = "importing"
  BY DEF Launch, SInv, CallInv
<1>2. PICK st \in {"starting", "running"} :
        /\ child' = [child EXCEPT ![m] = [mgr |-> m, name |-> Service, st |-> st]]
        /\ entry' = IF st = "running" THEN [entry EXCEPT ![m][Service] = m] ELSE entry
        /\ UNCHANGED <<pending, timers, request, answers, shared, starting>>
  BY DEF Launch, Start, Spawn
<1>3. call' = [call EXCEPT ![r].at = "stabilizing"]
  BY DEF Launch, Goto
<1>4. TypeOK'
  <2>1. [mgr |-> m, name |-> Service, st |-> st] \in Child
    BY <1>1 DEF Child, Lives
  <2>2. child' \in [Children -> Child]
    BY <1>2, <2>1 DEF SInv, TypeOK, SMTypeOK
  <2>3. entry' \in [Managers -> [Names -> Children \cup {None}]]
    BY <1>1, <1>2 DEF SInv, TypeOK, SMTypeOK
  <2>4. call' \in [Requests -> Call]
    BY <1>3 DEF SInv, TypeOK, Call, Places
  <2> QED BY <1>2, <2>2, <2>3, <2>4 DEF SInv, TypeOK, SMTypeOK
<1>5. ChildInv'
  BY <1>1, <1>2 DEF SInv, TypeOK, SMTypeOK, ChildInv
<1>6. CallInv'
  <2>1. \A q \in Requests : q # r => call'[q] = call[q]
    BY <1>3 DEF SInv, TypeOK
  <2>2. call'[r].at = "stabilizing" /\ call'[r].mgr = m
    BY <1>3 DEF SInv, TypeOK, Call
  <2>3. child'[m].st # "unborn" /\ \A c \in Managers : c # m => child'[c] = child[c]
    BY <1>1, <1>2 DEF SInv, TypeOK, SMTypeOK
  <2>4. \A q \in Requests : q # r => call[q].at # "importing"
    BY <1>1 DEF SInv, StartInv, Starting
  <2> QED BY <1>1, <1>2, <2>1, <2>2, <2>3, <2>4 DEF SInv, CallInv
<1>7. \A q \in Requests : Starting(q)' <=> Starting(q)
  BY <1>1, <1>3 DEF SInv, TypeOK, Call, Starting
<1>8. starting
  BY <1>1 DEF SInv, StartInv, StartFlagOwned
<1>9. shared = None
  BY <1>8 DEF SInv, StartInv
<1>10. StartInv'
  BY <1>2, <1>7, <1>9 DEF SInv, StartInv, StartFlagOwned, Starting
<1>11. NoOrphanService'
  <2>1. call'[r].at = "stabilizing" /\ call'[r].mgr = m
    BY <1>3 DEF SInv, TypeOK, Call
  <2>2. \A c \in Managers : c # m => ~Live(c)
    BY <1>1, <1>9 DEF SInv, NoOrphanService, StartInv, Starting
  <2>3. \A c \in Managers : c # m => Live(c)' = Live(c)
    BY <1>2 DEF SInv, TypeOK, SMTypeOK, Live
  <2> QED BY <2>1, <2>2, <2>3 DEF NoOrphanService
<1>12. PromisesAccounted'
  <2>1. \A q \in Requests : request[q].st # "unsent" => Owned(q)' = Owned(q)
    BY <1>1, <1>2 DEF SInv, CallInv, TypeOK, SMTypeOK, Owned
  <2> QED BY <1>2, <2>1 DEF SInv, PromisesAccounted
<1> QED BY <1>4, <1>5, <1>6, <1>10, <1>11, <1>12 DEF SInv

\* A child that goes from one state of its life to the next, with its entry.
LEMMA ChildMoves ==
  ASSUME SInv, NEW c \in Children, NEW to \in Lives,
         child' = [child EXCEPT ![c].st = to],
         to # "unborn", child[c].st # "unborn",
         Live(c)' => Live(c),
         shared = c => to \in {"running", "dead", "gone"},
         \/ /\ to \in {"running", "dead"} /\ entry' = [entry EXCEPT ![c][Service] = c]
         \/ /\ to = "gone" /\ entry' = [entry EXCEPT ![c][Service] = None],
         UNCHANGED ssVars
  PROVE  /\ entry' \in [Managers -> [Names -> Children \cup {None}]]
         /\ child' \in [Children -> Child]
         /\ ChildInv' /\ StartInv' /\ NoOrphanService'
         /\ \A d \in Children : /\ child'[d].mgr = child[d].mgr
                                /\ child'[d].st = "unborn" <=> child[d].st = "unborn"
<1> USE Names1
<1>1. child \in [Children -> Child]
  BY DEF SInv, TypeOK, SMTypeOK
<1>2. [child[c] EXCEPT !.st = to] \in Child
  BY <1>1 DEF Child
<1>3. child' \in [Children -> Child]
  BY <1>1, <1>2
<1>4. \A d \in Children : /\ child'[d].mgr = child[d].mgr
                          /\ child'[d].name = child[d].name
                          /\ child'[d].st = IF d = c THEN to ELSE child[d].st
  BY <1>1 DEF Child
<1>5. entry' \in [Managers -> [Names -> Children \cup {None}]]
  <2>1. PICK x \in Children \cup {None} : entry' = [entry EXCEPT ![c][Service] = x]
    OBVIOUS
  <2>2. [entry[c] EXCEPT ![Service] = x] \in [Names -> Children \cup {None}]
    BY DEF SInv, TypeOK, SMTypeOK
  <2> QED BY <2>1, <2>2 DEF SInv, TypeOK, SMTypeOK
<1>6. \A m \in Managers : entry'[m][Service] =
        IF m = c THEN IF to = "gone" THEN None ELSE c ELSE entry[m][Service]
  BY DEF SInv, TypeOK, SMTypeOK
<1>7. ChildInv'
  BY <1>4, <1>6 DEF SInv, ChildInv
<1>8. shared \in Managers \cup {None}
  BY DEF SInv, TypeOK
<1>9. StartInv'
  BY <1>4, <1>8 DEF SInv, StartInv, StartFlagOwned, Starting, ssVars
<1>10. \A d \in Children : Live(d)' => Live(d)
  BY <1>4 DEF Live
<1>11. NoOrphanService'
  BY <1>10 DEF SInv, NoOrphanService, ssVars
<1> QED BY <1>3, <1>4, <1>5, <1>7, <1>9, <1>11

LEMMA SpawnedKeeps ==
  ASSUME SInv, NEW c \in Children, Spawned(c), UNCHANGED ssVars
  PROVE  SInv'
<1> USE Names1
<1>1. child[c].mgr = c /\ child[c].name = Service /\ child[c].st = "starting"
  BY DEF Spawned, SInv, ChildInv
<1>2. /\ child' = [child EXCEPT ![c] = [mgr |-> c, name |-> Service, st |-> "running"]]
      /\ entry' = [entry EXCEPT ![c][Service] = c]
      /\ UNCHANGED <<pending, timers, request, answers>>
  BY <1>1 DEF Spawned, Spawn
<1>3. child' = [child EXCEPT ![c].st = "running"]
  <2>1. child[c] \in Child
    BY DEF SInv, TypeOK, SMTypeOK
  <2>2. [child[c] EXCEPT !.st = "running"] = [mgr |-> c, name |-> Service, st |-> "running"]
    BY <1>1, <2>1 DEF Child
  <2> QED BY <1>2, <2>2
<1>4. Live(c) /\ "running" \in Lives
  BY <1>1 DEF Live, Lives
<1>5. /\ entry' \in [Managers -> [Names -> Children \cup {None}]]
      /\ child' \in [Children -> Child]
      /\ ChildInv' /\ StartInv' /\ NoOrphanService'
      /\ \A d \in Children : /\ child'[d].mgr = child[d].mgr
                             /\ child'[d].st = "unborn" <=> child[d].st = "unborn"
  BY <1>1, <1>2, <1>3, <1>4, ChildMoves
<1>6. TypeOK'
  BY <1>2, <1>5 DEF SInv, TypeOK, SMTypeOK, ssVars
<1>7. CallInv'
  BY <1>2, <1>5 DEF SInv, CallInv, ssVars
<1>8. PromisesAccounted'
  <2>1. \A q \in Requests : request[q].st # "unsent" => Owned(q)' = Owned(q)
    BY <1>2, <1>5 DEF SInv, CallInv, Owned
  <2> QED BY <1>2, <2>1 DEF SInv, PromisesAccounted
<1> QED BY <1>5, <1>6, <1>7, <1>8 DEF SInv

LEMMA DieKeeps ==
  ASSUME SInv, NEW c \in Children, Die(c), UNCHANGED ssVars
  PROVE  SInv'
<1> USE Names1
<1>1. /\ child[c].st = "running"
      /\ child' = [child EXCEPT ![c].st = "dead"]
      /\ UNCHANGED <<entry, pending, timers, request, answers>>
  BY DEF Die
<1>2. entry' = [entry EXCEPT ![c][Service] = c]
  <2>1. entry[c][Service] = c
    BY <1>1 DEF SInv, ChildInv
  <2> QED BY <1>1, <2>1 DEF SInv, TypeOK, SMTypeOK
<1>3. Live(c) /\ "dead" \in Lives
  BY <1>1 DEF Live, Lives
<1>4. /\ entry' \in [Managers -> [Names -> Children \cup {None}]]
      /\ child' \in [Children -> Child]
      /\ ChildInv' /\ StartInv' /\ NoOrphanService'
      /\ \A d \in Children : /\ child'[d].mgr = child[d].mgr
                             /\ child'[d].st = "unborn" <=> child[d].st = "unborn"
  BY <1>1, <1>2, <1>3, ChildMoves
<1>5. TypeOK'
  BY <1>1, <1>4 DEF SInv, TypeOK, SMTypeOK, ssVars
<1>6. CallInv'
  BY <1>1, <1>4 DEF SInv, CallInv, ssVars
<1>7. PromisesAccounted'
  <2>1. \A q \in Requests : request[q].st # "unsent" => Owned(q)' = Owned(q)
    BY <1>1, <1>4 DEF SInv, CallInv, Owned
  <2> QED BY <1>1, <2>1 DEF SInv, PromisesAccounted
<1> QED BY <1>4, <1>5, <1>6, <1>7 DEF SInv

LEMMA ChildExitKeeps ==
  ASSUME SInv, NEW c \in Children, ChildExit(c), UNCHANGED ssVars
  PROVE  SInv'
<1> USE Names1
<1>1. child[c].mgr = c /\ child[c].name = Service /\ child[c].st = "dead"
  BY DEF ChildExit, SInv, ChildInv
<1>2. /\ child' = [child EXCEPT ![c].st = "gone"]
      /\ entry' = [entry EXCEPT ![c][Service] = None]
      /\ timers' = timers \ pending[c]
      /\ request' = [r \in Requests |->
           IF r \in pending[c] THEN [request[r] EXCEPT !.st = "rejected"]
                               ELSE request[r]]
      /\ pending' = [pending EXCEPT ![c] = {}]
      /\ UNCHANGED answers
  BY <1>1 DEF ChildExit, RejectAll
<1>3. ~Live(c)' /\ "gone" \in Lives
  BY <1>2 DEF SInv, TypeOK, SMTypeOK, Child, Live, Lives
<1>4. /\ entry' \in [Managers -> [Names -> Children \cup {None}]]
      /\ child' \in [Children -> Child]
      /\ ChildInv' /\ StartInv' /\ NoOrphanService'
      /\ \A d \in Children : /\ child'[d].mgr = child[d].mgr
                             /\ child'[d].st = "unborn" <=> child[d].st = "unborn"
  BY <1>1, <1>2, <1>3, ChildMoves
<1>5. \A r \in Requests :
        /\ request'[r].child = request[r].child
        /\ request'[r].st = IF r \in pending[c] THEN "rejected" ELSE request[r].st
        /\ r \in pending[c] => request[r].st = "waiting"
  BY <1>2 DEF SInv, TypeOK, SMTypeOK, PromisesAccounted
<1>6. TypeOK'
  <2>1. request' \in [Requests -> [child: Children \cup {None}, st: States]]
    BY <1>2 DEF SInv, TypeOK, SMTypeOK, States
  <2>2. \A r \in Requests : request'[r].st # "unsent" => request'[r].child # None
    BY <1>5 DEF SInv, TypeOK, SMTypeOK
  <2> QED BY <1>2, <1>4, <2>1, <2>2 DEF SInv, TypeOK, SMTypeOK, ssVars
<1>7. CallInv'
  <2>1. \A r \in Requests : request'[r].st # "unsent" <=> request[r].st # "unsent"
    BY <1>5
  <2> QED BY <1>2, <1>4, <1>5, <2>1 DEF SInv, CallInv, ssVars
<1>8. PromisesAccounted'
  <2>1. \A q \in Requests : request[q].st # "unsent" => Owned(q)' = Owned(q)
    BY <1>4, <1>5 DEF SInv, CallInv, Owned
  <2>2. \A m \in Managers : pending'[m] = IF m = c THEN {} ELSE pending[m]
    BY <1>2 DEF SInv, TypeOK, SMTypeOK
  <2> QED BY <1>2, <1>5, <2>1, <2>2 DEF SInv, PromisesAccounted
<1> QED BY <1>4, <1>6, <1>7, <1>8 DEF SInv

-----------------------------------------------------------------------------
(* Requests: sent, answered, read and timed out.                           *)

\* What is left to show of a step that leaves the children and calls alone.
LEMMA RequestMoves ==
  ASSUME SInv, UNCHANGED <<entry, child, ssVars>>,
         pending' \in [Managers -> SUBSET Requests],
         timers' \subseteq Requests,
         request' \in [Requests -> [child: Children \cup {None}, st: States]],
         answers' \subseteq Requests,
         \A r \in Requests : request'[r].st # "unsent" =>
           request[r].st # "unsent" /\ request'[r].child = request[r].child,
         \A r \in answers' : request'[r].st # "unsent",
         PromisesAccounted'
  PROVE  SInv'
<1>1. TypeOK'
  BY DEF SInv, TypeOK, SMTypeOK, ssVars
<1>2. ChildInv' /\ StartInv'
  BY DEF SInv, ChildInv, StartInv, StartFlagOwned, Starting, ssVars
<1>3. CallInv'
  BY DEF SInv, CallInv, ssVars
<1>4. NoOrphanService'
  BY DEF SInv, NoOrphanService, Live, ssVars
<1> QED BY <1>1, <1>2, <1>3, <1>4 DEF SInv

\* The promise of r settles, which ends its timer and its place in pending.
LEMMA Settles ==
  ASSUME SInv, NEW r \in Requests, NEW st \in {"answered", "timedout"},
         r \in timers,
         timers' = timers \ {r},
         pending' = [pending EXCEPT ![Owned(r)] = @ \ {r}],
         request' = [request EXCEPT ![r].st = st],
         answers' \subseteq answers,
         UNCHANGED <<entry, child, ssVars>>
  PROVE  SInv'
<1> USE Names1
<1>1. Owned(r) \in Managers /\ request[r].st = "waiting"
  BY Owners
<1>2. pending' \in [Managers -> SUBSET Requests]
  BY <1>1 DEF SInv, TypeOK, SMTypeOK
<1>3. request' \in [Requests -> [child: Children \cup {None}, st: States]]
  BY DEF SInv, TypeOK, SMTypeOK, States
<1>4. \A q \in Requests : /\ request'[q].child = request[q].child
                          /\ request'[q].st = IF q = r THEN st ELSE request[q].st
  BY DEF SInv, TypeOK, SMTypeOK
<1>5. PromisesAccounted'
  <2>1. \A q \in Requests : Owned(q)' = Owned(q)
    BY <1>4 DEF Owned
  <2>2. \A m \in Managers :
          pending'[m] = IF m = Owned(r) THEN pending[m] \ {r} ELSE pending[m]
    BY <1>1 DEF SInv, TypeOK, SMTypeOK
  <2>3. ASSUME NEW q \in Requests, q # r
        PROVE  /\ request'[q].st = "waiting" <=> q \in timers'
               /\ \A m \in Managers :
                    q \in pending'[m] <=> (request'[q].st = "waiting" /\ Owned(q)' = m)
    BY <1>4, <2>1, <2>2, <2>3 DEF SInv, PromisesAccounted
  <2>4. request'[r].st # "waiting" /\ r \notin timers'
    BY <1>4
  <2>5. \A m \in Managers : r \notin pending'[m]
    BY <1>1, <2>2 DEF SInv, PromisesAccounted
  <2> QED BY <2>3, <2>4, <2>5 DEF PromisesAccounted
<1>6. \A q \in Requests : request'[q].st # "unsent" =>
        request[q].st # "unsent" /\ request'[q].child = request[q].child
  BY <1>1, <1>4
<1>7. timers' \subseteq Requests /\ answers' \subseteq Requests
  BY DEF SInv, TypeOK, SMTypeOK
<1>8. \A q \in answers' : request'[q].st # "unsent"
  BY <1>4, <1>7 DEF SInv, CallInv
<1> QED BY <1>2, <1>3, <1>5, <1>6, <1>7, <1>8, RequestMoves

LEMMA RequestEventsKeep ==
  ASSUME SInv, NEW r \in Requests, Answer(r) \/ ReadLine(r) \/ RequestTimeout(r),
         UNCHANGED ssVars
  PROVE  SInv'
<1>1. CASE RequestTimeout(r)
  BY <1>1, Settles DEF RequestTimeout
<1>2. CASE ReadLine(r) /\ r \in pending[Owned(r)]
  <2>1. Owned(r) \in Managers
    BY <1>2, Owners DEF ReadLine, SInv, CallInv
  <2>2. r \in timers
    BY <1>2, <2>1 DEF SInv, PromisesAccounted
  <2>3. /\ timers' = timers \ {r}
        /\ pending' = [pending EXCEPT ![Owned(r)] = @ \ {r}]
        /\ request' = [request EXCEPT ![r].st = "answered"]
        /\ answers' \subseteq answers
        /\ UNCHANGED <<entry, child, ssVars>>
    BY <1>2 DEF ReadLine
  <2> QED BY <2>2, <2>3, Settles
<1>3. CASE Answer(r) \/ (ReadLine(r) /\ r \notin pending[Owned(r)])
  <2>1. /\ answers' \subseteq Requests
        /\ UNCHANGED <<entry, child, pending, timers, request>>
    BY <1>3 DEF Answer, ReadLine, SInv, TypeOK, SMTypeOK
  <2>2. PromisesAccounted'
    BY <2>1 DEF SInv, PromisesAccounted, Owned
  <2>3. \A q \in answers' : request'[q].st # "unsent"
    BY <1>3, <2>1 DEF Answer, ReadLine, SInv, CallInv
  <2> QED BY <2>1, <2>2, <2>3, RequestMoves DEF SInv, TypeOK, SMTypeOK
<1> QED BY <1>1, <1>2, <1>3

-----------------------------------------------------------------------------
(* The calls.                                                              *)

\* A call that moves on and leaves the service, its children and requests alone.
LEMMA CallMoves ==
  ASSUME SInv, NEW r \in Requests, NEW c \in Call,
         call' = [call EXCEPT ![r] = c],
         c.at \notin {"importing", "stabilizing"}, ~Starting(r),
         c.at \in {"configuring", "parsing"} => c.mgr \in Managers,
         UNCHANGED <<smVars, starting>>,
         shared' = shared \/ (shared' = None /\ ~IsRunning(shared))
  PROVE  SInv'
<1> USE Names1
<1>1. \A q \in Requests : call'[q] = IF q = r THEN c ELSE call[q]
  BY DEF SInv, TypeOK
<1>2. TypeOK'
  BY DEF SInv, TypeOK, SMTypeOK, smVars
<1>3. ChildInv' /\ PromisesAccounted'
  BY DEF SInv, ChildInv, PromisesAccounted, Owned, smVars
<1>4. CallInv'
  BY <1>1 DEF SInv, CallInv, smVars
<1>5. \A q \in Requests : Starting(q)' = Starting(q)
  BY <1>1 DEF Starting
<1>6. StartInv'
  BY <1>5 DEF SInv, StartInv, StartFlagOwned, Starting, smVars
<1>7. NoOrphanService'
  <2>1. \A d \in Children : Live(d)' = Live(d)
    BY DEF Live, smVars
  <2>2. shared' # shared => \A d \in Children : Live(d) => shared # d
    BY DEF SInv, StartInv, ChildInv, Live, IsRunning
  <2> QED BY <1>1, <2>1, <2>2 DEF SInv, NoOrphanService, Starting
<1> QED BY <1>2, <1>3, <1>4, <1>6, <1>7 DEF SInv

LEMMA WaitersKeep ==
  ASSUME SInv, NEW r \in Requests,
         GetRunning(r) \/ GetWaiting(r) \/ Poll(r) \/ ParseTooLate(r) \/ Finish(r)
  PROVE  SInv'
<1> USE Names1
<1>1. call[r] \in Call /\ call[r].polls \in 0 .. Polls /\ shared \in Managers \cup {None}
  BY DEF SInv, TypeOK, Call
<1>2. ~Starting(r) /\ UNCHANGED <<smVars, starting>>
  BY DEF GetRunning, GetWaiting, Poll, ParseTooLate, Finish, Starting
<1>3. \A at \in {"ended", "waiting"} : [call[r] EXCEPT !.at = at] \in Call
  BY <1>1 DEF Call, Places
<1>4. CASE GetRunning(r) \/ (Poll(r) /\ IsRunning(shared))
  <2>1. /\ shared \in Managers /\ shared' = shared
        /\ call' = [call EXCEPT ![r] =
             [call[r] EXCEPT !.at = "configuring", !.mgr = shared]]
    BY <1>1, <1>4 DEF GetRunning, Poll, IsRunning, Use, SInv, TypeOK
  <2>2. [call[r] EXCEPT !.at = "configuring", !.mgr = shared] \in Call
    BY <1>1, <2>1 DEF Call, Places
  <2>3. /\ [call[r] EXCEPT !.at = "configuring", !.mgr = shared].at = "configuring"
        /\ [call[r] EXCEPT !.at = "configuring", !.mgr = shared].mgr = shared
    BY <1>1 DEF Call
  <2> QED BY <1>2, <2>1, <2>2, <2>3, CallMoves
<1>5. CASE GetWaiting(r)
  <2>1. /\ shared' = None /\ ~IsRunning(shared)
        /\ call' = [call EXCEPT ![r] =
             [call[r] EXCEPT !.at = "waiting", !.polls = Polls]]
    BY <1>5 DEF GetWaiting, SInv, TypeOK
  <2>2. [call[r] EXCEPT !.at = "waiting", !.polls = Polls] \in Call
    <3>1. Polls \in 0 .. Polls /\ "waiting" \in Places
      BY DEF Places
    <3> QED BY <1>1, <3>1 DEF Call
  <2>3. [call[r] EXCEPT !.at = "waiting", !.polls = Polls].at = "waiting"
    BY <1>1 DEF Call
  <2> QED BY <1>2, <2>1, <2>2, <2>3, CallMoves
<1>6. CASE call' = [call EXCEPT ![r].polls = @ - 1] /\ Poll(r) /\ call[r].polls > 1
  <2>1. call' = [call EXCEPT ![r] = [call[r] EXCEPT !.polls = @ - 1]] /\ shared' = shared
    BY <1>6 DEF Poll, SInv, TypeOK
  <2>2. call[r].polls - 1 \in 0 .. Polls
    BY <1>1, <1>6
  <2>3. [call[r] EXCEPT !.polls = @ - 1] \in Call
    BY <1>1, <2>2 DEF Call
  <2>4. [call[r] EXCEPT !.polls = @ - 1].at = "waiting"
    BY <1>1, <1>6 DEF Poll, Call
  <2> QED BY <1>2, <2>1, <2>3, <2>4, CallMoves
<1>7. CASE call' = [call EXCEPT ![r].at = "ended"] /\ shared' = shared
  <2>1. call' = [call EXCEPT ![r] = [call[r] EXCEPT !.at = "ended"]]
    BY <1>7 DEF SInv, TypeOK
  <2>2. [call[r] EXCEPT !.at = "ended"] \in Call /\ [call[r] EXCEPT !.at = "ended"].at = "ended"
    BY <1>1, <1>3 DEF Call
  <2> QED BY <1>2, <1>7, <2>1, <2>2, CallMoves
<1> QED BY <1>4, <1>5, <1>6, <1>7
        DEF GetRunning, GetWaiting, Poll, ParseTooLate, Finish, Goto

LEMMA GetStartedKeeps ==
  ASSUME SInv, NEW r \in Requests, GetStarted(r)
  PROVE  SInv'
<1> USE Names1
<1>1. PICK m \in Managers :
        /\ child[m].st = "unborn"
        /\ call' = [call EXCEPT ![r].at = "importing", ![r].mgr = m]
  BY DEF GetStarted, Unborn
<1>2. /\ ~IsRunning(shared) /\ ~starting /\ shared' = None /\ starting' = TRUE
      /\ UNCHANGED smVars
  BY DEF GetStarted
<1>3. \A q \in Requests : /\ q # r => call'[q] = call[q]
                          /\ call'[r].at = "importing" /\ call'[r].mgr = m
  BY <1>1 DEF SInv, TypeOK, Call
<1>4. TypeOK'
  <2>1. [call[r] EXCEPT !.at = "importing", !.mgr = m] \in Call
    BY DEF SInv, TypeOK, Call, Places
  <2> QED BY <1>1, <1>2, <2>1 DEF SInv, TypeOK, SMTypeOK, smVars
<1>5. ChildInv' /\ PromisesAccounted'
  BY <1>2 DEF SInv, ChildInv, PromisesAccounted, Owned, smVars
<1>6. CallInv'
  BY <1>1, <1>2, <1>3 DEF SInv, CallInv, smVars
<1>7. \A q \in Requests : ~Starting(q)
  BY <1>2 DEF SInv, StartInv, StartFlagOwned, Starting
<1>8. \A q \in Requests : Starting(q)' <=> q = r
  BY <1>3, <1>7 DEF Starting
<1>9. StartInv'
  BY <1>2, <1>8 DEF StartInv, StartFlagOwned, Starting
<1>10. NoOrphanService'
  <2>1. \A d \in Children : ~Live(d)
    BY <1>2, <1>7 DEF SInv, NoOrphanService, ChildInv, StartInv, Live, IsRunning, Starting
  <2> QED BY <1>2, <2>1 DEF NoOrphanService, Live, smVars
<1> QED BY <1>4, <1>5, <1>6, <1>9, <1>10 DEF SInv

\* The end of a start: the flag is reset, and a running manager is shared.
LEMMA StartOver ==
  ASSUME SInv, NEW r \in Requests, LaunchFails(r) \/ Stabilized(r)
  PROVE  SInv'
<1> USE Names1
<1> DEFINE m == call[r].mgr
<1>1. /\ Starting(r) /\ m \in Managers
      /\ starting' = FALSE /\ UNCHANGED smVars
  BY DEF LaunchFails, Stabilized, SInv, CallInv, Starting
<1>2. PICK at \in {"configuring", "ended"} : call' = [call EXCEPT ![r].at = at]
  BY DEF LaunchFails, Stabilized, Goto
<1>3. \A q \in Requests : /\ q # r => call'[q] = call[q]
                          /\ call'[r].at = at /\ call'[r].mgr = m
  BY <1>2 DEF SInv, TypeOK, Call
<1>4. shared = None
  BY <1>1 DEF SInv, StartInv, StartFlagOwned, Starting
<1>5. /\ shared' \in {None, m}
      /\ shared' = m => IsRunning(m)
      /\ Live(m) => shared' = m
  <2>1. CASE LaunchFails(r)
    BY <2>1, <1>1, <1>4 DEF LaunchFails, SInv, CallInv, Live
  <2>2. CASE Stabilized(r)
    BY <2>2, <1>1, <1>4 DEF Stabilized, SInv, ChildInv, Live, IsRunning
  <2> QED BY <2>1, <2>2
<1>6. TypeOK'
  <2>1. [call[r] EXCEPT !.at = at] \in Call
    BY DEF SInv, TypeOK, Call, Places
  <2> QED BY <1>1, <1>2, <1>5, <2>1 DEF SInv, TypeOK, SMTypeOK, smVars
<1>7. ChildInv' /\ PromisesAccounted'
  BY <1>1 DEF SInv, ChildInv, PromisesAccounted, Owned, smVars
<1>8. CallInv'
  BY <1>1, <1>3 DEF SInv, CallInv, smVars
<1>9. \A q \in Requests : ~Starting(q)'
  BY <1>1, <1>3 DEF SInv, StartInv, Starting
<1>10. StartInv'
  <2>1. shared' # None => child[m].st \in {"running", "dead"} /\ shared' = m
    BY <1>1, <1>5 DEF SInv, ChildInv, IsRunning
  <2> QED BY <1>1, <1>9, <2>1 DEF StartInv, StartFlagOwned, Starting, smVars
<1>11. NoOrphanService'
  <2>1. \A d \in Children : Live(d) => d = m
    BY <1>1, <1>4 DEF SInv, NoOrphanService, StartInv, Starting
  <2> QED BY <1>1, <1>5, <2>1 DEF NoOrphanService, Live, smVars
<1> QED BY <1>6, <1>7, <1>8, <1>10, <1>11 DEF SInv

\* send(): the request is pending in the manager that owns the running child.
LEMMA ParseKeeps ==
  ASSUME SInv, NEW r \in Requests, Parse(r)
  PROVE  SInv'
<1> USE Names1
<1> DEFINE m == call[r].mgr
<1>1. m \in Managers /\ call[r].at = "configuring"
  BY DEF Parse, SInv, CallInv
<1>2. /\ request[r].st = "unsent" /\ entry[m][Service] # None
      /\ request' = [request EXCEPT ![r] = [child |-> entry[m][Service], st |-> "waiting"]]
      /\ pending' = [pending EXCEPT ![m] = @ \cup {r}]
      /\ timers' = timers \cup {r}
      /\ call' = [call EXCEPT ![r].at = "parsing"]
      /\ UNCHANGED <<entry, child, answers, shared, starting>>
  BY DEF Parse, Send, Goto
<1>3. entry[m][Service] = m /\ child[m].st # "unborn" /\ child[m].mgr = m
  BY <1>1, <1>2 DEF SInv, ChildInv
<1>4. \A q \in Requests : q # r => call'[q] = call[q] /\ request'[q] = request[q]
  BY <1>2 DEF SInv, TypeOK, SMTypeOK
<1>5. /\ call'[r].at = "parsing" /\ call'[r].mgr = m
      /\ request'[r].child = m /\ request'[r].st = "waiting"
  BY <1>2, <1>3 DEF SInv, TypeOK, SMTypeOK, Call
<1>6. TypeOK'
  <2>1. [call[r] EXCEPT !.at = "parsing"] \in Call
    BY DEF SInv, TypeOK, Call, Places
  <2>2. call' \in [Requests -> Call]
    BY <1>2, <2>1 DEF SInv, TypeOK
  <2>3. request' \in [Requests -> [child: Children \cup {None}, st: States]]
    BY <1>1, <1>2, <1>3 DEF SInv, TypeOK, SMTypeOK, States
  <2>4. pending' \in [Managers -> SUBSET Requests]
    BY <1>1, <1>2 DEF SInv, TypeOK, SMTypeOK
  <2>5. \A q \in Requests : request'[q].st # "unsent" => request'[q].child # None
    BY <1>1, <1>4, <1>5 DEF SInv, TypeOK, SMTypeOK
  <2> QED BY <1>2, <2>2, <2>3, <2>4, <2>5 DEF SInv, TypeOK, SMTypeOK
<1>7. ChildInv'
  BY <1>2 DEF SInv, ChildInv
<1>8. CallInv'
  BY <1>1, <1>2, <1>3, <1>4, <1>5 DEF SInv, CallInv
<1>9. \A q \in Requests : Starting(q)' = Starting(q)
  BY <1>1, <1>4, <1>5 DEF Starting
<1>10. StartInv'
  BY <1>2, <1>9 DEF SInv, StartInv, StartFlagOwned, Starting
<1>11. NoOrphanService'
  BY <1>1, <1>2, <1>4 DEF SInv, NoOrphanService, Live
<1>12. PromisesAccounted'
  <2>1. \A q \in Requests : q # r => Owned(q)' = Owned(q)
    BY <1>2, <1>4 DEF Owned
  <2>2. Owned(r)' = m
    BY <1>2, <1>3, <1>5 DEF Owned
  <2>3. \A n \in Managers :
          pending'[n] = IF n = m THEN pending[n] \cup {r} ELSE pending[n]
    BY <1>1, <1>2 DEF SInv, TypeOK, SMTypeOK
  <2>4. ASSUME NEW q \in Requests, q # r
        PROVE  /\ request'[q].st = "waiting" <=> q \in timers'
               /\ \A n \in Managers :
                    q \in pending'[n] <=> (request'[q].st = "waiting" /\ Owned(q)' = n)
    BY <1>2, <1>4, <2>1, <2>3, <2>4 DEF SInv, PromisesAccounted
  <2>5. \A n \in Managers : r \notin pending[n]
    BY <1>2 DEF SInv, PromisesAccounted
  <2>6. \A n \in Managers : r \in pending'[n] <=> n = m
    BY <2>3, <2>5
  <2> QED BY <1>2, <1>5, <2>2, <2>4, <2>6 DEF PromisesAccounted
<1> QED BY <1>6, <1>7, <1>8, <1>10, <1>11, <1>12 DEF SInv

-----------------------------------------------------------------------------
LEMMA SInvNext == SInv /\ [Next]_allVars => SInv'
<1> SUFFICES ASSUME SInv, [Next]_allVars PROVE SInv'
  OBVIOUS
<1>1. CASE UNCHANGED allVars
  <2>1. TypeOK' /\ ChildInv' /\ CallInv'
    BY <1>1 DEF allVars, smVars, ssVars, SInv, TypeOK, SMTypeOK, ChildInv, CallInv
  <2>2. StartInv' /\ NoOrphanService' /\ PromisesAccounted'
    BY <1>1 DEF allVars, smVars, ssVars, SInv, StartInv, StartFlagOwned, Starting,
       NoOrphanService, Live, PromisesAccounted, Owned
  <2> QED BY <2>1, <2>2 DEF SInv
<1>2. CASE SMEvents /\ UNCHANGED ssVars
  BY <1>2, SpawnedKeeps, DieKeeps, ChildExitKeeps, RequestEventsKeep DEF SMEvents
<1>3. ASSUME NEW r \in Requests, Step(r)
      PROVE  SInv'
  BY <1>3, LaunchKeeps, WaitersKeep, GetStartedKeeps, StartOver, ParseKeeps DEF Step
<1> QED BY <1>1, <1>2, <1>3 DEF Next

LEMMA SInvAlways == Spec => []SInv
<1>1. Init => SInv
  BY SInvInit
<1>2. SInv /\ [Next]_allVars => SInv'
  BY SInvNext
<1> QED BY <1>1, <1>2, PTL DEF Spec

\* Every variable keeps its type, and a request that was sent has a child.
THEOREM TypeCorrect == Spec => []TypeOK
<1>1. SInv => TypeOK
  BY DEF SInv
<1> QED BY <1>1, SInvAlways, PTL

\* Every promise of send() is settled exactly once: it is pending in one manager,
\* with its timer armed, until an answer, the timer or the exit settles it.
THEOREM PromisesSettleOnce == Spec => []PromisesAccounted
<1>1. SInv => PromisesAccounted
  BY DEF SInv
<1> QED BY <1>1, SInvAlways, PTL

\* A live service process belongs to _sharedMgr or to the start under way.
THEOREM NothingOrphaned == Spec => []NoOrphanService
<1>1. SInv => NoOrphanService
  BY DEF SInv
<1> QED BY <1>1, SInvAlways, PTL

\* _sharedMgrStarting is set exactly while a call starts the service.
THEOREM FlagIsOwned == Spec => []StartFlagOwned
<1>1. SInv => StartFlagOwned
  BY DEF SInv, StartInv
<1> QED BY <1>1, SInvAlways, PTL

\* There is never a second live service process.
THEOREM OneServiceRuns == Spec => []OneService
<1>1. SInv => OneService
  <2> SUFFICES ASSUME SInv, NEW c \in Children, NEW d \in Children, Live(c), Live(d)
               PROVE  c = d
    BY DEF OneService
  <2>1. CASE starting
    BY <2>1, Names1 DEF SInv, StartInv, NoOrphanService, Starting
  <2>2. CASE ~starting
    BY <2>2 DEF SInv, StartInv, StartFlagOwned, NoOrphanService, Starting
  <2> QED BY <2>1, <2>2
<1> QED BY <1>1, SInvAlways, PTL

-----------------------------------------------------------------------------
(* What a step may do to the requests, the children and the calls.         *)

Settled == {"answered", "timedout", "rejected"}

\* A request is sent once, to one child, and its promise settles once: a late answer,
\* timer or exit never settles it a second time (manager.ts:113-137, 329-348).
PromisesFinal ==
  [][\A r \in Requests : request'[r] # request[r] =>
       \/ request[r].st = "unsent" /\ request'[r].st = "waiting"
       \/ /\ request[r].st = "waiting" /\ request'[r].st \in Settled
          /\ request'[r].child = request[r].child]_allVars

Age(st) ==
  CASE st = "unborn" -> 0 [] st = "starting" -> 1 [] st = "running" -> 2
    [] st = "dead" -> 3 [] OTHER -> 4

\* How far a call is from its end.
Left(p) ==
  CASE p = "idle"        -> 6
    [] p = "importing"   -> 5
    [] p = "stabilizing" -> 4
    [] p = "waiting"     -> 3
    [] p = "configuring" -> 2
    [] p = "parsing"     -> 1
    [] OTHER             -> 0

\* A call only moves on, or sleeps once less; a child is never spawned, nor exits,
\* twice (docling-processor.ts:32-100, manager.ts:71-100).
CallsMoveOn ==
  [][/\ \A r \in Requests : call'[r] # call[r] =>
          \/ Left(call'[r].at) < Left(call[r].at)
          \/ /\ call[r].at = "waiting" /\ call'[r].at = "waiting"
             /\ call'[r].polls < call[r].polls
     /\ \A c \in Children : child'[c] # child[c] =>
          Age(child'[c].st) > Age(child[c].st)]_allVars

\* What a call waits for is there: an unused child to start, a fresh request to send,
\* a sleep that is left, and a timer for the promise.
CallsGoOn ==
  \A r \in Requests :
    /\ call[r].at = "importing" =>
         child[call[r].mgr].st = "unborn" /\ ~IsRunning(call[r].mgr)
    /\ call[r].at = "waiting" => call[r].polls \in 1 .. Polls
    /\ call[r].at = "configuring" => request[r].st = "unsent"
    /\ call[r].at = "parsing" =>
         request[r].st \in Settled \/ (request[r].st = "waiting" /\ r \in timers)

\* Requests are sent by the calls that name them.
SentInv ==
  \A r \in Requests :
    /\ call[r].at \notin {"parsing", "ended"} => request[r].st = "unsent"
    /\ call[r].at = "parsing" => request[r].st # "unsent"
    /\ call[r].at = "waiting" => call[r].polls \in 1 .. Polls

PromiseStep(r) ==
  request'[r] # request[r] =>
    \/ request[r].st = "unsent" /\ request'[r].st = "waiting"
    \/ /\ request[r].st = "waiting" /\ request'[r].st \in Settled
       /\ request'[r].child = request[r].child

CallStep(r) ==
  call'[r] # call[r] =>
    \/ Left(call'[r].at) < Left(call[r].at)
    \/ /\ call[r].at = "waiting" /\ call'[r].at = "waiting"
       /\ call'[r].polls < call[r].polls

ChildStep(c) == child'[c] # child[c] => Age(child'[c].st) > Age(child[c].st)

\* One promise settles, or none.
LEMMA EventsSettle ==
  ASSUME SInv, SMEvents
  PROVE  \A r \in Requests : PromiseStep(r) /\ (request'[r].st = "unsent" <=> request[r].st = "unsent")
<1> USE Names1
<1>1. request \in [Requests -> [child: Children \cup {None}, st: States]]
  BY DEF SInv, TypeOK, SMTypeOK
<1>2. CASE request' = request
  BY <1>2 DEF PromiseStep
<1>3. ASSUME NEW q \in Requests, NEW st \in Settled, request[q].st = "waiting",
             request' = [request EXCEPT ![q].st = st]
      PROVE  \A r \in Requests : PromiseStep(r) /\ (request'[r].st = "unsent" <=> request[r].st = "unsent")
  BY <1>1, <1>3 DEF PromiseStep, Settled
<1>4. ASSUME NEW c \in Children, ChildExit(c)
      PROVE  \A r \in Requests : PromiseStep(r) /\ (request'[r].st = "unsent" <=> request[r].st = "unsent")
  <2>1. child[c].mgr \in Managers
    BY <1>4 DEF ChildExit, SInv, ChildInv
  <2>2. \A r \in pending[child[c].mgr] : r \in Requests => request[r].st = "waiting"
    BY <2>1 DEF SInv, PromisesAccounted
  <2>3. request' = [r \in Requests |-> IF r \in pending[child[c].mgr]
                     THEN [request[r] EXCEPT !.st = "rejected"] ELSE request[r]]
    BY <1>4 DEF ChildExit, RejectAll
  <2> QED BY <1>1, <2>2, <2>3 DEF PromiseStep, Settled
<1>5. ASSUME NEW q \in Requests, ReadLine(q) \/ RequestTimeout(q), request' # request
      PROVE  \A r \in Requests : PromiseStep(r) /\ (request'[r].st = "unsent" <=> request[r].st = "unsent")
  <2>1. request[q].st = "waiting"
    <3>1. CASE RequestTimeout(q)
      BY <3>1, Owners DEF RequestTimeout
    <3>2. CASE ReadLine(q)
      <4>1. Owned(q) \in Managers /\ q \in pending[Owned(q)]
        BY <1>5, <3>2, Owners DEF ReadLine, SInv, CallInv
      <4> QED BY <4>1 DEF SInv, PromisesAccounted
    <3> QED BY <1>5, <3>1, <3>2
  <2>2. PICK st \in Settled : request' = [request EXCEPT ![q].st = st]
    BY <1>5 DEF ReadLine, RequestTimeout, Settled
  <2> QED BY <1>3, <2>1, <2>2
<1>6. \/ request' = request
      \/ \E c \in Children : ChildExit(c)
      \/ \E q \in Requests : ReadLine(q) \/ RequestTimeout(q)
  BY DEF SMEvents, Spawned, Spawn, Die, Answer
<1> QED BY <1>2, <1>4, <1>5, <1>6

LEMMA EventsAge ==
  ASSUME SInv, SMEvents
  PROVE  \A c \in Children : ChildStep(c) /\ (child'[c].st = "unborn" => child[c].st = "unborn")
<1> USE Names1
<1>1. child \in [Children -> Child]
  BY DEF SInv, TypeOK, SMTypeOK
<1>2. CASE child' = child
  BY <1>2 DEF ChildStep
<1>3. ASSUME NEW d \in Children, Spawned(d) \/ Die(d) \/ ChildExit(d)
      PROVE  \A c \in Children : ChildStep(c) /\ (child'[c].st = "unborn" => child[c].st = "unborn")
  <2>1. /\ \A c \in Children : c # d => child'[c] = child[c]
        /\ \/ child[d].st = "starting" /\ child'[d].st = "running"
           \/ child[d].st = "running" /\ child'[d].st = "dead"
           \/ child[d].st = "dead" /\ child'[d].st = "gone"
    BY <1>1, <1>3 DEF Spawned, Spawn, Die, ChildExit, Child
  <2> QED BY <2>1 DEF ChildStep, Age
<1> QED BY <1>2, <1>3 DEF SMEvents, Answer, ReadLine, RequestTimeout

\* What the steps of a call do to it and to its request.
LEMMA StepMoves ==
  ASSUME SInv, SentInv, NEW r \in Requests, Step(r)
  PROVE  /\ \A q \in Requests : q # r => call'[q] = call[q] /\ request'[q] = request[q]
         /\ CallStep(r) /\ PromiseStep(r)
         /\ \A c \in Children : ChildStep(c)
         /\ SentInv'
<1> USE Names1
<1>1. /\ call \in [Requests -> Call] /\ call[r] \in Call /\ call[r].polls \in 0 .. Polls
      /\ request \in [Requests -> [child: Children \cup {None}, st: States]]
      /\ child \in [Children -> Child]
  BY DEF SInv, TypeOK, SMTypeOK, Call
<1>2. ASSUME NEW p \in {"configuring", "ended", "stabilizing", "importing"},
             Left(p) < Left(call[r].at), call'[r].at = p,
             \A q \in Requests : q # r => call'[q] = call[q],
             request' = request, \A c \in Children : ChildStep(c)
      PROVE  /\ \A q \in Requests : q # r => call'[q] = call[q] /\ request'[q] = request[q]
             /\ CallStep(r) /\ PromiseStep(r)
             /\ \A c \in Children : ChildStep(c)
             /\ SentInv'
  <2>1. CallStep(r) /\ PromiseStep(r)
    BY <1>2 DEF CallStep, PromiseStep
  <2>2. call[r].at # "ended"
    BY <1>2 DEF Left
  <2>3. p # "ended" => call[r].at # "parsing"
    BY <1>2 DEF Left
  <2>4. SentInv'
    BY <1>2, <2>2, <2>3 DEF SentInv
  <2> QED BY <1>2, <2>1, <2>4
<1>3. CASE GetRunning(r)
  <2>1. call' = [call EXCEPT ![r].at = "configuring", ![r].mgr = shared]
        /\ call[r].at = "idle" /\ request' = request /\ child' = child
    BY <1>3 DEF GetRunning, Use, smVars
  <2>2. call'[r].at = "configuring" /\ \A q \in Requests : q # r => call'[q] = call[q]
    BY <1>1, <2>1 DEF Call
  <2>3. Left("configuring") < Left(call[r].at) /\ \A c \in Children : ChildStep(c)
    BY <2>1 DEF Left, ChildStep
  <2> QED BY <1>2, <2>1, <2>2, <2>3
<1>4. CASE GetStarted(r)
  <2>1. PICK m \in Managers : call' = [call EXCEPT ![r].at = "importing", ![r].mgr = m]
    BY <1>4 DEF GetStarted
  <2>2. call[r].at = "idle" /\ request' = request /\ child' = child
    BY <1>4 DEF GetStarted, smVars
  <2>3. call'[r].at = "importing" /\ \A q \in Requests : q # r => call'[q] = call[q]
    BY <1>1, <2>1 DEF Call
  <2> QED BY <1>2, <2>2, <2>3 DEF Left, ChildStep
<1>5. CASE GetWaiting(r)
  <2>1. /\ call' = [call EXCEPT ![r].at = "waiting", ![r].polls = Polls]
        /\ call[r].at = "idle" /\ request' = request /\ child' = child
    BY <1>5 DEF GetWaiting, smVars
  <2>2. /\ call'[r].at = "waiting" /\ call'[r].polls = Polls
        /\ \A q \in Requests : q # r => call'[q] = call[q]
    BY <1>1, <2>1 DEF Call
  <2>3. CallStep(r) /\ PromiseStep(r) /\ \A c \in Children : ChildStep(c)
    BY <2>1, <2>2 DEF CallStep, PromiseStep, ChildStep, Left
  <2>4. call'[r].polls \in 1 .. Polls /\ request[r].st = "unsent"
    BY <2>1, <2>2 DEF SentInv
  <2>5. SentInv'
    BY <2>1, <2>2, <2>4 DEF SentInv
  <2> QED BY <2>1, <2>2, <2>3, <2>5
<1>6. CASE Launch(r)
  <2> DEFINE m == call[r].mgr
  <2>1. /\ call' = [call EXCEPT ![r].at = "stabilizing"]
        /\ call[r].at = "importing" /\ request' = request
        /\ m \in Managers /\ child[m].st = "unborn"
    BY <1>6 DEF Launch, Goto, Start, SInv, CallInv
  <2>2. PICK st \in {"starting", "running"} :
          child' = [child EXCEPT ![m] = [mgr |-> m, name |-> Service, st |-> st]]
    BY <1>6 DEF Launch, Start, Spawn
  <2>3. \A c \in Children : ChildStep(c)
    BY <1>1, <2>1, <2>2 DEF ChildStep, Age
  <2>4. call'[r].at = "stabilizing" /\ \A q \in Requests : q # r => call'[q] = call[q]
    BY <1>1, <2>1 DEF Call
  <2> QED BY <1>2, <2>1, <2>3, <2>4 DEF Left
<1>7. CASE LaunchFails(r) \/ Stabilized(r) \/ ParseTooLate(r) \/ Finish(r)
  <2>1. PICK p \in {"configuring", "ended"} :
          /\ call' = [call EXCEPT ![r].at = p]
          /\ p = "configuring" => call[r].at = "stabilizing"
    BY <1>7 DEF LaunchFails, Stabilized, ParseTooLate, Finish, Goto
  <2>2. /\ call[r].at \in {"importing", "stabilizing", "configuring", "parsing"}
        /\ request' = request /\ child' = child
    BY <1>7 DEF LaunchFails, Stabilized, ParseTooLate, Finish, smVars
  <2>3. call'[r].at = p /\ \A q \in Requests : q # r => call'[q] = call[q]
    BY <1>1, <2>1 DEF Call
  <2> QED BY <1>2, <2>1, <2>2, <2>3 DEF Left, ChildStep
<1>8. CASE Poll(r)
  <2>1. call[r].at = "waiting" /\ request' = request /\ child' = child
    BY <1>8 DEF Poll, smVars
  <2>2. CASE call' = [call EXCEPT ![r].polls = @ - 1] /\ call[r].polls > 1
    <3>1. /\ call'[r].at = "waiting" /\ call'[r].polls = call[r].polls - 1
          /\ \A q \in Requests : q # r => call'[q] = call[q]
      BY <1>1, <2>1, <2>2 DEF Call
    <3>2. CallStep(r) /\ PromiseStep(r) /\ \A c \in Children : ChildStep(c)
      BY <1>1, <2>1, <3>1 DEF CallStep, PromiseStep, ChildStep
    <3>3. call'[r].polls \in 1 .. Polls
      BY <1>1, <2>2, <3>1
    <3>4. SentInv'
      BY <2>1, <3>1, <3>3 DEF SentInv
    <3> QED BY <2>1, <3>1, <3>2, <3>4
  <2>3. CASE \/ call' = [call EXCEPT ![r].at = "configuring", ![r].mgr = shared]
             \/ call' = [call EXCEPT ![r].at = "ended"]
    <3>1. call'[r].at \in {"configuring", "ended"} /\ \A q \in Requests : q # r => call'[q] = call[q]
      BY <1>1, <2>3 DEF Call
    <3> QED BY <1>2, <2>1, <3>1 DEF Left, ChildStep
  <2> QED BY <1>8, <2>2, <2>3 DEF Poll, Use, Goto
<1>9. CASE Parse(r)
  <2>1. /\ call[r].at = "configuring" /\ request[r].st = "unsent" /\ child' = child
        /\ request' = [request EXCEPT ![r] =
             [child |-> entry[call[r].mgr][Service], st |-> "waiting"]]
        /\ call' = [call EXCEPT ![r].at = "parsing"]
    BY <1>9 DEF Parse, Send, Goto
  <2>2. /\ call'[r].at = "parsing" /\ request'[r].st = "waiting"
        /\ \A q \in Requests : q # r => call'[q] = call[q] /\ request'[q] = request[q]
    BY <1>1, <2>1 DEF Call
  <2>3. CallStep(r) /\ PromiseStep(r) /\ \A c \in Children : ChildStep(c)
    BY <2>1, <2>2 DEF CallStep, PromiseStep, ChildStep, Left
  <2>4. SentInv'
    BY <2>1, <2>2 DEF SentInv
  <2> QED BY <2>2, <2>3, <2>4
<1> QED BY <1>3, <1>4, <1>5, <1>6, <1>7, <1>8, <1>9 DEF Step

AllMove ==
  /\ \A r \in Requests : PromiseStep(r) /\ CallStep(r)
  /\ \A c \in Children : ChildStep(c)

LEMMA SentInvNext ==
  ASSUME SInv, SentInv, [Next]_allVars
  PROVE  SentInv' /\ [AllMove]_allVars
<1>1. CASE UNCHANGED allVars
  BY <1>1 DEF allVars, smVars, ssVars, SentInv
<1>2. CASE SMEvents /\ UNCHANGED ssVars
  <2>1. call' = call
    BY <1>2 DEF ssVars
  <2>2. \A r \in Requests : PromiseStep(r) /\ (request'[r].st = "unsent" <=> request[r].st = "unsent")
    BY <1>2, EventsSettle
  <2>3. SentInv'
    BY <2>1, <2>2 DEF SentInv
  <2>4. AllMove
    BY <1>2, <2>1, <2>2, EventsAge DEF AllMove, CallStep
  <2> QED BY <2>3, <2>4
<1>3. ASSUME NEW r \in Requests, Step(r)
      PROVE  SentInv' /\ AllMove
  BY <1>3, StepMoves DEF AllMove, CallStep, PromiseStep
<1> QED BY <1>1, <1>2, <1>3 DEF Next

LEMMA SentInvAlways == Spec => [](SInv /\ SentInv)
<1>1. Init => SInv /\ SentInv
  BY SInvInit DEF Init, SMInit, SentInv
<1>2. SInv /\ SentInv /\ [Next]_allVars => (SInv /\ SentInv)'
  BY SInvNext, SentInvNext
<1> QED BY <1>1, <1>2, PTL DEF Spec

\* A request is written once and its promise settles once: whichever of the answer,
\* the timer and the exit of the process comes second changes nothing
\* (manager.ts:113-137, 329-348).
THEOREM PromisesAreFinal == Spec => PromisesFinal
<1>1. SInv /\ SentInv /\ [Next]_allVars => [AllMove]_allVars
  BY SentInvNext
<1>2. AllMove =>
        \A r \in Requests : request'[r] # request[r] =>
          \/ request[r].st = "unsent" /\ request'[r].st = "waiting"
          \/ /\ request[r].st = "waiting" /\ request'[r].st \in Settled
             /\ request'[r].child = request[r].child
  BY DEF AllMove, PromiseStep
<1> QED BY <1>1, <1>2, SentInvAlways, PTL DEF Spec, PromisesFinal

\* Every step of a parse() call brings it nearer to its end, or uses up one of its
\* sleeps, and processes only grow older (docling-processor.ts:32-100).
THEOREM EveryCallProgresses == Spec => CallsMoveOn
<1>1. SInv /\ SentInv /\ [Next]_allVars => [AllMove]_allVars
  BY SentInvNext
<1>2. AllMove =>
        /\ \A r \in Requests : call'[r] # call[r] =>
             \/ Left(call'[r].at) < Left(call[r].at)
             \/ /\ call[r].at = "waiting" /\ call'[r].at = "waiting"
                /\ call'[r].polls < call[r].polls
        /\ \A c \in Children : child'[c] # child[c] =>
             Age(child'[c].st) > Age(child[c].st)
  BY DEF AllMove, CallStep, ChildStep
<1> QED BY <1>1, <1>2, SentInvAlways, PTL DEF Spec, CallsMoveOn

\* No call waits for something that will not come: whoever starts the service has an
\* unused process, whoever waits has a sleep left, and an open promise has its timer.
THEOREM CallsNeverStall == Spec => []CallsGoOn
<1>1. ASSUME SInv, SentInv PROVE CallsGoOn
  <2> SUFFICES ASSUME NEW r \in Requests
               PROVE  /\ call[r].at = "importing" =>
                           child[call[r].mgr].st = "unborn" /\ ~IsRunning(call[r].mgr)
                      /\ call[r].at = "waiting" => call[r].polls \in 1 .. Polls
                      /\ call[r].at = "configuring" => request[r].st = "unsent"
                      /\ call[r].at = "parsing" =>
                           \/ request[r].st \in Settled
                           \/ request[r].st = "waiting" /\ r \in timers
    BY DEF CallsGoOn
  <2>1. call[r].at = "importing" =>
          child[call[r].mgr].st = "unborn" /\ ~IsRunning(call[r].mgr)
    BY <1>1, Names1 DEF SInv, CallInv, ChildInv, IsRunning
  <2>2. /\ call[r].at = "waiting" => call[r].polls \in 1 .. Polls
        /\ call[r].at = "configuring" => request[r].st = "unsent"
        /\ call[r].at = "parsing" => request[r].st # "unsent"
    BY <1>1 DEF SentInv
  <2>3. request[r].st \in States /\ (request[r].st = "waiting" <=> r \in timers)
    BY <1>1 DEF SInv, TypeOK, SMTypeOK, PromisesAccounted
  <2> QED BY <2>1, <2>2, <2>3 DEF States, Settled
<1> QED BY <1>1, SentInvAlways, PTL
================================================================================
