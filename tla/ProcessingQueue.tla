--------------------------- MODULE ProcessingQueue ---------------------------
(***************************************************************************)
(* The document processing queue: services/processing-queue.ts, together   *)
(* with the routes that feed it (server/routes/knowledge.ts, settings.ts,  *)
(* services/cron/scheduler.ts), the status column of the documents table   *)
(* and the recovery main.ts performs when the server starts.               *)
(*                                                                         *)
(* Granularity.  The server is one JavaScript thread: what runs between    *)
(* two awaits that wait for I/O or for a timer is one action.  An attempt  *)
(* is one processJob call; its field `at' names the await it is parked on. *)
(* A status write and the resumption of its caller are one step.           *)
(***************************************************************************)
EXTENDS Naturals, Sequences, FiniteSets

CONSTANTS
  Docs,          \* document ids
  NumAttempts,   \* bound: processJob calls and retry timers alive per document
  MaxRetries,    \* MAX_RETRIES, the retries a job gets
  Concurrency,   \* the limit a fresh queue starts with
  Levels,        \* bound: the values setConcurrency is called with
  Budget         \* bound: how often each kind of outside event happens

Kinds == {"ask", "force", "resize", "fault", "crash"}

ASSUME PQAssumption ==
  /\ IsFiniteSet(Docs)
  /\ NumAttempts \in Nat
  /\ MaxRetries \in Nat
  /\ Concurrency \in Nat \ {0}
  /\ Levels \subseteq Nat
  /\ Budget \in [Kinds -> Nat]

VARIABLES
  queue,        \* this.queue, jobs waiting for a slot
  active,       \* this.active: the attempt whose AbortController is registered
  concurrency,  \* this.concurrency
  attempt,      \* processJob calls and armed retry timers, per document
  status,       \* documents.status
  pages,        \* whether the document's wiki pages are in the database
  asking,       \* documents a route has checked and is about to enqueue
  forcing,      \* force requests waiting for cancel()'s status write
  budget        \* outside events left

vars == <<queue, active, concurrency, attempt, status, pages, asking, forcing,
          budget>>

None     == 0
Attempts == 1 .. NumAttempts

Intermediate == {"parsing", "compiling", "indexing"}
Status       == {"uploaded", "ready", "error"} \cup Intermediate

Job == [doc: Docs, force: BOOLEAN, retry: 0 .. MaxRetries]

\* The awaits processJob parks on.  "xxx0" and "xxx1" are the status writes that
\* open and close a stage; "ready", "retrying" and "error" the final writes.
StageWrites == {"parsing0", "parsing1", "compiling0", "compiling1",
                "indexing0", "indexing1"}
Work        == {"parse", "compile", "index"}
Timed       == StageWrites \cup Work \cup {"ready"}
Running     == Timed \cup {"cleanup", "retrying", "error"}

Attempt == [at: Running \cup {"free", "backoff"}, force: BOOLEAN,
            retry: 0 .. MaxRetries, signal: {"clear", "caller", "timeout"}]

Free == [at |-> "free", force |-> FALSE, retry |-> 0, signal |-> "clear"]

\* The straight-line order of the pipeline.
After(p) ==
  CASE p = "cleanup"    -> "parsing0"
    [] p = "parsing0"   -> "parse"
    [] p = "parse"      -> "parsing1"
    [] p = "parsing1"   -> "compiling0"
    [] p = "compiling0" -> "compile"
    [] p = "compile"    -> "compiling1"
    [] p = "compiling1" -> "indexing0"
    [] p = "indexing0"  -> "index"
    [] p = "index"      -> "indexing1"
    [] p = "indexing1"  -> "ready"

\* The status each awaited write stores; a retry shows as "parsing".
Written(p) ==
  CASE p \in {"parsing0", "parsing1", "retrying"} -> "parsing"
    [] p \in {"compiling0", "compiling1"}         -> "compiling"
    [] p \in {"indexing0", "indexing1"}           -> "indexing"
    [] p = "ready"                                -> "ready"
    [] p = "error"                                -> "error"

\* throwIfAborted is called when these awaits return, and nowhere else.
Checked == {"cleanup", "parsing1", "compiling1", "indexing1"}

\* Mutant of FailPoint: one retry too many.
FailPointOffByOne(a) == IF a.retry <= MaxRetries THEN "retrying" ELSE "error"

\* handleJobError: where a failed attempt goes.
FailPoint(a) == IF a.retry < MaxRetries THEN "retrying" ELSE "error"

NextPoint(a) ==
  IF a.at \in Checked /\ a.signal # "clear" THEN FailPoint(a) ELSE After(a.at)

Live(d, i)   == attempt[d][i].at \in Running
Queued(q, d) == \E i \in 1 .. Len(q) : q[i].doc = d

Init ==
  /\ queue = <<>>
  /\ active = [d \in Docs |-> None]
  /\ concurrency = Concurrency
  /\ attempt = [d \in Docs |-> [i \in Attempts |-> Free]]
  /\ status = [d \in Docs |-> "uploaded"]
  /\ pages = [d \in Docs |-> FALSE]
  /\ asking = {}
  /\ forcing = [d \in Docs |-> 0]
  /\ budget = Budget

Spend(kind) ==
  /\ budget[kind] > 0
  /\ budget' = [budget EXCEPT ![kind] = @ - 1]

\* updateDbStatus swallows a database failure: the caller cannot tell.
WriteStatus(d, s) ==
  \/ status' = [status EXCEPT ![d] = s] /\ UNCHANGED budget
  \/ Spend("fault") /\ UNCHANGED status

-----------------------------------------------------------------------------
(* The queue itself.                                                       *)

FirstIndex(q, d) ==
  CHOOSE i \in 1 .. Len(q) : q[i].doc = d /\ \A j \in 1 .. i - 1 : q[j].doc # d

\* this.queue.splice(queueIndex, 1), when the document is queued.
Splice(q, d) ==
  IF Queued(q, d)
  THEN LET i == FirstIndex(q, d)
       IN  [j \in 1 .. Len(q) - 1 |-> IF j < i THEN q[j] ELSE q[j + 1]]
  ELSE q

\* abort() on the registered controller; a second abort changes nothing.
AbortActive(act, att, d) ==
  IF act[d] = None \/ att[d][act[d]].signal # "clear" THEN att
  ELSE [att EXCEPT ![d][act[d]].signal = "caller"]

Begin(job) ==
  [at |-> IF job.force THEN "cleanup" ELSE "parsing0",
   force |-> job.force, retry |-> job.retry, signal |-> "clear"]

FreeSlot(att, d) ==
  CHOOSE i \in Attempts : att[d][i].at = "free"

\* The keys of `active' once j jobs are shifted off the queue: each shifted job
\* is started, or skipped because its document is there already.
Keys(q, act, j) ==
  {d \in Docs : act[d] # None} \cup {q[i].doc : i \in 1 .. j}

\* Mutant of Full: one attempt too many.
FullOffByOne(q, act, j, limit) == Cardinality(Keys(q, act, j)) > limit

\* active.size has reached the limit once j jobs are shifted.
Full(q, act, j, limit) == Cardinality(Keys(q, act, j)) >= limit

\* The documents started by shifting k jobs.
Started(q, act, k) ==
  {d \in Docs : act[d] = None /\ \E i \in 1 .. k : q[i].doc = d}

\* The while loop of scheduleNext shifts the shortest prefix of the queue that
\* fills the slots, or all of it.
ScheduleNext(q, act, att, limit) ==
  \E k \in 0 .. Len(q) :
    /\ k = Len(q) \/ Full(q, act, k, limit)
    /\ \A j \in 0 .. k - 1 : ~Full(q, act, j, limit)
    /\ \A d \in Started(q, act, k) : \E i \in Attempts : att[d][i].at = "free"
    /\ queue' = SubSeq(q, k + 1, Len(q))
    /\ active' = [d \in Docs |->
         IF d \in Started(q, act, k) THEN FreeSlot(att, d) ELSE act[d]]
    /\ attempt' = [d \in Docs |->
         IF d \in Started(q, act, k)
         THEN [att[d] EXCEPT ![FreeSlot(att, d)] = Begin(q[FirstIndex(q, d)])]
         ELSE att[d]]

\* Mutant of Enqueue: only the queue is looked at, not the active documents.
EnqueueUnlessQueued(job, att) ==
  IF job.force
  THEN ScheduleNext(Append(Splice(queue, job.doc), job),
                    [active EXCEPT ![job.doc] = None],
                    AbortActive(active, att, job.doc), concurrency)
  ELSE IF Queued(queue, job.doc)
       THEN attempt' = att /\ UNCHANGED <<queue, active>>
       ELSE ScheduleNext(Append(queue, job), active, att, concurrency)

\* enqueue(job): a force job evicts its document, another one is deduplicated.
Enqueue(job, att) ==
  IF job.force
  THEN ScheduleNext(Append(Splice(queue, job.doc), job),
                    [active EXCEPT ![job.doc] = None],
                    AbortActive(active, att, job.doc), concurrency)
  ELSE IF Queued(queue, job.doc) \/ active[job.doc] # None
       THEN attempt' = att /\ UNCHANGED <<queue, active>>
       ELSE ScheduleNext(Append(queue, job), active, att, concurrency)

\* Mutant of Finally: the entry is cleared and nothing is scheduled.
FinallyOnlyClears(d, i, left) ==
  /\ active' = [active EXCEPT ![d] = None]
  /\ attempt' = [attempt EXCEPT ![d][i] = left]
  /\ UNCHANGED queue

\* processJob's promise settles: finally() clears the document's entry in
\* `active', whichever attempt that entry names, and schedules again.
Finally(d, i, left) ==
  ScheduleNext(queue, [active EXCEPT ![d] = None],
               [attempt EXCEPT ![d][i] = left], concurrency)

-----------------------------------------------------------------------------
(* What the outside asks of the queue.                                     *)

FirstTry(d, force) == [doc |-> d, force |-> force, retry |-> 0]

\* A route or the cron reindex reads the row and decides to enqueue it.
Ask(d) ==
  /\ status[d] \notin Intermediate
  /\ d \notin asking
  /\ Spend("ask")
  /\ asking' = asking \cup {d}
  /\ UNCHANGED <<queue, active, concurrency, attempt, status, pages, forcing>>

\* ... and enqueues it later, having awaited the body or the other rows.
Asked(d) ==
  /\ d \in asking
  /\ asking' = asking \ {d}
  /\ Enqueue(FirstTry(d, FALSE), attempt)
  /\ UNCHANGED <<concurrency, status, pages, forcing, budget>>

\* process-all?force=true enqueues a force job for any document.  So does
\* process/:docId?force=true when the document is not active: cancel() then
\* splices a queued job, or nothing, without a write, as enqueue would.
ForceNow(d) ==
  /\ Spend("force")
  /\ Enqueue(FirstTry(d, TRUE), attempt)
  /\ UNCHANGED <<concurrency, status, pages, asking, forcing>>

\* Mutant of CancelActive: the aborted attempt keeps its slot.
CancelKeepsSlot(d) ==
  /\ ~Queued(queue, d)
  /\ active[d] # None
  /\ Spend("force")
  /\ attempt' = AbortActive(active, attempt, d)
  /\ forcing' = [forcing EXCEPT ![d] = @ + 1]
  /\ UNCHANGED <<queue, active, concurrency, status, pages, asking>>

\* For an active document cancel(), awaited by process/:docId, aborts it,
\* frees its slot without scheduling, and awaits the write of "error".
CancelActive(d) ==
  /\ ~Queued(queue, d)
  /\ active[d] # None
  /\ Spend("force")
  /\ active' = [active EXCEPT ![d] = None]
  /\ attempt' = AbortActive(active, attempt, d)
  /\ forcing' = [forcing EXCEPT ![d] = @ + 1]
  /\ UNCHANGED <<queue, concurrency, status, pages, asking>>

\* The write lands, cancel() returns, and the route enqueues the force job.
Cancelled(d) ==
  /\ forcing[d] > 0
  /\ forcing' = [forcing EXCEPT ![d] = @ - 1]
  /\ WriteStatus(d, "error")
  /\ Enqueue(FirstTry(d, TRUE), attempt)
  /\ UNCHANGED <<concurrency, pages, asking>>

\* setConcurrency(n), from the settings route.
SetConcurrency(n) ==
  /\ Spend("resize")
  /\ concurrency' = IF n < 1 THEN 1 ELSE n
  /\ ScheduleNext(queue, active, attempt, concurrency')
  /\ UNCHANGED <<status, pages, asking, forcing>>

-----------------------------------------------------------------------------
(* The steps of an attempt.                                                *)

\* The attempt goes on to its next await.
Goto(d, i, p) == attempt' = [attempt EXCEPT ![d][i].at = p]

\* The deletions of a force rebuild; their failure is swallowed, and the
\* timeout is not armed yet.
Cleanup(d, i) ==
  /\ attempt[d][i].at = "cleanup"
  /\ pages' \in {pages, [pages EXCEPT ![d] = FALSE]}
  /\ Goto(d, i, NextPoint(attempt[d][i]))
  /\ UNCHANGED <<queue, active, concurrency, status, asking, forcing, budget>>

\* A write that opens or closes a stage.
StageWrite(d, i) ==
  /\ attempt[d][i].at \in StageWrites
  /\ WriteStatus(d, Written(attempt[d][i].at))
  /\ Goto(d, i, NextPoint(attempt[d][i]))
  /\ UNCHANGED <<queue, active, concurrency, pages, asking, forcing>>

\* Parsing, compiling or indexing ends; an indexing failure counts as an end.
WorkDone(d, i) ==
  /\ attempt[d][i].at \in Work
  /\ pages' = IF attempt[d][i].at = "compile" THEN [pages EXCEPT ![d] = TRUE]
                                              ELSE pages
  /\ Goto(d, i, NextPoint(attempt[d][i]))
  /\ UNCHANGED <<queue, active, concurrency, status, asking, forcing, budget>>

\* Parsing or compiling throws.
WorkThrows(d, i) ==
  /\ attempt[d][i].at \in {"parse", "compile"}
  /\ Goto(d, i, FailPoint(attempt[d][i]))
  /\ UNCHANGED <<queue, active, concurrency, status, pages, asking, forcing,
                 budget>>

\* Mutant of Timeout: the timer also frees the slot of the executing attempt.
TimeoutFreesSlot(d, i) ==
  /\ attempt[d][i].at \in Timed
  /\ attempt[d][i].signal = "clear"
  /\ attempt' = [attempt EXCEPT ![d][i].signal = "timeout"]
  /\ active' = [active EXCEPT ![d] = None]
  /\ UNCHANGED <<queue, concurrency, status, pages, asking, forcing, budget>>

\* The job's timer aborts its own controller.  It is cleared on every way out.
Timeout(d, i) ==
  /\ attempt[d][i].at \in Timed
  /\ attempt[d][i].signal = "clear"
  /\ attempt' = [attempt EXCEPT ![d][i].signal = "timeout"]
  /\ UNCHANGED <<queue, active, concurrency, status, pages, asking, forcing,
                 budget>>

\* The last write of an attempt and its finally(): the document is ready, or in
\* error, or waits for the retry timer handleJobError has armed.
Settle(d, i) ==
  /\ attempt[d][i].at \in {"ready", "retrying", "error"}
  /\ WriteStatus(d, Written(attempt[d][i].at))
  /\ Finally(d, i, IF attempt[d][i].at = "retrying"
                   THEN [attempt[d][i] EXCEPT !.at = "backoff", !.signal = "clear"]
                   ELSE Free)
  /\ UNCHANGED <<concurrency, pages, asking, forcing>>

\* Mutant of Retry: the retry is not counted.
RetryNotCounted(d, i) ==
  /\ attempt[d][i].at = "backoff"
  /\ Enqueue([doc |-> d, force |-> attempt[d][i].force,
              retry |-> attempt[d][i].retry],
             [attempt EXCEPT ![d][i] = Free])
  /\ UNCHANGED <<concurrency, status, pages, asking, forcing, budget>>

\* The retry timer enqueues the same job, with one more retry counted.
Retry(d, i) ==
  /\ attempt[d][i].at = "backoff"
  /\ Enqueue([doc |-> d, force |-> attempt[d][i].force,
              retry |-> attempt[d][i].retry + 1],
             [attempt EXCEPT ![d][i] = Free])
  /\ UNCHANGED <<concurrency, status, pages, asking, forcing, budget>>

-----------------------------------------------------------------------------
(* The process dies and main.ts starts it again: only the database survives. *)

\* Mutant of Recover: a document interrupted while indexing is forgotten.
RecoverForgetsIndexing ==
  /\ status' = [d \in Docs |->
       IF status[d] \in {"parsing", "compiling"} THEN "uploaded" ELSE status[d]]
  /\ budget' = [budget EXCEPT !["crash"] = @ - 1]

\* recoverStuckDocuments runs before the server listens; a failure is logged.
Recover ==
  \/ /\ status' = [d \in Docs |->
          IF status[d] \in Intermediate THEN "uploaded" ELSE status[d]]
     /\ budget' = [budget EXCEPT !["crash"] = @ - 1]
  \/ /\ budget["fault"] > 0
     /\ budget' = [budget EXCEPT !["crash"] = @ - 1, !["fault"] = @ - 1]
     /\ UNCHANGED status

Restart ==
  /\ budget["crash"] > 0
  /\ Recover
  /\ queue' = <<>>
  /\ active' = [d \in Docs |-> None]
  /\ concurrency' = Concurrency
  /\ attempt' = [d \in Docs |-> [i \in Attempts |-> Free]]
  /\ asking' = {}
  /\ forcing' = [d \in Docs |-> 0]
  /\ UNCHANGED pages

AttemptStep(d, i) ==
  \/ Cleanup(d, i)
  \/ StageWrite(d, i)
  \/ WorkDone(d, i)
  \/ WorkThrows(d, i)
  \/ Timeout(d, i)
  \/ Settle(d, i)
  \/ Retry(d, i)

Next ==
  \/ \E d \in Docs : Ask(d) \/ Asked(d) \/ ForceNow(d) \/ CancelActive(d)
                       \/ Cancelled(d)
  \/ \E n \in Levels : SetConcurrency(n)
  \/ \E d \in Docs, i \in Attempts : AttemptStep(d, i)
  \/ Restart

Spec == Init /\ [][Next]_vars

\* The database answers, parsing, compiling and indexing return or throw, and
\* timers fire; nothing obliges the outside to ask, nor a timeout to hit.
Progress(d, i) ==
  Cleanup(d, i) \/ StageWrite(d, i) \/ WorkDone(d, i) \/ WorkThrows(d, i)
    \/ Settle(d, i) \/ Retry(d, i)

FairSpec ==
  /\ Spec
  /\ \A d \in Docs : WF_vars(Asked(d)) /\ WF_vars(Cancelled(d))
  /\ \A d \in Docs, i \in Attempts : WF_vars(Progress(d, i))

-----------------------------------------------------------------------------
(* Properties.                                                             *)

TypeOK ==
  /\ queue \in Seq(Job)
  /\ active \in [Docs -> Attempts \cup {None}]
  /\ concurrency \in Nat \ {0}
  /\ attempt \in [Docs -> [Attempts -> Attempt]]
  /\ status \in [Docs -> Status]
  /\ pages \in [Docs -> BOOLEAN]
  /\ asking \subseteq Docs
  /\ forcing \in [Docs -> Nat]
  /\ budget \in [Kinds -> Nat]

\* The queue holds a document at most once, and never one that is active: the
\* splice of one job per document in enqueue and cancel, and the skip in
\* scheduleNext, are enough whatever was forced, cancelled or retried.
QueueConsistent ==
  /\ \A i, j \in 1 .. Len(queue) : queue[i].doc = queue[j].doc => i = j
  /\ \A i \in 1 .. Len(queue) : active[queue[i].doc] = None

\* A slot is held by an attempt that is still executing and that no caller has
\* aborted: an entry of `active' cannot outlive its processJob and leak a slot.
ActiveIsLive ==
  \A d \in Docs : active[d] # None =>
    Live(d, active[d]) /\ attempt[d][active[d]].signal # "caller"

\* A job waits only while some processJob is executing, whose finally() will
\* call scheduleNext: although cancel() frees a slot without scheduling, no
\* wakeup is lost and the queue cannot wedge.
NoLostWakeup ==
  queue # <<>> => \E d \in Docs, i \in Attempts : Live(d, i)

\* As long as the database accepts writes, a document whose row says it is being
\* processed has a job queued, executing, or waiting to be retried, or a force
\* request about to enqueue one: the routes, which refuse such a document, never
\* lock it out for good, across cancellations, retries and restarts.
NoStrandedDocument ==
  budget["fault"] = Budget["fault"] =>
    \A d \in Docs : status[d] \in Intermediate =>
      \/ Queued(queue, d)
      \/ \E i \in Attempts : attempt[d][i].at # "free"
      \/ forcing[d] > 0

Executing == {x \in Docs \X Attempts : Live(x[1], x[2])}

\* Without force requests a document is processed by one attempt at a time,
\* through timeouts, retries and stale enqueues.
OneAttemptPerDoc ==
  \A d \in Docs : Cardinality({i \in Attempts : Live(d, i)}) <= 1

\* Nor does an attempt start unless the executing ones stay within the limit of
\* this moment, also after it was lowered.
StartsWithinLimit ==
  [][Cardinality(Executing') > Cardinality(Executing) =>
       Cardinality(Executing') <= concurrency']_vars

\* What enqueue's comment promises of every job: a document never has two
\* attempts neither of which has been told to stop.
Deduplicated ==
  \A d \in Docs :
    Cardinality({i \in Attempts : Live(d, i) /\ attempt[d][i].signal = "clear"}) <= 1

\* The pipeline, a retry or a new request, and the two final values.
RowMoves ==
  ({"uploaded", "ready", "error", "compiling", "indexing"} \X {"parsing"})
    \cup {<<"parsing", "compiling">>, <<"compiling", "indexing">>,
          <<"indexing", "ready">>}
    \cup (Intermediate \X {"error"})

\* Without force requests the row of a document moves along the pipeline only, or
\* back to "uploaded" when the server restarts: no two attempts' writes are ever
\* mixed up in it.
StatusOrder ==
  [][\A d \in Docs : status'[d] # status[d] =>
       \/ <<status[d], status'[d]>> \in RowMoves
       \/ /\ budget'["crash"] < budget["crash"]
          /\ <<status[d], status'[d]>> \in Intermediate \X {"uploaded"}]_vars

\* The documents waiting, in order, and those that hold a slot.
Waiting == [i \in 1 .. Len(queue) |-> queue[i].doc]
Holding == {d \in Docs : active[d] # None}

Slots == INSTANCE SlotQueue WITH
  Fresh <- Concurrency, line <- Waiting, slots <- Holding, limit <- concurrency,
  evicted <- forcing

\* Slots are given in the order of the requests, within the limit of the moment,
\* and no job waits beside a slot that finally() or a request has freed: retries,
\* duplicates, force requests and late finally()s never reorder or starve it.
ServesInOrder == Slots!Spec

\* A document that is ready has its pages, unless work on it is under way.
ReadyHasPages ==
  \A d \in Docs : status[d] = "ready" /\ ~pages[d] =>
    Queued(queue, d) \/ \E i \in Attempts : attempt[d][i].at # "free"

\* Every attempt ends, retries included, and the queue empties, whatever the
\* database does and whichever attempts abort one another.
Drains == <>[](queue = <<>> /\ \A d \in Docs, i \in Attempts :
                                 attempt[d][i].at = "free")

\* An uploaded document a caller is enqueueing, and no restart interrupts, ends up
\* ready or in error.
AskedIsDecided ==
  \A d \in Docs :
    (d \in asking /\ status[d] = "uploaded" /\ budget["crash"] = 0)
      ~> status[d] \in {"ready", "error"}
=============================================================================
