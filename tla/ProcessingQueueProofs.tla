---------------------- MODULE ProcessingQueueProofs ----------------------
(***************************************************************************)
(* What holds of the processing queue for any number of documents,         *)
(* retries and outside events.                                             *)
(***************************************************************************)
EXTENDS ProcessingQueue, SequenceTheorems, FiniteSetTheorems, TLAPS

\* The inductive invariant, of the three variables the queue's code reads and
\* writes together: their types, QueueConsistent, ActiveIsLive, and that an
\* attempt on its way to a retry has one left.
Good(q, act, att) ==
  /\ q \in Seq(Job)
  /\ act \in [Docs -> Attempts \cup {None}]
  /\ att \in [Docs -> [Attempts -> Attempt]]
  /\ \A i, j \in 1 .. Len(q) : q[i].doc = q[j].doc => i = j
  /\ \A i \in 1 .. Len(q) : act[q[i].doc] = None
  /\ \A d \in Docs : act[d] # None =>
       att[d][act[d]].at \in Running /\ att[d][act[d]].signal # "caller"
  /\ \A d \in Docs, i \in Attempts :
       att[d][i].at \in {"retrying", "backoff"} => att[d][i].retry < MaxRetries

\* Some attempt is executing.
Busy(att) == \E d \in Docs, i \in Attempts : att[d][i].at \in Running

IInv ==
  /\ TypeOK
  /\ Good(queue, active, attempt)
  /\ NoLostWakeup

-----------------------------------------------------------------------------

\* In a queue without duplicates FirstIndex is the index of the document's job.
LEMMA FirstIndexFacts ==
  ASSUME NEW q \in Seq(Job), NEW k \in 1 .. Len(q),
         \A i, j \in 1 .. Len(q) : q[i].doc = q[j].doc => i = j
  PROVE  FirstIndex(q, q[k].doc) = k
<1>1. q[k].doc = q[k].doc /\ \A j \in 1 .. k - 1 : q[j].doc # q[k].doc
  OBVIOUS
<1>2. \A i \in 1 .. Len(q) : q[i].doc = q[k].doc => i = k
  OBVIOUS
<1> QED BY <1>1, <1>2 DEF FirstIndex

\* Splicing a document's job out leaves the other jobs, in a queue of its kind.
LEMMA SpliceFacts ==
  ASSUME NEW q \in Seq(Job), NEW d \in Docs,
         \A i, j \in 1 .. Len(q) : q[i].doc = q[j].doc => i = j
  PROVE  /\ Splice(q, d) \in Seq(Job)
         /\ \A i, j \in 1 .. Len(Splice(q, d)) :
              Splice(q, d)[i].doc = Splice(q, d)[j].doc => i = j
         /\ \A i \in 1 .. Len(Splice(q, d)) :
              /\ Splice(q, d)[i].doc # d
              /\ \E j \in 1 .. Len(q) : Splice(q, d)[i] = q[j]
<1>1. CASE ~Queued(q, d)
  BY <1>1 DEF Splice, Queued
<1>2. CASE Queued(q, d)
  <2>1. PICK k \in 1 .. Len(q) : q[k].doc = d
    BY <1>2 DEF Queued
  <2>2. FirstIndex(q, d) = k
    BY <2>1, FirstIndexFacts
  <2> DEFINE s == [j \in 1 .. Len(q) - 1 |-> IF j < k THEN q[j] ELSE q[j + 1]]
  <2>3. Splice(q, d) = s
    BY <1>2, <2>2 DEF Splice
  <2>4. Len(q) \in Nat /\ Len(q) - 1 \in Nat
    OBVIOUS
  <2>5. \A j \in 1 .. Len(q) - 1 : s[j] = (IF j < k THEN q[j] ELSE q[j + 1])
    OBVIOUS
  <2>6. \A j \in 1 .. Len(q) : q[j] \in Job
    OBVIOUS
  <2>7. s \in Seq(Job) /\ Len(s) = Len(q) - 1
    <3>1. \A j \in 1 .. Len(q) - 1 : s[j] \in Job
      BY <2>5, <2>6
    <3> QED BY <3>1, <2>4
  <2> QED BY <2>1, <2>3, <2>4, <2>5, <2>7
<1> QED BY <1>1, <1>2

\* scheduleNext keeps the invariant, and leaves jobs queued only if some attempt
\* is executing.
LEMMA ScheduleNextFacts ==
  ASSUME NEW q, NEW act, NEW att, NEW limit \in Nat \ {0},
         Good(q, act, att), ScheduleNext(q, act, att, limit)
  PROVE  /\ Good(queue, active, attempt)'
         /\ queue' # <<>> => Busy(attempt')
<1>1. PICK k \in 0 .. Len(q) :
        /\ k = Len(q) \/ Full(q, act, k, limit)
        /\ \A d \in Started(q, act, k) : \E i \in Attempts : att[d][i].at = "free"
        /\ queue' = SubSeq(q, k + 1, Len(q))
        /\ active' = [d \in Docs |->
             IF d \in Started(q, act, k) THEN FreeSlot(att, d) ELSE act[d]]
        /\ attempt' = [d \in Docs |->
             IF d \in Started(q, act, k)
             THEN [att[d] EXCEPT ![FreeSlot(att, d)] = Begin(q[FirstIndex(q, d)])]
             ELSE att[d]]
  BY DEF ScheduleNext
<1> DEFINE S == Started(q, act, k)
<1>2. /\ q \in Seq(Job)
      /\ act \in [Docs -> Attempts \cup {None}]
      /\ att \in [Docs -> [Attempts -> Attempt]]
      /\ \A i, j \in 1 .. Len(q) : q[i].doc = q[j].doc => i = j
      /\ \A i \in 1 .. Len(q) : act[q[i].doc] = None
  BY DEF Good
<1>3. \A d \in S : FreeSlot(att, d) \in Attempts
                     /\ att[d][FreeSlot(att, d)].at = "free"
  BY <1>1 DEF FreeSlot
<1>4. \A i \in 1 .. Len(q) : q[i] \in Job /\ q[i].doc \in Docs
  <2>1. \A i \in 1 .. Len(q) : q[i] \in Job
    BY <1>2
  <2>2. \A j \in Job : j.doc \in Docs
    BY DEF Job
  <2> QED BY <2>1, <2>2
<1>5. \A d \in S : /\ Begin(q[FirstIndex(q, d)]) \in Attempt
                   /\ Begin(q[FirstIndex(q, d)]).at \in Running \ {"retrying"}
                   /\ Begin(q[FirstIndex(q, d)]).signal = "clear"
  <2> SUFFICES ASSUME NEW d \in S
               PROVE  /\ Begin(q[FirstIndex(q, d)]) \in Attempt
                      /\ Begin(q[FirstIndex(q, d)]).at \in Running \ {"retrying"}
                      /\ Begin(q[FirstIndex(q, d)]).signal = "clear"
    OBVIOUS
  <2>1. PICK i \in 1 .. Len(q) : q[i].doc = d
    BY <1>1, <1>2 DEF Started
  <2>2. FirstIndex(q, d) = i
    BY <2>1, <1>2, FirstIndexFacts
  <2>3. q[i] \in Job
    BY <1>4
  <2> QED BY <2>2, <2>3 DEF Begin, Job, Attempt, Running, Timed, StageWrites
<1>6. /\ queue' \in Seq(Job)
      /\ Len(queue') = Len(q) - k
      /\ \A i \in 1 .. Len(queue') : queue'[i] = q[k + i]
  <2>1. Len(q) \in Nat /\ k + 1 \in 1 .. Len(q) + 1
    BY <1>2
  <2> QED BY <1>1, <1>2, <2>1, SubSeqProperties
<1>7. active' \in [Docs -> Attempts \cup {None}]
  BY <1>1, <1>2, <1>3
<1>8. attempt' \in [Docs -> [Attempts -> Attempt]]
  BY <1>1, <1>2, <1>3, <1>5
<1>9. \A i, j \in 1 .. Len(queue') : queue'[i].doc = queue'[j].doc => i = j
  <2>1. \A i \in 1 .. Len(queue') : k + i \in 1 .. Len(q) /\ queue'[i] = q[k + i]
    BY <1>2, <1>6
  <2> SUFFICES ASSUME NEW i \in 1 .. Len(queue'), NEW j \in 1 .. Len(queue'),
                      queue'[i].doc = queue'[j].doc
               PROVE  i = j
    OBVIOUS
  <2>2. q[k + i].doc = q[k + j].doc
    BY <2>1
  <2>3. k + i = k + j
    BY <2>1, <2>2, <1>2
  <2> QED BY <2>3
<1>10. \A i \in 1 .. Len(queue') : active'[queue'[i].doc] = None
  <2> SUFFICES ASSUME NEW i \in 1 .. Len(queue')
               PROVE  active'[queue'[i].doc] = None
    OBVIOUS
  <2>1. k + i \in 1 .. Len(q) /\ queue'[i] = q[k + i]
    BY <1>2, <1>6
  <2>2. \A j \in 1 .. k : q[j].doc # q[k + i].doc
    BY <2>1, <1>2
  <2>3. q[k + i].doc \in Docs /\ q[k + i].doc \notin S
    BY <2>1, <2>2, <1>4 DEF Started
  <2> QED BY <1>1, <1>2, <2>1, <2>3
<1>11. \A d \in Docs : active'[d] # None =>
         /\ attempt'[d][active'[d]].at \in Running
         /\ attempt'[d][active'[d]].signal # "caller"
  <2> SUFFICES ASSUME NEW d \in Docs, active'[d] # None
               PROVE  /\ attempt'[d][active'[d]].at \in Running
                      /\ attempt'[d][active'[d]].signal # "caller"
    OBVIOUS
  <2>1. CASE d \in S
    <3>1. active'[d] = FreeSlot(att, d)
      BY <1>1, <2>1
    <3>2. attempt'[d] =
            [att[d] EXCEPT ![FreeSlot(att, d)] = Begin(q[FirstIndex(q, d)])]
      BY <1>1, <2>1
    <3>3. attempt'[d][active'[d]] = Begin(q[FirstIndex(q, d)])
      BY <3>1, <3>2, <2>1, <1>2, <1>3
    <3> QED BY <3>3, <2>1, <1>5
  <2>2. CASE d \notin S
    <3>1. active'[d] = act[d] /\ attempt'[d] = att[d]
      BY <1>1, <2>2
    <3> QED BY <3>1 DEF Good
  <2> QED BY <2>1, <2>2
<1>12. \A d \in Docs, i \in Attempts :
         attempt'[d][i].at \in {"retrying", "backoff"} =>
           attempt'[d][i].retry < MaxRetries
  <2> SUFFICES ASSUME NEW d \in Docs, NEW i \in Attempts,
                      attempt'[d][i].at \in {"retrying", "backoff"}
               PROVE  attempt'[d][i].retry < MaxRetries
    OBVIOUS
  <2>1. "backoff" \notin Running
    BY DEF Running, Timed, StageWrites, Work
  <2>2. attempt'[d][i] = att[d][i]
    <3>1. CASE d \in S
      <4>1. attempt'[d] =
              [att[d] EXCEPT ![FreeSlot(att, d)] = Begin(q[FirstIndex(q, d)])]
        BY <1>1, <3>1
      <4>2. i # FreeSlot(att, d)
        BY <4>1, <3>1, <2>1, <1>2, <1>3, <1>5
      <4> QED BY <4>1, <4>2, <1>2
    <3>2. CASE d \notin S
      BY <1>1, <3>2
    <3> QED BY <3>1, <3>2
  <2> QED BY <2>2 DEF Good
<1>13. ASSUME queue' # <<>>
       PROVE  Busy(attempt')
  <2>1. k # Len(q)
    BY <1>13, <1>6
  <2>2. Keys(q, act, k) # {}
    <3> SUFFICES ASSUME Keys(q, act, k) = {}
                 PROVE  FALSE
      OBVIOUS
    <3>1. Cardinality(Keys(q, act, k)) = 0
      BY FS_EmptySet
    <3> QED BY <3>1, <2>1, <1>1 DEF Full
  <2>3. PICK d \in Docs : active'[d] # None
    <3>1. CASE \E d \in Docs : act[d] # None
      <4>1. PICK d \in Docs : act[d] # None
        BY <3>1
      <4>2. d \notin S
        BY <4>1 DEF Started
      <4> QED BY <4>1, <4>2, <1>1
    <3>2. CASE \E i \in 1 .. k : TRUE
      <4>1. PICK i \in 1 .. k : TRUE
        BY <3>2
      <4>2. i \in 1 .. Len(q)
        BY <1>2
      <4>3. q[i].doc \in Docs /\ q[i].doc \in S
        BY <4>1, <4>2, <1>2, <1>4 DEF Started
      <4>4. FreeSlot(att, q[i].doc) # None
        BY <4>3, <1>3 DEF Attempts, None
      <4> QED BY <4>3, <4>4, <1>1
    <3> QED BY <2>2, <3>1, <3>2 DEF Keys
  <2>4. active'[d] \in Attempts
    BY <2>3, <1>7
  <2> QED BY <2>3, <2>4, <1>11 DEF Busy
<1> QED
  BY <1>6, <1>7, <1>8, <1>9, <1>10, <1>11, <1>12, <1>13 DEF Good

\* An executing attempt that goes on executing, or is aborted by its timer, keeps
\* the invariant.
LEMMA KeepGoing ==
  ASSUME NEW q, NEW act, NEW att, Good(q, act, att),
         NEW d \in Docs, NEW i \in Attempts, NEW a \in Attempt,
         a.at \in Running,
         a.signal # "caller" \/ a.signal = att[d][i].signal,
         a.at = "retrying" => a.retry < MaxRetries
  PROVE  /\ Good(q, act, [att EXCEPT ![d][i] = a])
         /\ Busy([att EXCEPT ![d][i] = a])
<1> DEFINE new == [att EXCEPT ![d][i] = a]
<1>1. att \in [Docs -> [Attempts -> Attempt]]
  BY DEF Good
<1>2. new \in [Docs -> [Attempts -> Attempt]]
  BY <1>1
<1>3. \A e \in Docs, j \in Attempts :
        new[e][j] = (IF e = d /\ j = i THEN a ELSE att[e][j])
  BY <1>1
<1>4. "backoff" \notin Running
  BY DEF Running, Timed, StageWrites, Work
<1>5. \A e \in Docs : act[e] # None =>
        act[e] \in Attempts /\ new[e][act[e]].at \in Running
          /\ new[e][act[e]].signal # "caller"
  <2> SUFFICES ASSUME NEW e \in Docs, act[e] # None
               PROVE  act[e] \in Attempts /\ new[e][act[e]].at \in Running
                        /\ new[e][act[e]].signal # "caller"
    OBVIOUS
  <2>1. act[e] \in Attempts /\ att[e][act[e]].at \in Running
          /\ att[e][act[e]].signal # "caller"
    BY DEF Good
  <2> HIDE DEF new
  <2> QED BY <2>1, <1>3
<1>6. \A e \in Docs, j \in Attempts :
        new[e][j].at \in {"retrying", "backoff"} => new[e][j].retry < MaxRetries
  <2> HIDE DEF new
  <2> QED BY <1>3, <1>4 DEF Good
<1>7. Busy(new)
  <2>1. new[d][i].at \in Running
    BY <1>3
  <2> QED BY <2>1 DEF Busy
<1> HIDE DEF new
<1>8. Good(q, act, new)
  BY <1>2, <1>5, <1>6 DEF Good
<1> QED BY <1>7, <1>8 DEF new

\* Removing the document's entry from `active', and putting an attempt of it out
\* of execution, keeps the invariant: the entry may have named another attempt.
LEMMA EntryGone ==
  ASSUME NEW q, NEW act, NEW att, Good(q, act, att),
         NEW d \in Docs, NEW i \in Attempts, NEW a \in Attempt,
         a.at \in {"retrying", "backoff"} => a.retry < MaxRetries
  PROVE  Good(q, [act EXCEPT ![d] = None], [att EXCEPT ![d][i] = a])
<1> DEFINE new == [att EXCEPT ![d][i] = a]
           gone == [act EXCEPT ![d] = None]
<1>1. /\ att \in [Docs -> [Attempts -> Attempt]]
      /\ act \in [Docs -> Attempts \cup {None}]
  BY DEF Good
<1>2. /\ new \in [Docs -> [Attempts -> Attempt]]
      /\ gone \in [Docs -> Attempts \cup {None}]
  BY <1>1
<1>3. \A e \in Docs, j \in Attempts :
        new[e][j] = (IF e = d /\ j = i THEN a ELSE att[e][j])
  BY <1>1
<1>4. \A e \in Docs : gone[e] = (IF e = d THEN None ELSE act[e])
  BY <1>1
<1> HIDE DEF new, gone
<1>5. \A e \in Docs : gone[e] # None =>
        new[e][gone[e]].at \in Running /\ new[e][gone[e]].signal # "caller"
  <2> SUFFICES ASSUME NEW e \in Docs, gone[e] # None
               PROVE  new[e][gone[e]].at \in Running
                        /\ new[e][gone[e]].signal # "caller"
    OBVIOUS
  <2>1. e # d /\ gone[e] = act[e] /\ act[e] \in Attempts
    BY <1>1, <1>4
  <2>2. att[e][act[e]].at \in Running /\ att[e][act[e]].signal # "caller"
    BY <2>1 DEF Good
  <2> QED BY <2>1, <2>2, <1>3
<1>6. \A k \in 1 .. Len(q) : gone[q[k].doc] = None
  <2>1. \A k \in 1 .. Len(q) : q[k].doc \in Docs
    <3>1. \A k \in 1 .. Len(q) : q[k] \in Job
      BY DEF Good
    <3>2. \A j \in Job : j.doc \in Docs
      BY DEF Job
    <3> QED BY <3>1, <3>2
  <2> QED BY <2>1, <1>4 DEF Good
<1>7. \A e \in Docs, j \in Attempts :
        new[e][j].at \in {"retrying", "backoff"} => new[e][j].retry < MaxRetries
  BY <1>3 DEF Good
<1>8. Good(q, gone, new)
  BY <1>2, <1>5, <1>6, <1>7 DEF Good
<1> QED BY <1>8 DEF new, gone

\* So does aborting the document's registered attempt and removing its entry.
LEMMA AbortFacts ==
  ASSUME NEW q, NEW act, NEW att, Good(q, act, att), NEW d \in Docs
  PROVE  /\ Good(q, [act EXCEPT ![d] = None], AbortActive(act, att, d))
         /\ Busy(att) => Busy(AbortActive(act, att, d))
         /\ act[d] # None => Busy(AbortActive(act, att, d))
<1>1. /\ att \in [Docs -> [Attempts -> Attempt]]
      /\ act \in [Docs -> Attempts \cup {None}]
  BY DEF Good
<1>2. CASE act[d] = None
  <2>1. [act EXCEPT ![d] = None] = act /\ AbortActive(act, att, d) = att
    BY <1>1, <1>2 DEF AbortActive
  <2> QED BY <2>1, <1>2
<1>3. CASE act[d] # None
  <2>1. act[d] \in Attempts /\ att[d][act[d]] \in Attempt
          /\ att[d][act[d]].at \in Running
    BY <1>1, <1>3 DEF Good
  <2> DEFINE a == IF att[d][act[d]].signal # "clear" THEN att[d][act[d]]
                  ELSE [att[d][act[d]] EXCEPT !.signal = "caller"]
  <2>2. a \in Attempt /\ a.at = att[d][act[d]].at /\ a.retry = att[d][act[d]].retry
    BY <2>1 DEF Attempt
  <2>3. AbortActive(act, att, d) = [att EXCEPT ![d][act[d]] = a]
    BY <1>1, <1>3, <2>1 DEF AbortActive
  <2>4. a.at \in {"retrying", "backoff"} => a.retry < MaxRetries
    BY <2>1, <2>2 DEF Good
  <2> HIDE DEF a
  <2>5. AbortActive(act, att, d)[d][act[d]] = a
    <3>1. att[d] \in [Attempts -> Attempt]
      BY <1>1
    <3>2. [att EXCEPT ![d][act[d]] = a][d] = [att[d] EXCEPT ![act[d]] = a]
      BY <1>1
    <3>3. [att[d] EXCEPT ![act[d]] = a][act[d]] = a
      BY <2>1, <3>1
    <3> QED BY <2>3, <3>2, <3>3
  <2>6. Busy(AbortActive(act, att, d))
    BY <2>1, <2>2, <2>5 DEF Busy
  <2>7. Good(q, [act EXCEPT ![d] = None], [att EXCEPT ![d][act[d]] = a])
    BY <2>1, <2>2, <2>4, EntryGone
  <2> QED BY <2>3, <2>6, <2>7
<1> QED BY <1>2, <1>3

\* Appending a job whose document is neither queued nor active.
LEMMA AppendFacts ==
  ASSUME NEW q, NEW act, NEW att, Good(q, act, att), NEW job \in Job,
         ~Queued(q, job.doc), act[job.doc] = None
  PROVE  Good(Append(q, job), act, att)
<1>1. q \in Seq(Job) /\ Len(q) \in Nat
  BY DEF Good
<1>2. /\ Append(q, job) \in Seq(Job)
      /\ Len(Append(q, job)) = Len(q) + 1
      /\ \A i \in 1 .. Len(q) : Append(q, job)[i] = q[i]
      /\ Append(q, job)[Len(q) + 1] = job
  BY <1>1
<1>3. \A i \in 1 .. Len(q) + 1 : i \in 1 .. Len(q) \/ i = Len(q) + 1
  BY <1>1
<1>4. \A i \in 1 .. Len(q) : q[i].doc # job.doc
  BY DEF Queued
<1>5. \A i, j \in 1 .. Len(q) : q[i].doc = q[j].doc => i = j
  BY DEF Good
<1>6. \A i, j \in 1 .. Len(Append(q, job)) :
        Append(q, job)[i].doc = Append(q, job)[j].doc => i = j
  BY <1>2, <1>3, <1>4, <1>5
<1>7. \A i \in 1 .. Len(Append(q, job)) : act[Append(q, job)[i].doc] = None
  BY <1>2, <1>3 DEF Good
<1> QED BY <1>2, <1>6, <1>7 DEF Good

\* enqueue keeps the invariant and loses no wakeup.
LEMMA EnqueueFacts ==
  ASSUME NEW att, Good(queue, active, att), concurrency \in Nat \ {0},
         queue # <<>> => Busy(att),
         NEW job \in Job, Enqueue(job, att)
  PROVE  /\ Good(queue, active, attempt)'
         /\ queue' # <<>> => Busy(attempt')
<1>1. job.doc \in Docs
  BY DEF Job
<1>2. CASE job.force
  <2> DEFINE q == Splice(queue, job.doc)
             act == [active EXCEPT ![job.doc] = None]
             abt == AbortActive(active, att, job.doc)
  <2>1. Good(queue, act, abt)
    BY <1>1, AbortFacts
  <2>2. /\ q \in Seq(Job)
        /\ \A i, j \in 1 .. Len(q) : q[i].doc = q[j].doc => i = j
        /\ \A i \in 1 .. Len(q) : q[i].doc # job.doc
                                    /\ \E j \in 1 .. Len(queue) : q[i] = queue[j]
    BY <1>1, SpliceFacts DEF Good
  <2>3. ~Queued(q, job.doc)
    BY <2>2 DEF Queued
  <2>4. act[job.doc] = None
    BY <1>1 DEF Good
  <2>5. ScheduleNext(Append(q, job), act, abt, concurrency)
    BY <1>2 DEF Enqueue
  <2> HIDE DEF q, act, abt
  <2>6. Good(q, act, abt)
    BY <2>1, <2>2 DEF Good
  <2>7. Good(Append(q, job), act, abt)
    BY <2>3, <2>4, <2>6, AppendFacts
  <2> QED BY <2>5, <2>7, ScheduleNextFacts
<1>3. CASE ~job.force /\ (Queued(queue, job.doc) \/ active[job.doc] # None)
  <2>1. attempt' = att /\ queue' = queue /\ active' = active
    BY <1>3 DEF Enqueue
  <2> QED BY <2>1
<1>4. CASE ~job.force /\ ~Queued(queue, job.doc) /\ active[job.doc] = None
  <2>1. ScheduleNext(Append(queue, job), active, att, concurrency)
    BY <1>4 DEF Enqueue
  <2>2. Good(Append(queue, job), active, att)
    BY <1>4, AppendFacts
  <2> QED BY <2>1, <2>2, ScheduleNextFacts
<1> QED BY <1>2, <1>3, <1>4 DEF Job

\* What an attempt leaves behind when its last write is done.
Left(d, i) ==
  IF attempt[d][i].at = "retrying"
  THEN [attempt[d][i] EXCEPT !.at = "backoff", !.signal = "clear"]
  ELSE Free

\* The job a retry timer enqueues.
RetryJob(d, i) == [doc |-> d, force |-> attempt[d][i].force,
                   retry |-> attempt[d][i].retry + 1]

\* Neither the free record nor the one that waits for its timer executes.
LEMMA IdleFacts ==
  /\ Free \in Attempt /\ Free.at = "free" /\ ~Free.force
  /\ "free" \notin Running /\ "backoff" \notin Running
BY PQAssumption DEF Free, Attempt, Running, Timed, StageWrites, Work

\* finally() hands scheduleNext variables that keep the invariant.
LEMMA SettleFacts ==
  ASSUME Good(queue, active, attempt), NEW d \in Docs, NEW i \in Attempts
  PROVE  /\ Left(d, i) \in Attempt
         /\ Left(d, i).at = IF attempt[d][i].at = "retrying" THEN "backoff"
                                                           ELSE "free"
         /\ attempt[d][i].force \/ ~Left(d, i).force
         /\ Good(queue, [active EXCEPT ![d] = None],
                 [attempt EXCEPT ![d][i] = Left(d, i)])
<1>1. attempt[d][i] \in Attempt
  BY DEF Good
<1>2. CASE attempt[d][i].at = "retrying"
  <2>1. Left(d, i) = [attempt[d][i] EXCEPT !.at = "backoff", !.signal = "clear"]
    BY <1>2 DEF Left
  <2>2. /\ Left(d, i) \in Attempt
        /\ Left(d, i).at = "backoff"
        /\ Left(d, i).force = attempt[d][i].force
        /\ Left(d, i).retry = attempt[d][i].retry
    BY <1>1, <2>1 DEF Attempt
  <2>3. attempt[d][i].retry < MaxRetries
    BY <1>2 DEF Good
  <2> QED BY <1>2, <2>2, <2>3, EntryGone
<1>3. CASE attempt[d][i].at # "retrying"
  <2>1. Left(d, i) = Free
    BY <1>3 DEF Left
  <2>2. Left(d, i) \in Attempt /\ Left(d, i).at = "free" /\ ~Left(d, i).force
    BY <2>1, IdleFacts
  <2> QED BY <1>3, <2>2, EntryGone
<1> QED BY <1>2, <1>3

\* So does the retry timer, which frees its record and enqueues.
LEMMA RetryFacts ==
  ASSUME Good(queue, active, attempt), NEW d \in Docs, NEW i \in Attempts,
         attempt[d][i].at = "backoff"
  PROVE  /\ RetryJob(d, i) \in Job
         /\ RetryJob(d, i).doc = d /\ RetryJob(d, i).force = attempt[d][i].force
         /\ \A e \in Docs, j \in Attempts : [attempt EXCEPT ![d][i] = Free][e][j] =
              IF e = d /\ j = i THEN Free ELSE attempt[e][j]
         /\ Good(queue, active, [attempt EXCEPT ![d][i] = Free])
<1> DEFINE att == [attempt EXCEPT ![d][i] = Free]
<1>1. /\ attempt \in [Docs -> [Attempts -> Attempt]]
      /\ active \in [Docs -> Attempts \cup {None}]
      /\ attempt[d][i] \in Attempt
      /\ attempt[d][i].retry < MaxRetries
  BY DEF Good
<1>2. RetryJob(d, i) \in Job
  BY <1>1, PQAssumption DEF RetryJob, Job, Attempt
<1>3. /\ att \in [Docs -> [Attempts -> Attempt]]
      /\ \A e \in Docs, j \in Attempts :
           att[e][j] = IF e = d /\ j = i THEN Free ELSE attempt[e][j]
  BY <1>1, IdleFacts
<1> HIDE DEF att
<1>4. \A e \in Docs : active[e] # None =>
        att[e][active[e]].at \in Running /\ att[e][active[e]].signal # "caller"
  <2> SUFFICES ASSUME NEW e \in Docs, active[e] # None
               PROVE  /\ att[e][active[e]].at \in Running
                      /\ att[e][active[e]].signal # "caller"
    OBVIOUS
  <2>1. active[e] \in Attempts /\ attempt[e][active[e]].at \in Running
          /\ attempt[e][active[e]].signal # "caller"
    BY <1>1 DEF Good
  <2>2. ~(e = d /\ active[e] = i)
    BY <2>1, IdleFacts
  <2> QED BY <1>3, <2>1, <2>2
<1>5. \A e \in Docs, j \in Attempts :
        att[e][j].at \in {"retrying", "backoff"} => att[e][j].retry < MaxRetries
  BY <1>3, IdleFacts DEF Good
<1>6. Good(queue, active, att)
  BY <1>3, <1>4, <1>5 DEF Good
<1> QED BY <1>2, <1>3, <1>6 DEF att, RetryJob

-----------------------------------------------------------------------------

\* The other variables: what the outside and the database hold.
EnvOK ==
  /\ concurrency \in Nat \ {0}
  /\ status \in [Docs -> Status]
  /\ pages \in [Docs -> BOOLEAN]
  /\ asking \subseteq Docs
  /\ forcing \in [Docs -> Nat]
  /\ budget \in [Kinds -> Nat]

\* Every step keeps their types.
LEMMA EnvStep ==
  ASSUME EnvOK, Next, attempt \in [Docs -> [Attempts -> Attempt]]
  PROVE  EnvOK'
<1> USE PQAssumption
<1>1. ASSUME NEW kind \in Kinds, Spend(kind)
      PROVE  budget' \in [Kinds -> Nat]
  BY <1>1 DEF Spend, EnvOK
<1>2. ASSUME NEW d \in Docs, NEW s \in Status, WriteStatus(d, s)
      PROVE  budget' \in [Kinds -> Nat] /\ status' \in [Docs -> Status]
  <2>1. CASE Spend("fault") /\ UNCHANGED status
    BY <2>1, <1>1 DEF Kinds, EnvOK
  <2>2. CASE status' = [status EXCEPT ![d] = s] /\ UNCHANGED budget
    BY <2>2, <1>2 DEF EnvOK
  <2> QED BY <1>2, <2>1, <2>2 DEF WriteStatus
<1>3. \A p \in StageWrites \cup {"ready", "retrying", "error"} :
        Written(p) \in Status
  BY DEF Written, StageWrites, Status, Intermediate
<1>4. ASSUME NEW d \in Docs, Ask(d) PROVE EnvOK'
  BY <1>4, <1>1 DEF Ask, EnvOK, Kinds
<1>5. ASSUME NEW d \in Docs, Asked(d) PROVE EnvOK'
  BY <1>5 DEF Asked, EnvOK
<1>6. ASSUME NEW d \in Docs, ForceNow(d) PROVE EnvOK'
  BY <1>6, <1>1 DEF ForceNow, EnvOK, Kinds
<1>7. ASSUME NEW d \in Docs, CancelActive(d) PROVE EnvOK'
  BY <1>7, <1>1 DEF CancelActive, EnvOK, Kinds
<1>8. ASSUME NEW d \in Docs, Cancelled(d) PROVE EnvOK'
  <2>1. "error" \in Status
    BY DEF Status
  <2>2. budget' \in [Kinds -> Nat] /\ status' \in [Docs -> Status]
    BY <1>8, <1>2, <2>1 DEF Cancelled
  <2>3. forcing' \in [Docs -> Nat]
    BY <1>8 DEF Cancelled, EnvOK
  <2> QED BY <1>8, <2>2, <2>3 DEF Cancelled, EnvOK
<1>9. ASSUME NEW n \in Levels, SetConcurrency(n) PROVE EnvOK'
  <2>1. n \in Nat
    OBVIOUS
  <2>2. concurrency' \in Nat \ {0}
    BY <1>9, <2>1 DEF SetConcurrency
  <2>3. budget' \in [Kinds -> Nat]
    BY <1>9, <1>1 DEF SetConcurrency, Kinds
  <2> QED BY <1>9, <2>2, <2>3 DEF SetConcurrency, EnvOK
<1>10. ASSUME NEW d \in Docs, NEW i \in Attempts, AttemptStep(d, i) PROVE EnvOK'
  <2>1. CASE Cleanup(d, i)
    BY <2>1 DEF Cleanup, EnvOK
  <2>2. CASE StageWrite(d, i)
    BY <2>2, <1>2, <1>3 DEF StageWrite, EnvOK
  <2>3. CASE WorkDone(d, i)
    BY <2>3 DEF WorkDone, EnvOK
  <2>4. CASE WorkThrows(d, i)
    BY <2>4 DEF WorkThrows, EnvOK
  <2>5. CASE Timeout(d, i)
    BY <2>5 DEF Timeout, EnvOK
  <2>6. CASE Settle(d, i)
    BY <2>6, <1>2, <1>3 DEF Settle, EnvOK
  <2>7. CASE Retry(d, i)
    BY <2>7 DEF Retry, EnvOK
  <2> QED BY <1>10, <2>1, <2>2, <2>3, <2>4, <2>5, <2>6, <2>7 DEF AttemptStep
<1>11. CASE Restart
  <2>1. status' \in [Docs -> Status]
    BY <1>11 DEF Restart, Recover, EnvOK, Status
  <2>2. budget' \in [Kinds -> Nat]
    BY <1>11 DEF Restart, Recover, EnvOK, Kinds
  <2>3. concurrency' \in Nat \ {0} /\ forcing' \in [Docs -> Nat]
    BY <1>11 DEF Restart
  <2> QED BY <1>11, <2>1, <2>2, <2>3 DEF Restart, EnvOK
<1> QED
  BY <1>4, <1>5, <1>6, <1>7, <1>8, <1>9, <1>10, <1>11 DEF Next

\* Every step keeps the queue's own invariant and loses no wakeup.
LEMMA CoreStep ==
  ASSUME EnvOK, Good(queue, active, attempt), queue # <<>> => Busy(attempt), Next
  PROVE  /\ Good(queue, active, attempt)'
         /\ queue' # <<>> => Busy(attempt')
<1> USE PQAssumption
<1> DEFINE Goal == /\ Good(queue, active, attempt)'
                   /\ queue' # <<>> => Busy(attempt')
<1>0. /\ attempt \in [Docs -> [Attempts -> Attempt]]
      /\ \A d \in Docs, i \in Attempts : attempt[d][i] \in Attempt
      /\ concurrency \in Nat \ {0}
  BY DEF Good, EnvOK
<1>1. ASSUME NEW d \in Docs PROVE \A f \in BOOLEAN : FirstTry(d, f) \in Job
  BY DEF FirstTry, Job
<1>2. ASSUME UNCHANGED <<queue, active, attempt>> PROVE Goal
  BY <1>2
<1>3. ASSUME NEW d \in Docs, NEW i \in Attempts, attempt[d][i].at \in Running,
             NEW p \in Running, p = "retrying" => attempt[d][i].retry < MaxRetries,
             Goto(d, i, p), UNCHANGED <<queue, active>>
      PROVE  Goal
  <2> DEFINE a == [attempt[d][i] EXCEPT !.at = p]
  <2>1. a \in Attempt /\ a.at = p /\ a.signal = attempt[d][i].signal
          /\ a.retry = attempt[d][i].retry
    <3>1. attempt[d][i] \in Attempt
      BY <1>0
    <3> QED BY <3>1 DEF Attempt
  <2>2. attempt' = [attempt EXCEPT ![d][i] = a]
    BY <1>0, <1>3 DEF Goto
  <2> HIDE DEF a
  <2>3. Good(queue, active, [attempt EXCEPT ![d][i] = a])
          /\ Busy([attempt EXCEPT ![d][i] = a])
    BY <1>3, <2>1, KeepGoing
  <2> QED BY <1>3, <2>2, <2>3
<1>4. ASSUME NEW d \in Docs, NEW i \in Attempts
      PROVE  /\ FailPoint(attempt[d][i]) \in Running
             /\ FailPoint(attempt[d][i]) = "retrying"
                  => attempt[d][i].retry < MaxRetries
  BY DEF FailPoint, Running
<1>5. ASSUME NEW d \in Docs, NEW i \in Attempts,
             attempt[d][i].at \in {"cleanup"} \cup StageWrites \cup Work
      PROVE  /\ NextPoint(attempt[d][i]) \in Running
             /\ NextPoint(attempt[d][i]) = "retrying"
                  => attempt[d][i].retry < MaxRetries
  <2>1. After(attempt[d][i].at) \in Running \ {"retrying"}
    BY <1>5 DEF After, Running, Timed, StageWrites, Work
  <2> QED BY <2>1, <1>4 DEF NextPoint
<1>6. {"cleanup"} \cup StageWrites \cup Work \cup Timed \subseteq Running
  BY DEF Running, Timed
<1>7. ASSUME NEW d \in Docs, Ask(d) \/ Asked(d) \/ ForceNow(d) \/ CancelActive(d)
                               \/ Cancelled(d)
      PROVE  Goal
  <2>1. CASE Ask(d)
    BY <2>1, <1>2 DEF Ask
  <2>2. CASE Asked(d)
    BY <2>2, <1>0, <1>1, EnqueueFacts DEF Asked
  <2>3. CASE ForceNow(d)
    BY <2>3, <1>0, <1>1, EnqueueFacts DEF ForceNow
  <2>4. CASE CancelActive(d)
    BY <2>4, AbortFacts DEF CancelActive
  <2>5. CASE Cancelled(d)
    BY <2>5, <1>0, <1>1, EnqueueFacts DEF Cancelled
  <2> QED BY <1>7, <2>1, <2>2, <2>3, <2>4, <2>5
<1>8. ASSUME NEW n \in Levels, SetConcurrency(n) PROVE Goal
  <2>1. concurrency' \in Nat \ {0}
    BY <1>8 DEF SetConcurrency
  <2> QED BY <2>1, <1>8, ScheduleNextFacts DEF SetConcurrency
<1>9. ASSUME NEW d \in Docs, NEW i \in Attempts, AttemptStep(d, i) PROVE Goal
  <2>1. CASE Cleanup(d, i)
    BY <2>1, <1>3, <1>5, <1>6 DEF Cleanup
  <2>2. CASE StageWrite(d, i)
    BY <2>2, <1>3, <1>5, <1>6 DEF StageWrite
  <2>3. CASE WorkDone(d, i)
    BY <2>3, <1>3, <1>5, <1>6 DEF WorkDone
  <2>4. CASE WorkThrows(d, i)
    <3>1. attempt[d][i].at \in Running
      BY <2>4 DEF WorkThrows, Running, Timed, Work
    <3> QED BY <2>4, <3>1, <1>3, <1>4 DEF WorkThrows
  <2>5. CASE Timeout(d, i)
    <3> DEFINE a == [attempt[d][i] EXCEPT !.signal = "timeout"]
    <3>1. a \in Attempt /\ a.at = attempt[d][i].at /\ a.signal = "timeout"
      <4>1. attempt[d][i] \in Attempt
        BY <1>0
      <4> QED BY <4>1 DEF Attempt
    <3>2. a.at \in Running /\ a.at # "retrying"
      BY <2>5, <3>1, <1>6 DEF Timeout, Timed, StageWrites, Work
    <3>3. attempt' = [attempt EXCEPT ![d][i] = a]
      BY <1>0, <2>5 DEF Timeout
    <3> HIDE DEF a
    <3>4. Good(queue, active, [attempt EXCEPT ![d][i] = a])
            /\ Busy([attempt EXCEPT ![d][i] = a])
      BY <3>1, <3>2, KeepGoing
    <3> QED BY <2>5, <3>3, <3>4 DEF Timeout
  <2>6. CASE Settle(d, i)
    <3>1. ScheduleNext(queue, [active EXCEPT ![d] = None],
                       [attempt EXCEPT ![d][i] = Left(d, i)], concurrency)
      BY <2>6 DEF Settle, Finally, Left
    <3> QED BY <3>1, <1>0, SettleFacts, ScheduleNextFacts
  <2>7. CASE Retry(d, i)
    <3> DEFINE att == [attempt EXCEPT ![d][i] = Free]
    <3>1. attempt[d][i].at = "backoff" /\ Enqueue(RetryJob(d, i), att)
      BY <2>7 DEF Retry, RetryJob
    <3>2. /\ RetryJob(d, i) \in Job
          /\ Good(queue, active, att)
          /\ \A e \in Docs, j \in Attempts :
               att[e][j] = IF e = d /\ j = i THEN Free ELSE attempt[e][j]
      BY <3>1, RetryFacts
    <3> HIDE DEF att
    <3>3. queue # <<>> => Busy(att)
      BY <3>1, <3>2, IdleFacts DEF Busy
    <3> QED BY <3>1, <3>2, <3>3, <1>0, EnqueueFacts
  <2> QED BY <1>9, <2>1, <2>2, <2>3, <2>4, <2>5, <2>6, <2>7 DEF AttemptStep
<1>10. CASE Restart
  <2>1. Free \in Attempt /\ Free.at = "free"
    BY DEF Free, Attempt
  <2>2. /\ queue' = <<>> /\ active' = [d \in Docs |-> None]
        /\ attempt' = [d \in Docs |-> [i \in Attempts |-> Free]]
    BY <1>10 DEF Restart
  <2> QED BY <2>1, <2>2 DEF Good
<1> QED BY <1>7, <1>8, <1>9, <1>10 DEF Next

-----------------------------------------------------------------------------

\* IInv is TypeOK, Good and NoLostWakeup in the shape the lemmas use.
LEMMA IInvSplit ==
  IInv <=> EnvOK /\ Good(queue, active, attempt) /\ (queue # <<>> => Busy(attempt))
BY DEF IInv, TypeOK, EnvOK, Good, NoLostWakeup, Busy, Live

\* Every reachable state of the queue, whatever is forced, cancelled, retried,
\* resized, restarted, and whether or not the database takes the writes.
THEOREM Inductive == Spec => []IInv
<1>1. Init => IInv
  <2> SUFFICES ASSUME Init PROVE IInv
    OBVIOUS
  <2>1. EnvOK
    BY PQAssumption DEF Init, EnvOK, Status
  <2>2. Free \in Attempt /\ Free.at = "free"
    BY PQAssumption DEF Free, Attempt
  <2>3. Good(queue, active, attempt)
    BY <2>2 DEF Init, Good
  <2>4. queue = <<>>
    BY DEF Init
  <2> QED BY <2>1, <2>3, <2>4, IInvSplit
<1>2. IInv /\ [Next]_vars => IInv'
  <2> SUFFICES ASSUME IInv, [Next]_vars PROVE IInv'
    OBVIOUS
  <2>1. EnvOK /\ Good(queue, active, attempt) /\ (queue # <<>> => Busy(attempt))
    BY IInvSplit
  <2>2. CASE Next
    <3>1. EnvOK'
      BY <2>1, <2>2, EnvStep DEF Good
    <3>2. Good(queue, active, attempt)' /\ (queue' # <<>> => Busy(attempt'))
      BY <2>1, <2>2, CoreStep
    <3> QED BY <3>1, <3>2 DEF IInv, TypeOK, EnvOK, Good, NoLostWakeup, Busy, Live
  <2>3. CASE UNCHANGED vars
    BY <2>3 DEF vars, IInv, TypeOK, Good, NoLostWakeup, Live
  <2> QED BY <2>2, <2>3
<1> QED BY <1>1, <1>2, PTL DEF Spec

\* Type correctness: among the rest, no job is ever retried beyond MaxRetries.
THEOREM TypeCorrect == Spec => []TypeOK
<1>1. IInv => TypeOK
  BY DEF IInv
<1> QED BY <1>1, Inductive, PTL

\* The queue never holds a document twice, nor one that is active.
THEOREM QueueIsConsistent == Spec => []QueueConsistent
<1>1. IInv => QueueConsistent
  BY DEF IInv, Good, QueueConsistent
<1> QED BY <1>1, Inductive, PTL

\* No slot outlives the attempt that holds it.
THEOREM ActiveEntriesAreLive == Spec => []ActiveIsLive
<1>1. IInv => ActiveIsLive
  BY DEF IInv, Good, ActiveIsLive, Live
<1> QED BY <1>1, Inductive, PTL

\* The queue cannot hold jobs with nothing left to call scheduleNext.
THEOREM NoWakeupIsLost == Spec => []NoLostWakeup
<1>1. IInv => NoLostWakeup
  BY DEF IInv
<1> QED BY <1>1, Inductive, PTL

-----------------------------------------------------------------------------
(* Without force requests: one attempt per document.                       *)

\* No job or attempt is a force one, and the entry of `active' names the only
\* attempt of its document that executes.
Single(q, act, att) ==
  /\ \A i \in 1 .. Len(q) : ~q[i].force
  /\ \A d \in Docs, i \in Attempts : ~att[d][i].force
  /\ \A d \in Docs, i \in Attempts : att[d][i].at \in Running => act[d] = i

\* Nobody forces and nobody is about to.
Unforced ==
  /\ budget["force"] = 0
  /\ \A d \in Docs : forcing[d] = 0

\* The loop starts the documents that are not in `active', and puts each there.
LEMMA ScheduleNextSingle ==
  ASSUME NEW q, NEW act, NEW att, NEW limit,
         Good(q, act, att), Single(q, act, att), ScheduleNext(q, act, att, limit)
  PROVE  Single(queue, active, attempt)'
<1>1. PICK k \in 0 .. Len(q) :
        /\ \A d \in Started(q, act, k) : \E i \in Attempts : att[d][i].at = "free"
        /\ queue' = SubSeq(q, k + 1, Len(q))
        /\ active' = [d \in Docs |->
             IF d \in Started(q, act, k) THEN FreeSlot(att, d) ELSE act[d]]
        /\ attempt' = [d \in Docs |->
             IF d \in Started(q, act, k)
             THEN [att[d] EXCEPT ![FreeSlot(att, d)] = Begin(q[FirstIndex(q, d)])]
             ELSE att[d]]
  BY DEF ScheduleNext
<1> DEFINE S == Started(q, act, k)
<1>2. /\ q \in Seq(Job)
      /\ att \in [Docs -> [Attempts -> Attempt]]
      /\ \A i, j \in 1 .. Len(q) : q[i].doc = q[j].doc => i = j
  BY DEF Good
<1>3. \A d \in S : FreeSlot(att, d) \in Attempts
  BY <1>1 DEF FreeSlot
<1>4. \A d \in S : act[d] = None /\ ~Begin(q[FirstIndex(q, d)]).force
  <2> SUFFICES ASSUME NEW d \in S
               PROVE  act[d] = None /\ ~Begin(q[FirstIndex(q, d)]).force
    OBVIOUS
  <2>1. PICK i \in 1 .. k : q[i].doc = d
    BY DEF Started
  <2>2. i \in 1 .. Len(q)
    BY <1>2
  <2>3. FirstIndex(q, d) = i
    BY <2>1, <2>2, <1>2, FirstIndexFacts
  <2>4. ~q[i].force
    BY <2>2 DEF Single
  <2> QED BY <2>3, <2>4 DEF Begin, Started
<1>5. \A i \in 1 .. Len(queue') : ~queue'[i].force
  <2>1. Len(q) \in Nat /\ k + 1 \in 1 .. Len(q) + 1
    BY <1>2
  <2>2. Len(queue') = Len(q) - k /\ \A i \in 1 .. Len(queue') : queue'[i] = q[k + i]
    BY <1>1, <1>2, <2>1, SubSeqProperties
  <2>3. \A i \in 1 .. Len(queue') : k + i \in 1 .. Len(q)
    BY <2>1, <2>2
  <2> QED BY <2>2, <2>3 DEF Single
<1>6. ASSUME NEW d \in Docs, NEW i \in Attempts
      PROVE  /\ ~attempt'[d][i].force
             /\ attempt'[d][i].at \in Running => active'[d] = i
  <2>1. CASE d \notin S
    <3>1. attempt'[d] = att[d] /\ active'[d] = act[d]
      BY <1>1, <2>1
    <3> QED BY <3>1 DEF Single
  <2>2. CASE d \in S
    <3>1. /\ attempt'[d] =
               [att[d] EXCEPT ![FreeSlot(att, d)] = Begin(q[FirstIndex(q, d)])]
          /\ active'[d] = FreeSlot(att, d)
      BY <1>1, <2>2
    <3>2. CASE i = FreeSlot(att, d)
      <4>1. attempt'[d][i] = Begin(q[FirstIndex(q, d)])
        BY <3>1, <3>2, <1>2
      <4> QED BY <3>1, <3>2, <4>1, <2>2, <1>4
    <3>3. CASE i # FreeSlot(att, d)
      <4>1. attempt'[d][i] = att[d][i]
        BY <3>1, <3>3, <1>2
      <4>2. None \notin Attempts
        BY DEF None, Attempts
      <4>3. att[d][i].at \notin Running
        BY <4>2, <2>2, <1>4 DEF Single
      <4> QED BY <4>1, <4>3 DEF Single
    <3> QED BY <3>2, <3>3
  <2> QED BY <2>1, <2>2
<1> QED BY <1>5, <1>6 DEF Single

\* Appending an ordinary job.
LEMMA AppendSingle ==
  ASSUME NEW q \in Seq(Job), NEW act, NEW att, Single(q, act, att), NEW job, ~job.force
  PROVE  Single(Append(q, job), act, att)
<1>1. /\ Len(Append(q, job)) = Len(q) + 1
      /\ \A i \in 1 .. Len(q) : Append(q, job)[i] = q[i]
      /\ Append(q, job)[Len(q) + 1] = job
  OBVIOUS
<1>2. \A i \in 1 .. Len(q) + 1 : i \in 1 .. Len(q) \/ i = Len(q) + 1
  OBVIOUS
<1> QED BY <1>1, <1>2 DEF Single

\* enqueue of an ordinary job.
LEMMA EnqueueSingle ==
  ASSUME NEW att, Good(queue, active, att), Single(queue, active, att),
         NEW job \in Job, ~job.force, Enqueue(job, att)
  PROVE  Single(queue, active, attempt)'
<1>1. CASE Queued(queue, job.doc) \/ active[job.doc] # None
  <2>1. attempt' = att /\ queue' = queue /\ active' = active
    BY <1>1 DEF Enqueue
  <2> QED BY <2>1 DEF Single
<1>2. CASE ~Queued(queue, job.doc) /\ active[job.doc] = None
  <2>1. ScheduleNext(Append(queue, job), active, att, concurrency)
    BY <1>2 DEF Enqueue
  <2>2. Good(Append(queue, job), active, att)
    BY <1>2, AppendFacts
  <2>3. queue \in Seq(Job)
    BY DEF Good
  <2>4. Single(Append(queue, job), active, att)
    BY <2>3, AppendSingle
  <2> QED BY <2>1, <2>2, <2>4, ScheduleNextSingle
<1> QED BY <1>1, <1>2

\* Replacing one attempt by another that is not a force one, and that executes
\* only if the one before did.
LEMMA ReplaceSingle ==
  ASSUME NEW d \in Docs, NEW i \in Attempts, NEW a,
         attempt \in [Docs -> [Attempts -> Attempt]],
         Single(queue, active, attempt), ~a.force,
         a.at \in Running => attempt[d][i].at \in Running
  PROVE  Single(queue, active, [attempt EXCEPT ![d][i] = a])
<1> DEFINE new == [attempt EXCEPT ![d][i] = a]
<1>1. \A e \in Docs, j \in Attempts :
        new[e][j] = IF e = d /\ j = i THEN a ELSE attempt[e][j]
  OBVIOUS
<1> HIDE DEF new
<1>2. Single(queue, active, new)
  BY <1>1 DEF Single
<1> QED BY <1>2 DEF new

\* An executing attempt ends and its entry goes with it.
LEMMA SettleSingle ==
  ASSUME Good(queue, active, attempt), Single(queue, active, attempt),
         NEW d \in Docs, NEW i \in Attempts, attempt[d][i].at \in Running
  PROVE  Single(queue, [active EXCEPT ![d] = None],
                [attempt EXCEPT ![d][i] = Left(d, i)])
<1> DEFINE act == [active EXCEPT ![d] = None]
           att == [attempt EXCEPT ![d][i] = Left(d, i)]
<1>1. /\ attempt \in [Docs -> [Attempts -> Attempt]]
      /\ active \in [Docs -> Attempts \cup {None}]
  BY DEF Good
<1>2. ~Left(d, i).force /\ Left(d, i).at \notin Running
  <2>1. ~attempt[d][i].force
    BY DEF Single
  <2> QED BY <2>1, SettleFacts, IdleFacts
<1>3. \A e \in Docs, j \in Attempts :
        att[e][j] = IF e = d /\ j = i THEN Left(d, i) ELSE attempt[e][j]
  BY <1>1
<1>4. \A e \in Docs : act[e] = IF e = d THEN None ELSE active[e]
  BY <1>1
<1> HIDE DEF act, att
<1>5. \A e \in Docs, j \in Attempts : att[e][j].at \in Running => act[e] = j
  <2> SUFFICES ASSUME NEW e \in Docs, NEW j \in Attempts, att[e][j].at \in Running
               PROVE  act[e] = j
    OBVIOUS
  <2>1. ~(e = d /\ j = i) /\ attempt[e][j].at \in Running
    BY <1>2, <1>3
  <2>2. active[e] = j /\ active[d] = i
    BY <2>1 DEF Single
  <2>3. e # d
    BY <2>1, <2>2
  <2> QED BY <2>2, <2>3, <1>4
<1>6. \A e \in Docs, j \in Attempts : ~att[e][j].force
  BY <1>2, <1>3 DEF Single
<1>7. Single(queue, act, att)
  BY <1>5, <1>6 DEF Single
<1> QED BY <1>7 DEF act, att

\* Every step of a server nobody forces.
LEMMA SingleStep ==
  ASSUME IInv, Unforced, Single(queue, active, attempt), Next
  PROVE  Unforced' /\ Single(queue, active, attempt)'
<1> USE PQAssumption
<1>0. /\ Good(queue, active, attempt)
      /\ attempt \in [Docs -> [Attempts -> Attempt]]
      /\ active \in [Docs -> Attempts \cup {None}]
      /\ forcing \in [Docs -> Nat]
      /\ budget \in [Kinds -> Nat]
  BY DEF IInv, TypeOK
<1>1. ~Spend("force")
  BY DEF Spend, Unforced
<1>2. ASSUME NEW kind \in Kinds \ {"force"}, Spend(kind)
      PROVE  budget'["force"] = 0
  BY <1>0, <1>2 DEF Spend, Unforced, Kinds
<1>3. ASSUME NEW d \in Docs, NEW s, WriteStatus(d, s)
      PROVE  budget'["force"] = 0
  <2>1. CASE UNCHANGED budget
    BY <2>1 DEF Unforced
  <2>2. CASE Spend("fault")
    BY <2>2, <1>2 DEF Kinds
  <2> QED BY <1>3, <2>1, <2>2 DEF WriteStatus
<1>4. ASSUME NEW d \in Docs
      PROVE  FirstTry(d, FALSE) \in Job /\ ~FirstTry(d, FALSE).force
  BY DEF FirstTry, Job
<1>5. ASSUME NEW d \in Docs, NEW i \in Attempts, attempt[d][i].at \in Running,
             NEW p, Goto(d, i, p), UNCHANGED <<queue, active>>
      PROVE  Single(queue, active, attempt)'
  <2> DEFINE a == [attempt[d][i] EXCEPT !.at = p]
  <2>1. a.force = attempt[d][i].force
    <3>1. attempt[d][i] \in Attempt
      BY <1>0
    <3> QED BY <3>1 DEF Attempt
  <2>2. attempt' = [attempt EXCEPT ![d][i] = a]
    BY <1>0, <1>5 DEF Goto
  <2> HIDE DEF a
  <2>3. ~a.force
    BY <2>1 DEF Single
  <2>4. Single(queue, active, [attempt EXCEPT ![d][i] = a])
    BY <2>3, <1>0, <1>5, ReplaceSingle
  <2> QED BY <2>2, <2>4, <1>5
<1>6. {"cleanup"} \cup StageWrites \cup Work \cup Timed \subseteq Running
  BY DEF Running, Timed
<1>7. ASSUME NEW d \in Docs, Ask(d) \/ Asked(d) \/ ForceNow(d) \/ CancelActive(d)
                               \/ Cancelled(d)
      PROVE  Unforced' /\ Single(queue, active, attempt)'
  <2>1. CASE Ask(d)
    BY <2>1, <1>2 DEF Ask, Unforced, Single, Kinds
  <2>2. CASE Asked(d)
    <3>1. Single(queue, active, attempt)'
      BY <2>2, <1>0, <1>4, EnqueueSingle DEF Asked
    <3> QED BY <2>2, <3>1 DEF Asked, Unforced
  <2>3. ~ForceNow(d) /\ ~CancelActive(d)
    BY <1>1 DEF ForceNow, CancelActive
  <2>4. ~Cancelled(d)
    <3>1. forcing[d] = 0
      BY DEF Unforced
    <3> QED BY <3>1 DEF Cancelled
  <2> QED BY <1>7, <2>1, <2>2, <2>3, <2>4
<1>8. ASSUME NEW n \in Levels, SetConcurrency(n)
      PROVE  Unforced' /\ Single(queue, active, attempt)'
  <2>1. Single(queue, active, attempt)'
    BY <1>8, <1>0, ScheduleNextSingle DEF SetConcurrency
  <2> QED BY <2>1, <1>8, <1>2 DEF SetConcurrency, Unforced, Kinds
<1>9. ASSUME NEW d \in Docs, NEW i \in Attempts, AttemptStep(d, i)
      PROVE  Unforced' /\ Single(queue, active, attempt)'
  <2>1. CASE Cleanup(d, i)
    BY <2>1, <1>5, <1>6 DEF Cleanup, Unforced
  <2>2. CASE StageWrite(d, i)
    BY <2>2, <1>3, <1>5, <1>6 DEF StageWrite, Unforced
  <2>3. CASE WorkDone(d, i)
    BY <2>3, <1>5, <1>6 DEF WorkDone, Unforced
  <2>4. CASE WorkThrows(d, i)
    <3>1. attempt[d][i].at \in Running
      BY <2>4 DEF WorkThrows, Running, Timed, Work
    <3> QED BY <2>4, <3>1, <1>5 DEF WorkThrows, Unforced
  <2>5. CASE Timeout(d, i)
    <3> DEFINE a == [attempt[d][i] EXCEPT !.signal = "timeout"]
    <3>1. a.at = attempt[d][i].at /\ a.force = attempt[d][i].force
      <4>1. attempt[d][i] \in Attempt
        BY <1>0
      <4> QED BY <4>1 DEF Attempt
    <3>2. attempt' = [attempt EXCEPT ![d][i] = a]
      BY <1>0, <2>5 DEF Timeout
    <3> HIDE DEF a
    <3>3. ~a.force
      BY <3>1 DEF Single
    <3>4. Single(queue, active, [attempt EXCEPT ![d][i] = a])
      BY <3>1, <3>3, <1>0, ReplaceSingle
    <3> QED BY <2>5, <3>2, <3>4 DEF Timeout, Unforced
  <2>6. CASE Settle(d, i)
    <3> DEFINE act == [active EXCEPT ![d] = None]
               att == [attempt EXCEPT ![d][i] = Left(d, i)]
    <3>1. ScheduleNext(queue, act, att, concurrency)
      BY <2>6 DEF Settle, Finally, Left
    <3>2. Good(queue, act, att) /\ Single(queue, act, att)
      <4>1. attempt[d][i].at \in Running
        BY <2>6 DEF Settle, Running, Timed
      <4> QED BY <4>1, <1>0, SettleFacts, SettleSingle
    <3> HIDE DEF act, att
    <3>3. Single(queue, active, attempt)'
      BY <3>1, <3>2, ScheduleNextSingle
    <3>4. budget'["force"] = 0
      BY <2>6, <1>3 DEF Settle
    <3> QED BY <2>6, <3>3, <3>4 DEF Settle, Unforced
  <2>7. CASE Retry(d, i)
    <3> DEFINE att == [attempt EXCEPT ![d][i] = Free]
    <3>1. attempt[d][i].at = "backoff" /\ Enqueue(RetryJob(d, i), att)
      BY <2>7 DEF Retry, RetryJob
    <3>2. /\ RetryJob(d, i) \in Job
          /\ RetryJob(d, i).force = attempt[d][i].force
          /\ Good(queue, active, att)
      BY <3>1, <1>0, RetryFacts
    <3>3. Single(queue, active, att)
      BY <1>0, IdleFacts, ReplaceSingle
    <3> HIDE DEF att
    <3>4. ~RetryJob(d, i).force
      BY <3>2 DEF Single
    <3>5. Single(queue, active, attempt)'
      BY <3>1, <3>2, <3>3, <3>4, EnqueueSingle
    <3> QED BY <2>7, <3>5 DEF Retry, Unforced
  <2> QED BY <1>9, <2>1, <2>2, <2>3, <2>4, <2>5, <2>6, <2>7 DEF AttemptStep
<1>10. CASE Restart
  <2>1. budget'["force"] = 0
    BY <1>0, <1>10 DEF Restart, Recover, Unforced, Kinds
  <2>2. Free.at \notin Running /\ ~Free.force
    BY DEF Free, Running, Timed, StageWrites, Work
  <2>3. /\ queue' = <<>> /\ forcing' = [d \in Docs |-> 0]
        /\ attempt' = [d \in Docs |-> [i \in Attempts |-> Free]]
    BY <1>10 DEF Restart
  <2> QED BY <2>1, <2>2, <2>3 DEF Unforced, Single
<1> QED BY <1>7, <1>8, <1>9, <1>10 DEF Next

\* Nobody ever forces if the budget has no force requests.
LEMMA AlwaysSingle ==
  ASSUME Budget["force"] = 0
  PROVE  Spec => [](IInv /\ Unforced /\ Single(queue, active, attempt))
<1>1. Init => Unforced /\ Single(queue, active, attempt)
  <2>1. Free.at \notin Running /\ ~Free.force
    BY DEF Free, Running, Timed, StageWrites, Work
  <2> QED BY <2>1 DEF Init, Unforced, Single
<1>2. IInv /\ Unforced /\ Single(queue, active, attempt) /\ [Next]_vars
        => Unforced' /\ Single(queue, active, attempt)'
  <2> SUFFICES ASSUME IInv, Unforced, Single(queue, active, attempt), [Next]_vars
               PROVE  Unforced' /\ Single(queue, active, attempt)'
    OBVIOUS
  <2>1. CASE Next
    BY <2>1, SingleStep
  <2>2. CASE UNCHANGED vars
    BY <2>2 DEF vars, Unforced, Single
  <2> QED BY <2>1, <2>2
<1> QED BY <1>1, <1>2, Inductive, PTL DEF Spec

\* A document is processed by one attempt at a time as long as nobody forces,
\* through timeouts, retries, restarts and stale enqueues.
THEOREM OneAttempt ==
  ASSUME Budget["force"] = 0
  PROVE  Spec => []OneAttemptPerDoc
<1>1. Single(queue, active, attempt) => OneAttemptPerDoc
  <2> SUFFICES ASSUME Single(queue, active, attempt), NEW d \in Docs
               PROVE  Cardinality({i \in Attempts : Live(d, i)}) <= 1
    BY DEF OneAttemptPerDoc
  <2>1. {i \in Attempts : Live(d, i)} \subseteq {active[d]}
    BY DEF Single, Live
  <2>2. IsFiniteSet({active[d]}) /\ Cardinality({active[d]}) = 1
    BY FS_Singleton
  <2> QED BY <2>1, <2>2, FS_Subset
<1> QED BY <1>1, AlwaysSingle, PTL

-----------------------------------------------------------------------------
(* A document in an intermediate state has somebody working on it.         *)

\* A job of the document is queued, or executing, or waits to be retried.
Attended(q, att, d) ==
  Queued(q, d) \/ \E i \in Attempts : att[d][i].at # "free"

\* The loop of scheduleNext shifts no job without starting it, and starts none
\* in a record that is in use.
LEMMA ScheduleNextAttends ==
  ASSUME NEW q, NEW act, NEW att, NEW limit,
         Good(q, act, att), ScheduleNext(q, act, att, limit),
         NEW d \in Docs, Attended(q, att, d)
  PROVE  Attended(queue', attempt', d)
<1>1. PICK k \in 0 .. Len(q) :
        /\ \A e \in Started(q, act, k) : \E i \in Attempts : att[e][i].at = "free"
        /\ queue' = SubSeq(q, k + 1, Len(q))
        /\ attempt' = [e \in Docs |->
             IF e \in Started(q, act, k)
             THEN [att[e] EXCEPT ![FreeSlot(att, e)] = Begin(q[FirstIndex(q, e)])]
             ELSE att[e]]
  BY DEF ScheduleNext
<1>2. /\ q \in Seq(Job)
      /\ att \in [Docs -> [Attempts -> Attempt]]
  BY DEF Good
<1>3. CASE d \in Started(q, act, k)
  <2>1. /\ FreeSlot(att, d) \in Attempts
        /\ attempt'[d] = [att[d] EXCEPT ![FreeSlot(att, d)] = Begin(q[FirstIndex(q, d)])]
    BY <1>1, <1>3 DEF FreeSlot
  <2>2. attempt'[d][FreeSlot(att, d)] = Begin(q[FirstIndex(q, d)])
    BY <2>1, <1>2
  <2>3. Begin(q[FirstIndex(q, d)]).at # "free"
    BY DEF Begin
  <2> QED BY <2>1, <2>2, <2>3 DEF Attended
<1>4. CASE d \notin Started(q, act, k)
  <2>1. attempt'[d] = att[d]
    BY <1>1, <1>4
  <2>2. CASE \E i \in Attempts : att[d][i].at # "free"
    BY <2>1, <2>2 DEF Attended
  <2>3. CASE Queued(q, d)
    <3>1. PICK i \in 1 .. Len(q) : q[i].doc = d
      BY <2>3 DEF Queued
    <3>2. act[d] = None
      BY <3>1 DEF Good
    <3>3. ~(i \in 1 .. k)
      BY <3>1, <3>2, <1>4 DEF Started
    <3>4. i - k \in 1 .. Len(q) - k /\ k + (i - k) = i
      BY <3>3, <1>2
    <3>5. Len(q) \in Nat /\ k + 1 \in 1 .. Len(q) + 1
      BY <1>2
    <3>6. Len(queue') = Len(q) - k /\ \A j \in 1 .. Len(queue') : queue'[j] = q[k + j]
      BY <1>1, <1>2, <3>5, SubSeqProperties
    <3>7. queue'[i - k] = q[i]
      BY <3>4, <3>6
    <3> QED BY <3>1, <3>4, <3>6, <3>7 DEF Attended, Queued
  <2> QED BY <2>2, <2>3 DEF Attended
<1> QED BY <1>3, <1>4

\* splice takes the jobs of one document only.
LEMMA SpliceKeepsOthers ==
  ASSUME NEW q \in Seq(Job), NEW d \in Docs, NEW e \in Docs, e # d, Queued(q, e),
         \A i, j \in 1 .. Len(q) : q[i].doc = q[j].doc => i = j
  PROVE  Queued(Splice(q, d), e)
<1>1. CASE ~Queued(q, d)
  BY <1>1 DEF Splice
<1>2. CASE Queued(q, d)
  <2>1. PICK k \in 1 .. Len(q) : q[k].doc = d
    BY <1>2 DEF Queued
  <2>2. PICK i \in 1 .. Len(q) : q[i].doc = e
    BY DEF Queued
  <2>3. FirstIndex(q, d) = k
    BY <2>1, FirstIndexFacts
  <2> DEFINE s == [j \in 1 .. Len(q) - 1 |-> IF j < k THEN q[j] ELSE q[j + 1]]
             m == IF i < k THEN i ELSE i - 1
  <2>4. Splice(q, d) = s
    BY <1>2, <2>3 DEF Splice
  <2>5. Len(q) \in Nat /\ Len(q) - 1 \in Nat /\ i # k
    BY <2>1, <2>2
  <2>6. m \in 1 .. Len(q) - 1 /\ s[m] = q[i]
    BY <2>5
  <2>7. Len(s) = Len(q) - 1
    BY <2>5
  <2> QED BY <2>2, <2>4, <2>6, <2>7 DEF Queued
<1> QED BY <1>1, <1>2

\* An abort moves no attempt.
LEMMA AbortKeepsPlaces ==
  ASSUME NEW q, NEW act, NEW att, Good(q, act, att),
         NEW e \in Docs, NEW d \in Docs, NEW i \in Attempts
  PROVE  AbortActive(act, att, e)[d][i].at = att[d][i].at
<1>1. CASE AbortActive(act, att, e) = att
  BY <1>1
<1>2. CASE /\ act[e] # None
           /\ AbortActive(act, att, e) = [att EXCEPT ![e][act[e]].signal = "caller"]
  <2>1. \A a \in Attempt : [a EXCEPT !.signal = "caller"].at = a.at
    BY DEF Attempt
  <2>2. act[e] \in Attempts /\ att \in [Docs -> [Attempts -> Attempt]]
    BY <1>2 DEF Good
  <2>3. att[e][act[e]] \in Attempt
    BY <2>2
  <2>4. AbortActive(act, att, e)[d][i] =
          IF d = e /\ i = act[e] THEN [att[e][act[e]] EXCEPT !.signal = "caller"]
          ELSE att[d][i]
    BY <1>2, <2>2
  <2> QED BY <2>1, <2>3, <2>4
<1> QED BY <1>1, <1>2 DEF AbortActive

\* enqueue leaves its own document attended, and the others as they were.
LEMMA EnqueueAttends ==
  ASSUME NEW att, Good(queue, active, att), NEW job \in Job, Enqueue(job, att),
         NEW d \in Docs, d = job.doc \/ Attended(queue, att, d)
  PROVE  Attended(queue', attempt', d)
<1>1. job.doc \in Docs
  BY DEF Job
<1>2. /\ queue \in Seq(Job)
      /\ active \in [Docs -> Attempts \cup {None}]
      /\ att \in [Docs -> [Attempts -> Attempt]]
  BY DEF Good
<1>3. ASSUME NEW q \in Seq(Job)
      PROVE  /\ Queued(Append(q, job), job.doc)
             /\ \A e : Queued(q, e) => Queued(Append(q, job), e)
  <2>1. /\ Len(Append(q, job)) = Len(q) + 1 /\ Len(q) \in Nat
        /\ \A i \in 1 .. Len(q) : Append(q, job)[i] = q[i]
        /\ Append(q, job)[Len(q) + 1] = job
    OBVIOUS
  <2>2. Len(q) + 1 \in 1 .. Len(q) + 1 /\ 1 .. Len(q) \subseteq 1 .. Len(q) + 1
    BY <2>1
  <2> QED BY <2>1, <2>2 DEF Queued
<1>4. CASE job.force
  <2> DEFINE q == Splice(queue, job.doc)
             act == [active EXCEPT ![job.doc] = None]
             abt == AbortActive(active, att, job.doc)
  <2>1. Good(queue, act, abt)
    BY <1>1, AbortFacts
  <2>2. /\ q \in Seq(Job)
        /\ \A i, j \in 1 .. Len(q) : q[i].doc = q[j].doc => i = j
        /\ \A i \in 1 .. Len(q) : q[i].doc # job.doc
                                    /\ \E j \in 1 .. Len(queue) : q[i] = queue[j]
    BY <1>1, SpliceFacts DEF Good
  <2>3. ~Queued(q, job.doc) /\ act[job.doc] = None
    BY <2>2, <1>1, <1>2 DEF Queued
  <2>4. ScheduleNext(Append(q, job), act, abt, concurrency)
    BY <1>4 DEF Enqueue
  <2>5. \A i \in Attempts : abt[d][i].at = att[d][i].at
    BY <1>1, AbortKeepsPlaces
  <2>6. Queued(queue, d) /\ d # job.doc => Queued(q, d)
    BY <1>1, <1>2, SpliceKeepsOthers DEF Good
  <2> HIDE DEF q, act, abt
  <2>7. Good(q, act, abt)
    BY <2>1, <2>2 DEF Good
  <2>8. Good(Append(q, job), act, abt)
    BY <2>3, <2>7, AppendFacts
  <2>9. Attended(Append(q, job), abt, d)
    BY <1>3, <2>2, <2>5, <2>6 DEF Attended
  <2> QED BY <2>4, <2>8, <2>9, ScheduleNextAttends
<1>5. CASE ~job.force /\ (Queued(queue, job.doc) \/ active[job.doc] # None)
  <2>1. attempt' = att /\ queue' = queue
    BY <1>5 DEF Enqueue
  <2>2. CASE Attended(queue, att, d)
    BY <2>1, <2>2
  <2>3. CASE d = job.doc /\ Queued(queue, d)
    BY <2>1, <2>3 DEF Attended
  <2>4. CASE d = job.doc /\ active[d] # None
    <3>1. active[d] \in Attempts /\ att[d][active[d]].at \in Running
      BY <1>2, <2>4 DEF Good
    <3>2. "free" \notin Running
      BY DEF Running, Timed, StageWrites, Work
    <3> QED BY <2>1, <3>1, <3>2 DEF Attended
  <2> QED BY <1>5, <2>2, <2>3, <2>4
<1>6. CASE ~job.force /\ ~Queued(queue, job.doc) /\ active[job.doc] = None
  <2>1. ScheduleNext(Append(queue, job), active, att, concurrency)
    BY <1>6 DEF Enqueue
  <2>2. Good(Append(queue, job), active, att)
    BY <1>6, AppendFacts
  <2>3. Attended(Append(queue, job), att, d)
    BY <1>2, <1>3 DEF Attended
  <2> QED BY <2>1, <2>2, <2>3, ScheduleNextAttends
<1> QED BY <1>4, <1>5, <1>6 DEF Job

\* Faults are only ever spent, and while none is, the documents in an
\* intermediate state are attended or about to be.
NotStranded ==
  /\ budget["fault"] <= Budget["fault"]
  /\ NoStrandedDocument

\* Cared(d) is what NoStrandedDocument claims of a document.
Cared(d) == Attended(queue, attempt, d) \/ forcing[d] > 0

\* Every step, as long as it loses no write.
LEMMA NotStrandedStep ==
  ASSUME IInv, NotStranded, Next
  PROVE  NotStranded'
<1> USE PQAssumption
<1>0. /\ Good(queue, active, attempt)
      /\ queue \in Seq(Job)
      /\ attempt \in [Docs -> [Attempts -> Attempt]]
      /\ active \in [Docs -> Attempts \cup {None}]
      /\ status \in [Docs -> Status]
      /\ forcing \in [Docs -> Nat]
      /\ budget \in [Kinds -> Nat]
      /\ Budget["fault"] \in Nat /\ budget["fault"] \in Nat
      /\ budget'["fault"] \in Nat
  <2>1. EnvOK /\ attempt \in [Docs -> [Attempts -> Attempt]]
    BY IInvSplit DEF Good
  <2>2. budget' \in [Kinds -> Nat]
    BY <2>1, EnvStep DEF EnvOK
  <2> QED BY <2>2 DEF IInv, TypeOK, Kinds
<1>1. ASSUME NEW kind \in Kinds, Spend(kind)
      PROVE  /\ budget'["fault"] <= budget["fault"]
             /\ kind = "fault" => budget'["fault"] < budget["fault"]
  BY <1>0, <1>1 DEF Spend, Kinds
<1>2. ASSUME NEW d \in Docs, NEW s, WriteStatus(d, s)
      PROVE  /\ budget'["fault"] <= budget["fault"]
             /\ budget'["fault"] = budget["fault"] => status' = [status EXCEPT ![d] = s]
  <2>1. CASE status' = [status EXCEPT ![d] = s] /\ UNCHANGED budget
    BY <1>0, <2>1
  <2>2. CASE Spend("fault")
    <3>1. budget'["fault"] < budget["fault"]
      BY <2>2, <1>1 DEF Kinds
    <3> QED BY <3>1, <1>0
  <2> QED BY <1>2, <2>1, <2>2 DEF WriteStatus
<1>3. ASSUME Restart
      PROVE  /\ budget'["fault"] <= budget["fault"]
             /\ budget'["fault"] = budget["fault"] =>
                  \A d \in Docs : status'[d] \notin Intermediate
  <2>1. CASE /\ status' = [d \in Docs |->
                  IF status[d] \in Intermediate THEN "uploaded" ELSE status[d]]
             /\ budget' = [budget EXCEPT !["crash"] = @ - 1]
    <3>1. budget'["fault"] = budget["fault"]
      BY <2>1, <1>0 DEF Kinds
    <3>2. "uploaded" \notin Intermediate
      BY DEF Intermediate
    <3> QED BY <2>1, <3>1, <3>2, <1>0
  <2>2. CASE budget' = [budget EXCEPT !["crash"] = @ - 1, !["fault"] = @ - 1]
    <3>1. budget'["fault"] = budget["fault"] - 1
      BY <2>2, <1>0 DEF Kinds
    <3> QED BY <3>1, <1>0
  <2> QED BY <1>3, <2>1, <2>2 DEF Restart, Recover
<1>4. budget'["fault"] <= budget["fault"]
  <2>1. ASSUME NEW d \in Docs, NEW i \in Attempts, AttemptStep(d, i)
        PROVE  budget'["fault"] <= budget["fault"]
    <3>1. CASE Cleanup(d, i) \/ WorkDone(d, i) \/ WorkThrows(d, i) \/ Timeout(d, i)
                 \/ Retry(d, i)
      BY <3>1, <1>0 DEF Cleanup, WorkDone, WorkThrows, Timeout, Retry
    <3>2. CASE StageWrite(d, i) \/ Settle(d, i)
      BY <3>2, <1>2 DEF StageWrite, Settle
    <3> QED BY <2>1, <3>1, <3>2 DEF AttemptStep
  <2>2. ASSUME NEW d \in Docs, Ask(d) \/ Asked(d) \/ ForceNow(d) \/ CancelActive(d)
                                 \/ Cancelled(d)
        PROVE  budget'["fault"] <= budget["fault"]
    <3>1. CASE Ask(d) \/ ForceNow(d) \/ CancelActive(d)
      BY <3>1, <1>1 DEF Ask, ForceNow, CancelActive, Kinds
    <3>2. CASE Asked(d)
      BY <3>2, <1>0 DEF Asked
    <3>3. CASE Cancelled(d)
      BY <3>3, <1>2 DEF Cancelled
    <3> QED BY <2>2, <3>1, <3>2, <3>3
  <2>3. ASSUME NEW n \in Levels, SetConcurrency(n)
        PROVE  budget'["fault"] <= budget["fault"]
    BY <2>3, <1>1 DEF SetConcurrency, Kinds
  <2> QED BY <2>1, <2>2, <2>3, <1>3 DEF Next
<1> SUFFICES ASSUME budget'["fault"] = Budget["fault"], NEW d \in Docs,
                    status'[d] \in Intermediate
             PROVE  Cared(d)'
  <2>1. budget'["fault"] <= Budget["fault"]
    BY <1>0, <1>4 DEF NotStranded
  <2> QED BY <2>1 DEF NotStranded, NoStrandedDocument, Cared, Attended
<1>5. budget["fault"] = budget'["fault"]
  BY <1>0, <1>4 DEF NotStranded
<1>6. status[d] \in Intermediate => Cared(d)
  BY <1>5 DEF NotStranded, NoStrandedDocument, Cared, Attended
<1>7. FirstTry(d, TRUE) \in Job /\ \A e \in Docs, f \in BOOLEAN :
        FirstTry(e, f) \in Job /\ FirstTry(e, f).doc = e
  BY DEF FirstTry, Job
<1>8. ASSUME NEW e \in Docs, NEW i \in Attempts, NEW a,
             a.at # "free", attempt' = [attempt EXCEPT ![e][i] = a],
             UNCHANGED <<queue, forcing>>, e # d => status'[d] = status[d]
      PROVE  Cared(d)'
  <2>1. attempt'[e][i] = a /\ (e # d => attempt'[d] = attempt[d])
    BY <1>0, <1>8
  <2>2. CASE e = d
    BY <2>1, <2>2, <1>8 DEF Cared, Attended
  <2>3. CASE e # d
    BY <2>1, <2>3, <1>6, <1>8 DEF Cared, Attended
  <2> QED BY <2>2, <2>3
<1>9. ASSUME NEW e \in Docs, NEW i \in Attempts, NEW p, p # "free", Goto(e, i, p),
             UNCHANGED <<queue, forcing>>, e # d => status'[d] = status[d]
      PROVE  Cared(d)'
  <2> DEFINE a == [attempt[e][i] EXCEPT !.at = p]
  <2>1. attempt[e][i] \in Attempt
    BY <1>0
  <2>2. a.at = p
    BY <2>1 DEF Attempt
  <2>3. attempt' = [attempt EXCEPT ![e][i] = a]
    BY <1>0, <1>9 DEF Goto
  <2> HIDE DEF a
  <2> QED BY <2>2, <2>3, <1>8, <1>9
<1>10. ASSUME NEW e \in Docs, Ask(e) \/ Asked(e) \/ ForceNow(e) \/ CancelActive(e)
                                \/ Cancelled(e)
       PROVE  Cared(d)'
  <2>1. CASE Ask(e)
    BY <2>1, <1>6 DEF Ask, Cared, Attended, Queued
  <2>2. CASE Asked(e)
    <3>1. Attended(queue, attempt, d) => Attended(queue', attempt', d)
      BY <2>2, <1>0, <1>7, EnqueueAttends DEF Asked
    <3> QED BY <2>2, <3>1, <1>6 DEF Asked, Cared
  <2>3. CASE ForceNow(e)
    <3>1. Attended(queue, attempt, d) => Attended(queue', attempt', d)
      BY <2>3, <1>0, <1>7, EnqueueAttends DEF ForceNow
    <3> QED BY <2>3, <3>1, <1>6 DEF ForceNow, Cared
  <2>4. CASE CancelActive(e)
    <3>1. \A i \in Attempts : attempt'[d][i].at = attempt[d][i].at
      BY <2>4, <1>0, AbortKeepsPlaces DEF CancelActive
    <3>2. queue' = queue /\ status' = status
      BY <2>4 DEF CancelActive
    <3>3. Attended(queue, attempt, d) => Attended(queue', attempt', d)
      BY <3>1, <3>2 DEF Attended
    <3>4. forcing[d] > 0 => forcing'[d] > 0
      BY <2>4, <1>0 DEF CancelActive
    <3> QED BY <3>2, <3>3, <3>4, <1>6 DEF Cared
  <2>5. CASE Cancelled(e)
    <3>1. d = e \/ Attended(queue, attempt, d) => Attended(queue', attempt', d)
      BY <2>5, <1>0, <1>7, EnqueueAttends DEF Cancelled
    <3>2. d # e => status'[d] = status[d] /\ forcing'[d] = forcing[d]
      BY <2>5, <1>0, <1>2, <1>5 DEF Cancelled
    <3> QED BY <3>1, <3>2, <1>6 DEF Cared
  <2> QED BY <1>10, <2>1, <2>2, <2>3, <2>4, <2>5
<1>11. ASSUME NEW n \in Levels, SetConcurrency(n)
       PROVE  Cared(d)'
  <2>1. Attended(queue, attempt, d) => Attended(queue', attempt', d)
    BY <1>11, <1>0, ScheduleNextAttends DEF SetConcurrency
  <2> QED BY <1>11, <2>1, <1>6 DEF SetConcurrency, Cared
<1>12. ASSUME NEW e \in Docs, NEW i \in Attempts, AttemptStep(e, i)
       PROVE  Cared(d)'
  <2>1. ASSUME attempt[e][i].at \in {"cleanup"} \cup StageWrites \cup Work
        PROVE  NextPoint(attempt[e][i]) # "free" /\ FailPoint(attempt[e][i]) # "free"
    BY <2>1 DEF NextPoint, FailPoint, After, StageWrites, Work
  <2>2. CASE Cleanup(e, i)
    BY <2>1, <2>2, <1>9 DEF Cleanup
  <2>3. CASE StageWrite(e, i)
    <3>1. e # d => status'[d] = status[d]
      BY <2>3, <1>0, <1>2, <1>5 DEF StageWrite
    <3> QED BY <2>1, <2>3, <3>1, <1>9 DEF StageWrite
  <2>4. CASE WorkDone(e, i)
    BY <2>1, <2>4, <1>9 DEF WorkDone
  <2>5. CASE WorkThrows(e, i)
    BY <2>1, <2>5, <1>9 DEF WorkThrows, Work
  <2>6. CASE Timeout(e, i)
    <3> DEFINE a == [attempt[e][i] EXCEPT !.signal = "timeout"]
    <3>1. attempt[e][i] \in Attempt
      BY <1>0
    <3>2. a.at = attempt[e][i].at
      BY <3>1 DEF Attempt
    <3>3. a.at # "free"
      BY <2>6, <3>2 DEF Timeout, Timed, StageWrites, Work
    <3>4. attempt' = [attempt EXCEPT ![e][i] = a]
      BY <1>0, <2>6 DEF Timeout
    <3>5. UNCHANGED <<queue, forcing, status>>
      BY <2>6 DEF Timeout
    <3> HIDE DEF a
    <3> QED BY <3>3, <3>4, <3>5, <1>8
  <2>7. CASE Settle(e, i)
    <3> DEFINE act == [active EXCEPT ![e] = None]
               att == [attempt EXCEPT ![e][i] = Left(e, i)]
    <3>1. ScheduleNext(queue, act, att, concurrency) /\ Good(queue, act, att)
      BY <2>7, <1>0, SettleFacts DEF Settle, Finally, Left
    <3>2. status' = [status EXCEPT ![e] = Written(attempt[e][i].at)]
      BY <2>7, <1>2, <1>5 DEF Settle
    <3>3. att[e][i] = Left(e, i) /\ (e # d => att[d] = attempt[d])
      BY <1>0
    <3> HIDE DEF act, att
    <3>4. e = d => Attended(queue, att, d)
      <4>1. e = d => Written(attempt[e][i].at) \in Intermediate
        BY <3>2, <1>0
      <4>2. e = d => attempt[e][i].at = "retrying"
        BY <4>1, <2>7 DEF Settle, Written, Intermediate
      <4>3. e = d => Left(e, i).at = "backoff"
        BY <4>2, <1>0, SettleFacts
      <4> QED BY <3>3, <4>3 DEF Attended
    <3>5. e # d => Attended(queue, att, d) \/ forcing[d] > 0
      BY <3>2, <3>3, <1>0, <1>6 DEF Cared, Attended
    <3>6. Attended(queue, att, d) => Attended(queue', attempt', d)
      BY <3>1, ScheduleNextAttends
    <3> QED BY <2>7, <3>4, <3>5, <3>6 DEF Settle, Cared
  <2>8. CASE Retry(e, i)
    <3> DEFINE att == [attempt EXCEPT ![e][i] = Free]
    <3>1. attempt[e][i].at = "backoff" /\ Enqueue(RetryJob(e, i), att)
      BY <2>8 DEF Retry, RetryJob
    <3>2. /\ RetryJob(e, i) \in Job /\ RetryJob(e, i).doc = e
          /\ Good(queue, active, att)
      BY <3>1, <1>0, RetryFacts
    <3>3. e # d => att[d] = attempt[d]
      BY <1>0
    <3> HIDE DEF att
    <3>4. d = e \/ Attended(queue, att, d) => Attended(queue', attempt', d)
      BY <3>1, <3>2, EnqueueAttends
    <3>5. e # d => Attended(queue, att, d) \/ forcing[d] > 0
      BY <2>8, <3>3, <1>6 DEF Retry, Cared, Attended
    <3> QED BY <2>8, <3>4, <3>5 DEF Retry, Cared
  <2> QED
    BY <1>12, <2>2, <2>3, <2>4, <2>5, <2>6, <2>7, <2>8 DEF AttemptStep
<1>13. ~Restart
  BY <1>3, <1>5
<1> QED BY <1>10, <1>11, <1>12, <1>13 DEF Next

\* No document is left in an intermediate state without anybody to move it on,
\* whatever is forced, cancelled, retried or restarted, while writes succeed.
THEOREM NothingStranded == Spec => []NoStrandedDocument
<1>1. Init => NotStranded
  <2>1. "uploaded" \notin Intermediate
    BY DEF Intermediate
  <2>2. Budget["fault"] \in Nat
    BY PQAssumption DEF Kinds
  <2> QED BY <2>1, <2>2 DEF Init, NotStranded, NoStrandedDocument
<1>2. IInv /\ NotStranded /\ [Next]_vars => NotStranded'
  <2> SUFFICES ASSUME IInv, NotStranded, [Next]_vars PROVE NotStranded'
    OBVIOUS
  <2>1. CASE Next
    BY <2>1, NotStrandedStep
  <2>2. CASE UNCHANGED vars
    BY <2>2 DEF vars, NotStranded, NoStrandedDocument
  <2> QED BY <2>1, <2>2
<1>3. NotStranded => NoStrandedDocument
  BY DEF NotStranded
<1> QED BY <1>1, <1>2, <1>3, Inductive, PTL DEF Spec
=============================================================================
