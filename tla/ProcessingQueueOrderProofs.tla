--------------------- MODULE ProcessingQueueOrderProofs ---------------------
(***************************************************************************)
(* That the processing queue is a SlotQueue, and what follows for the      *)
(* attempts that execute and for the status column if nobody forces.       *)
(***************************************************************************)
EXTENDS ProcessingQueueProofs

\* The documents of a queue's jobs, and those that have an entry in `active'.
DocsOf(q)  == [i \in 1 .. Len(q) |-> q[i].doc]
Held(act)  == {d \in Docs : act[d] # None}

LEMMA Mapping == Waiting = DocsOf(queue) /\ Holding = Held(active)
BY DEF Waiting, Holding, DocsOf, Held

\* The cardinality SlotQueue speaks of is the one of FiniteSets.
LEMMA SameCardinality == \A S : Slots!Cardinality(S) = Cardinality(S)
BY DEF Slots!Cardinality, Cardinality

LEMMA HeldFinite ==
  ASSUME NEW act
  PROVE  IsFiniteSet(Held(act)) /\ Cardinality(Held(act)) \in Nat
<1>1. Held(act) \subseteq Docs
  BY DEF Held
<1>2. IsFiniteSet(Docs)
  BY PQAssumption
<1>3. IsFiniteSet(Held(act))
  BY <1>1, <1>2, FS_Subset
<1> QED BY <1>3, FS_CardinalityType

-----------------------------------------------------------------------------
(* scheduleNext admits the head of the line.                               *)

\* Until the slots are used up, or nobody waits.
LEMMA ScheduleNextAdmits ==
  ASSUME NEW q, NEW act, NEW att, NEW limit \in Nat \ {0},
         Good(q, act, att), ScheduleNext(q, act, att, limit),
         limit = concurrency'
  PROVE  Slots!Admit(DocsOf(q), Held(act))
<1>1. PICK k \in 0 .. Len(q) :
        /\ k = Len(q) \/ Full(q, act, k, limit)
        /\ \A j \in 0 .. k - 1 : ~Full(q, act, j, limit)
        /\ \A d \in Started(q, act, k) : \E i \in Attempts : att[d][i].at = "free"
        /\ queue' = SubSeq(q, k + 1, Len(q))
        /\ active' = [d \in Docs |->
             IF d \in Started(q, act, k) THEN FreeSlot(att, d) ELSE act[d]]
  BY DEF ScheduleNext
<1>2. /\ q \in Seq(Job) /\ Len(q) \in Nat
      /\ act \in [Docs -> Attempts \cup {None}]
  BY DEF Good
<1>3. \A i \in 1 .. Len(q) : q[i].doc \in Docs
  <2>1. \A i \in 1 .. Len(q) : q[i] \in Job
    BY <1>2
  <2>2. \A j \in Job : j.doc \in Docs
    BY DEF Job
  <2> QED BY <2>1, <2>2
<1>4. DocsOf(q) \in Seq(Docs) /\ Len(DocsOf(q)) = Len(q)
        /\ \A i \in 1 .. Len(q) : DocsOf(q)[i] = q[i].doc
  BY <1>2, <1>3 DEF DocsOf
<1>5. \A j \in 0 .. Len(q) :
        Keys(q, act, j) = Held(act) \cup {DocsOf(q)[i] : i \in 1 .. j}
  BY <1>2, <1>4 DEF Keys, Held
<1>6. Held(active') = Keys(q, act, k)
  <2>1. None \notin Attempts
    BY DEF None, Attempts
  <2>2. \A d \in Started(q, act, k) : FreeSlot(att, d) \in Attempts
    BY <1>1 DEF FreeSlot
  <2>3. \A d \in Docs : active'[d] # None <=> d \in Started(q, act, k) \/ act[d] # None
    BY <1>1, <2>1, <2>2
  <2>4. \A d \in Docs : d \in Started(q, act, k) \/ act[d] # None
                          <=> d \in Keys(q, act, k)
    BY DEF Started, Keys
  <2>5. Keys(q, act, k) \subseteq Docs
    BY <1>2, <1>3 DEF Keys
  <2> QED BY <2>3, <2>4, <2>5 DEF Held
<1>7. DocsOf(queue') = SubSeq(DocsOf(q), k + 1, Len(DocsOf(q)))
  <2>1. k \in Nat /\ k + 1 \in 1 .. Len(q) + 1
    BY <1>2
  <2>2. Len(queue') = Len(q) - k /\ \A i \in 1 .. Len(q) - k : queue'[i] = q[k + i]
    BY <1>1, <1>2, <2>1, SubSeqProperties
  <2> DEFINE s == SubSeq(DocsOf(q), k + 1, Len(DocsOf(q)))
  <2>3. /\ s \in Seq(Docs)
        /\ Len(s) = Len(q) - k /\ \A i \in 1 .. Len(q) - k : s[i] = DocsOf(q)[k + i]
    BY <1>4, <2>1, SubSeqProperties
  <2>4. \A i \in 1 .. Len(q) - k : k + i \in 1 .. Len(q)
    BY <1>2, <2>1
  <2> HIDE DEF s
  <2>5. s = [i \in 1 .. Len(q) - k |-> s[i]]
    BY <2>3
  <2>6. \A i \in 1 .. Len(q) - k : s[i] = queue'[i].doc
    BY <2>2, <2>3, <2>4, <1>4
  <2>7. DocsOf(queue') = [i \in 1 .. Len(q) - k |-> queue'[i].doc]
    BY <2>2 DEF DocsOf
  <2>8. DocsOf(queue') = s
    BY <2>5, <2>6, <2>7
  <2> QED BY <2>8 DEF s
<1>8. ASSUME k > 0
      PROVE  Cardinality(Held(active')) <= limit
  <2>1. k - 1 \in 0 .. Len(q) /\ k - 1 \in 0 .. k - 1 /\ k \in 1 .. Len(q)
    BY <1>2, <1>8
  <2> DEFINE K == Keys(q, act, k - 1)
             d == DocsOf(q)[k]
  <2>2. K \subseteq Docs
    <3>1. \A i \in 1 .. k - 1 : q[i].doc \in Docs
      BY <1>2, <1>3, <2>1
    <3> QED BY <3>1 DEF Keys
  <2>3. IsFiniteSet(K) /\ Cardinality(K) \in Nat
    BY <2>2, PQAssumption, FS_Subset, FS_CardinalityType
  <2>4. Cardinality(K) < limit
    <3>1. ~Full(q, act, k - 1, limit)
      BY <1>1, <2>1
    <3> QED BY <3>1, <2>3 DEF Full
  <2>5. Held(active') = K \cup {d}
    <3>1. 1 .. k = (1 .. k - 1) \cup {k}
      BY <2>1
    <3> QED BY <1>5, <1>6, <2>1, <3>1
  <2> HIDE DEF K, d
  <2>6. Cardinality(K \cup {d}) = Cardinality(K)
          \/ Cardinality(K \cup {d}) = Cardinality(K) + 1
    BY <2>3, FS_AddElement
  <2> QED BY <2>3, <2>4, <2>5, <2>6
<1>9. ASSUME DocsOf(queue') # <<>>
      PROVE  Cardinality(Held(active')) >= limit
  <2>1. k # Len(q)
    <3>1. ASSUME k = Len(q) PROVE queue' = <<>>
      BY <1>1, <1>2, <3>1
    <3>2. queue' = <<>> => DocsOf(queue') = <<>>
      BY DEF DocsOf
    <3> QED BY <1>9, <3>1, <3>2
  <2> QED BY <2>1, <1>1, <1>6 DEF Full
<1>10. Held(active') = Held(act) \cup {DocsOf(q)[i] : i \in 1 .. k}
  BY <1>5, <1>6
<1>11. Waiting' = DocsOf(queue') /\ Holding' = Held(active')
  BY DEF Waiting, Holding, DocsOf, Held
<1> QED
  BY <1>4, <1>7, <1>8, <1>9, <1>10, <1>11, SameCardinality DEF Slots!Admit

-----------------------------------------------------------------------------
(* What enqueue does to the line.                                          *)

LEMMA AppendDocs ==
  ASSUME NEW q \in Seq(Job), NEW job \in Job
  PROVE  DocsOf(Append(q, job)) = Append(DocsOf(q), job.doc)
<1>1. /\ Len(q) \in Nat /\ Len(Append(q, job)) = Len(q) + 1
      /\ \A i \in 1 .. Len(q) : Append(q, job)[i] = q[i]
      /\ Append(q, job)[Len(q) + 1] = job
  OBVIOUS
<1>2. \A j \in Job : j.doc \in Docs
  BY DEF Job
<1>3. DocsOf(q) \in Seq(Docs) /\ Len(DocsOf(q)) = Len(q)
        /\ \A i \in 1 .. Len(q) : DocsOf(q)[i] = q[i].doc
  <2>1. \A i \in 1 .. Len(q) : q[i] \in Job
    OBVIOUS
  <2> QED BY <1>1, <1>2, <2>1 DEF DocsOf
<1> DEFINE s == Append(DocsOf(q), job.doc)
<1>4. /\ s \in Seq(Docs) /\ Len(s) = Len(q) + 1
      /\ \A i \in 1 .. Len(q) : s[i] = q[i].doc
      /\ s[Len(q) + 1] = job.doc
  BY <1>1, <1>2, <1>3
<1> HIDE DEF s
<1>5. s = [i \in 1 .. Len(q) + 1 |-> s[i]]
  BY <1>4
<1>6. \A i \in 1 .. Len(q) + 1 : s[i] = Append(q, job)[i].doc
  <2>1. \A i \in 1 .. Len(q) + 1 : i \in 1 .. Len(q) \/ i = Len(q) + 1
    BY <1>1
  <2> QED BY <1>1, <1>4, <2>1
<1>7. DocsOf(Append(q, job)) = [i \in 1 .. Len(q) + 1 |-> Append(q, job)[i].doc]
  BY <1>1 DEF DocsOf
<1>8. DocsOf(Append(q, job)) = s
  BY <1>5, <1>6, <1>7
<1> QED BY <1>8 DEF s

LEMMA SpliceDocs ==
  ASSUME NEW d \in Docs, NEW k \in 1 .. Len(queue), queue[k].doc = d,
         queue \in Seq(Job),
         \A i, j \in 1 .. Len(queue) : queue[i].doc = queue[j].doc => i = j
  PROVE  DocsOf(Splice(queue, d)) = Slots!Without(k)
<1>1. Queued(queue, d) /\ FirstIndex(queue, d) = k
  BY FirstIndexFacts DEF Queued
<1> DEFINE n == Len(queue) - 1
           s == [j \in 1 .. n |-> IF j < k THEN queue[j] ELSE queue[j + 1]]
<1>2. Splice(queue, d) = s
  BY <1>1 DEF Splice
<1>3. n \in Nat /\ Len(queue) = n + 1
  OBVIOUS
<1>4. Len(s) = n
  BY <1>3
<1>5. Len(Waiting) = n + 1 /\ \A i \in 1 .. n + 1 : Waiting[i] = queue[i].doc
  BY <1>3 DEF Waiting
<1>6. Slots!Without(k) =
        [j \in 1 .. n |-> IF j < k THEN queue[j].doc ELSE queue[j + 1].doc]
  BY <1>3, <1>5 DEF Slots!Without
<1>7. DocsOf(s) = [j \in 1 .. n |-> s[j].doc]
  BY <1>4 DEF DocsOf
<1>8. \A j \in 1 .. n :
        s[j].doc = IF j < k THEN queue[j].doc ELSE queue[j + 1].doc
  OBVIOUS
<1> HIDE DEF s
<1> QED BY <1>2, <1>6, <1>7, <1>8

LEMMA WaitsIsQueued ==
  ASSUME NEW d
  PROVE  Slots!Waits(d) <=> Queued(queue, d)
<1>1. Len(Waiting) = Len(queue) /\ \A i \in 1 .. Len(queue) : Waiting[i] = queue[i].doc
  BY DEF Waiting
<1> QED BY <1>1 DEF Slots!Waits, Queued

LEMMA EntryGoneHeld ==
  ASSUME NEW act \in [Docs -> Attempts \cup {None}], NEW d \in Docs
  PROVE  Held([act EXCEPT ![d] = None]) = Held(act) \ {d}
BY DEF Held

\* A force job makes its document start over; another one joins, or is dropped
\* because its document waits or is served.
LEMMA EnqueueServes ==
  ASSUME NEW att, Good(queue, active, att), NEW job \in Job, Enqueue(job, att),
         concurrency \in Nat \ {0}, UNCHANGED concurrency
  PROVE  /\ job.force => Slots!StartOver(job.doc)
         /\ ~job.force =>
              \/ UNCHANGED <<Waiting, Holding>>
              \/ /\ ~Slots!Waits(job.doc) /\ job.doc \notin Holding
                 /\ Slots!Admit(Append(Waiting, job.doc), Holding)
<1>1. job.doc \in Docs
  BY DEF Job
<1>2. /\ queue \in Seq(Job)
      /\ active \in [Docs -> Attempts \cup {None}]
      /\ \A i, j \in 1 .. Len(queue) : queue[i].doc = queue[j].doc => i = j
  BY DEF Good
<1>3. ASSUME job.force
      PROVE  Slots!StartOver(job.doc)
  <2> DEFINE q == Splice(queue, job.doc)
             act == [active EXCEPT ![job.doc] = None]
             abt == AbortActive(active, att, job.doc)
  <2>1. Good(queue, act, abt)
    BY <1>1, AbortFacts
  <2>2. /\ q \in Seq(Job)
        /\ \A i, j \in 1 .. Len(q) : q[i].doc = q[j].doc => i = j
        /\ \A i \in 1 .. Len(q) : q[i].doc # job.doc
                                    /\ \E j \in 1 .. Len(queue) : q[i] = queue[j]
    BY <1>1, <1>2, SpliceFacts
  <2>3. ~Queued(q, job.doc) /\ act[job.doc] = None
    BY <2>2, <1>1, <1>2 DEF Queued
  <2>4. ScheduleNext(Append(q, job), act, abt, concurrency)
    BY <1>3 DEF Enqueue
  <2>5. Held(act) = Holding \ {job.doc}
    BY <1>1, <1>2, EntryGoneHeld, Mapping
  <2>6. DocsOf(Append(q, job)) = Append(DocsOf(q), job.doc)
    BY <2>2, AppendDocs
  <2>7. Queued(queue, job.doc) => job.doc \notin Holding
    BY <1>1 DEF Queued, Good, Holding
  <2>8. ~Queued(queue, job.doc) => DocsOf(q) = Waiting
    BY Mapping DEF Splice
  <2>9. \A k \in 1 .. Len(queue) :
          queue[k].doc = job.doc => DocsOf(q) = Slots!Without(k)
    BY <1>1, <1>2, SpliceDocs
  <2> HIDE DEF q, act, abt
  <2>10. Good(Append(q, job), act, abt)
    <3>1. Good(q, act, abt)
      BY <2>1, <2>2 DEF Good
    <3> QED BY <2>3, <3>1, AppendFacts
  <2>11. Slots!Admit(Append(DocsOf(q), job.doc), Holding \ {job.doc})
    <3>1. Slots!Admit(DocsOf(Append(q, job)), Held(act))
      BY <2>4, <2>10, ScheduleNextAdmits
    <3> QED BY <3>1, <2>5, <2>6
  <2>12. CASE ~Queued(queue, job.doc)
    BY <2>8, <2>11, <2>12, WaitsIsQueued DEF Slots!StartOver
  <2>13. CASE Queued(queue, job.doc)
    <3>1. PICK k \in 1 .. Len(queue) : queue[k].doc = job.doc
      BY <2>13 DEF Queued
    <3>2. k \in 1 .. Len(Waiting) /\ Waiting[k] = job.doc
      BY <3>1, <1>2 DEF Waiting
    <3>3. Holding \ {job.doc} = Holding
      BY <2>7, <2>13
    <3>4. Slots!Admit(Append(Slots!Without(k), job.doc), Holding)
      BY <2>9, <2>11, <3>1, <3>3
    <3> QED BY <3>2, <3>4 DEF Slots!StartOver
  <2> QED BY <2>12, <2>13
<1>4. ASSUME ~job.force, Queued(queue, job.doc) \/ active[job.doc] # None
      PROVE  UNCHANGED <<Waiting, Holding>>
  BY <1>4 DEF Enqueue, Waiting, Holding
<1>5. ASSUME ~job.force, ~Queued(queue, job.doc), active[job.doc] = None
      PROVE  /\ ~Slots!Waits(job.doc) /\ job.doc \notin Holding
             /\ Slots!Admit(Append(Waiting, job.doc), Holding)
  <2>1. ScheduleNext(Append(queue, job), active, att, concurrency)
    BY <1>5 DEF Enqueue
  <2>2. Good(Append(queue, job), active, att)
    BY <1>5, AppendFacts
  <2>3. Slots!Admit(DocsOf(Append(queue, job)), Held(active))
    BY <2>1, <2>2, ScheduleNextAdmits
  <2>4. DocsOf(Append(queue, job)) = Append(Waiting, job.doc) /\ Held(active) = Holding
    BY <1>2, AppendDocs, Mapping
  <2>5. ~Slots!Waits(job.doc)
    BY <1>5, WaitsIsQueued
  <2>6. job.doc \notin Holding
    BY <1>5 DEF Holding
  <2>7. Slots!Admit(Append(Waiting, job.doc), Holding)
    BY <2>3, <2>4
  <2> QED BY <2>5, <2>6, <2>7
<1> QED BY <1>3, <1>4, <1>5

-----------------------------------------------------------------------------
(* Every step is one of SlotQueue's.                                       *)

\* A step that leaves the four variables of SlotQueue alone.
LEMMA Stutters ==
  ASSUME UNCHANGED <<queue, active, concurrency, forcing>>
  PROVE  UNCHANGED Slots!queueVars
BY DEF Slots!queueVars, Waiting, Holding

LEMMA StepServes ==
  ASSUME IInv, Next
  PROVE  [Slots!Next]_(Slots!queueVars)
<1> USE PQAssumption
<1>0. /\ Good(queue, active, attempt)
      /\ queue \in Seq(Job)
      /\ attempt \in [Docs -> [Attempts -> Attempt]]
      /\ active \in [Docs -> Attempts \cup {None}]
      /\ forcing \in [Docs -> Nat]
      /\ concurrency \in Nat \ {0}
  BY DEF IInv, TypeOK
<1>1. \A d \in Docs, f \in BOOLEAN : /\ FirstTry(d, f) \in Job
                                    /\ FirstTry(d, f).doc = d
                                    /\ FirstTry(d, f).force = f
  BY DEF FirstTry, Job
<1>2. ASSUME NEW job \in Job, NEW att, Good(queue, active, att), Enqueue(job, att),
             UNCHANGED <<concurrency, forcing>>
      PROVE  [Slots!Next]_(Slots!queueVars)
  <2>1. job.doc \in Docs /\ job.force \in BOOLEAN
    BY DEF Job
  <2>2. CASE job.force
    <3>1. Slots!StartOver(job.doc)
      BY <1>0, <1>2, <2>2, EnqueueServes
    <3>2. Slots!Urge(job.doc)
      BY <1>2, <3>1 DEF Slots!Urge
    <3> QED BY <2>1, <3>2 DEF Slots!Next
  <2>3. CASE ~job.force /\ UNCHANGED <<Waiting, Holding>>
    BY <1>2, <2>3 DEF Slots!queueVars
  <2>4. CASE /\ ~Slots!Waits(job.doc) /\ job.doc \notin Holding
             /\ Slots!Admit(Append(Waiting, job.doc), Holding)
    <3>1. Slots!Arrive(job.doc)
      BY <1>2, <2>4 DEF Slots!Arrive
    <3> QED BY <2>1, <3>1 DEF Slots!Next
  <2> QED BY <1>0, <1>2, <2>1, <2>2, <2>3, <2>4, EnqueueServes
<1>3. ASSUME NEW d \in Docs, Ask(d) \/ Asked(d) \/ ForceNow(d) \/ CancelActive(d)
                               \/ Cancelled(d)
      PROVE  [Slots!Next]_(Slots!queueVars)
  <2>1. CASE Ask(d)
    BY <2>1, Stutters DEF Ask
  <2>2. CASE Asked(d)
    BY <2>2, <1>0, <1>1, <1>2 DEF Asked
  <2>3. CASE ForceNow(d)
    BY <2>3, <1>0, <1>1, <1>2 DEF ForceNow
  <2>4. CASE CancelActive(d)
    <3>1. d \in Holding
      BY <2>4 DEF CancelActive, Holding
    <3>2. Holding' = Holding \ {d}
      <4>1. active' = [active EXCEPT ![d] = None]
        BY <2>4 DEF CancelActive
      <4> QED BY <4>1, <1>0 DEF Holding
    <3>3. Slots!Evict(d)
      BY <2>4, <3>1, <3>2 DEF CancelActive, Slots!Evict, Waiting
    <3> QED BY <3>3 DEF Slots!Next
  <2>5. CASE Cancelled(d)
    <3>1. Enqueue(FirstTry(d, TRUE), attempt) /\ UNCHANGED concurrency
      BY <2>5 DEF Cancelled
    <3>2. Slots!StartOver(d)
      BY <3>1, <1>0, <1>1, EnqueueServes
    <3>3. Slots!Return(d)
      BY <2>5, <3>2 DEF Cancelled, Slots!Return
    <3> QED BY <3>3 DEF Slots!Next
  <2> QED BY <1>3, <2>1, <2>2, <2>3, <2>4, <2>5
<1>4. ASSUME NEW n \in Levels, SetConcurrency(n)
      PROVE  [Slots!Next]_(Slots!queueVars)
  <2>1. concurrency' \in Nat \ {0}
    BY <1>4 DEF SetConcurrency
  <2>2. ScheduleNext(queue, active, attempt, concurrency') /\ UNCHANGED forcing
    BY <1>4 DEF SetConcurrency
  <2>3. Slots!Admit(Waiting, Holding)
    BY <1>0, <2>1, <2>2, ScheduleNextAdmits, Mapping
  <2>4. Slots!Resize
    BY <2>1, <2>2, <2>3 DEF Slots!Resize
  <2> QED BY <2>4 DEF Slots!Next
<1>5. ASSUME NEW d \in Docs, NEW i \in Attempts, AttemptStep(d, i)
      PROVE  [Slots!Next]_(Slots!queueVars)
  <2>1. CASE Cleanup(d, i) \/ StageWrite(d, i) \/ WorkDone(d, i)
               \/ WorkThrows(d, i) \/ Timeout(d, i)
    BY <2>1, Stutters DEF Cleanup, StageWrite, WorkDone, WorkThrows, Timeout
  <2>2. CASE Settle(d, i)
    <3> DEFINE act == [active EXCEPT ![d] = None]
               att == [attempt EXCEPT ![d][i] = Left(d, i)]
    <3>1. ScheduleNext(queue, act, att, concurrency)
            /\ UNCHANGED <<concurrency, forcing>>
      BY <2>2 DEF Settle, Finally, Left
    <3>2. Good(queue, act, att)
      BY <1>0, SettleFacts
    <3>3. Held(act) = Holding \ {d}
      BY <1>0, EntryGoneHeld, Mapping
    <3> HIDE DEF act, att
    <3>4. Slots!Admit(DocsOf(queue), Held(act))
      BY <3>1, <3>2, <1>0, ScheduleNextAdmits
    <3>5. Slots!Leave(d)
      BY <3>1, <3>3, <3>4, Mapping DEF Slots!Leave
    <3> QED BY <3>5 DEF Slots!Next
  <2>3. CASE Retry(d, i)
    <3> DEFINE att == [attempt EXCEPT ![d][i] = Free]
    <3>1. attempt[d][i].at = "backoff" /\ Enqueue(RetryJob(d, i), att)
            /\ UNCHANGED <<concurrency, forcing>>
      BY <2>3 DEF Retry, RetryJob
    <3>2. RetryJob(d, i) \in Job /\ Good(queue, active, att)
      BY <3>1, <1>0, RetryFacts
    <3> HIDE DEF att
    <3> QED BY <3>1, <3>2, <1>2
  <2> QED BY <1>5, <2>1, <2>2, <2>3 DEF AttemptStep
<1>6. CASE Restart
  <2>1. Waiting' = <<>>
    <3>1. queue' = <<>>
      BY <1>6 DEF Restart
    <3> QED BY <3>1 DEF Waiting
  <2>2. Holding' = {}
    BY <1>6 DEF Restart, Holding
  <2>3. Slots!Crash
    BY <1>6, <2>1, <2>2 DEF Restart, Slots!Crash
  <2> QED BY <2>3 DEF Slots!Next
<1> QED BY <1>3, <1>4, <1>5, <1>6 DEF Next

\* The processing queue, whatever is forced, cancelled, retried, resized or
\* restarted, gives slots in the order of the requests, within the limit, and
\* leaves none free beside a waiting document.
THEOREM ImplementsSlotQueue == Spec => ServesInOrder
<1>1. Init => Slots!Init
  <2> SUFFICES ASSUME Init PROVE Slots!Init
    OBVIOUS
  <2>1. Waiting = <<>>
    BY DEF Init, Waiting
  <2>2. Holding = {}
    BY DEF Init, Holding
  <2> QED BY <2>1, <2>2 DEF Init, Slots!Init
<1>2. IInv /\ [Next]_vars => [Slots!Next]_(Slots!queueVars)
  <2> SUFFICES ASSUME IInv, [Next]_vars
               PROVE  [Slots!Next]_(Slots!queueVars)
    OBVIOUS
  <2>1. CASE Next
    BY <2>1, StepServes
  <2>2. CASE UNCHANGED vars
    BY <2>2, Stutters DEF vars
  <2> QED BY <2>1, <2>2
<1> QED BY <1>1, <1>2, Inductive, PTL DEF Spec, ServesInOrder, Slots!Spec

-----------------------------------------------------------------------------
(* Without force requests a slot is an executing attempt.                  *)

\* Slots are only ever added within the limit, forced or not.
LEMMA SlotsGrowWithinLimit ==
  ASSUME [Slots!Next]_(Slots!queueVars)
  PROVE  Holding' \subseteq Holding \/ Cardinality(Holding') <= concurrency'
<1>1. ASSUME NEW w, NEW h \in SUBSET Holding, Slots!Admit(w, h)
      PROVE  Holding' \subseteq Holding \/ Cardinality(Holding') <= concurrency'
  <2>1. PICK k \in 0 .. Len(w) :
          /\ Holding' = h \cup {w[i] : i \in 1 .. k}
          /\ k > 0 => Cardinality(Holding') <= concurrency'
    BY <1>1, SameCardinality DEF Slots!Admit
  <2>2. CASE k = 0
    <3>1. {w[i] : i \in 1 .. k} = {}
      BY <2>2
    <3> QED BY <2>1, <3>1
  <2>3. CASE k # 0
    <3>1. k > 0
      BY <2>3
    <3> QED BY <2>1, <3>1
  <2> QED BY <2>2, <2>3
<1>2. \A d : Holding \ {d} \in SUBSET Holding /\ Holding \in SUBSET Holding
  OBVIOUS
<1>3. CASE UNCHANGED Slots!queueVars
  BY <1>3 DEF Slots!queueVars
<1>4. ASSUME NEW d, Slots!StartOver(d)
      PROVE  Holding' \subseteq Holding \/ Cardinality(Holding') <= concurrency'
  BY <1>1, <1>2, <1>4 DEF Slots!StartOver
<1>5. ASSUME NEW d \in Docs, Slots!Arrive(d) \/ Slots!Urge(d) \/ Slots!Evict(d)
                               \/ Slots!Return(d) \/ Slots!Leave(d)
      PROVE  Holding' \subseteq Holding \/ Cardinality(Holding') <= concurrency'
  BY <1>1, <1>2, <1>4, <1>5
     DEF Slots!Arrive, Slots!Urge, Slots!Evict, Slots!Return, Slots!Leave
<1>6. CASE Slots!Resize
  BY <1>1, <1>2, <1>6 DEF Slots!Resize
<1>7. CASE Slots!Crash
  BY <1>7 DEF Slots!Crash
<1> QED BY <1>3, <1>5, <1>6, <1>7 DEF Slots!Next

LEMMA ExecutingIsHolding ==
  ASSUME Good(queue, active, attempt), Single(queue, active, attempt)
  PROVE  IsFiniteSet(Holding) /\ Cardinality(Executing) = Cardinality(Holding)
<1> DEFINE g == [d \in Holding |-> <<d, active[d]>>]
<1>1. active \in [Docs -> Attempts \cup {None}] /\ None \notin Attempts
  BY DEF Good, None, Attempts
<1>2. \A d \in Holding : g[d] \in Executing
  <2> SUFFICES ASSUME NEW d \in Holding PROVE g[d] \in Executing
    OBVIOUS
  <2>1. d \in Docs /\ active[d] \in Attempts
    BY <1>1 DEF Holding
  <2>2. attempt[d][active[d]].at \in Running
    BY <2>1, <1>1 DEF Good
  <2> QED BY <2>1, <2>2 DEF Executing, Live
<1>3. \A x \in Executing : x[1] \in Holding /\ g[x[1]] = x
  <2> SUFFICES ASSUME NEW x \in Executing PROVE x[1] \in Holding /\ g[x[1]] = x
    OBVIOUS
  <2>1. x \in Docs \X Attempts /\ attempt[x[1]][x[2]].at \in Running
    BY DEF Executing, Live
  <2>2. x = <<x[1], x[2]>> /\ x[1] \in Docs /\ x[2] \in Attempts
    BY <2>1
  <2>3. active[x[1]] = x[2]
    BY <2>1, <2>2 DEF Single
  <2>4. x[1] \in Holding
    BY <2>2, <2>3, <1>1 DEF Holding
  <2> QED BY <2>2, <2>3, <2>4
<1>4. \A d, e \in Holding : g[d] = g[e] => d = e
  OBVIOUS
<1>5. g \in [Holding -> Executing]
  BY <1>2
<1> HIDE DEF g
<1>6. g \in Surjection(Holding, Executing) /\ g \in Injection(Holding, Executing)
  <2>1. \A x \in Executing : \E d \in Holding : g[d] = x
    BY <1>3
  <2> QED BY <1>4, <1>5, <2>1 DEF Surjection, Injection, IsInjective
<1>7. IsFiniteSet(Holding)
  BY HeldFinite, Mapping
<1> QED BY <1>6, <1>7, FS_Surjection

\* No attempt starts beyond the limit of the moment, also after it was lowered.
THEOREM StartsAreWithinLimit ==
  ASSUME Budget["force"] = 0
  PROVE  Spec => StartsWithinLimit
<1> DEFINE Inv == IInv /\ Unforced /\ Single(queue, active, attempt)
           Grown == Cardinality(Executing') > Cardinality(Executing) =>
                      Cardinality(Executing') <= concurrency'
           Same == IsFiniteSet(Holding) /\ Cardinality(Executing) = Cardinality(Holding)
<1>1. Inv => Same
  BY ExecutingIsHolding DEF IInv
<1>2. Inv /\ Inv' /\ Same /\ Same' /\ [Next]_vars => [Grown]_vars
  <2> SUFFICES ASSUME Inv, Inv', Same, Same', Next PROVE Grown
    OBVIOUS
  <2>1. concurrency' \in Nat
    BY DEF IInv, TypeOK
  <2>2. IsFiniteSet(Holding) /\ Cardinality(Executing) = Cardinality(Holding)
    OBVIOUS
  <2>3. IsFiniteSet(Holding') /\ Cardinality(Executing') = Cardinality(Holding')
    OBVIOUS
  <2>4. Holding' \subseteq Holding \/ Cardinality(Holding') <= concurrency'
    BY StepServes, SlotsGrowWithinLimit
  <2>5. Holding' \subseteq Holding => Cardinality(Holding') <= Cardinality(Holding)
    BY <2>2, FS_Subset
  <2>6. Cardinality(Holding) \in Nat /\ Cardinality(Holding') \in Nat
    BY <2>2, <2>3, FS_CardinalityType
  <2> QED BY <2>1, <2>2, <2>3, <2>4, <2>5, <2>6
<1> QED BY <1>1, <1>2, AlwaysSingle, PTL DEF Spec, StartsWithinLimit

-----------------------------------------------------------------------------
(* The row of a document.                                                  *)

\* What it may say while nobody works on the document, and while the executing
\* attempt stands at p.
Resting == Status \ {"compiling", "indexing"}

Expected(p) ==
  CASE p = "parsing0"                              -> Resting
    [] p \in {"parse", "parsing1", "compiling0"}   -> {"parsing"}
    [] p \in {"compile", "compiling1", "indexing0"} -> {"compiling"}
    [] p \in {"index", "indexing1", "ready"}       -> {"indexing"}
    [] p \in {"retrying", "error"}                 -> Intermediate
    [] p = "cleanup"                               -> {}

RowsFit(att, st) ==
  \A d \in Docs :
    /\ \A i \in Attempts : att[d][i].at \in Running => st[d] \in Expected(att[d][i].at)
    /\ (\A i \in Attempts : att[d][i].at \notin Running) => st[d] \in Resting

LEMMA ExpectedFacts ==
  /\ \A p \in StageWrites : Written(p) \in Expected(After(p)) \cap Intermediate
  /\ \A p \in Work : Expected(p) \subseteq Expected(After(p)) \cap Intermediate
  /\ Expected("parsing0") = Resting /\ Expected("cleanup") = {}
  /\ Expected("retrying") = Intermediate /\ Expected("error") = Intermediate
  /\ Expected("ready") = {"indexing"}
<1>1. \A p \in StageWrites : Written(p) \in Expected(After(p)) \cap Intermediate
  BY DEF StageWrites, Written, Expected, After, Intermediate
<1>2. \A p \in Work : Expected(p) \subseteq Expected(After(p)) \cap Intermediate
  BY DEF Work, Expected, After, Intermediate
<1> QED BY <1>1, <1>2 DEF Expected

\* The loop starts only documents at rest.
LEMMA ScheduleNextFits ==
  ASSUME NEW q, NEW act, NEW att, NEW limit, NEW st,
         Good(q, act, att), Single(q, act, att), ScheduleNext(q, act, att, limit),
         RowsFit(att, st)
  PROVE  RowsFit(attempt', st)
<1>1. PICK k \in 0 .. Len(q) :
        /\ \A d \in Started(q, act, k) : \E i \in Attempts : att[d][i].at = "free"
        /\ attempt' = [d \in Docs |->
             IF d \in Started(q, act, k)
             THEN [att[d] EXCEPT ![FreeSlot(att, d)] = Begin(q[FirstIndex(q, d)])]
             ELSE att[d]]
  BY DEF ScheduleNext
<1>2. /\ q \in Seq(Job)
      /\ att \in [Docs -> [Attempts -> Attempt]]
      /\ \A i, j \in 1 .. Len(q) : q[i].doc = q[j].doc => i = j
  BY DEF Good
<1> SUFFICES ASSUME NEW d \in Docs
             PROVE  /\ \A i \in Attempts : attempt'[d][i].at \in Running =>
                         st[d] \in Expected(attempt'[d][i].at)
                    /\ (\A i \in Attempts : attempt'[d][i].at \notin Running) =>
                         st[d] \in Resting
  BY DEF RowsFit
<1>3. CASE d \notin Started(q, act, k)
  <2>1. attempt'[d] = att[d]
    BY <1>1, <1>3
  <2> QED BY <2>1 DEF RowsFit
<1>4. CASE d \in Started(q, act, k)
  <2>1. PICK j \in 1 .. k : q[j].doc = d
    BY <1>4 DEF Started
  <2>2. j \in 1 .. Len(q) /\ FirstIndex(q, d) = j /\ ~q[j].force
    <3>1. j \in 1 .. Len(q)
      BY <1>2
    <3> QED BY <3>1, <2>1, <1>2, FirstIndexFacts DEF Single
  <2>3. Begin(q[FirstIndex(q, d)]).at = "parsing0"
    BY <2>2 DEF Begin
  <2>4. /\ FreeSlot(att, d) \in Attempts
        /\ attempt'[d] = [att[d] EXCEPT ![FreeSlot(att, d)] = Begin(q[FirstIndex(q, d)])]
    BY <1>1, <1>4 DEF FreeSlot
  <2>5. \A i \in Attempts :
          attempt'[d][i] = IF i = FreeSlot(att, d) THEN Begin(q[FirstIndex(q, d)])
                                                   ELSE att[d][i]
    BY <1>2, <2>4
  <2>6. \A i \in Attempts : att[d][i].at \notin Running
    <3>1. act[d] = None /\ None \notin Attempts
      BY <1>4 DEF Started, None, Attempts
    <3> QED BY <3>1 DEF Single
  <2>7. st[d] \in Resting
    BY <2>6 DEF RowsFit
  <2>8. "parsing0" \in Running
    BY DEF Running, Timed, StageWrites
  <2> QED BY <2>3, <2>4, <2>5, <2>6, <2>7, <2>8, ExpectedFacts
<1> QED BY <1>3, <1>4

\* The executing attempt of a document goes on, and the row with it.
LEMMA GoesOnFits ==
  ASSUME Good(queue, active, attempt), Single(queue, active, attempt),
         RowsFit(attempt, status), NEW new,
         NEW d \in Docs, NEW i \in Attempts, NEW a,
         attempt[d][i].at \in Running, a.at \in Running, new[d] \in Expected(a.at),
         \A e \in Docs : e # d => new[e] = status[e]
  PROVE  RowsFit([attempt EXCEPT ![d][i] = a], new)
<1>1. attempt \in [Docs -> [Attempts -> Attempt]]
  BY DEF Good
<1> DEFINE att2 == [attempt EXCEPT ![d][i] = a]
<1>2. \A e \in Docs, j \in Attempts :
        att2[e][j] = IF e = d /\ j = i THEN a ELSE attempt[e][j]
  BY <1>1
<1>3. \A j \in Attempts : attempt[d][j].at \in Running => j = i
  BY DEF Single
<1> HIDE DEF att2
<1>4. ASSUME NEW e \in Docs, e # d
      PROVE  /\ \A j \in Attempts : att2[e][j].at \in Running =>
                   new[e] \in Expected(att2[e][j].at)
             /\ (\A j \in Attempts : att2[e][j].at \notin Running) => new[e] \in Resting
  BY <1>2, <1>4 DEF RowsFit
<1>5. /\ \A j \in Attempts : att2[d][j].at \in Running =>
           new[d] \in Expected(att2[d][j].at)
      /\ ~ \A j \in Attempts : att2[d][j].at \notin Running
  BY <1>2, <1>3
<1>6. RowsFit(att2, new)
  BY <1>4, <1>5 DEF RowsFit
<1> QED BY <1>6 DEF att2

LEMMA EnqueueFits ==
  ASSUME NEW att, NEW st, Good(queue, active, att), Single(queue, active, att),
         NEW job \in Job, ~job.force, Enqueue(job, att), RowsFit(att, st)
  PROVE  RowsFit(attempt', st)
<1>1. CASE Queued(queue, job.doc) \/ active[job.doc] # None
  <2>1. attempt' = att
    BY <1>1 DEF Enqueue
  <2> QED BY <2>1
<1>2. CASE ~Queued(queue, job.doc) /\ active[job.doc] = None
  <2>1. ScheduleNext(Append(queue, job), active, att, concurrency)
    BY <1>2 DEF Enqueue
  <2>2. Good(Append(queue, job), active, att)
    BY <1>2, AppendFacts
  <2>3. Single(Append(queue, job), active, att)
    BY AppendSingle DEF Good
  <2> QED BY <2>1, <2>2, <2>3, ScheduleNextFits
<1> QED BY <1>1, <1>2

\* What StatusOrder says of one document.
RowMoved(d) ==
  status'[d] # status[d] =>
    \/ <<status[d], status'[d]>> \in RowMoves
    \/ /\ budget'["crash"] < budget["crash"]
       /\ <<status[d], status'[d]>> \in Intermediate \X {"uploaded"}

\* Every step of a server nobody forces and whose database takes the writes.
LEMMA RowStep ==
  ASSUME IInv, Unforced, Single(queue, active, attempt), budget["fault"] = 0,
         RowsFit(attempt, status), Next
  PROVE  /\ RowsFit(attempt, status)'
         /\ budget'["fault"] = 0
         /\ \A d \in Docs : RowMoved(d)
<1> USE PQAssumption
<1> DEFINE Goal == /\ RowsFit(attempt', status')
                   /\ budget'["fault"] = 0
                   /\ \A d \in Docs : RowMoved(d)
<1>0. /\ Good(queue, active, attempt)
      /\ attempt \in [Docs -> [Attempts -> Attempt]]
      /\ status \in [Docs -> Status]
      /\ budget \in [Kinds -> Nat]
  BY DEF IInv, TypeOK
<1>1. ~Spend("fault") /\ ~Spend("force")
  BY DEF Spend, Unforced
<1>2. ASSUME NEW kind \in Kinds, Spend(kind)
      PROVE  budget'["fault"] = 0
  BY <1>0, <1>1, <1>2 DEF Spend, Kinds
<1>3. ASSUME NEW d \in Docs, NEW s, WriteStatus(d, s)
      PROVE  /\ budget'["fault"] = 0
             /\ status'[d] = s /\ \A e \in Docs : e # d => status'[e] = status[e]
  <2>1. status' = [status EXCEPT ![d] = s] /\ UNCHANGED budget
    BY <1>1, <1>3 DEF WriteStatus
  <2> QED BY <2>1, <1>0
<1>4. ASSUME RowsFit(attempt', status), UNCHANGED status, budget'["fault"] = 0
      PROVE  Goal
  BY <1>4 DEF RowMoved
\* A step of an executing attempt, of which the row may be written.
<1>5. ASSUME NEW d \in Docs, NEW i \in Attempts, attempt[d][i].at \in Running,
             NEW p \in Running, Goto(d, i, p), status'[d] \in Expected(p),
             \A e \in Docs : e # d => status'[e] = status[e]
      PROVE  RowsFit(attempt', status')
  <2> DEFINE a == [attempt[d][i] EXCEPT !.at = p]
  <2>1. a.at = p
    <3>1. attempt[d][i] \in Attempt
      BY <1>0
    <3> QED BY <3>1 DEF Attempt
  <2>2. attempt' = [attempt EXCEPT ![d][i] = a]
    BY <1>0, <1>5 DEF Goto
  <2> HIDE DEF a
  <2>3. a.at \in Running /\ status'[d] \in Expected(a.at)
    BY <1>5, <2>1
  <2> DEFINE new == status'
  <2>4. new[d] \in Expected(a.at) /\ \A e \in Docs : e # d => new[e] = status[e]
    BY <1>5, <2>3
  <2> HIDE DEF new
  <2>5. RowsFit([attempt EXCEPT ![d][i] = a], new)
    BY <1>0, <1>5, <2>3, <2>4, GoesOnFits
  <2> QED BY <2>2, <2>5 DEF new
<1>6. {"cleanup"} \cup StageWrites \cup Work \cup Timed \subseteq Running
        /\ {"ready", "retrying", "error"} \subseteq Running
  BY DEF Running, Timed
<1>7. ASSUME NEW d \in Docs, NEW i \in Attempts, attempt[d][i].at \in Running
      PROVE  status[d] \in Expected(attempt[d][i].at)
  BY <1>7 DEF RowsFit
<1>8. ASSUME NEW a, NEW s, s \in Intermediate, s \in Expected(After(a.at)),
             After(a.at) \in Running
      PROVE  NextPoint(a) \in Running /\ s \in Expected(NextPoint(a))
  BY <1>6, <1>8, ExpectedFacts DEF NextPoint, FailPoint
<1>9. \A p \in StageWrites \cup Work : After(p) \in Running
  BY DEF StageWrites, Work, After, Running, Timed
<1>10. ASSUME NEW d \in Docs, Ask(d) \/ Asked(d) \/ ForceNow(d) \/ CancelActive(d)
                                \/ Cancelled(d)
       PROVE  Goal
  <2>1. CASE Ask(d)
    BY <2>1, <1>2, <1>4 DEF Ask, Kinds
  <2>2. CASE Asked(d)
    <3>1. FirstTry(d, FALSE) \in Job /\ ~FirstTry(d, FALSE).force
      BY DEF FirstTry, Job
    <3>2. RowsFit(attempt', status)
      BY <2>2, <3>1, <1>0, EnqueueFits DEF Asked
    <3> QED BY <2>2, <3>2, <1>4 DEF Asked
  <2>3. ~ForceNow(d) /\ ~CancelActive(d)
    BY <1>1 DEF ForceNow, CancelActive
  <2>4. ~Cancelled(d)
    <3>1. forcing[d] = 0
      BY DEF Unforced
    <3> QED BY <3>1 DEF Cancelled
  <2> QED BY <1>10, <2>1, <2>2, <2>3, <2>4
<1>11. ASSUME NEW n \in Levels, SetConcurrency(n) PROVE Goal
  <2>1. RowsFit(attempt', status)
    BY <1>11, <1>0, ScheduleNextFits DEF SetConcurrency
  <2> QED BY <1>11, <2>1, <1>2, <1>4 DEF SetConcurrency, Kinds
<1>12. ASSUME NEW d \in Docs, NEW i \in Attempts, AttemptStep(d, i) PROVE Goal
  <2>1. CASE Cleanup(d, i)
    BY <2>1, <1>6, <1>7, ExpectedFacts DEF Cleanup
  <2>2. CASE StageWrite(d, i)
    <3> DEFINE p == attempt[d][i].at
    <3>1. p \in StageWrites /\ p \in Running /\ WriteStatus(d, Written(p))
            /\ Goto(d, i, NextPoint(attempt[d][i]))
      BY <2>2, <1>6 DEF StageWrite
    <3>2. budget'["fault"] = 0 /\ status'[d] = Written(p)
            /\ \A e \in Docs : e # d => status'[e] = status[e]
      BY <3>1, <1>3
    <3>3. /\ NextPoint(attempt[d][i]) \in Running
          /\ Written(p) \in Expected(NextPoint(attempt[d][i]))
      BY <3>1, <1>8, <1>9, ExpectedFacts
    <3>4. RowsFit(attempt', status')
      BY <3>1, <3>2, <3>3, <1>5
    <3>5. RowMoved(d)
      <4>1. status[d] \in Expected(p)
        BY <3>1, <1>7
      <4> HIDE DEF p
      <4>2. status[d] # Written(p) => <<status[d], Written(p)>> \in RowMoves
        BY <3>1, <4>1 DEF StageWrites, Written, Expected, Resting, Status, Intermediate,
                          RowMoves
      <4> QED BY <3>2, <4>2 DEF RowMoved
    <3>6. \A e \in Docs : RowMoved(e)
      BY <3>2, <3>5 DEF RowMoved
    <3> QED BY <3>2, <3>4, <3>6
  <2>3. CASE WorkDone(d, i)
    <3>1. attempt[d][i].at \in Work /\ attempt[d][i].at \in Running
            /\ Goto(d, i, NextPoint(attempt[d][i])) /\ UNCHANGED <<status, budget>>
      BY <2>3, <1>6 DEF WorkDone
    <3>2. status[d] \in Expected(After(attempt[d][i].at)) \cap Intermediate
      BY <3>1, <1>7, ExpectedFacts
    <3>3. /\ NextPoint(attempt[d][i]) \in Running
          /\ status[d] \in Expected(NextPoint(attempt[d][i]))
      BY <3>1, <3>2, <1>8, <1>9
    <3>4. RowsFit(attempt', status')
      BY <3>1, <3>3, <1>5
    <3> QED BY <3>1, <3>4, <1>4
  <2>4. CASE WorkThrows(d, i)
    <3>1. attempt[d][i].at \in Work /\ attempt[d][i].at \in Running
            /\ Goto(d, i, FailPoint(attempt[d][i])) /\ UNCHANGED <<status, budget>>
      BY <2>4, <1>6 DEF WorkThrows, Work
    <3>2. status[d] \in Intermediate
      BY <3>1, <1>7, ExpectedFacts
    <3>3. /\ FailPoint(attempt[d][i]) \in Running
          /\ status[d] \in Expected(FailPoint(attempt[d][i]))
      BY <3>2, <1>6, ExpectedFacts DEF FailPoint
    <3>4. RowsFit(attempt', status')
      BY <3>1, <3>3, <1>5
    <3> QED BY <3>1, <3>4, <1>4
  <2>5. CASE Timeout(d, i)
    <3> DEFINE a == [attempt[d][i] EXCEPT !.signal = "timeout"]
    <3>1. a.at = attempt[d][i].at
      <4>1. attempt[d][i] \in Attempt
        BY <1>0
      <4> QED BY <4>1 DEF Attempt
    <3>2. attempt' = [attempt EXCEPT ![d][i] = a] /\ attempt[d][i].at \in Running
            /\ UNCHANGED <<status, budget>>
      BY <1>0, <1>6, <2>5 DEF Timeout
    <3> HIDE DEF a
    <3>3. RowsFit([attempt EXCEPT ![d][i] = a], status)
      BY <3>1, <3>2, <1>0, <1>7, GoesOnFits
    <3> QED BY <3>2, <3>3, <1>4
  <2>6. CASE Settle(d, i)
    <3> DEFINE act == [active EXCEPT ![d] = None]
               att == [attempt EXCEPT ![d][i] = Left(d, i)]
               p   == attempt[d][i].at
    <3>1. /\ ScheduleNext(queue, act, att, concurrency)
          /\ WriteStatus(d, Written(p))
          /\ p \in {"ready", "retrying", "error"} /\ p \in Running
      BY <2>6, <1>6 DEF Settle, Finally, Left
    <3>2. Good(queue, act, att) /\ Single(queue, act, att)
            /\ Left(d, i).at \notin Running
      BY <3>1, <1>0, SettleFacts, SettleSingle, IdleFacts
    <3>3. budget'["fault"] = 0 /\ status'[d] = Written(p)
            /\ \A e \in Docs : e # d => status'[e] = status[e]
      BY <3>1, <1>3
    <3>4. \A e \in Docs, j \in Attempts :
            att[e][j] = IF e = d /\ j = i THEN Left(d, i) ELSE attempt[e][j]
      BY <1>0
    <3> HIDE DEF act, att, p
    <3>5. \A j \in Attempts : att[d][j].at \notin Running
      <4>1. \A j \in Attempts : attempt[d][j].at \in Running => j = i
        BY <3>1 DEF Single, p
      <4> QED BY <3>2, <3>4, <4>1
    <3>6. Written(p) \in Resting
      BY <3>1 DEF Written, Resting, Status, Intermediate
    <3>7. RowsFit(att, status')
      <4>1. ASSUME NEW e \in Docs, e # d
            PROVE  /\ \A j \in Attempts : att[e][j].at \in Running =>
                         status'[e] \in Expected(att[e][j].at)
                   /\ (\A j \in Attempts : att[e][j].at \notin Running) =>
                         status'[e] \in Resting
        BY <3>3, <3>4, <4>1 DEF RowsFit
      <4> QED BY <3>3, <3>5, <3>6, <4>1 DEF RowsFit
    <3>8. RowsFit(attempt', status')
      BY <3>1, <3>2, <3>7, ScheduleNextFits
    <3>9. RowMoved(d)
      <4>1. status[d] \in Expected(p)
        BY <3>1, <1>7 DEF p
      <4>2. status[d] # Written(p) => <<status[d], Written(p)>> \in RowMoves
        BY <3>1, <4>1, ExpectedFacts DEF Written, Intermediate, RowMoves
      <4> QED BY <3>3, <4>2 DEF RowMoved
    <3>10. \A e \in Docs : RowMoved(e)
      BY <3>3, <3>9 DEF RowMoved
    <3> QED BY <3>3, <3>8, <3>10
  <2>7. CASE Retry(d, i)
    <3> DEFINE att == [attempt EXCEPT ![d][i] = Free]
    <3>1. attempt[d][i].at = "backoff" /\ Enqueue(RetryJob(d, i), att)
            /\ UNCHANGED <<status, budget>>
      BY <2>7 DEF Retry, RetryJob
    <3>2. /\ RetryJob(d, i) \in Job
          /\ RetryJob(d, i).force = attempt[d][i].force
          /\ Good(queue, active, att)
      BY <3>1, <1>0, RetryFacts
    <3>3. Single(queue, active, att) /\ ~RetryJob(d, i).force
      BY <3>2, <1>0, IdleFacts, ReplaceSingle DEF Single
    <3>4. \A e \in Docs, j \in Attempts :
            att[e][j] = IF e = d /\ j = i THEN Free ELSE attempt[e][j]
      BY <1>0
    <3> HIDE DEF att
    <3>5. RowsFit(att, status)
      <4>1. \A e \in Docs, j \in Attempts :
              att[e][j].at \in Running <=> attempt[e][j].at \in Running
        BY <3>1, <3>4, IdleFacts
      <4>2. \A e \in Docs, j \in Attempts :
              att[e][j].at \in Running => att[e][j] = attempt[e][j]
        BY <3>4, IdleFacts
      <4> QED BY <4>1, <4>2 DEF RowsFit
    <3>6. RowsFit(attempt', status)
      BY <3>1, <3>2, <3>3, <3>5, EnqueueFits
    <3> QED BY <3>1, <3>6, <1>4
  <2> QED BY <1>12, <2>1, <2>2, <2>3, <2>4, <2>5, <2>6, <2>7 DEF AttemptStep
<1>13. CASE Restart
  <2>1. /\ status' = [d \in Docs |->
              IF status[d] \in Intermediate THEN "uploaded" ELSE status[d]]
        /\ budget' = [budget EXCEPT !["crash"] = @ - 1] /\ budget["crash"] > 0
    BY <1>13 DEF Restart, Recover
  <2>2. budget'["fault"] = 0 /\ budget'["crash"] < budget["crash"]
    BY <2>1, <1>0 DEF Kinds
  <2>3. \A d \in Docs, i \in Attempts : attempt'[d][i].at \notin Running
    BY <1>13, IdleFacts DEF Restart
  <2>4. \A d \in Docs : status'[d] \in Resting
    BY <2>1, <1>0 DEF Resting, Status, Intermediate
  <2>5. \A d \in Docs : RowMoved(d)
    BY <2>1, <2>2 DEF RowMoved
  <2> QED BY <2>2, <2>3, <2>4, <2>5 DEF RowsFit
<1> QED BY <1>10, <1>11, <1>12, <1>13 DEF Next

\* The row moves along the pipeline, or is reset by a restart.
THEOREM RowsMoveInOrder ==
  ASSUME Budget["force"] = 0, Budget["fault"] = 0
  PROVE  Spec => StatusOrder
<1> DEFINE Fits == budget["fault"] = 0 /\ RowsFit(attempt, status)
           Inv  == IInv /\ Unforced /\ Single(queue, active, attempt)
           Moved == \A d \in Docs : RowMoved(d)
<1>1. Init => Fits
  <2>1. "uploaded" \in Resting
    BY DEF Resting, Status, Intermediate
  <2> QED BY <2>1, IdleFacts DEF Init, RowsFit
<1>2. Inv /\ Fits /\ [Next]_vars => Fits' /\ [Moved]_vars
  <2> SUFFICES ASSUME Inv, Fits, [Next]_vars PROVE Fits' /\ [Moved]_vars
    OBVIOUS
  <2>1. CASE Next
    BY <2>1, RowStep
  <2>2. CASE UNCHANGED vars
    BY <2>2 DEF vars
  <2> QED BY <2>1, <2>2
<1>3. Spec => [][Moved]_vars
  BY <1>1, <1>2, AlwaysSingle, PTL DEF Spec
<1> QED BY <1>3 DEF StatusOrder, RowMoved

-----------------------------------------------------------------------------
(* What the violated properties keep if nobody forces.                     *)

\* The places after the pages have been written.
Compiled == {"compiling1", "indexing0", "index", "indexing1", "ready"}

PagesFit(att, st, pg) ==
  \A d \in Docs :
    /\ st[d] = "ready" => pg[d]
    /\ \A i \in Attempts : /\ att[d][i].at # "cleanup"
                           /\ att[d][i].at \in Compiled => pg[d]

\* The loop starts attempts that are not force ones, and touches no other.
LEMMA ScheduleNextBegins ==
  ASSUME NEW q, NEW act, NEW att, NEW limit,
         Good(q, act, att), Single(q, act, att), ScheduleNext(q, act, att, limit)
  PROVE  \A d \in Docs, i \in Attempts :
           attempt'[d][i] = att[d][i] \/ attempt'[d][i].at = "parsing0"
<1>1. PICK k \in 0 .. Len(q) :
        attempt' = [d \in Docs |->
          IF d \in Started(q, act, k)
          THEN [att[d] EXCEPT ![FreeSlot(att, d)] = Begin(q[FirstIndex(q, d)])]
          ELSE att[d]]
  BY DEF ScheduleNext
<1>2. /\ q \in Seq(Job)
      /\ att \in [Docs -> [Attempts -> Attempt]]
      /\ \A i, j \in 1 .. Len(q) : q[i].doc = q[j].doc => i = j
  BY DEF Good
<1> SUFFICES ASSUME NEW d \in Docs, NEW i \in Attempts
             PROVE  attempt'[d][i] = att[d][i] \/ attempt'[d][i].at = "parsing0"
  OBVIOUS
<1>3. CASE d \notin Started(q, act, k)
  BY <1>1, <1>3
<1>4. CASE d \in Started(q, act, k)
  <2>1. PICK j \in 1 .. k : q[j].doc = d
    BY <1>4 DEF Started
  <2>2. j \in 1 .. Len(q)
    BY <1>2
  <2>3. FirstIndex(q, d) = j /\ ~q[j].force
    BY <2>1, <2>2, <1>2, FirstIndexFacts DEF Single
  <2>4. Begin(q[FirstIndex(q, d)]).at = "parsing0"
    BY <2>3 DEF Begin
  <2>5. attempt'[d] = [att[d] EXCEPT ![FreeSlot(att, d)] = Begin(q[FirstIndex(q, d)])]
    BY <1>1, <1>4
  <2> QED BY <1>2, <2>4, <2>5
<1> QED BY <1>3, <1>4

LEMMA EnqueueBegins ==
  ASSUME NEW att, Good(queue, active, att), Single(queue, active, att),
         NEW job \in Job, ~job.force, Enqueue(job, att)
  PROVE  \A d \in Docs, i \in Attempts :
           attempt'[d][i] = att[d][i] \/ attempt'[d][i].at = "parsing0"
<1>1. CASE Queued(queue, job.doc) \/ active[job.doc] # None
  BY <1>1 DEF Enqueue
<1>2. CASE ~Queued(queue, job.doc) /\ active[job.doc] = None
  <2>1. ScheduleNext(Append(queue, job), active, att, concurrency)
    BY <1>2 DEF Enqueue
  <2>2. Good(Append(queue, job), active, att)
    BY <1>2, AppendFacts
  <2>3. Single(Append(queue, job), active, att)
    BY AppendSingle DEF Good
  <2> QED BY <2>1, <2>2, <2>3, ScheduleNextBegins
<1> QED BY <1>1, <1>2

\* The pages stay, and attempts start at the beginning.
LEMMA BeginsFit ==
  ASSUME NEW att, NEW st, PagesFit(att, st, pages),
         \A d \in Docs, i \in Attempts :
           attempt'[d][i] = att[d][i] \/ attempt'[d][i].at = "parsing0"
  PROVE  PagesFit(attempt', st, pages)
BY DEF PagesFit, Compiled

\* Every step of a server nobody forces, whatever its database does.
LEMMA PagesStep ==
  ASSUME IInv, Unforced, Single(queue, active, attempt),
         PagesFit(attempt, status, pages), Next
  PROVE  PagesFit(attempt, status, pages)'
<1> DEFINE Goal == PagesFit(attempt', status', pages')
<1>0. /\ Good(queue, active, attempt)
      /\ attempt \in [Docs -> [Attempts -> Attempt]]
      /\ status \in [Docs -> Status]
      /\ pages \in [Docs -> BOOLEAN]
  BY DEF IInv, TypeOK
<1>1. ~Spend("force")
  BY DEF Spend, Unforced
<1>2. ASSUME UNCHANGED <<status, pages>>,
             \A d \in Docs, i \in Attempts :
               attempt'[d][i] = attempt[d][i] \/ attempt'[d][i].at = "parsing0"
      PROVE  Goal
  BY <1>2, BeginsFit
\* An executing attempt goes on to p.
<1>3. ASSUME NEW d \in Docs, NEW i \in Attempts, NEW p, Goto(d, i, p), p # "cleanup",
             p \in Compiled => pages'[d],
             \A e \in Docs : pages[e] => pages'[e],
             \A e \in Docs : status'[e] = status[e] \/ status'[e] # "ready"
      PROVE  Goal
  <2>1. \A e \in Docs, j \in Attempts :
          attempt'[e][j].at = IF e = d /\ j = i THEN p ELSE attempt[e][j].at
    <3>1. attempt[d][i] \in Attempt
      BY <1>0
    <3> QED BY <3>1, <1>0, <1>3 DEF Goto, Attempt
  <2> QED BY <2>1, <1>3 DEF PagesFit
<1>4. ASSUME NEW a, a.at # "cleanup", After(a.at) # "cleanup"
      PROVE  /\ NextPoint(a) # "cleanup"
             /\ NextPoint(a) \in Compiled => After(a.at) \in Compiled
  BY <1>4 DEF NextPoint, FailPoint, Compiled
<1>5. \A p \in StageWrites \cup Work :
        /\ p # "cleanup" /\ After(p) # "cleanup"
        /\ After(p) \in Compiled => p \in Compiled \/ p = "compile"
  BY DEF StageWrites, Work, After, Compiled
<1>6. ASSUME NEW d \in Docs, Ask(d) \/ Asked(d) \/ ForceNow(d) \/ CancelActive(d)
                               \/ Cancelled(d)
      PROVE  Goal
  <2>1. CASE Ask(d)
    BY <2>1, <1>2 DEF Ask
  <2>2. CASE Asked(d)
    <3>1. FirstTry(d, FALSE) \in Job /\ ~FirstTry(d, FALSE).force
      BY PQAssumption DEF FirstTry, Job
    <3> QED BY <2>2, <3>1, <1>0, <1>2, EnqueueBegins DEF Asked
  <2>3. ~ForceNow(d) /\ ~CancelActive(d)
    BY <1>1 DEF ForceNow, CancelActive
  <2>4. ~Cancelled(d)
    <3>1. forcing[d] = 0
      BY DEF Unforced
    <3> QED BY <3>1 DEF Cancelled
  <2> QED BY <1>6, <2>1, <2>2, <2>3, <2>4
<1>7. ASSUME NEW n \in Levels, SetConcurrency(n) PROVE Goal
  BY <1>7, <1>0, <1>2, ScheduleNextBegins DEF SetConcurrency
<1>8. ASSUME NEW d \in Docs, NEW i \in Attempts, AttemptStep(d, i) PROVE Goal
  <2>1. CASE Cleanup(d, i)
    BY <2>1 DEF Cleanup, PagesFit
  <2>2. CASE StageWrite(d, i)
    <3>1. attempt[d][i].at \in StageWrites /\ WriteStatus(d, Written(attempt[d][i].at))
            /\ Goto(d, i, NextPoint(attempt[d][i])) /\ UNCHANGED pages
      BY <2>2 DEF StageWrite
    <3>2. Written(attempt[d][i].at) # "ready"
      BY <3>1 DEF StageWrites, Written
    <3>3. \A e \in Docs : status'[e] = status[e] \/ status'[e] # "ready"
      BY <3>1, <3>2, <1>0 DEF WriteStatus
    <3>4. NextPoint(attempt[d][i]) \in Compiled => pages'[d]
      <4>1. attempt[d][i].at # "compile"
        BY <3>1 DEF StageWrites
      <4> QED BY <3>1, <4>1, <1>4, <1>5 DEF PagesFit
    <3> QED BY <3>1, <3>3, <3>4, <1>3, <1>4, <1>5
  <2>3. CASE WorkDone(d, i)
    <3>1. attempt[d][i].at \in Work /\ Goto(d, i, NextPoint(attempt[d][i]))
            /\ UNCHANGED status
      BY <2>3 DEF WorkDone
    <3>2. /\ \A e \in Docs : pages[e] => pages'[e]
          /\ attempt[d][i].at = "compile" => pages'[d]
      BY <2>3, <1>0 DEF WorkDone
    <3>3. NextPoint(attempt[d][i]) \in Compiled => pages'[d]
      BY <3>1, <3>2, <1>4, <1>5 DEF PagesFit
    <3> QED BY <3>1, <3>2, <3>3, <1>3, <1>4, <1>5
  <2>4. CASE WorkThrows(d, i)
    <3>1. FailPoint(attempt[d][i]) \notin Compiled \cup {"cleanup"}
      BY DEF FailPoint, Compiled
    <3> QED BY <2>4, <3>1, <1>3 DEF WorkThrows
  <2>5. CASE Timeout(d, i)
    <3>1. \A e \in Docs, j \in Attempts : attempt'[e][j].at = attempt[e][j].at
      <4>1. attempt[d][i] \in Attempt
        BY <1>0
      <4> QED BY <4>1, <1>0, <2>5 DEF Timeout, Attempt
    <3>2. UNCHANGED <<status, pages>>
      BY <2>5 DEF Timeout
    <3> QED BY <3>1, <3>2 DEF PagesFit
  <2>6. CASE Settle(d, i)
    <3> DEFINE act == [active EXCEPT ![d] = None]
               att == [attempt EXCEPT ![d][i] = Left(d, i)]
               p   == attempt[d][i].at
    <3>1. /\ ScheduleNext(queue, act, att, concurrency)
          /\ WriteStatus(d, Written(p)) /\ UNCHANGED pages
          /\ p \in {"ready", "retrying", "error"} /\ p \in Running
      BY <2>6 DEF Settle, Finally, Left, Running, Timed
    <3>2. Good(queue, act, att) /\ Single(queue, act, att)
            /\ Left(d, i).at \notin Running
      BY <3>1, <1>0, SettleFacts, SettleSingle, IdleFacts
    <3>3. \A e \in Docs, j \in Attempts :
            att[e][j] = IF e = d /\ j = i THEN Left(d, i) ELSE attempt[e][j]
      BY <1>0
    <3>4. \A e \in Docs : status'[e] = "ready" => pages[e]
      <4>1. Written(p) = "ready" => p = "ready"
        BY <3>1 DEF Written
      <4>2. p = "ready" => pages[d]
        BY DEF PagesFit, Compiled
      <4>3. \A e \in Docs : status'[e] = status[e] \/ (e = d /\ status'[e] = Written(p))
        BY <3>1, <1>0 DEF WriteStatus
      <4> HIDE DEF p
      <4> QED BY <4>1, <4>2, <4>3 DEF PagesFit
    <3> HIDE DEF act, att, p
    <3>5. {"cleanup"} \cup Compiled \subseteq Running
      BY DEF Compiled, Running, Timed, StageWrites, Work
    <3>6. PagesFit(att, status', pages)
      BY <3>2, <3>3, <3>4, <3>5 DEF PagesFit
    <3>7. \A e \in Docs, j \in Attempts :
            attempt'[e][j] = att[e][j] \/ attempt'[e][j].at = "parsing0"
      BY <3>1, <3>2, ScheduleNextBegins
    <3> QED BY <3>1, <3>6, <3>7, BeginsFit
  <2>7. CASE Retry(d, i)
    <3> DEFINE att == [attempt EXCEPT ![d][i] = Free]
    <3>1. attempt[d][i].at = "backoff" /\ Enqueue(RetryJob(d, i), att)
            /\ UNCHANGED <<status, pages>>
      BY <2>7 DEF Retry, RetryJob
    <3>2. /\ RetryJob(d, i) \in Job
          /\ RetryJob(d, i).force = attempt[d][i].force
          /\ Good(queue, active, att)
      BY <3>1, <1>0, RetryFacts
    <3>3. Single(queue, active, att) /\ ~RetryJob(d, i).force
      BY <3>2, <1>0, IdleFacts, ReplaceSingle DEF Single
    <3>4. \A e \in Docs, j \in Attempts :
            att[e][j] = IF e = d /\ j = i THEN Free ELSE attempt[e][j]
      BY <1>0
    <3> HIDE DEF att
    <3>5. Free.at \notin {"cleanup"} \cup Compiled
      BY DEF Free, Compiled
    <3>6. PagesFit(att, status, pages)
      BY <3>4, <3>5 DEF PagesFit
    <3>7. \A e \in Docs, j \in Attempts :
            attempt'[e][j] = att[e][j] \/ attempt'[e][j].at = "parsing0"
      BY <3>1, <3>2, <3>3, EnqueueBegins
    <3>8. PagesFit(attempt', status, pages)
      BY <3>6, <3>7, BeginsFit
    <3> QED BY <3>1, <3>8
  <2> QED BY <1>8, <2>1, <2>2, <2>3, <2>4, <2>5, <2>6, <2>7 DEF AttemptStep
<1>9. CASE Restart
  <2>1. \A d \in Docs, i \in Attempts : attempt'[d][i].at = "free"
    BY <1>9 DEF Restart, Free
  <2>2. pages' = pages /\ \A d \in Docs : status'[d] = "ready" => status[d] = "ready"
    BY <1>9 DEF Restart, Recover
  <2> QED BY <2>1, <2>2 DEF PagesFit, Compiled
<1> QED BY <1>6, <1>7, <1>8, <1>9 DEF Next

\* If nobody forces, a document that is ready has its pages, work under way or not,
\* through failing writes, timeouts, retries and restarts: ReadyHasPages can break
\* only because of force requests (processing-queue.ts:253-330).
THEOREM UnforcedReadyHasPages ==
  ASSUME Budget["force"] = 0
  PROVE  Spec => [](\A d \in Docs : status[d] = "ready" => pages[d])
<1> DEFINE Inv  == IInv /\ Unforced /\ Single(queue, active, attempt)
           Fits == PagesFit(attempt, status, pages)
<1>1. Init => Fits
  BY DEF Init, PagesFit, Free, Compiled
<1>2. Inv /\ Fits /\ [Next]_vars => Fits'
  <2> SUFFICES ASSUME Inv, Fits, [Next]_vars PROVE Fits'
    OBVIOUS
  <2>1. CASE Next
    BY <2>1, PagesStep
  <2>2. CASE UNCHANGED vars
    BY <2>2 DEF vars
  <2> QED BY <2>1, <2>2
<1>3. Fits => \A d \in Docs : status[d] = "ready" => pages[d]
  BY DEF PagesFit
<1> QED BY <1>1, <1>2, <1>3, AlwaysSingle, PTL DEF Spec

\* If nobody forces, what enqueue promises holds: Deduplicated can break only because
\* of force requests (processing-queue.ts:94-117).
THEOREM UnforcedIsDeduplicated ==
  ASSUME Budget["force"] = 0
  PROVE  Spec => []Deduplicated
<1>1. ASSUME Single(queue, active, attempt) PROVE Deduplicated
  <2> SUFFICES ASSUME NEW d \in Docs
               PROVE  Cardinality({i \in Attempts : Live(d, i)
                                     /\ attempt[d][i].signal = "clear"}) <= 1
    BY DEF Deduplicated
  <2> DEFINE S == {i \in Attempts : Live(d, i) /\ attempt[d][i].signal = "clear"}
  <2>1. S \subseteq {active[d]}
    BY <1>1 DEF Single, Live
  <2>2. IsFiniteSet({active[d]}) /\ Cardinality({active[d]}) = 1
    BY FS_Singleton
  <2> HIDE DEF S
  <2>3. Cardinality(S) <= 1
    BY <2>1, <2>2, FS_Subset
  <2> QED BY <2>3 DEF S
<1> QED BY <1>1, AlwaysSingle, PTL
=============================================================================
