--------------------------- MODULE AgentStreamProofs ---------------------------
(***************************************************************************)
(* What holds of streamed runs, their cancellations and their questions    *)
(* for any number of streams, questions and failing queries.               *)
(***************************************************************************)
EXTENDS AgentStream, TLAPS

LEMMA Ids == Rows = Singles /\ None \notin Rows \cup Questions /\ MaxFaults \in Nat
BY ATAssumption, ASAssumption

-----------------------------------------------------------------------------
(* The inductive invariant.                                                *)

\* A run that has not got as far as "running" has the row create() inserted.
MarkingInv == \A t \in Singles : at[t] = "marking" => row[t] = "pending"

\* Once a run is under way some request has set the execution context.
ContextInv == (\E t \in Singles : at[t] # "idle") => context \in Singles

\* The entries, and no others, are found under one key each.
EntriesOpen ==
  \A k \in Keys : resolver[k] # None =>
    /\ Open(resolver[k])
    /\ at[question[resolver[k]].run] = "agent"
    /\ \A l \in Keys : resolver[l] = resolver[k] => l = k

\* Entries are open questions of parked runs, and an open question has a run.
QuestionInv ==
  /\ EntriesOpen
  /\ \A q \in Questions : question[q].st # "new" => question[q].run \in Singles

TaskInv == TaskTypeOK /\ MarkingInv /\ ControllersLive /\ ReturnedIsFinal

AInv == TypeOK /\ TaskInv /\ ContextInv /\ QuestionInv

LEMMA AInvInit == Init => AInv
<1> SUFFICES ASSUME Init PROVE AInv
  OBVIOUS
<1> USE Ids
<1>1. TaskTypeOK
  BY DEF Init, TaskInit, TaskTypeOK, Places
<1>2. MarkingInv /\ ControllersLive /\ ReturnedIsFinal
  BY DEF Init, TaskInit, MarkingInv, ControllersLive, ReturnedIsFinal
<1>3. TypeOK
  BY <1>1 DEF Init, TypeOK, Keys
<1>4. ContextInv
  BY DEF Init, TaskInit, ContextInv
<1>5. QuestionInv
  BY DEF Init, QuestionInv, EntriesOpen
<1> QED BY <1>1, <1>2, <1>3, <1>4, <1>5 DEF AInv, TaskInv

-----------------------------------------------------------------------------
(* Steps of runSingle and of cancel().                                     *)

LEMMA Moved ==
  ASSUME TaskTypeOK, NEW t \in Rows, NEW p \in Places, Move(t, p)
  PROVE  /\ at' \in [Rows -> Places]
         /\ at'[t] = p /\ \A u \in Rows : u # t => at'[u] = at[u]
BY DEF TaskTypeOK, Move

LEMMA Wrote ==
  ASSUME TaskTypeOK, NEW t \in Rows, NEW s \in StatusCheck, Write(t, s)
  PROVE  /\ row' \in [Rows -> {"none"} \cup StatusCheck] /\ faults' \in 0 .. MaxFaults
         /\ row'[t] = s /\ \A u \in Rows : u # t => row'[u] = row[u]
BY DEF TaskTypeOK, Write

LEMMA Faulted ==
  ASSUME TaskTypeOK, Fault
  PROVE  row' = row /\ faults' \in 0 .. MaxFaults
BY Ids DEF TaskTypeOK, Fault

\* What a step of the run t does to its place, row and controller.
LEMMA SingleStepFacts ==
  ASSUME TaskTypeOK, NEW t \in Singles, SingleStep(t)
  PROVE  /\ at' \in [Rows -> Places]
         /\ row' \in [Rows -> {"none"} \cup StatusCheck] /\ faults' \in 0 .. MaxFaults
         /\ UNCHANGED <<aborted, cancelling>>
         /\ \A u \in Rows : u # t =>
              at'[u] = at[u] /\ row'[u] = row[u]
                /\ (u \in controllers' <=> u \in controllers)
         /\ at[t] # "idle" /\ controllers' \subseteq Rows
         /\ \/ at[t] = "recording" /\ at'[t] = "marking" /\ row'[t] = "pending"
            \/ at[t] = "recording" /\ at'[t] = "threw" /\ controllers' = controllers
            \/ at[t] = "marking" /\ at'[t] = "agent"
            \/ at[t] = "marking" /\ at'[t] = "threw" /\ row'[t] = row[t]
            \/ at[t] = "agent" /\ at'[t] \in {"storing", "failing"}
            \/ at[t] = "storing" /\ at'[t] = "failing"
            \/ at'[t] = "returned" /\ row'[t] \in {"completed", "failed"}
                 /\ t \notin controllers'
            \/ at'[t] = "threw" /\ t \notin controllers'
<1> USE Ids DEF Places, StatusCheck
<1>1. CASE Recorded(t)
  <2>1. CASE Fault /\ Move(t, "threw") /\ UNCHANGED controllers
    BY <1>1, <2>1, Moved, Faulted DEF Recorded, TaskTypeOK
  <2>2. CASE Write(t, "pending") /\ Move(t, "marking") /\ controllers' = controllers \cup {t}
    BY <1>1, <2>2, Moved, Wrote DEF Recorded, TaskTypeOK
  <2> QED BY <1>1, <2>1, <2>2 DEF Recorded
<1>2. CASE Marked(t)
  <2>1. CASE Fault /\ Move(t, "threw")
    BY <1>2, <2>1, Moved, Faulted DEF Marked, TaskTypeOK
  <2>2. CASE Write(t, "running") /\ Move(t, "agent")
    BY <1>2, <2>2, Moved, Wrote DEF Marked, TaskTypeOK
  <2> QED BY <1>2, <2>1, <2>2 DEF Marked
<1>3. CASE AgentReturns(t) \/ AgentThrows(t)
  <2>1. PICK p \in {"storing", "failing"} : Move(t, p)
    BY <1>3 DEF AgentReturns, AgentThrows
  <2> QED BY <1>3, <2>1, Moved DEF AgentReturns, AgentThrows, TaskTypeOK
<1>4. CASE Stored(t)
  <2>1. CASE Fault /\ Move(t, "failing") /\ UNCHANGED controllers
    BY <1>4, <2>1, Moved, Faulted DEF Stored, TaskTypeOK
  <2>2. CASE /\ Write(t, "completed") /\ Move(t, "returned")
             /\ controllers' = controllers \ {t}
    BY <1>4, <2>2, Moved, Wrote DEF Stored, TaskTypeOK
  <2> QED BY <1>4, <2>1, <2>2 DEF Stored
<1>5. CASE Failed(t)
  <2>1. CASE Fault /\ Move(t, "threw")
    BY <1>5, <2>1, Moved, Faulted DEF Failed, TaskTypeOK
  <2>2. CASE Write(t, "failed") /\ Move(t, "returned")
    BY <1>5, <2>2, Moved, Wrote DEF Failed, TaskTypeOK
  <2> QED BY <1>5, <2>1, <2>2 DEF Failed
<1> QED BY <1>1, <1>2, <1>3, <1>4, <1>5 DEF SingleStep

LEMMA SingleStepKeeps ==
  ASSUME TaskInv, NEW t \in Singles, SingleStep(t)
  PROVE  TaskInv'
<1> USE Ids
<1>1. TaskTypeOK'
  BY SingleStepFacts DEF TaskInv, TaskTypeOK
<1>2. ASSUME NEW u \in Singles
      PROVE  /\ at'[u] = "marking" => row'[u] = "pending"
             /\ at'[u] = "returned" => row'[u] \in {"completed", "failed"}
             /\ u \in controllers' =>
                  \/ at'[u] \in {"marking", "agent", "storing", "failing"}
                  \/ at'[u] = "threw" /\ row'[u] = "pending"
  <2>1. CASE u = t
    BY <2>1, SingleStepFacts DEF TaskInv, MarkingInv, ControllersLive, ReturnedIsFinal
  <2>2. CASE u # t
    BY <2>2, SingleStepFacts DEF TaskInv, MarkingInv, ControllersLive, ReturnedIsFinal
  <2> QED BY <2>1, <2>2
<1>3. MarkingInv' /\ ControllersLive' /\ ReturnedIsFinal'
  BY <1>2 DEF MarkingInv, ControllersLive, ReturnedIsFinal
<1> QED BY <1>1, <1>3 DEF TaskInv

LEMMA CancelKeeps ==
  ASSUME TaskInv, NEW t, Cancel(t) \/ CancelWritten(t)
  PROVE  TaskInv' /\ UNCHANGED at
<1>1. UNCHANGED <<row, at, faults>>
  BY DEF Cancel, CancelWritten, StatusCheck
<1>2. controllers' \subseteq controllers
  BY DEF Cancel, CancelWritten
<1>3. TaskTypeOK'
  <2>1. CASE Cancel(t)
    BY <2>1, <1>1 DEF Cancel, TaskInv, TaskTypeOK
  <2>2. CASE CancelWritten(t)
    BY <2>2, <1>1 DEF CancelWritten, TaskInv, TaskTypeOK
  <2> QED BY <2>1, <2>2
<1>4. MarkingInv' /\ ControllersLive' /\ ReturnedIsFinal'
  BY <1>1, <1>2 DEF TaskInv, MarkingInv, ControllersLive, ReturnedIsFinal
<1> QED BY <1>1, <1>3, <1>4 DEF TaskInv

LEMMA CallKeeps ==
  ASSUME TaskInv, NEW t \in Singles, Call(t)
  PROVE  TaskInv'
<1> USE Ids
<1>1. /\ at' \in [Rows -> Places]
      /\ at[t] = "idle" /\ at'[t] = "recording"
      /\ \A u \in Rows : u # t => at'[u] = at[u]
      /\ UNCHANGED <<row, controllers, aborted, cancelling, faults>>
  BY Moved DEF Call, TaskInv, Places
<1>2. TaskTypeOK'
  BY <1>1 DEF TaskInv, TaskTypeOK
<1>3. MarkingInv' /\ ControllersLive' /\ ReturnedIsFinal'
  BY <1>1 DEF TaskInv, MarkingInv, ControllersLive, ReturnedIsFinal
<1> QED BY <1>2, <1>3 DEF TaskInv

-----------------------------------------------------------------------------
(* The questions.                                                          *)

\* Steps that leave the questions alone, and runs that ask in their agents.
LEMMA QuestionsStay ==
  ASSUME QuestionInv, UNCHANGED <<resolver, question>>,
         \A t \in Singles : at[t] = "agent" /\ Waiting(t) => at'[t] = "agent",
         resolver \in [Keys -> Questions \cup {None}]
  PROVE  QuestionInv'
<1>1. ASSUME NEW k \in Keys, resolver[k] # None
      PROVE  at'[question[resolver[k]].run] = "agent"
  <2>1. resolver[k] \in Questions /\ Open(resolver[k])
    BY <1>1 DEF QuestionInv, EntriesOpen
  <2>2. question[resolver[k]].run \in Singles
    BY <2>1 DEF QuestionInv, Open
  <2>3. at[question[resolver[k]].run] = "agent" /\ Waiting(question[resolver[k]].run)
    BY <1>1, <2>1 DEF QuestionInv, EntriesOpen, Waiting
  <2> QED BY <2>2, <2>3
<1> QED BY <1>1 DEF QuestionInv, EntriesOpen, Open

\* A question that is asked takes the place of the entry under its key.
LEMMA AskKeeps ==
  ASSUME AInv, NEW t \in Singles, NEW q \in Questions, Ask(t, q)
  PROVE  QuestionInv' /\ TypeOK'
<1> USE Ids
<1> DEFINE k == announced[context]
<1>1. context \in Singles /\ k \in Keys
  BY DEF Ask, AInv, ContextInv, TypeOK
<1>2. /\ at[t] = "agent" /\ question[q].st = "new" /\ UNCHANGED <<taskVars, context, announced, left>>
      /\ question' = [question EXCEPT ![q] = [run |-> t, st |-> "open"]]
      /\ resolver' = [resolver EXCEPT ![k] = q]
  BY DEF Ask
<1>3. TypeOK'
  BY <1>1, <1>2 DEF AInv, TypeOK, TaskTypeOK, taskVars
<1>4. /\ \A l \in Keys : resolver'[l] = IF l = k THEN q ELSE resolver[l]
      /\ \A p \in Questions : p # q => question'[p] = question[p]
      /\ question'[q].st = "open" /\ question'[q].run = t
      /\ at' = at
  BY <1>1, <1>2 DEF AInv, TypeOK, taskVars
<1>5. \A l \in Keys : resolver[l] # q
  BY <1>2 DEF AInv, QuestionInv, EntriesOpen, Open
<1>6. ASSUME NEW l \in Keys, resolver'[l] # None
      PROVE  /\ question'[resolver'[l]].st = "open"
             /\ at'[question'[resolver'[l]].run] = "agent"
             /\ \A j \in Keys : resolver'[j] = resolver'[l] => j = l
  <2>1. CASE l = k
    BY <1>2, <1>4, <1>5, <2>1
  <2>2. CASE l # k
    <3>1. resolver'[l] = resolver[l] /\ resolver[l] \in Questions /\ resolver[l] # q
      BY <1>4, <1>5, <1>6, <2>2 DEF AInv, TypeOK
    <3> QED BY <1>4, <1>6, <3>1 DEF AInv, QuestionInv, EntriesOpen, Open
  <2> QED BY <2>1, <2>2
<1>7. \A p \in Questions : question'[p].st # "new" => question'[p].run \in Singles
  BY <1>4 DEF AInv, QuestionInv
<1> QED BY <1>3, <1>6, <1>7 DEF QuestionInv, EntriesOpen, Open

LEMMA ReplyKeeps ==
  ASSUME AInv, NEW k \in Keys, Reply(k)
  PROVE  QuestionInv' /\ TypeOK'
<1> USE Ids
<1> DEFINE q == resolver[k]
<1>1. q \in Questions /\ question[q].st = "open"
  BY DEF Reply, AInv, TypeOK, QuestionInv, EntriesOpen, Open
<1>2. /\ UNCHANGED <<taskVars, context, announced, left>>
      /\ question' = [question EXCEPT ![q].st = "answered"]
      /\ resolver' = [resolver EXCEPT ![k] = None]
  BY DEF Reply
<1>3. TypeOK'
  BY <1>1, <1>2 DEF AInv, TypeOK, TaskTypeOK, taskVars
<1>4. /\ \A l \in Keys : resolver'[l] = IF l = k THEN None ELSE resolver[l]
      /\ \A p \in Questions : p # q => question'[p] = question[p]
      /\ question'[q].run = question[q].run
      /\ at' = at
  BY <1>1, <1>2 DEF AInv, TypeOK, taskVars
<1>5. ASSUME NEW l \in Keys, resolver'[l] # None
      PROVE  /\ question'[resolver'[l]].st = "open"
             /\ at'[question'[resolver'[l]].run] = "agent"
             /\ \A j \in Keys : resolver'[j] = resolver'[l] => j = l
  <2>1. l # k /\ resolver'[l] = resolver[l] /\ resolver[l] \in Questions
    BY <1>4, <1>5 DEF AInv, TypeOK
  <2>2. resolver[l] # q
    BY <1>1, <2>1 DEF AInv, QuestionInv, EntriesOpen
  <2>3. question'[resolver'[l]] = question[resolver[l]]
    BY <1>4, <2>1, <2>2
  <2>4. \A j \in Keys : resolver'[j] = resolver'[l] => resolver[j] = resolver[l]
    BY <1>4, <1>5
  <2> QED BY <1>4, <1>5, <2>1, <2>3, <2>4
          DEF AInv, QuestionInv, EntriesOpen, Open
<1>6. \A p \in Questions : question'[p].st # "new" => question'[p].run \in Singles
  BY <1>1, <1>4 DEF AInv, QuestionInv
<1> QED BY <1>3, <1>5, <1>6 DEF QuestionInv, EntriesOpen, Open

-----------------------------------------------------------------------------
LEMMA AInvNext == AInv /\ [Next]_allVars => AInv'
<1> SUFFICES ASSUME AInv, [Next]_allVars PROVE AInv'
  OBVIOUS
<1> USE Ids
<1>1. resolver \in [Keys -> Questions \cup {None}]
  BY DEF AInv, TypeOK
<1>2. CASE UNCHANGED allVars
  <2>1. TypeOK' /\ TaskInv'
    BY <1>2 DEF allVars, taskVars, streamVars, AInv, TypeOK, TaskInv, TaskTypeOK,
       MarkingInv, ControllersLive, ReturnedIsFinal
  <2>2. ContextInv'
    BY <1>2 DEF allVars, taskVars, streamVars, AInv, ContextInv
  <2>3. QuestionInv'
    BY <1>1, <1>2, QuestionsStay DEF allVars, taskVars, streamVars, AInv
  <2> QED BY <2>1, <2>2, <2>3 DEF AInv
<1>3. CASE Cancellation /\ UNCHANGED streamVars
  <2>1. TaskInv' /\ UNCHANGED at
    BY <1>3, CancelKeeps DEF Cancellation, AInv
  <2>2. TypeOK' /\ ContextInv'
    BY <1>3, <2>1 DEF AInv, TypeOK, TaskInv, ContextInv, streamVars
  <2>3. QuestionInv'
    BY <1>1, <1>3, <2>1, QuestionsStay DEF AInv, streamVars
  <2> QED BY <2>1, <2>2, <2>3 DEF AInv
<1>4. ASSUME NEW t \in Singles, Request(t)
      PROVE  AInv'
  <2>1. TaskInv'
    BY <1>4, CallKeeps DEF Request, AInv
  <2>2. TypeOK' /\ ContextInv'
    BY <1>4, <2>1 DEF Request, AInv, TypeOK, TaskInv, ContextInv
  <2>3. \A u \in Singles : at[u] = "agent" => at'[u] = "agent"
    BY <1>4 DEF Request, Call, Move, AInv, TypeOK, TaskTypeOK
  <2>4. QuestionInv'
    BY <1>1, <1>4, <2>3, QuestionsStay DEF Request, AInv
  <2> QED BY <2>1, <2>2, <2>4 DEF AInv
<1>5. ASSUME NEW t \in Singles, Announce(t)
      PROVE  AInv'
  <2>1. TypeOK'
    BY <1>5 DEF Announce, AInv, TypeOK, TaskTypeOK, taskVars, Keys, RunnerIds
  <2>2. TaskInv' /\ ContextInv'
    BY <1>5, <2>1 DEF Announce, AInv, TypeOK, TaskInv, MarkingInv, ControllersLive,
       ReturnedIsFinal, ContextInv, taskVars
  <2>3. QuestionInv'
    BY <1>1, <1>5, QuestionsStay DEF Announce, AInv, taskVars
  <2> QED BY <2>1, <2>2, <2>3 DEF AInv
<1>6. ASSUME NEW t \in Singles, Leave(t)
      PROVE  AInv'
  <2>1. Cancel(announced[t]) \/ UNCHANGED taskVars
    BY <1>6 DEF Leave
  <2>2. TaskInv' /\ UNCHANGED at
    BY <2>1, CancelKeeps DEF AInv, TaskInv, TaskTypeOK, MarkingInv, ControllersLive,
       ReturnedIsFinal, taskVars
  <2>3. TypeOK' /\ ContextInv'
    BY <1>6, <2>2 DEF Leave, AInv, TypeOK, TaskInv, ContextInv
  <2>4. QuestionInv'
    BY <1>1, <1>6, <2>2, QuestionsStay DEF Leave, AInv
  <2> QED BY <2>2, <2>3, <2>4 DEF AInv
<1>7. ASSUME NEW t \in Singles, RunStep(t)
      PROVE  AInv'
  <2>1. TaskInv'
    BY <1>7, SingleStepKeeps DEF RunStep, AInv
  <2>2. at[t] # "idle" /\ \A u \in Singles : u # t => at'[u] = at[u]
    BY <1>7, SingleStepFacts DEF RunStep, AInv, TaskInv
  <2>3. TypeOK' /\ ContextInv'
    BY <1>7, <2>1, <2>2 DEF RunStep, AInv, TypeOK, TaskInv, ContextInv, streamVars
  <2>4. QuestionInv'
    BY <1>1, <1>7, <2>2, QuestionsStay DEF RunStep, AInv, streamVars
  <2> QED BY <2>1, <2>3, <2>4 DEF AInv
<1>8. ASSUME NEW t \in Singles, NEW q \in Questions, Ask(t, q)
      PROVE  AInv'
  <2>1. TaskInv' /\ ContextInv'
    BY <1>8, AskKeeps DEF Ask, AInv, TypeOK, TaskInv, MarkingInv, ControllersLive,
       ReturnedIsFinal, ContextInv, taskVars
  <2> QED BY <1>8, <2>1, AskKeeps DEF AInv
<1>9. ASSUME NEW k \in RunnerIds, Reply(k)
      PROVE  AInv'
  <2>1. k \in Keys
    BY DEF Keys
  <2>2. TaskInv' /\ ContextInv'
    BY <1>9, <2>1, ReplyKeeps DEF Reply, AInv, TypeOK, TaskInv, MarkingInv,
       ControllersLive, ReturnedIsFinal, ContextInv, taskVars
  <2> QED BY <1>9, <2>1, <2>2, ReplyKeeps DEF AInv
<1> QED BY <1>2, <1>3, <1>4, <1>5, <1>6, <1>7, <1>8, <1>9 DEF Next

LEMMA AInvAlways == Spec => []AInv
<1>1. Init => AInv
  BY AInvInit
<1>2. AInv /\ [Next]_allVars => AInv'
  BY AInvNext
<1> QED BY <1>1, <1>2, PTL DEF Spec

\* Every variable keeps its type; a status is one the constraint admits.
THEOREM TypeCorrect == Spec => []TypeOK
<1>1. AInv => TypeOK
  BY DEF AInv
<1> QED BY <1>1, AInvAlways, PTL

\* cancel() finds controllers of unfinished runs only, but for a run whose write
\* of "running" failed.
THEOREM ControllersAreLive == Spec => []ControllersLive
<1>1. AInv => ControllersLive
  BY DEF AInv, TaskInv
<1> QED BY <1>1, AInvAlways, PTL

\* A run that has returned has a final row, and keeps it.
THEOREM ReturnedRunsAreFinal == Spec => []ReturnedIsFinal
<1>1. AInv => ReturnedIsFinal
  BY DEF AInv, TaskInv
<1> QED BY <1>1, AInvAlways, PTL

-----------------------------------------------------------------------------
(* Questions of several streams.                                           *)

\* The execution context belongs to a run that has been requested.
OwnerInv ==
  /\ \A t \in Singles : announced[t] \in {None, RunnerId(t)}
  /\ context \in Singles => at[context] # "idle"

\* Under whose id an entry stands, with the run t of its question.
Own(k, t) == k = RunnerId(t) \/ \E u \in Singles \ {t} : at[u] # "idle"

\* How an open question has lost its entry.
Kept(q) ==
  \/ \E k \in Keys : resolver[k] = q
  \/ \E p \in Questions \ {q} : question[p].st # "new"

MixInv ==
  /\ OwnerInv
  /\ \A k \in Keys : resolver[k] # None => Own(k, question[resolver[k]].run)
  /\ \A q \in Questions : Open(q) => Kept(q)

\* No run becomes idle again.
LEMMA NeverIdleAgain ==
  ASSUME AInv, [Next]_allVars, NEW u \in Singles, at[u] # "idle"
  PROVE  at'[u] # "idle"
<1> USE Ids
<1>1. ASSUME NEW t \in Singles, RunStep(t) PROVE at'[u] # "idle"
  BY <1>1, SingleStepFacts DEF RunStep, AInv, TaskInv
<1>2. ASSUME NEW t \in Singles, Request(t) PROVE at'[u] # "idle"
  BY <1>2 DEF Request, Call, Move, AInv, TypeOK, TaskTypeOK
<1>3. ASSUME NEW t \in Singles, Leave(t) PROVE at'[u] # "idle"
  BY <1>3 DEF Leave, Cancel, taskVars
<1>4. CASE \/ Cancellation
           \/ \E t \in Singles : Announce(t) \/ \E q \in Questions : Ask(t, q)
           \/ \E k \in RunnerIds : Reply(k)
           \/ UNCHANGED allVars
  BY <1>4 DEF Cancellation, Cancel, CancelWritten, Announce, Ask, Reply, taskVars,
     allVars
<1> QED BY <1>1, <1>2, <1>3, <1>4 DEF Next

LEMMA OwnerNext ==
  ASSUME AInv, OwnerInv, [Next]_allVars
  PROVE  OwnerInv'
<1>1. announced \in [Singles -> Keys] /\ at \in [Rows -> Places]
  BY DEF AInv, TypeOK, TaskTypeOK
<1>2. ASSUME NEW t \in Singles, Announce(t) PROVE OwnerInv'
  BY <1>1, <1>2 DEF Announce, OwnerInv, taskVars
<1>3. ASSUME NEW t \in Singles, Request(t) PROVE OwnerInv'
  BY <1>1, <1>3, Ids DEF Request, Call, Move, OwnerInv
<1>4. CASE UNCHANGED <<announced, context>>
  BY <1>4, NeverIdleAgain DEF OwnerInv
<1> QED BY <1>2, <1>3, <1>4 DEF Next, Leave, RunStep, Ask, Reply, streamVars, allVars

LEMMA MixNext ==
  ASSUME AInv, MixInv, [Next]_allVars
  PROVE  MixInv'
<1> USE Ids
<1>1. OwnerInv'
  BY OwnerNext DEF MixInv
<1>2. \A k, t : Own(k, t) => Own(k, t)'
  BY NeverIdleAgain DEF Own
<1>3. CASE UNCHANGED <<resolver, question>>
  BY <1>1, <1>2, <1>3 DEF MixInv, Kept, Open
<1>4. ASSUME NEW t \in Singles, NEW q \in Questions, Ask(t, q) PROVE MixInv'
  <2>1. PICK k \in Keys : k = announced[context]
    BY <1>4 DEF Ask, AInv, ContextInv, TypeOK
  <2>2. /\ \A l \in Keys : resolver'[l] = IF l = k THEN q ELSE resolver[l]
        /\ \A p \in Questions : p # q => question'[p] = question[p]
        /\ question'[q].st = "open" /\ question'[q].run = t /\ question[q].st = "new"
    BY <1>4, <2>1 DEF Ask, AInv, TypeOK
  <2>3. \A l \in Keys : resolver[l] # None => resolver[l] \in Questions /\ resolver[l] # q
    BY <2>2 DEF AInv, TypeOK, QuestionInv, EntriesOpen, Open
  <2>4. Own(k, t)
    <3>1. context \in Singles /\ at[context] # "idle" /\ announced[t] = RunnerId(t)
      BY <1>4 DEF Ask, AInv, ContextInv, TypeOK, MixInv, OwnerInv
    <3>2. CASE context = t
      BY <2>1, <3>1, <3>2 DEF Own
    <3>3. CASE context # t
      BY <3>1, <3>3 DEF Own
    <3> QED BY <3>2, <3>3
  <2>5. ASSUME NEW l \in Keys, resolver'[l] # None
        PROVE  Own(l, question[resolver[l]].run)' \/ l = k
    <3> SUFFICES ASSUME l # k PROVE Own(l, question[resolver[l]].run)'
      OBVIOUS
    <3>1. resolver'[l] = resolver[l] /\ question'[resolver'[l]] = question[resolver[l]]
      BY <2>2, <2>3, <2>5
    <3> QED BY <1>2, <2>5, <3>1 DEF MixInv
  <2>6. \A l \in Keys : resolver'[l] # None => Own(l, question[resolver[l]].run)'
    <3>1. question'[resolver'[k]].run = t /\ Own(k, t)'
      BY <1>2, <2>1, <2>2, <2>4
    <3> QED BY <2>5, <3>1
  <2>7. ASSUME NEW p \in Questions, Open(p)' PROVE Kept(p)'
    <3>1. CASE p = q
      BY <2>1, <2>2, <3>1 DEF Kept
    <3>2. CASE p # q
      BY <2>2, <3>2 DEF Kept
    <3> QED BY <3>1, <3>2
  <2> QED BY <1>1, <2>6, <2>7 DEF MixInv
<1>5. ASSUME NEW k \in RunnerIds, Reply(k) PROVE MixInv'
  <2>1. k \in Keys /\ resolver[k] \in Questions
    BY <1>5 DEF Keys, Reply, AInv, TypeOK
  <2>2. /\ \A l \in Keys : resolver'[l] = IF l = k THEN None ELSE resolver[l]
        /\ \A p \in Questions : question'[p].run = question[p].run
        /\ \A p \in Questions : p # resolver[k] => question'[p] = question[p]
        /\ question'[resolver[k]].st = "answered"
    BY <1>5, <2>1 DEF Reply, AInv, TypeOK
  <2>3. \A l \in Keys : resolver'[l] # None => Own(l, question[resolver[l]].run)'
    <3> SUFFICES ASSUME NEW l \in Keys, resolver'[l] # None
                 PROVE  Own(l, question[resolver[l]].run)'
      OBVIOUS
    <3>1. resolver'[l] = resolver[l] /\ resolver[l] \in Questions
      BY <2>2 DEF AInv, TypeOK
    <3>2. question'[resolver'[l]].run = question[resolver[l]].run
      BY <2>2, <3>1
    <3> QED BY <1>2, <3>1, <3>2 DEF MixInv
  <2>4. ASSUME NEW p \in Questions, Open(p)' PROVE Kept(p)'
    BY <2>1, <2>2, <2>4 DEF Kept, Open
  <2> QED BY <1>1, <2>3, <2>4 DEF MixInv
<1> QED BY <1>3, <1>4, <1>5
        DEF Next, Request, Announce, Leave, RunStep, streamVars, allVars

\* An answer goes to an open question of a run that waits for it, and a question
\* is shown under another run's id, or loses its entry, only when there are two
\* streams, or two questions (orchestrator.ts:427-445).
THEOREM AnswersArrive == Spec => []AnswersFindTheirRun
<1>1. Init => AInv /\ MixInv
  <2>1. Init => OwnerInv
    BY Ids DEF Init, OwnerInv
  <2>2. Init => /\ \A k \in Keys : resolver[k] = None
                /\ \A q \in Questions : ~Open(q)
    BY DEF Init, Open
  <2> QED BY <2>1, <2>2, AInvInit DEF MixInv
<1>2. AInv /\ MixInv /\ [Next]_allVars => (AInv /\ MixInv)'
  BY AInvNext, MixNext
<1>3. AInv /\ MixInv => AnswersFindTheirRun
  BY DEF AInv, QuestionInv, EntriesOpen, MixInv, Own, Kept, AnswersFindTheirRun
<1> QED BY <1>1, <1>2, <1>3, PTL DEF Spec

-----------------------------------------------------------------------------
(* What a step may do to a run, its row and its questions.                 *)

\* How far a run is from its end, and how far its row has come.
Left(p) ==
  CASE p = "idle"      -> 6
    [] p = "recording" -> 5
    [] p = "marking"   -> 4
    [] p = "agent"     -> 3
    [] p = "storing"   -> 2
    [] p = "failing"   -> 1
    [] OTHER           -> 0

Reached(s) ==
  CASE s = "none"    -> 0
    [] s = "pending" -> 1
    [] s = "running" -> 2
    [] OTHER         -> 3

\* A run only moves on, so it ends unless it stays in its agent; its row does too,
\* and a final status never changes, cancel()'s late write included
\* (orchestrator.ts:107-149, 405-418).
RunsMoveOn ==
  [][\A t \in Singles :
       /\ at'[t] # at[t] => Left(at'[t]) < Left(at[t])
       /\ row'[t] # row[t] => Reached(row'[t]) > Reached(row[t])]_allVars

\* The row a run has at each place.
RowInv ==
  \A t \in Singles :
    /\ at[t] \in {"idle", "recording"} => row[t] = "none"
    /\ at[t] = "marking" => row[t] = "pending"
    /\ at[t] \in {"agent", "storing", "failing"} => row[t] = "running"

LEMMA SingleStepMoves ==
  ASSUME TaskTypeOK, RowInv, NEW t \in Singles, SingleStep(t)
  PROVE  /\ RowInv'
         /\ \A u \in Singles :
              /\ at'[u] # at[u] => Left(at'[u]) < Left(at[u])
              /\ row'[u] # row[u] => Reached(row'[u]) > Reached(row[u])
<1> USE Ids DEF Places, StatusCheck
<1>1. \A u \in Singles : u # t => at'[u] = at[u] /\ row'[u] = row[u]
  BY SingleStepFacts
<1>2. \/ at[t] = "recording" /\ at'[t] = "marking" /\ row'[t] = "pending"
      \/ at[t] = "recording" /\ at'[t] = "threw" /\ row'[t] = row[t]
      \/ at[t] = "marking" /\ at'[t] = "agent" /\ row'[t] = "running"
      \/ at[t] = "marking" /\ at'[t] = "threw" /\ row'[t] = row[t]
      \/ at[t] = "agent" /\ at'[t] \in {"storing", "failing"} /\ row'[t] = row[t]
      \/ at[t] = "storing" /\ at'[t] = "failing" /\ row'[t] = row[t]
      \/ at[t] = "storing" /\ at'[t] = "returned" /\ row'[t] = "completed"
      \/ at[t] = "failing" /\ at'[t] = "returned" /\ row'[t] = "failed"
      \/ at[t] = "failing" /\ at'[t] = "threw" /\ row'[t] = row[t]
  <2>1. CASE Recorded(t)
    BY <2>1 DEF Recorded, Move, Write, Fault, TaskTypeOK
  <2>2. CASE Marked(t)
    BY <2>2 DEF Marked, Move, Write, Fault, TaskTypeOK
  <2>3. CASE AgentReturns(t) \/ AgentThrows(t)
    BY <2>3 DEF AgentReturns, AgentThrows, Move, TaskTypeOK
  <2>4. CASE Stored(t)
    BY <2>4 DEF Stored, Move, Write, Fault, TaskTypeOK
  <2>5. CASE Failed(t)
    BY <2>5 DEF Failed, Move, Write, Fault, TaskTypeOK
  <2> QED BY <2>1, <2>2, <2>3, <2>4, <2>5 DEF SingleStep
<1>3. RowInv'
  BY <1>1, <1>2 DEF RowInv
<1>4. at'[t] # at[t] => Left(at'[t]) < Left(at[t])
  BY <1>2 DEF Left
<1>5. row'[t] # row[t] => Reached(row'[t]) > Reached(row[t])
  BY <1>2 DEF Reached, RowInv
<1> QED BY <1>1, <1>3, <1>4, <1>5

LEMMA RunsMove ==
  AInv /\ RowInv /\ [Next]_allVars =>
    /\ RowInv'
    /\ \A t \in Singles :
         /\ at'[t] # at[t] => Left(at'[t]) < Left(at[t])
         /\ row'[t] # row[t] => Reached(row'[t]) > Reached(row[t])
<1> SUFFICES ASSUME AInv, RowInv, [Next]_allVars
             PROVE  /\ RowInv'
                    /\ \A t \in Singles :
                         /\ at'[t] # at[t] => Left(at'[t]) < Left(at[t])
                         /\ row'[t] # row[t] => Reached(row'[t]) > Reached(row[t])
  OBVIOUS
<1>1. CASE UNCHANGED <<at, row>>
  BY <1>1 DEF RowInv
<1>2. ASSUME NEW t, Cancel(t) \/ CancelWritten(t) PROVE UNCHANGED <<at, row>>
  BY <1>2 DEF Cancel, CancelWritten, StatusCheck
<1>3. ASSUME NEW t \in Singles, Request(t)
      PROVE  /\ RowInv'
             /\ \A u \in Singles :
                  /\ at'[u] # at[u] => Left(at'[u]) < Left(at[u])
                  /\ row'[u] = row[u]
  <2>1. /\ at[t] = "idle" /\ at'[t] = "recording" /\ row' = row
        /\ \A u \in Singles : u # t => at'[u] = at[u]
    BY <1>3, Ids DEF Request, Call, Move, AInv, TypeOK, TaskTypeOK
  <2>2. Left(at'[t]) < Left(at[t])
    BY <2>1 DEF Left
  <2>3. RowInv'
    BY <2>1 DEF RowInv
  <2> QED BY <2>1, <2>2, <2>3
<1>4. ASSUME NEW t \in Singles, RunStep(t)
      PROVE  /\ RowInv'
             /\ \A u \in Singles :
                  /\ at'[u] # at[u] => Left(at'[u]) < Left(at[u])
                  /\ row'[u] # row[u] => Reached(row'[u]) > Reached(row[u])
  BY <1>4, SingleStepMoves DEF RunStep, AInv, TaskInv
<1>5. ASSUME NEW t \in Singles,
             Announce(t) \/ Leave(t) \/ \E q \in Questions : Ask(t, q)
      PROVE  UNCHANGED <<at, row>>
  BY <1>2, <1>5 DEF Announce, Leave, Ask, taskVars
<1>6. ASSUME NEW k \in RunnerIds, Reply(k) PROVE UNCHANGED <<at, row>>
  BY <1>6 DEF Reply, taskVars
<1> QED BY <1>1, <1>2, <1>3, <1>4, <1>5, <1>6
        DEF Next, Cancellation, allVars, taskVars

\* For any number of streams and failing queries, runs and rows only move on.
THEOREM RunsOnlyMoveOn == Spec => RunsMoveOn
<1>1. Init => RowInv
  BY Ids DEF Init, TaskInit, RowInv
<1>2. AInv /\ RowInv /\ [Next]_allVars =>
        [\A t \in Singles :
           /\ at'[t] # at[t] => Left(at'[t]) < Left(at[t])
           /\ row'[t] # row[t] => Reached(row'[t]) > Reached(row[t])]_allVars
  BY RunsMove
<1>3. AInv /\ RowInv /\ [Next]_allVars => RowInv'
  BY RunsMove
<1> QED BY <1>1, <1>2, <1>3, AInvAlways, PTL DEF Spec, RunsMoveOn

\* A question is asked once, by one run, and answered once.
QuestionsSettleOnce ==
  [][\A q \in Questions :
       question'[q] # question[q] =>
         \/ question[q].st = "new" /\ question'[q].st = "open"
         \/ /\ question[q].st = "open" /\ question'[q].st = "answered"
            /\ question'[q].run = question[q].run]_allVars

\* For any number of runs that share the execution context, and whoever answers.
THEOREM QuestionsAreAnsweredOnce == Spec => QuestionsSettleOnce
<1>1. AInv /\ [Next]_allVars =>
        [\A q \in Questions :
           question'[q] # question[q] =>
             \/ question[q].st = "new" /\ question'[q].st = "open"
             \/ /\ question[q].st = "open" /\ question'[q].st = "answered"
                /\ question'[q].run = question[q].run]_allVars
  <2> SUFFICES ASSUME AInv, Next, NEW q \in Questions, question'[q] # question[q]
               PROVE  \/ question[q].st = "new" /\ question'[q].st = "open"
                      \/ /\ question[q].st = "open" /\ question'[q].st = "answered"
                         /\ question'[q].run = question[q].run
    OBVIOUS
  <2>1. question \in [Questions -> [run: Singles \cup {None},
                                    st: {"new", "open", "answered"}]]
    BY DEF AInv, TypeOK
  <2>2. \/ \E t \in Singles, p \in Questions : Ask(t, p)
        \/ \E k \in RunnerIds : Reply(k)
    BY DEF Next, Request, Announce, Leave, RunStep, streamVars
  <2>3. ASSUME NEW t \in Singles, NEW p \in Questions, Ask(t, p)
        PROVE  question[q].st = "new" /\ question'[q].st = "open"
    BY <2>1, <2>3 DEF Ask
  <2>4. ASSUME NEW k \in RunnerIds, Reply(k)
        PROVE  /\ question[q].st = "open" /\ question'[q].st = "answered"
               /\ question'[q].run = question[q].run
    <3>1. resolver[k] # None /\ k \in Keys
      BY <2>4 DEF Reply, Keys
    <3>2. question[resolver[k]].st = "open"
      BY <3>1 DEF AInv, QuestionInv, EntriesOpen, Open
    <3>3. question' = [question EXCEPT ![resolver[k]].st = "answered"]
      BY <2>4 DEF Reply
    <3>4. resolver[k] = q
      BY <2>1, <3>3
    <3> QED BY <2>1, <3>2, <3>3, <3>4
  <2> QED BY <2>2, <2>3, <2>4
<1> QED BY <1>1, AInvAlways, PTL DEF Spec, QuestionsSettleOnce

-----------------------------------------------------------------------------
(* Clients that leave.                                                     *)

\* What the run as_leaving shows of one disconnect holds of all: the id the route
\* hands to cancel() names no controller, so no signal fires (agents.ts:270-274).
LeavingFiresNothing ==
  [][left' # left => aborted' = aborted /\ controllers' = controllers]_allVars

\* However many streams there are, a client that leaves never cancels a run.
THEOREM LeavingNeverCancels == Spec => LeavingFiresNothing
<1>1. AInv /\ [Next]_allVars =>
        [left' # left => aborted' = aborted /\ controllers' = controllers]_allVars
  <2> SUFFICES ASSUME AInv, Next, left' # left
               PROVE  aborted' = aborted /\ controllers' = controllers
    OBVIOUS
  <2>1. PICK t \in Singles : Leave(t)
    BY DEF Next, Request, Announce, Ask, Reply, RunStep, streamVars
  <2>2. announced[t] \in RunnerIds \cup {None}
    BY DEF AInv, TypeOK, Keys
  <2>3. announced[t] \notin Rows
    BY <2>2, Ids, ASAssumption DEF RunnerIds
  <2>4. announced[t] \notin controllers
    BY <2>3 DEF AInv, TypeOK, TaskTypeOK
  <2> QED BY <2>1, <2>4 DEF Leave, taskVars
<1> QED BY <1>1, AInvAlways, PTL DEF Spec, LeavingFiresNothing
================================================================================
