--------------------------- MODULE OrchestratorProofs ---------------------------
(***************************************************************************)
(* What holds of coordinated and parallel workflows for any number of      *)
(* subtasks, cancellations and failing queries.                            *)
(***************************************************************************)
EXTENDS Orchestrator, TLAPS

LEMMA Ids ==
  /\ Singles = {Coord} /\ Rows = {Root, Coord} \cup SubIds
  /\ Root # Coord /\ Root \notin SubIds /\ Coord \notin SubIds
  /\ MaxFaults \in Nat
BY ATAssumption, ORAssumption

-----------------------------------------------------------------------------
(* The inductive invariant, by the place of the workflow.                  *)

SubPlaces == {"idle", "marking", "agent", "ok", "bad"}
Settled(t) == at[t] \in {"ok", "bad"}
Over      == {"merging", "closing", "returned"}

\* Everybody is where its own code can be.
PlaceInv ==
  /\ at[Root] \in FlowPlaces
  /\ at[Coord] \in Places
  /\ \A t \in SubIds : at[t] \in SubPlaces

\* Subtasks set off together, once all are recorded, and are waited for.
SubInv ==
  /\ at[Root] \in {"idle", "root", "planning", "parent", "subs"} =>
       \A t \in SubIds : at[t] = "idle"
  /\ \A t \in SubIds : at[t] # "idle" => t \in Planned
  /\ at[Root] \in {"collecting"} \cup Over => \A t \in Planned : Settled(t)
  /\ at[Root] \in {"subs", "collecting"} => next \in 1 .. plan
  /\ at[Root] = "running" => plan >= 1

\* The coordinator has ended before its plan is carried out.
CoordInv ==
  /\ at[Root] \in {"root", "planning", "closing"} => flow # "direct"
  /\ at[Root] \in {"idle", "root"} => at[Coord] = "idle"
  /\ at[Root] \in {"parent", "subs", "running", "collecting"} \cup Over =>
       at[Coord] \in {"idle", "returned"}
  /\ Coord \in controllers => at[Coord] \notin {"idle", "recording", "returned"}

\* The controllers of subtasks go one by one, ahead of their rows.
ControllerInv ==
  /\ at[Root] \in {"idle", "root", "planning", "parent", "subs"} \cup Over =>
       controllers \cap SubIds = {}
  /\ at[Root] = "running" => controllers \cap SubIds \subseteq Planned
  /\ at[Root] \in {"collecting", "threw"} =>
       controllers \cap SubIds \subseteq {Of(i) : i \in next + 1 .. plan}

\* The rows collected so far say how their subtasks ended.
RowInv ==
  /\ at[Root] = "collecting" =>
       \A i \in 1 .. plan : i < next => row[Of(i)] = Outcome(Of(i))
  /\ at[Root] = "merging" => \A t \in Planned : row[t] = Outcome(t)
  /\ at[Root] = "returned" /\ flow = "direct" =>
       /\ \A t \in Planned : row[t] = Outcome(t)
       /\ row[Root] = Overall

OInv == FlowTypeOK /\ PlaceInv /\ SubInv /\ CoordInv /\ ControllerInv /\ RowInv

LEMMA PlannedSubs ==
  ASSUME FlowTypeOK
  PROVE  /\ Planned \subseteq SubIds
         /\ \A i \in 1 .. plan : Of(i) \in SubIds /\ Of(i) \in Planned
         /\ \A t \in SubIds : t \in Rows /\ t # Root /\ t # Coord
BY Ids DEF FlowTypeOK, Planned, SubIds, Of

LEMMA OInvInit == Init => OInv
<1> SUFFICES ASSUME Init PROVE OInv
  OBVIOUS
<1> USE Ids
<1>1. FlowTypeOK
  BY DEF Init, TaskInit, FlowTypeOK, Places, FlowPlaces
<1>2. PlaceInv /\ CoordInv
  BY DEF Init, TaskInit, PlaceInv, CoordInv, Places, FlowPlaces, SubPlaces, Over
<1>3. SubInv /\ ControllerInv /\ RowInv
  BY DEF Init, TaskInit, SubInv, ControllerInv, RowInv, Over
<1> QED BY <1>1, <1>2, <1>3 DEF OInv

-----------------------------------------------------------------------------
(* The helpers.                                                            *)

LEMMA Moved ==
  ASSUME FlowTypeOK, NEW t \in Rows, NEW p \in Places \cup FlowPlaces, Move(t, p)
  PROVE  /\ at' \in [Rows -> Places \cup FlowPlaces]
         /\ at'[t] = p /\ \A u \in Rows : u # t => at'[u] = at[u]
BY DEF FlowTypeOK, Move

LEMMA Wrote ==
  ASSUME FlowTypeOK, NEW t \in Rows, NEW s \in StatusCheck, Write(t, s)
  PROVE  /\ row' \in [Rows -> {"none"} \cup StatusCheck] /\ faults' \in 0 .. MaxFaults
         /\ row'[t] = s /\ \A u \in Rows : u # t => row'[u] = row[u]
BY DEF FlowTypeOK, Write

LEMMA Faulted ==
  ASSUME FlowTypeOK, Fault
  PROVE  row' = row /\ faults' \in 0 .. MaxFaults
BY Ids DEF FlowTypeOK, Fault

\* A workflow that throws keeps what its subtasks and coordinator do.
LEMMA ThrowKeeps ==
  ASSUME OInv, at' = [at EXCEPT ![Root] = "threw"], at[Root] \notin {"running", "threw"},
         row' = row, faults' \in 0 .. MaxFaults, controllers' \subseteq controllers,
         cancelling' = cancelling, aborted' = aborted,
         flow' = flow, plan' = plan, next' = next
  PROVE  OInv'
<1> USE Ids
<1>1. /\ at' \in [Rows -> Places \cup FlowPlaces]
      /\ at'[Root] = "threw" /\ \A u \in Rows : u # Root => at'[u] = at[u]
  BY Moved DEF OInv, Move, FlowPlaces
<1>2. FlowTypeOK'
  BY <1>1 DEF OInv, FlowTypeOK
<1>3. PlaceInv'
  BY <1>1 DEF OInv, PlaceInv, FlowPlaces
<1>4. Planned' = Planned
  BY DEF Planned
<1>5. SubInv' /\ CoordInv' /\ RowInv'
  BY <1>1, <1>4 DEF OInv, SubInv, CoordInv, RowInv, Over
<1>6. ControllerInv'
  BY <1>1 DEF OInv, PlaceInv, FlowPlaces, ControllerInv, Over, Of
<1> QED BY <1>2, <1>3, <1>5, <1>6 DEF OInv

-----------------------------------------------------------------------------
(* The workflow up to its subtasks.                                        *)

\* What is left to show of a step of the workflow before its subtasks set off.
LEMMA EarlyKeeps ==
  ASSUME OInv, NEW p \in {"root", "planning", "closing", "parent", "subs", "merging"},
         at[Root] \in {"idle", "root", "planning", "parent", "subs"},
         \/ at' = [at EXCEPT ![Root] = p] /\ (p = "planning" => at[Root] = "planning")
         \/ /\ at[Root] = "root" /\ p = "planning"
            /\ at' = [at EXCEPT ![Root] = p, ![Coord] = "recording"],
         p = "root" => at[Root] = "idle",
         p \in {"root", "planning", "closing"} => flow' # "direct",
         p \in {"parent", "closing", "subs", "merging"} => at[Coord] \in {"idle", "returned"},
         p = "subs" => next' \in 1 .. plan',
         p \in {"closing", "merging"} => plan' = 0,
         row' \in [Rows -> {"none"} \cup StatusCheck], faults' \in 0 .. MaxFaults,
         controllers' = controllers, cancelling' = cancelling, aborted' = aborted,
         flow' \in {"none", "direct", "coordinated"},
         plan' \in 0 .. Len(Subs), next' \in 0 .. Len(Subs) + 1
  PROVE  OInv'
<1> USE Ids
<1>1. /\ at' \in [Rows -> Places \cup FlowPlaces]
      /\ at'[Root] = p
      /\ \A u \in SubIds : at'[u] = at[u]
      /\ at'[Coord] = at[Coord]
           \/ (p = "planning" /\ at[Coord] = "idle" /\ at'[Coord] = "recording")
  BY DEF OInv, FlowTypeOK, CoordInv, Places, FlowPlaces
<1>2. FlowTypeOK'
  BY <1>1 DEF OInv, FlowTypeOK
<1>3. PlaceInv'
  BY <1>1 DEF OInv, PlaceInv, FlowPlaces, Places
<1>4. \A t \in SubIds : at'[t] = "idle"
  BY <1>1 DEF OInv, SubInv
<1>5. p \in {"closing", "merging"} => Planned' = {}
  BY DEF Planned
<1>6. SubInv' /\ RowInv'
  BY <1>1, <1>4, <1>5 DEF SubInv, RowInv, Over
<1>7. CoordInv'
  BY <1>1 DEF OInv, CoordInv, Over
<1>8. ControllerInv'
  BY <1>1 DEF OInv, ControllerInv, Over
<1> QED BY <1>2, <1>3, <1>6, <1>7, <1>8 DEF OInv

LEMMA BeginKeeps ==
  ASSUME OInv, Coordinate \/ Parallel \/ RootRecorded \/ PlanParsed \/ ParentRecorded
  PROVE  OInv'
<1> USE Ids
<1>1. /\ row \in [Rows -> {"none"} \cup StatusCheck] /\ faults \in 0 .. MaxFaults
      /\ plan \in 0 .. Len(Subs) /\ next \in 0 .. Len(Subs) + 1
      /\ flow \in {"none", "direct", "coordinated"} /\ "pending" \in StatusCheck
  BY DEF OInv, FlowTypeOK, StatusCheck
<1>2. CASE Coordinate
  BY <1>1, <1>2, EarlyKeeps DEF Coordinate, Move
<1>3. CASE Parallel
  <2>1. at[Coord] = "idle"
    BY <1>3 DEF Parallel, OInv, CoordInv
  <2> QED BY <1>1, <1>3, <2>1, EarlyKeeps DEF Parallel, Move
<1>4. CASE (RootRecorded \/ ParentRecorded) /\ InsertFails(Root) /\ Throw
  <2>1. row' = row /\ faults' \in 0 .. MaxFaults
    BY <1>1, <1>4, Faulted DEF InsertFails, OInv
  <2>2. at' = [at EXCEPT ![Root] = "threw"] /\ UNCHANGED <<controllers, plan, next>>
    BY <1>4 DEF Throw, Move
  <2>3. UNCHANGED <<aborted, cancelling, flow>> /\ at[Root] \in {"root", "parent"}
    BY <1>4 DEF RootRecorded, ParentRecorded
  <2> QED BY <2>1, <2>2, <2>3, ThrowKeeps
<1>5. CASE RootRecorded /\ Insert(Root) /\ UNCHANGED <<controllers, plan, next>>
           /\ at' = [at EXCEPT ![Root] = "planning", ![Coord] = "recording"]
  <2>1. row' \in [Rows -> {"none"} \cup StatusCheck] /\ faults' \in 0 .. MaxFaults
    BY <1>1, <1>5, Wrote DEF Insert, OInv
  <2>2. /\ at[Root] = "root" /\ UNCHANGED <<aborted, cancelling, flow>>
        /\ flow # "direct"
    BY <1>5 DEF RootRecorded, OInv, CoordInv
  <2> QED BY <1>1, <1>5, <2>1, <2>2, EarlyKeeps
<1>6. CASE PlanParsed
  <2>1. CASE at[Coord] = "threw" /\ Move(Root, "threw") /\ UNCHANGED plan
    BY <1>1, <1>6, <2>1, ThrowKeeps DEF PlanParsed, Move
  <2>2. CASE at[Coord] = "returned" /\ plan' \in 0 .. Len(Subs)
             /\ Move(Root, IF plan' = 0 THEN "closing" ELSE "parent")
    <3>1. PICK p \in {"closing", "parent"} : Move(Root, p) /\ (p = "closing" => plan' = 0)
      BY <2>2
    <3>2. at' = [at EXCEPT ![Root] = p]
      BY <3>1 DEF Move
    <3>3. /\ at[Root] = "planning" /\ flow # "direct"
          /\ UNCHANGED <<row, controllers, aborted, cancelling, faults, flow, next>>
      BY <1>6 DEF PlanParsed, OInv, CoordInv
    <3> QED BY <1>1, <2>2, <3>1, <3>2, <3>3, EarlyKeeps
  <2> QED BY <1>6, <2>1, <2>2 DEF PlanParsed
<1>7. CASE ParentRecorded /\ Insert(Root) /\ next' = 1 /\ UNCHANGED <<controllers, plan>>
           /\ Move(Root, IF plan = 0 THEN "merging" ELSE "subs")
  <2>1. row' \in [Rows -> {"none"} \cup StatusCheck] /\ faults' \in 0 .. MaxFaults
    BY <1>1, <1>7, Wrote DEF Insert, OInv
  <2>2. PICK p \in {"merging", "subs"} : Move(Root, p) /\ (p = "merging" <=> plan = 0)
    BY <1>7
  <2>3. at' = [at EXCEPT ![Root] = p]
    BY <2>2 DEF Move
  <2>4. /\ at[Root] = "parent" /\ UNCHANGED <<aborted, cancelling, flow>>
        /\ at[Coord] \in {"idle", "returned"}
    BY <1>7 DEF ParentRecorded, OInv, CoordInv
  <2>5. next' \in 0 .. Len(Subs) + 1 /\ (p = "subs" => next' \in 1 .. plan')
        /\ (p = "merging" => plan' = 0)
    BY <1>1, <1>7, <2>2
  <2> QED BY <1>1, <1>7, <2>1, <2>3, <2>4, <2>5, EarlyKeeps
<1> QED BY <1>2, <1>3, <1>4, <1>5, <1>6, <1>7
        DEF RootRecorded, ParentRecorded

LEMMA SubRecordedKeeps ==
  ASSUME OInv, SubRecorded
  PROVE  OInv'
<1> USE Ids
<1>1. /\ at[Root] = "subs" /\ next \in 1 .. plan /\ plan \in 0 .. Len(Subs)
      /\ UNCHANGED <<aborted, cancelling, flow>>
      /\ at[Coord] \in {"idle", "returned"} /\ Coord \notin controllers
      /\ controllers \cap SubIds = {} /\ \A t \in SubIds : at[t] = "idle"
  BY DEF SubRecorded, OInv, SubInv, CoordInv, ControllerInv, FlowTypeOK
<1>2. Of(next) \in Rows /\ "pending" \in StatusCheck
  BY <1>1, PlannedSubs DEF OInv, StatusCheck
<1>3. CASE InsertFails(Of(next)) /\ Throw
  <2>1. row' = row /\ faults' \in 0 .. MaxFaults
    BY <1>3, Faulted DEF InsertFails, OInv, FlowTypeOK
  <2>2. at' = [at EXCEPT ![Root] = "threw"] /\ UNCHANGED <<controllers, plan, next>>
    BY <1>3 DEF Throw, Move
  <2> QED BY <1>1, <2>1, <2>2, ThrowKeeps
<1>4. CASE /\ Insert(Of(next)) /\ next' = next + 1 /\ UNCHANGED plan
           /\ IF next < plan
              THEN UNCHANGED <<at, controllers>>
              ELSE /\ controllers' = controllers \cup Planned
                   /\ at' = [t \in Rows |-> IF t \in Planned THEN "marking"
                                       ELSE IF t = Root THEN "running" ELSE at[t]]
  <2>1. row' \in [Rows -> {"none"} \cup StatusCheck] /\ faults' \in 0 .. MaxFaults
    BY <1>2, <1>4, Wrote DEF Insert, OInv
  <2>2. next' \in 0 .. Len(Subs) + 1 /\ Planned' = Planned
    BY <1>1, <1>4 DEF Planned
  <2>3. CASE next < plan /\ UNCHANGED <<at, controllers>>
    <3>1. FlowTypeOK' /\ PlaceInv'
      BY <1>1, <1>4, <2>1, <2>2, <2>3 DEF OInv, FlowTypeOK, PlaceInv
    <3>2. SubInv'
      BY <1>1, <1>4, <2>2, <2>3 DEF OInv, SubInv, Over
    <3>3. CoordInv' /\ ControllerInv' /\ RowInv'
      BY <1>1, <2>3 DEF OInv, CoordInv, ControllerInv, RowInv, Over
    <3> QED BY <3>1, <3>2, <3>3 DEF OInv
  <2>4. CASE /\ next = plan /\ controllers' = controllers \cup Planned
             /\ at' = [t \in Rows |-> IF t \in Planned THEN "marking"
                              ELSE IF t = Root THEN "running" ELSE at[t]]
    <3>1. Planned \subseteq SubIds
      BY PlannedSubs DEF OInv
    <3>2. /\ at'[Root] = "running" /\ at'[Coord] = at[Coord]
          /\ \A t \in SubIds : at'[t] = IF t \in Planned THEN "marking" ELSE "idle"
      BY <1>1, <2>4, <3>1
    <3>3. FlowTypeOK' /\ PlaceInv'
      BY <1>1, <1>4, <2>1, <2>2, <2>4, <3>1, <3>2
         DEF OInv, FlowTypeOK, PlaceInv, Places, FlowPlaces, SubPlaces
    <3>4. SubInv' /\ RowInv'
      BY <1>1, <1>4, <2>2, <2>4, <3>2 DEF SubInv, RowInv, Over
    <3>5. CoordInv' /\ ControllerInv'
      BY <1>1, <2>2, <2>4, <3>1, <3>2 DEF CoordInv, ControllerInv, Over
    <3> QED BY <3>3, <3>4, <3>5 DEF OInv
  <2>5. next < plan \/ (next = plan /\ ~(next < plan))
    BY <1>1
  <2> QED BY <1>4, <2>3, <2>4, <2>5
<1> QED BY <1>3, <1>4 DEF SubRecorded

-----------------------------------------------------------------------------
(* The subtasks and the coordinator.                                       *)

\* A subtask moves on while the workflow waits for it, or has thrown.
LEMMA SubMoves ==
  ASSUME OInv, NEW t \in SubIds, at[t] \in {"marking", "agent"},
         NEW p \in {"agent", "ok", "bad"}, Move(t, p),
         row' \in [Rows -> {"none"} \cup StatusCheck], faults' \in 0 .. MaxFaults,
         \A u \in Rows : u # t => row'[u] = row[u],
         UNCHANGED <<controllers, aborted, cancelling, orVars>>
  PROVE  OInv'
<1> USE Ids
<1>1. /\ at' \in [Rows -> Places \cup FlowPlaces]
      /\ at'[t] = p /\ \A u \in Rows : u # t => at'[u] = at[u]
  BY Moved DEF OInv, Places, FlowPlaces
<1>2. at[Root] \in {"running", "threw"} /\ t \in Planned
  BY PlannedSubs DEF OInv, PlaceInv, FlowPlaces, SubInv, Settled, Over
<1>3. at'[Root] = at[Root] /\ at'[Coord] = at[Coord] /\ Planned' = Planned
  BY <1>1 DEF orVars, Planned
<1>4. FlowTypeOK'
  BY <1>1 DEF OInv, FlowTypeOK, orVars
<1>5. PlaceInv'
  BY <1>1, <1>3 DEF OInv, PlaceInv, SubPlaces
<1>6. SubInv'
  BY <1>1, <1>2, <1>3 DEF OInv, SubInv, Over, orVars
<1>7. CoordInv' /\ ControllerInv' /\ RowInv'
  BY <1>2, <1>3 DEF OInv, CoordInv, ControllerInv, RowInv, Over, orVars
<1> QED BY <1>4, <1>5, <1>6, <1>7 DEF OInv

LEMMA SubStepsKeep ==
  ASSUME OInv, NEW t \in SubIds, SubMarked(t) \/ SubSettles(t)
  PROVE  OInv'
<1> USE Ids
<1>1. "running" \in StatusCheck /\ row \in [Rows -> {"none"} \cup StatusCheck]
      /\ faults \in 0 .. MaxFaults
  BY DEF StatusCheck, OInv, FlowTypeOK
<1>2. CASE SubMarked(t) /\ Write(t, "running") /\ Move(t, "agent")
  BY <1>1, <1>2, Wrote, SubMoves DEF SubMarked, OInv
<1>3. CASE SubMarked(t) /\ Fault /\ Move(t, "bad")
  BY <1>1, <1>3, Faulted, SubMoves DEF SubMarked, OInv
<1>4. CASE SubSettles(t)
  BY <1>1, <1>4, SubMoves DEF SubSettles
<1> QED BY <1>2, <1>3, <1>4 DEF SubMarked

\* What runSingle may do to the coordinator.
LEMMA CoordFacts ==
  ASSUME OInv, SingleStep(Coord)
  PROVE  /\ at[Coord] \notin {"idle", "returned"}
         /\ \E p \in {"marking", "agent", "storing", "failing", "returned", "threw"} :
              /\ Move(Coord, p)
              /\ p = "returned" => Coord \notin controllers'
         /\ \E s \in StatusCheck : Write(Coord, s) \/ Fault \/ UNCHANGED <<row, faults>>
         /\ controllers' \subseteq controllers \cup {Coord}
         /\ UNCHANGED <<aborted, cancelling>>
<1>1. CASE Recorded(Coord) \/ Marked(Coord)
  BY <1>1 DEF Recorded, Marked, StatusCheck
<1>2. CASE AgentReturns(Coord) \/ AgentThrows(Coord)
  BY <1>2 DEF AgentReturns, AgentThrows, StatusCheck
<1>3. CASE Stored(Coord) \/ Failed(Coord)
  BY <1>3 DEF Stored, Failed, StatusCheck
<1> QED BY <1>1, <1>2, <1>3 DEF SingleStep

LEMMA CoordStepKeeps ==
  ASSUME OInv, CoordStep
  PROVE  OInv'
<1> USE Ids
<1>1. at[Coord] \notin {"idle", "returned"} /\ UNCHANGED <<aborted, cancelling, orVars>>
      /\ controllers' \subseteq controllers \cup {Coord}
  BY CoordFacts DEF CoordStep
<1>2. PICK p \in {"marking", "agent", "storing", "failing", "returned", "threw"} :
        Move(Coord, p) /\ (p = "returned" => Coord \notin controllers')
  BY CoordFacts DEF CoordStep
<1>3. /\ at' \in [Rows -> Places \cup FlowPlaces]
      /\ at'[Coord] = p /\ \A u \in Rows : u # Coord => at'[u] = at[u]
  BY <1>2, Moved DEF OInv, Places
<1>4. /\ row' \in [Rows -> {"none"} \cup StatusCheck] /\ faults' \in 0 .. MaxFaults
      /\ \A u \in Rows : u # Coord => row'[u] = row[u]
  <2>1. PICK s \in StatusCheck : Write(Coord, s) \/ Fault \/ UNCHANGED <<row, faults>>
    BY CoordFacts DEF CoordStep
  <2> QED BY <2>1, Wrote, Faulted DEF OInv, FlowTypeOK
<1>5. at[Root] \in {"planning", "threw"}
  BY <1>1 DEF OInv, PlaceInv, FlowPlaces, CoordInv, Over
<1>6. at'[Root] = at[Root] /\ Planned' = Planned /\ \A t \in SubIds : at'[t] = at[t]
  BY <1>1, <1>3 DEF orVars, Planned
<1>7. FlowTypeOK'
  BY <1>1, <1>3, <1>4 DEF OInv, FlowTypeOK, orVars
<1>8. PlaceInv'
  BY <1>3, <1>6 DEF OInv, PlaceInv, Places
<1>9. SubInv' /\ RowInv'
  BY <1>1, <1>5, <1>6 DEF OInv, SubInv, RowInv, Over, orVars
<1>10. CoordInv' /\ ControllerInv'
  BY <1>1, <1>2, <1>3, <1>5, <1>6 DEF OInv, CoordInv, ControllerInv, Over, orVars
<1> QED BY <1>7, <1>8, <1>9, <1>10 DEF OInv

LEMMA CancelKeeps ==
  ASSUME OInv, Cancellation, UNCHANGED orVars
  PROVE  OInv'
<1>1. UNCHANGED <<row, at, faults>> /\ controllers' \subseteq controllers
  BY DEF Cancellation, Cancel, CancelWritten, StatusCheck
<1>2. cancelling' \subseteq aborted' /\ aborted' \subseteq Rows
  BY DEF Cancellation, Cancel, CancelWritten, OInv, FlowTypeOK
<1>3. FlowTypeOK' /\ PlaceInv'
  BY <1>1, <1>2 DEF OInv, FlowTypeOK, PlaceInv, orVars
<1>4. SubInv' /\ CoordInv' /\ ControllerInv'
  BY <1>1 DEF OInv, SubInv, CoordInv, ControllerInv, Settled, Planned, Over, orVars
<1>5. RowInv'
  BY <1>1 DEF OInv, RowInv, Outcome, Overall, Planned, orVars
<1> QED BY <1>3, <1>4, <1>5 DEF OInv

-----------------------------------------------------------------------------
(* The results.                                                            *)

\* A step of the workflow that collects: only its own place changes.
LEMMA LateKeeps ==
  ASSUME OInv, NEW p \in {"collecting", "merging", "closing", "returned"},
         at[Root] \in {"running", "collecting", "merging", "closing"},
         at' = [at EXCEPT ![Root] = p],
         \A t \in Planned : Settled(t),
         p = "collecting" => next' \in 1 .. plan,
         p = "closing" => flow # "direct",
         row' \in [Rows -> {"none"} \cup StatusCheck], faults' \in 0 .. MaxFaults,
         controllers' \subseteq controllers, cancelling' = cancelling, aborted' = aborted,
         flow' = flow, plan' = plan, next' \in 0 .. Len(Subs) + 1,
         p # "collecting" => controllers' \cap SubIds = {},
         p = "collecting" =>
           controllers' \cap SubIds \subseteq {Of(i) : i \in next' + 1 .. plan},
         p = "collecting" => \A i \in 1 .. plan : i < next' => row'[Of(i)] = Outcome(Of(i)),
         p = "merging" => \A t \in Planned : row'[t] = Outcome(t),
         p = "returned" /\ flow = "direct" =>
           row'[Root] = Overall /\ \A t \in Planned : row'[t] = Outcome(t)
  PROVE  OInv'
<1> USE Ids
<1>1. /\ at' \in [Rows -> Places \cup FlowPlaces]
      /\ at'[Root] = p /\ \A u \in Rows : u # Root => at'[u] = at[u]
  BY DEF OInv, FlowTypeOK, FlowPlaces
<1>2. /\ Planned' = Planned /\ Planned \subseteq SubIds
      /\ \A t \in SubIds : Outcome(t)' = Outcome(t) /\ Settled(t)' = Settled(t)
      /\ \A i \in 1 .. plan : Of(i)' = Of(i) /\ Of(i) \in SubIds
  BY <1>1, PlannedSubs DEF Planned, Outcome, Settled, Of, OInv
<1>3. Overall' = Overall
  BY <1>1, <1>2 DEF Overall
<1>4. FlowTypeOK'
  BY <1>1 DEF OInv, FlowTypeOK
<1>5. PlaceInv'
  BY <1>1 DEF OInv, PlaceInv, FlowPlaces
<1>6. SubInv'
  BY <1>1, <1>2 DEF OInv, SubInv, Over
<1>7. CoordInv'
  BY <1>1 DEF OInv, CoordInv, Over
<1>8. ControllerInv'
  BY <1>1, <1>2 DEF OInv, ControllerInv, Over
<1>9. RowInv'
  BY <1>1, <1>2, <1>3 DEF RowInv
<1> QED BY <1>4, <1>5, <1>6, <1>7, <1>8, <1>9 DEF OInv

LEMMA AllSettledKeeps ==
  ASSUME OInv, AllSettled
  PROVE  OInv'
<1> USE Ids
<1>1. /\ at[Root] = "running" /\ \A t \in Planned : Settled(t)
      /\ at' = [at EXCEPT ![Root] = "collecting"] /\ next' = 1
      /\ controllers' = controllers \ {Of(1)}
      /\ UNCHANGED <<row, aborted, cancelling, faults, flow, plan>>
  BY DEF AllSettled, Settled, Move
<1>2. plan \in 1 .. Len(Subs) /\ 1 \in 1 .. plan /\ 1 \in 0 .. Len(Subs) + 1
  BY <1>1 DEF OInv, SubInv, FlowTypeOK
<1>3. controllers' \cap SubIds \subseteq {Of(i) : i \in next' + 1 .. plan}
  <2>1. SUFFICES ASSUME NEW t \in controllers' \cap SubIds
                 PROVE  \E i \in 2 .. plan : t = Of(i)
    BY <1>1
  <2>2. PICK i \in 1 .. plan : t = Of(i)
    BY <1>1, <2>1 DEF OInv, ControllerInv, Planned, Of
  <2>3. i # 1
    BY <1>1, <2>1, <2>2
  <2> QED BY <1>2, <2>2, <2>3
<1>4. row \in [Rows -> {"none"} \cup StatusCheck] /\ faults \in 0 .. MaxFaults
  BY DEF OInv, FlowTypeOK
<1> QED BY <1>1, <1>2, <1>3, <1>4, LateKeeps

LEMMA CollectedKeeps ==
  ASSUME OInv, Collected
  PROVE  OInv'
<1> USE Ids
<1>1. /\ at[Root] = "collecting" /\ next \in 1 .. plan /\ plan \in 0 .. Len(Subs)
      /\ UNCHANGED <<aborted, cancelling, flow>>
      /\ \A t \in Planned : Settled(t)
  BY DEF Collected, OInv, SubInv, FlowTypeOK
<1>2. CASE Fault /\ Throw
  BY <1>1, <1>2, Faulted, ThrowKeeps DEF Throw, Move, OInv
<1>3. CASE /\ Write(Of(next), Outcome(Of(next))) /\ next' = next + 1 /\ UNCHANGED plan
           /\ IF next < plan
              THEN controllers' = controllers \ {Of(next + 1)} /\ UNCHANGED at
              ELSE Move(Root, "merging") /\ UNCHANGED controllers
  <2>1. Of(next) \in SubIds /\ Of(next) \in Rows /\ Outcome(Of(next)) \in StatusCheck
    BY <1>1, PlannedSubs DEF OInv, Outcome, StatusCheck
  <2>2. /\ row' \in [Rows -> {"none"} \cup StatusCheck] /\ faults' \in 0 .. MaxFaults
        /\ row'[Of(next)] = Outcome(Of(next))
        /\ \A u \in Rows : u # Of(next) => row'[u] = row[u]
    BY <1>3, <2>1, Wrote DEF OInv
  <2>3. \A i \in 1 .. plan : i < next + 1 => row'[Of(i)] = Outcome(Of(i))
    <3> SUFFICES ASSUME NEW i \in 1 .. plan, i < next + 1
                 PROVE  row'[Of(i)] = Outcome(Of(i))
      OBVIOUS
    <3>1. CASE Of(i) = Of(next)
      BY <2>2, <3>1
    <3>2. CASE Of(i) # Of(next)
      <4>1. i < next /\ Of(i) \in Rows
        BY <1>1, <3>2, PlannedSubs DEF OInv
      <4> QED BY <1>1, <2>2, <3>2, <4>1 DEF OInv, RowInv
    <3> QED BY <3>1, <3>2
  <2>4. next' \in 0 .. Len(Subs) + 1
    BY <1>1, <1>3
  <2>5. CASE next < plan /\ controllers' = controllers \ {Of(next + 1)} /\ UNCHANGED at
    <3>1. at' = [at EXCEPT ![Root] = "collecting"]
      BY <1>1, <2>5 DEF OInv, FlowTypeOK
    <3>2. controllers' \cap SubIds \subseteq {Of(i) : i \in next' + 1 .. plan}
      <4>1. SUFFICES ASSUME NEW t \in controllers' \cap SubIds
                     PROVE  \E i \in next' + 1 .. plan : t = Of(i)
        OBVIOUS
      <4>2. PICK i \in next + 1 .. plan : t = Of(i)
        BY <1>1, <2>5, <4>1 DEF OInv, ControllerInv
      <4>3. i # next + 1
        BY <2>5, <4>1, <4>2
      <4> QED BY <1>1, <1>3, <4>2, <4>3
    <3>3. next' \in 1 .. plan
      BY <1>1, <1>3, <2>5
    <3> QED BY <1>1, <1>3, <2>2, <2>3, <2>4, <2>5, <3>1, <3>2, <3>3, LateKeeps
  <2>6. CASE next = plan /\ Move(Root, "merging") /\ UNCHANGED controllers
    <3>1. at' = [at EXCEPT ![Root] = "merging"]
      BY <2>6 DEF Move
    <3>2. controllers' \cap SubIds = {}
      <4>1. next + 1 .. plan = {}
        BY <1>1, <2>6
      <4> QED BY <1>1, <2>6, <4>1 DEF OInv, ControllerInv
    <3>3. \A t \in Planned : row'[t] = Outcome(t)
      <4> SUFFICES ASSUME NEW t \in Planned PROVE row'[t] = Outcome(t)
        OBVIOUS
      <4>1. PICK i \in 1 .. plan : t = Of(i)
        BY DEF Planned, Of
      <4>2. i < next + 1
        BY <1>1, <2>6, <4>1
      <4> QED BY <2>3, <4>1, <4>2
    <3> QED BY <1>1, <1>3, <2>2, <2>4, <2>6, <3>1, <3>2, <3>3, LateKeeps
  <2>7. next < plan \/ (next = plan /\ ~(next < plan))
    BY <1>1
  <2> QED BY <1>3, <2>5, <2>6, <2>7
<1> QED BY <1>2, <1>3 DEF Collected

\* The last writes of runParallel and of runCoordinated.
LEMMA ClosingKeeps ==
  ASSUME OInv, Merged \/ Closed
  PROVE  OInv'
<1> USE Ids
<1>1. /\ at[Root] \in {"merging", "closing"}
      /\ controllers \cap SubIds = {} /\ \A t \in Planned : Settled(t)
      /\ UNCHANGED <<controllers, aborted, cancelling, flow, plan, next>>
      /\ next \in 0 .. Len(Subs) + 1
  BY DEF Merged, Closed, OInv, SubInv, ControllerInv, Over, orVars, FlowTypeOK
<1>2. CASE Fault /\ Move(Root, "threw")
  BY <1>1, <1>2, Faulted, ThrowKeeps DEF Move, OInv
<1>3. CASE /\ Merged /\ Write(Root, Overall)
           /\ Move(Root, IF flow = "direct" THEN "returned" ELSE "closing")
  <2>1. Write(Root, Overall) /\ Overall \in StatusCheck /\ at[Root] = "merging"
    BY <1>3 DEF Merged, Overall, StatusCheck
  <2>2. /\ row' \in [Rows -> {"none"} \cup StatusCheck] /\ faults' \in 0 .. MaxFaults
        /\ row'[Root] = Overall /\ \A u \in Rows : u # Root => row'[u] = row[u]
    BY <2>1, Wrote DEF OInv
  <2>3. \A t \in Planned : row'[t] = Outcome(t)
    BY <2>1, <2>2, PlannedSubs DEF OInv, RowInv
  <2>4. PICK p \in {"returned", "closing"} : at' = [at EXCEPT ![Root] = p] /\ (p = "closing" => flow # "direct")
    BY <1>3 DEF Move
  <2> QED BY <1>1, <2>2, <2>3, <2>4, LateKeeps
<1>4. CASE /\ Closed /\ Move(Root, "returned")
           /\ \E s \in {"failed", "completed"} : Write(Root, s)
  <2>1. PICK s \in StatusCheck : Write(Root, s)
    BY <1>4 DEF Closed, StatusCheck
  <2>2. /\ row' \in [Rows -> {"none"} \cup StatusCheck] /\ faults' \in 0 .. MaxFaults
    BY <2>1, Wrote DEF OInv
  <2>3. at' = [at EXCEPT ![Root] = "returned"] /\ flow # "direct"
    BY <1>4 DEF Closed, Move, OInv, CoordInv
  <2> QED BY <1>1, <2>2, <2>3, LateKeeps
<1> QED BY <1>2, <1>3, <1>4 DEF Merged, Closed

-----------------------------------------------------------------------------
(* The theorems.                                                           *)

LEMMA OInvNext ==
  ASSUME OInv, [Next]_allVars
  PROVE  OInv'
<1>1. CASE Coordinate \/ Parallel \/ RootRecorded \/ PlanParsed \/ ParentRecorded
  BY <1>1, BeginKeeps
<1>2. CASE SubRecorded
  BY <1>2, SubRecordedKeeps
<1>3. CASE AllSettled
  BY <1>3, AllSettledKeeps
<1>4. CASE Collected
  BY <1>4, CollectedKeeps
<1>5. CASE Merged \/ Closed
  BY <1>5, ClosingKeeps
<1>6. CASE \E t \in SubIds : SubMarked(t) \/ SubSettles(t)
  BY <1>6, SubStepsKeep
<1>7. CASE CoordStep
  BY <1>7, CoordStepKeeps
<1>8. CASE Cancellation /\ UNCHANGED <<orVars, asking>>
  BY <1>8, CancelKeeps
<1>9. CASE UNCHANGED <<taskVars, orVars>>
  <2>1. /\ UNCHANGED <<row, controllers, aborted, cancelling, at, faults>>
        /\ UNCHANGED <<flow, plan, next>>
    BY <1>9 DEF taskVars, orVars
  <2>2. FlowTypeOK' /\ PlaceInv' /\ CoordInv'
    BY <2>1 DEF OInv, FlowTypeOK, PlaceInv, CoordInv, Over
  <2>3. SubInv' /\ ControllerInv' /\ RowInv'
    BY <2>1 DEF OInv, SubInv, ControllerInv, RowInv, Settled, Planned, Outcome,
                Overall, Over, Of
  <2> QED BY <2>2, <2>3 DEF OInv
<1>10. CASE \E t \in SubIds : SubAsks(t) \/ SubAnswered(t)
  BY <1>9, <1>10 DEF SubAsks, SubAnswered
<1>11. CASE UNCHANGED allVars
  BY <1>9, <1>11 DEF allVars
<1> QED BY <1>1, <1>2, <1>3, <1>4, <1>5, <1>6, <1>7, <1>8, <1>10, <1>11
        DEF Next, FlowStep

LEMMA OInvAlways == Spec => []OInv
<1>1. Init => OInv
  BY OInvInit
<1>2. OInv /\ [Next]_allVars => OInv'
  BY OInvNext
<1> QED BY <1>1, <1>2, PTL DEF Spec

\* Rows and places have their types, however many subtasks the plan has
\* (orchestrator.ts:160-420).
THEOREM TypeCorrect == Spec => []TypeOK
<1> DEFINE Asked == asking \in [SubIds -> {"no", "waiting", "answered"}]
<1>1. Init => Asked
  BY DEF Init
<1>2. Asked /\ [Next]_allVars => Asked'
  BY DEF Next, FlowStep, CoordStep, SubMarked, SubSettles, SubAsks, SubAnswered, allVars
<1>3. OInv /\ Asked => TypeOK
  BY DEF OInv, TypeOK
<1> QED BY <1>1, <1>2, <1>3, OInvAlways, PTL DEF Spec

\* The parent of a batch failed exactly if it had subtasks and all of them
\* failed, whatever was cancelled and whichever queries failed on the way
\* (orchestrator.ts:230-277).
THEOREM SubtasksSummarised == Spec => []ParentSummarisesSubs
<1>1. ASSUME OInv PROVE ParentSummarisesSubs
  <2> SUFFICES ASSUME flow = "direct", at[Root] = "returned"
               PROVE  /\ \A t \in Planned : row[t] \in {"completed", "failed"}
                      /\ row[Root] = "failed" <=>
                           plan # 0 /\ \A t \in Planned : row[t] = "failed"
    BY DEF ParentSummarisesSubs
  <2>1. /\ \A t \in Planned : row[t] = Outcome(t)
        /\ row[Root] = Overall
    BY <1>1 DEF OInv, RowInv
  <2>2. \A t \in Planned : at[t] \in {"ok", "bad"}
    BY <1>1 DEF OInv, SubInv, Over, Settled
  <2>3. \A t \in Planned : row[t] \in {"completed", "failed"}
                        /\ (row[t] = "failed" <=> at[t] = "bad")
    BY <2>1, <2>2 DEF Outcome
  <2> QED BY <2>1, <2>3 DEF Overall
<1> QED BY <1>1, OInvAlways, PTL

\* A workflow that has returned left no controller behind, its coordinator's
\* included; one that has thrown leaves at most those of the subtasks after the one
\* whose result was not stored (orchestrator.ts:203-209, 236-261).
THEOREM NoControllerLeft == Spec => []BatchLeavesNoController
<1>1. OInv => BatchLeavesNoController
  BY DEF OInv, CoordInv, ControllerInv, BatchLeavesNoController, Over
<1> QED BY <1>1, OInvAlways, PTL

-----------------------------------------------------------------------------
(* What a step may do to the places and the rows.                          *)

\* How far a task is from its end, and how far its row has come.
Left(p) ==
  CASE p = "idle"       -> 14
    [] p = "root"       -> 13
    [] p = "planning"   -> 12
    [] p = "parent"     -> 11
    [] p = "subs"       -> 10
    [] p = "running"    -> 9
    [] p = "collecting" -> 8
    [] p = "merging"    -> 7
    [] p = "closing"    -> 6
    [] p = "recording"  -> 5
    [] p = "marking"    -> 4
    [] p = "agent"      -> 3
    [] p = "storing"    -> 2
    [] p = "failing"    -> 1
    [] OTHER            -> 0

Reached(s) ==
  CASE s = "none"    -> 0
    [] s = "pending" -> 1
    [] s = "running" -> 2
    [] OTHER         -> 3

\* Places and rows only move on, so that a final status never changes; a step that
\* moves nobody records or collects one subtask, or belongs to a cancellation
\* (orchestrator.ts:161-285, 405-418).
FlowMovesOn ==
  [][/\ \A t \in Rows :
          /\ at'[t] # at[t] => Left(at'[t]) < Left(at[t])
          /\ row'[t] # row[t] => Reached(row'[t]) > Reached(row[t])
     /\ at' = at => next' = next + 1 \/ UNCHANGED <<row, orVars>>]_allVars

\* Nobody waits for a task that has not been set off or a subtask that is not there.
FlowGoesOn ==
  /\ at[Root] = "planning" =>
       at[Coord] \in {"recording", "marking", "agent", "storing", "failing",
                      "returned", "threw"}
  /\ at[Root] = "running" =>
       \A t \in Planned : at[t] \in {"marking", "agent", "ok", "bad"}
  /\ at[Root] \in {"subs", "collecting"} => next \in 1 .. plan

\* A coordinated workflow inserts its parent's row once and stops at the second
\* INSERT: no subtask is ever recorded or run (orchestrator.ts:308, 177).
NothingDispatched ==
  flow = "coordinated" =>
    /\ at[Root] \notin {"subs", "running", "collecting", "merging"}
    /\ \A t \in SubIds : row[t] = "none" /\ at[t] = "idle"

\* The row of the parent and of the coordinator at each place.
RootRow ==
  /\ at[Root] \in {"idle", "root"} => row[Root] = "none"
  /\ at[Root] \in {"planning", "closing", "subs", "running", "collecting", "merging"} =>
       row[Root] = "pending"
  /\ at[Root] = "parent" /\ flow = "coordinated" => row[Root] = "pending"
  /\ at[Root] = "idle" => flow = "none" /\ \A t \in SubIds : row[t] = "none"
  /\ at[Root] \in {"root", "planning"} => flow = "coordinated"
  /\ at[Root] \notin {"idle", "returned", "threw"} => flow # "none"

CoordRow ==
  /\ at[Coord] \in {"idle", "recording"} => row[Coord] = "none"
  /\ at[Coord] = "marking" => row[Coord] = "pending"
  /\ at[Coord] \in {"agent", "storing", "failing"} => row[Coord] = "running"
  /\ at[Coord] \notin {"ok", "bad"}
  /\ at[Root] = "planning" => at[Coord] # "idle"

\* Ids that have been inserted are different, and no row is final before its subtask
\* has been collected.
Different(n) == \A i, j \in 1 .. n : Of(i) = Of(j) => i = j

SubRow ==
  /\ at[Root] = "subs" =>
       Different(next - 1) /\ \A i \in 1 .. next - 1 : row[Of(i)] = "pending"
  /\ at[Root] \in {"running", "collecting"} => Different(plan)
  /\ at[Root] = "running" => \A t \in Planned :
       at[t] # "idle" /\ row[t] \in {"pending", "running"}
  /\ at[Root] = "collecting" => \A i \in next .. plan :
       row[Of(i)] \in {"pending", "running"}
  /\ \A t \in SubIds : at[t] = "marking" => at[Root] = "running" /\ row[t] = "pending"

DInv == NothingDispatched /\ RootRow /\ CoordRow /\ SubRow

Moves(t) ==
  /\ at'[t] # at[t] => Left(at'[t]) < Left(at[t])
  /\ row'[t] # row[t] => Reached(row'[t]) > Reached(row[t])

FlowMoves ==
  /\ \A t \in Rows : Moves(t)
  /\ at' = at => next' = next + 1 \/ UNCHANGED <<row, orVars>>

\* A step that moves the workflow alone, and may write its row.
LEMMA RootMoves ==
  ASSUME OInv, NEW p \in FlowPlaces, Move(Root, p), Left(p) < Left(at[Root]),
         \A t \in Rows : t # Root => row'[t] = row[t],
         row'[Root] # row[Root] => Reached(row'[Root]) > Reached(row[Root])
  PROVE  /\ FlowMoves /\ at'[Root] = p /\ Root \in Rows
         /\ \A t \in Rows : t # Root => at'[t] = at[t]
<1> USE Ids
<1>1. /\ at'[Root] = p /\ Root \in Rows
      /\ \A t \in Rows : t # Root => at'[t] = at[t]
  BY Moved DEF OInv
<1>2. \A t \in Rows : Moves(t)
  BY <1>1 DEF Moves
<1>3. Left(p) \in Nat
  BY DEF Left
<1>4. at' # at
  BY <1>1, <1>3
<1> QED BY <1>1, <1>2, <1>4 DEF FlowMoves

\* The workflow up to its subtasks.
LEMMA BeginMoves ==
  ASSUME OInv, DInv, Coordinate \/ Parallel \/ RootRecorded \/ PlanParsed \/ ParentRecorded
  PROVE  DInv' /\ FlowMoves
<1> USE Ids DEF DInv
<1>0. \A t \in SubIds : t \in Rows /\ t # Root /\ t # Coord
  BY PlannedSubs DEF OInv
<1>1. CASE Coordinate \/ Parallel
  <2>1. /\ at[Root] = "idle" /\ row' = row /\ next' = next
        /\ \/ flow' = "coordinated" /\ plan' = plan /\ Move(Root, "root")
           \/ flow' = "direct" /\ Move(Root, "parent")
    BY <1>1 DEF Coordinate, Parallel
  <2>2. PICK p \in {"root", "parent"} :
          /\ Move(Root, p)
          /\ p = "root" => flow' = "coordinated"
          /\ p = "parent" => flow' = "direct"
    BY <2>1
  <2>3. p \in FlowPlaces /\ Left(p) < Left(at[Root])
    BY <2>1 DEF FlowPlaces, Left
  <2>4. /\ FlowMoves /\ at'[Root] = p
        /\ \A t \in Rows : t # Root => at'[t] = at[t]
    BY <2>1, <2>2, <2>3, RootMoves
  <2>5. flow' \in {"coordinated", "direct"}
    BY <2>1
  <2>6. \A t \in SubIds : row[t] = "none" /\ at[t] = "idle"
    BY <2>1 DEF RootRow, OInv, SubInv
  <2>7. NothingDispatched'
    BY <1>0, <2>1, <2>2, <2>4, <2>6 DEF NothingDispatched
  <2>8. RootRow'
    BY <2>1, <2>2, <2>4, <2>5 DEF RootRow
  <2>9. CoordRow' /\ SubRow'
    BY <1>0, <2>1, <2>2, <2>4, <2>6 DEF CoordRow, SubRow
  <2> QED BY <2>4, <2>7, <2>8, <2>9
<1>2. CASE (RootRecorded \/ ParentRecorded) /\ InsertFails(Root) /\ Throw
  <2>1. /\ at[Root] \in {"root", "parent"} /\ row' = row /\ UNCHANGED <<flow, plan, next>>
        /\ Move(Root, "threw")
    BY <1>2 DEF RootRecorded, ParentRecorded, InsertFails, Fault, Throw
  <2>2. "threw" \in FlowPlaces /\ Left("threw") < Left(at[Root])
    BY <2>1 DEF FlowPlaces, Left
  <2>3. /\ FlowMoves /\ at'[Root] = "threw"
        /\ \A t \in Rows : t # Root => at'[t] = at[t]
    BY <2>1, <2>2, RootMoves
  <2>4. NothingDispatched' /\ RootRow' /\ CoordRow'
    BY <1>0, <2>1, <2>3 DEF NothingDispatched, RootRow, CoordRow
  <2>5. SubRow'
    BY <1>0, <2>1, <2>3 DEF SubRow
  <2> QED BY <2>3, <2>4, <2>5
<1>3. CASE RootRecorded /\ Insert(Root) /\ UNCHANGED <<plan, next>>
           /\ at' = [at EXCEPT ![Root] = "planning", ![Coord] = "recording"]
  <2>1. /\ at[Root] = "root" /\ flow' = flow /\ row[Root] = "none"
        /\ row' = [row EXCEPT ![Root] = "pending"]
    BY <1>3 DEF RootRecorded, Insert, Write
  <2>2. /\ at'[Root] = "planning" /\ at'[Coord] = "recording" /\ at[Coord] = "idle"
        /\ \A t \in SubIds : at'[t] = at[t] /\ row'[t] = row[t]
        /\ row'[Root] = "pending" /\ row'[Coord] = row[Coord]
        /\ flow = "coordinated"
    BY <1>0, <1>3, <2>1 DEF OInv, FlowTypeOK, CoordInv, RootRow
  <2>3. Moves(Root) /\ Moves(Coord) /\ \A t \in SubIds : Moves(t)
    BY <2>1, <2>2 DEF Moves, Left, Reached
  <2>4. FlowMoves
    BY <2>1, <2>2, <2>3 DEF FlowMoves
  <2>5. NothingDispatched' /\ RootRow'
    BY <2>1, <2>2 DEF NothingDispatched, RootRow
  <2>6. CoordRow' /\ SubRow'
    BY <2>1, <2>2 DEF CoordRow, SubRow
  <2> QED BY <2>4, <2>5, <2>6
<1>4. CASE PlanParsed
  <2>1. PICK p \in {"closing", "parent", "threw"} : Move(Root, p)
    BY <1>4 DEF PlanParsed
  <2>2. /\ at[Root] = "planning" /\ row' = row /\ UNCHANGED <<flow, next>>
    BY <1>4 DEF PlanParsed
  <2>3. p \in FlowPlaces /\ Left(p) < Left(at[Root])
    BY <2>2 DEF FlowPlaces, Left
  <2>4. /\ FlowMoves /\ at'[Root] = p
        /\ \A t \in Rows : t # Root => at'[t] = at[t]
    BY <2>1, <2>2, <2>3, RootMoves
  <2>5. NothingDispatched' /\ RootRow' /\ CoordRow'
    BY <1>0, <2>2, <2>4 DEF NothingDispatched, RootRow, CoordRow
  <2>6. SubRow'
    BY <1>0, <2>2, <2>4 DEF SubRow
  <2> QED BY <2>4, <2>5, <2>6
<1>5. CASE ParentRecorded /\ Insert(Root) /\ next' = 1 /\ UNCHANGED plan
           /\ Move(Root, IF plan = 0 THEN "merging" ELSE "subs")
  <2>1. /\ at[Root] = "parent" /\ flow' = flow /\ row[Root] = "none"
        /\ row' = [row EXCEPT ![Root] = "pending"]
    BY <1>5 DEF ParentRecorded, Insert, Write
  <2>2. PICK p \in {"merging", "subs"} : Move(Root, p)
    BY <1>5
  <2>3. p \in FlowPlaces /\ Left(p) < Left(at[Root])
    BY <2>1 DEF FlowPlaces, Left
  <2>4. /\ row'[Root] = "pending" /\ \A t \in Rows : t # Root => row'[t] = row[t]
        /\ Reached(row'[Root]) > Reached(row[Root])
    BY <2>1 DEF OInv, FlowTypeOK, Reached
  <2>5. /\ FlowMoves /\ at'[Root] = p
        /\ \A t \in Rows : t # Root => at'[t] = at[t]
    BY <2>2, <2>3, <2>4, RootMoves
  <2>6. flow = "direct"
    BY <2>1 DEF RootRow, OInv, FlowTypeOK
  <2>7. NothingDispatched' /\ RootRow' /\ CoordRow'
    BY <1>0, <2>1, <2>4, <2>5, <2>6 DEF NothingDispatched, RootRow, CoordRow
  <2>8. SubRow'
    BY <1>0, <1>5, <2>1, <2>4, <2>5 DEF SubRow, Different
  <2> QED BY <2>5, <2>7, <2>8
<1> QED BY <1>1, <1>2, <1>3, <1>4, <1>5 DEF RootRecorded, ParentRecorded

\* The rows of the subtasks are inserted one by one.
LEMMA SubRecordedMoves ==
  ASSUME OInv, DInv, SubRecorded
  PROVE  DInv' /\ FlowMoves
<1> USE Ids DEF DInv
<1>0. /\ \A t \in SubIds : t \in Rows /\ t # Root /\ t # Coord
      /\ Planned \subseteq SubIds
      /\ \A i \in 1 .. plan : Of(i) \in SubIds /\ Of(i) \in Planned
  BY PlannedSubs DEF OInv
<1>1. /\ at[Root] = "subs" /\ next \in 1 .. plan /\ plan \in Nat /\ flow' = flow
      /\ \A t \in SubIds : at[t] = "idle"
      /\ flow # "coordinated"
  BY DEF SubRecorded, OInv, SubInv, FlowTypeOK, NothingDispatched
<1>2. CASE InsertFails(Of(next)) /\ Throw
  <2>1. row' = row /\ Move(Root, "threw") /\ UNCHANGED <<plan, next>>
    BY <1>2 DEF InsertFails, Fault, Throw
  <2>2. "threw" \in FlowPlaces /\ Left("threw") < Left(at[Root])
    BY <1>1 DEF FlowPlaces, Left
  <2>3. /\ FlowMoves /\ at'[Root] = "threw"
        /\ \A t \in Rows : t # Root => at'[t] = at[t]
    BY <2>1, <2>2, RootMoves
  <2>4. NothingDispatched' /\ RootRow' /\ CoordRow'
    BY <1>0, <1>1, <2>1, <2>3 DEF NothingDispatched, RootRow, CoordRow
  <2>5. SubRow'
    BY <1>0, <1>1, <2>1, <2>3 DEF SubRow
  <2> QED BY <2>3, <2>4, <2>5
<1>3. CASE /\ Insert(Of(next)) /\ next' = next + 1 /\ UNCHANGED plan
           /\ IF next < plan
              THEN UNCHANGED at
              ELSE at' = [t \in Rows |-> IF t \in Planned THEN "marking"
                                    ELSE IF t = Root THEN "running" ELSE at[t]]
  <2> DEFINE s == Of(next)
  <2>1. /\ s \in SubIds /\ s \in Rows /\ row[s] = "none"
        /\ row' = [row EXCEPT ![s] = "pending"]
    BY <1>0, <1>1, <1>3 DEF Insert, Write
  <2>2. row'[s] = "pending" /\ \A t \in Rows : t # s => row'[t] = row[t]
    BY <2>1 DEF OInv, FlowTypeOK
  <2>3. \A i \in 1 .. next - 1 : Of(i) # s
    BY <1>1, <2>1 DEF SubRow
  <2>4. \A i \in 1 .. next - 1 : Of(i) \in Rows /\ row'[Of(i)] = "pending"
    <3>1. \A i \in 1 .. next - 1 : i \in 1 .. plan
      BY <1>1
    <3> QED BY <1>0, <1>1, <2>2, <2>3, <3>1 DEF SubRow
  <2>5. \A i \in 1 .. next : i = next \/ i \in 1 .. next - 1
    BY <1>1
  <2>6. Different(next) /\ \A i \in 1 .. next : row'[Of(i)] = "pending"
    BY <1>1, <2>2, <2>3, <2>4, <2>5 DEF SubRow, Different
  <2>7. \A t \in Rows : row'[t] # row[t] => Reached(row'[t]) > Reached(row[t])
    BY <2>1, <2>2 DEF Reached
  <2>8. \A n : Different(n)' <=> Different(n)
    BY DEF Different, Of
  <2>9. row'[Root] = row[Root] /\ row'[Coord] = row[Coord]
    BY <1>0, <2>1, <2>2
  <2> HIDE DEF s
  <2>10. CASE next < plan
    <3>1. at' = at
      BY <1>3, <2>10
    <3>2. FlowMoves
      BY <1>3, <2>7, <3>1 DEF FlowMoves, Moves
    <3>3. NothingDispatched' /\ RootRow' /\ CoordRow'
      BY <1>1, <2>9, <3>1 DEF NothingDispatched, RootRow, CoordRow
    <3>4. next' - 1 = next
      BY <1>1, <1>3
    <3>5. Different(next - 1)' /\ \A i \in 1 .. next' - 1 : row'[Of(i)] = "pending"
      BY <2>6, <3>4 DEF Different, Of
    <3>6. SubRow'
      BY <1>1, <3>1, <3>5 DEF SubRow, Of
    <3> QED BY <3>2, <3>3, <3>6
  <2>11. CASE ~(next < plan)
    <3>1. next = plan
      BY <1>1, <2>11
    <3>2. at' = [t \in Rows |-> IF t \in Planned THEN "marking"
                                ELSE IF t = Root THEN "running" ELSE at[t]]
      BY <1>3, <2>11
    <3>3. /\ at'[Root] = "running" /\ at'[Coord] = at[Coord]
          /\ \A t \in SubIds : at'[t] = IF t \in Planned THEN "marking" ELSE at[t]
      BY <1>0, <3>2
    <3>4. \A t \in Rows : at'[t] # at[t] => Left(at'[t]) < Left(at[t])
      BY <1>1, <3>3 DEF Left
    <3>5. FlowMoves
      BY <1>1, <2>7, <3>3, <3>4 DEF FlowMoves, Moves
    <3>6. NothingDispatched' /\ RootRow' /\ CoordRow'
      BY <1>1, <2>9, <3>3 DEF NothingDispatched, RootRow, CoordRow
    <3>7. Planned' = Planned /\ plan' = plan
      BY <1>3 DEF Planned
    <3>8. \A t \in Planned : row'[t] = "pending"
      <4>1. \A i \in 1 .. plan : row'[Of(i)] = "pending"
        BY <2>6, <3>1
      <4> QED BY <4>1 DEF Planned, Of
    <3>9. SubRow'
      BY <1>0, <1>1, <2>6, <2>8, <3>1, <3>3, <3>7, <3>8 DEF SubRow
    <3> QED BY <3>5, <3>6, <3>9
  <2> QED BY <2>10, <2>11
<1> QED BY <1>2, <1>3 DEF SubRecorded

\* The subtasks and the coordinator.
LEMMA TaskMoves ==
  ASSUME OInv, DInv, CoordStep \/ \E t \in SubIds : SubMarked(t) \/ SubSettles(t)
  PROVE  DInv' /\ FlowMoves
<1> USE Ids DEF DInv
<1>0. /\ \A t \in SubIds : t \in Rows /\ t # Root /\ t # Coord
      /\ Planned \subseteq SubIds
  BY PlannedSubs DEF OInv
<1>1. CASE CoordStep
  <2>1. \/ at[Coord] = "recording" /\ at'[Coord] = "marking" /\ row'[Coord] = "pending"
        \/ at[Coord] = "recording" /\ at'[Coord] = "threw" /\ row'[Coord] = row[Coord]
        \/ at[Coord] = "marking" /\ at'[Coord] = "agent" /\ row'[Coord] = "running"
        \/ at[Coord] = "marking" /\ at'[Coord] = "threw" /\ row'[Coord] = row[Coord]
        \/ /\ at[Coord] = "agent" /\ at'[Coord] \in {"storing", "failing"}
           /\ row'[Coord] = row[Coord]
        \/ at[Coord] = "storing" /\ at'[Coord] = "failing" /\ row'[Coord] = row[Coord]
        \/ at[Coord] = "storing" /\ at'[Coord] = "returned" /\ row'[Coord] = "completed"
        \/ at[Coord] = "failing" /\ at'[Coord] = "returned" /\ row'[Coord] = "failed"
        \/ at[Coord] = "failing" /\ at'[Coord] = "threw" /\ row'[Coord] = row[Coord]
    BY <1>1 DEF CoordStep, SingleStep, Recorded, Marked, AgentReturns, AgentThrows,
       Stored, Failed, Move, Write, Fault, OInv, FlowTypeOK
  <2>2. \A t \in Rows : t # Coord => at'[t] = at[t] /\ row'[t] = row[t]
    BY <1>1 DEF CoordStep, SingleStep, Recorded, Marked, AgentReturns, AgentThrows,
       Stored, Failed, Move, Write, Fault, OInv, FlowTypeOK
  <2>3. UNCHANGED orVars /\ Planned' = Planned
    BY <1>1 DEF CoordStep, orVars, Planned
  <2>4. Moves(Coord)
    <3>1. at'[Coord] # at[Coord] => Left(at'[Coord]) < Left(at[Coord])
      BY <2>1 DEF Left
    <3>2. row'[Coord] # row[Coord] => Reached(row'[Coord]) > Reached(row[Coord])
      BY <2>1 DEF Reached, CoordRow
    <3> QED BY <3>1, <3>2 DEF Moves
  <2>5. FlowMoves
    BY <2>1, <2>2, <2>4 DEF FlowMoves, Moves
  <2>6. CoordRow'
    BY <2>1, <2>2 DEF CoordRow
  <2>7. NothingDispatched' /\ RootRow'
    BY <1>0, <2>2, <2>3 DEF NothingDispatched, RootRow, orVars
  <2>8. SubRow'
    <3>1. \A i \in 1 .. plan : Of(i) \in SubIds
      BY PlannedSubs DEF OInv
    <3>2. /\ at[Root] = "subs" => next \in 1 .. plan
          /\ at[Root] = "collecting" => next \in 1 .. plan
          /\ plan \in Nat
      BY DEF OInv, SubInv, FlowTypeOK
    <3>3. at[Root] = "subs" => \A i \in 1 .. next - 1 : row'[Of(i)] = row[Of(i)]
      <4>1. at[Root] = "subs" => \A i \in 1 .. next - 1 : i \in 1 .. plan
        BY <3>2
      <4> QED BY <1>0, <2>2, <3>1, <4>1
    <3>4. at[Root] = "collecting" => \A i \in next .. plan : row'[Of(i)] = row[Of(i)]
      BY <1>0, <2>2, <3>1, <3>2
    <3> QED BY <1>0, <2>2, <2>3, <3>3, <3>4 DEF SubRow, orVars, Different, Of
  <2> QED BY <2>5, <2>6, <2>7, <2>8
<1>2. ASSUME NEW t \in SubIds, SubMarked(t) \/ SubSettles(t)
      PROVE  DInv' /\ FlowMoves
  <2>1. /\ \/ at[t] = "marking" /\ at'[t] = "agent" /\ row'[t] = "running"
           \/ at[t] = "marking" /\ at'[t] = "bad" /\ row'[t] = row[t]
           \/ at[t] = "agent" /\ at'[t] \in {"ok", "bad"} /\ row'[t] = row[t]
        /\ \A u \in Rows : u # t => at'[u] = at[u] /\ row'[u] = row[u]
    BY <1>0, <1>2 DEF SubMarked, SubSettles, Move, Write, Fault, OInv, FlowTypeOK
  <2>2. UNCHANGED orVars /\ Planned' = Planned
    BY <1>2 DEF SubMarked, SubSettles, orVars, Planned
  <2>3. /\ at[Root] \in {"running", "threw"} /\ t \in Planned
        /\ at'[Root] = at[Root] /\ row'[Root] = row[Root]
        /\ at'[Coord] = at[Coord] /\ row'[Coord] = row[Coord]
    BY <1>0, <2>1 DEF OInv, PlaceInv, FlowPlaces, SubInv, Settled, Over
  <2>4. flow # "coordinated"
    BY <2>1 DEF NothingDispatched
  <2>5. at'[t] # at[t] /\ Left(at'[t]) < Left(at[t])
    BY <2>1 DEF Left
  <2>6. row'[t] # row[t] => Reached(row'[t]) > Reached(row[t])
    BY <2>1 DEF Reached, SubRow
  <2>7. FlowMoves
    BY <2>1, <2>5, <2>6 DEF FlowMoves, Moves
  <2>8. NothingDispatched' /\ RootRow' /\ CoordRow'
    BY <1>0, <2>1, <2>2, <2>3, <2>4 DEF NothingDispatched, RootRow, CoordRow, orVars
  <2>9. SubRow'
    <3>1. at[Root] = "running" => \A u \in Planned :
            at'[u] # "idle" /\ row'[u] \in {"pending", "running"}
      BY <1>0, <2>1 DEF SubRow
    <3>2. \A u \in SubIds : at'[u] = "marking" => at[Root] = "running" /\ row'[u] = "pending"
      BY <1>0, <2>1 DEF SubRow
    <3>3. at[Root] = "running" => Different(plan)
      BY DEF SubRow
    <3>4. Different(plan)' <=> Different(plan)
      BY <2>2 DEF Different, Of, orVars
    <3> QED BY <2>2, <2>3, <3>1, <3>2, <3>3, <3>4 DEF SubRow
  <2> QED BY <2>7, <2>8, <2>9
<1> QED BY <1>1, <1>2

\* The results are collected and the parent's row is written.
LEMMA EndMoves ==
  ASSUME OInv, DInv, AllSettled \/ Collected \/ Merged \/ Closed
  PROVE  DInv' /\ FlowMoves
<1> USE Ids DEF DInv
<1>0. /\ \A t \in SubIds : t \in Rows /\ t # Root /\ t # Coord
      /\ Planned \subseteq SubIds
      /\ \A i \in 1 .. plan : Of(i) \in SubIds /\ Of(i) \in Planned
      /\ plan \in Nat /\ next \in Nat
  BY PlannedSubs DEF OInv, FlowTypeOK
<1>1. UNCHANGED <<flow, plan>> /\ Planned' = Planned
  BY DEF AllSettled, Collected, Throw, Merged, Closed, orVars, Planned
<1>2. \A n : Different(n)' <=> Different(n)
  BY DEF Different, Of
<1>3. CASE AllSettled
  <2>1. /\ at[Root] = "running" /\ Move(Root, "collecting") /\ row' = row /\ next' = 1
    BY <1>3 DEF AllSettled
  <2>2. "collecting" \in FlowPlaces /\ Left("collecting") < Left(at[Root])
    BY <2>1 DEF FlowPlaces, Left
  <2>3. /\ FlowMoves /\ at'[Root] = "collecting"
        /\ \A t \in Rows : t # Root => at'[t] = at[t]
    BY <2>1, <2>2, RootMoves
  <2>4. NothingDispatched' /\ RootRow' /\ CoordRow'
    BY <1>0, <1>1, <2>1, <2>3 DEF NothingDispatched, RootRow, CoordRow
  <2>5. \A i \in next' .. plan : row[Of(i)] \in {"pending", "running"}
    BY <1>0, <2>1 DEF SubRow
  <2>6. \A t \in SubIds : at[t] # "marking"
    BY <1>0, <1>3 DEF AllSettled, SubRow, OInv, SubInv
  <2>7. SubRow'
    BY <1>0, <1>1, <1>2, <2>1, <2>3, <2>5, <2>6 DEF SubRow, Of
  <2> QED BY <2>3, <2>4, <2>7
<1>4. ASSUME NEW p \in {"returned", "threw", "closing", "merging"}, Move(Root, p),
             at[Root] \in {"collecting", "merging", "closing"}, p # at[Root],
             p = "merging" => at[Root] = "collecting",
             p = "closing" => at[Root] = "merging" /\ row'[Root] = "pending",
             p = "merging" => row'[Root] = "pending",
             row'[Coord] = row[Coord],
             at[Root] # "collecting" => \A t \in SubIds : row'[t] = row[t],
             \A t \in Rows : row'[t] # row[t] => Reached(row'[t]) > Reached(row[t])
      PROVE  DInv' /\ FlowMoves
  <2>1. p \in FlowPlaces /\ Left(p) < Left(at[Root])
    BY <1>4 DEF FlowPlaces, Left
  <2>2. /\ at'[Root] = p /\ Root \in Rows
        /\ \A t \in Rows : t # Root => at'[t] = at[t]
    BY <1>4, <2>1, Moved DEF OInv
  <2>3. FlowMoves
    <3>1. \A t \in Rows : Moves(t)
      BY <1>4, <2>1, <2>2 DEF Moves
    <3>2. at' # at
      BY <1>4, <2>2
    <3> QED BY <3>1, <3>2 DEF FlowMoves
  <2>4. \A t \in SubIds : at[t] # "marking"
    BY <1>4 DEF SubRow
  <2>5. NothingDispatched'
    <3>1. CASE flow = "coordinated"
      <4>1. at[Root] = "closing" /\ p \in {"returned", "threw"}
        BY <1>4, <3>1 DEF NothingDispatched
      <4> QED BY <1>0, <1>4, <2>2, <3>1, <4>1 DEF NothingDispatched
    <3>2. CASE flow # "coordinated"
      BY <1>1, <3>2 DEF NothingDispatched
    <3> QED BY <3>1, <3>2
  <2>6. RootRow'
    BY <1>1, <1>4, <2>2 DEF RootRow
  <2>7. CoordRow'
    BY <1>0, <1>4, <2>2 DEF CoordRow
  <2>8. SubRow'
    BY <1>0, <1>4, <2>2, <2>4 DEF SubRow
  <2> QED BY <2>3, <2>5, <2>6, <2>7, <2>8
<1>5. CASE /\ Collected /\ Write(Of(next), Outcome(Of(next))) /\ next' = next + 1
           /\ IF next < plan THEN UNCHANGED at ELSE Move(Root, "merging")
  <2>1. at[Root] = "collecting" /\ next \in 1 .. plan /\ Different(plan)
    BY <1>5 DEF Collected, OInv, SubInv, SubRow
  <2> DEFINE s == Of(next)
  <2>2. /\ s \in SubIds /\ s \in Rows /\ row[s] \in {"pending", "running"}
        /\ Outcome(s) \in {"completed", "failed"}
    BY <1>0, <2>1 DEF SubRow, Outcome
  <2>3. row'[s] = Outcome(s) /\ \A t \in Rows : t # s => row'[t] = row[t]
    BY <1>5, <2>2 DEF Write, OInv, FlowTypeOK
  <2>4. \A t \in Rows : row'[t] # row[t] => t = s /\ Reached(row'[t]) > Reached(row[t])
    BY <2>2, <2>3 DEF Reached
  <2>5. row'[Root] = row[Root] /\ row'[Coord] = row[Coord]
    BY <1>0, <2>2, <2>3
  <2>6. \A i \in 1 .. plan : Of(i) = s => i = next
    BY <2>1 DEF Different
  <2>7. next' - 1 = next /\ next' \in Nat
    BY <1>0, <1>5
  <2>8. \A i \in next' .. plan : row'[Of(i)] \in {"pending", "running"}
    <3> SUFFICES ASSUME NEW i \in next' .. plan
                 PROVE  row'[Of(i)] \in {"pending", "running"}
      OBVIOUS
    <3>1. i \in 1 .. plan /\ i \in next .. plan /\ i # next
      BY <1>0, <1>5, <2>1
    <3>2. Of(i) # s /\ Of(i) \in Rows
      BY <1>0, <2>6, <3>1
    <3> QED BY <2>1, <2>3, <3>1, <3>2 DEF SubRow
  <2> HIDE DEF s
  <2>9. CASE next < plan
    <3>1. at' = at
      BY <1>5, <2>9
    <3>2. FlowMoves
      BY <1>5, <2>4, <3>1 DEF FlowMoves, Moves
    <3>3. flow # "coordinated"
      BY <2>1 DEF NothingDispatched
    <3>4. NothingDispatched' /\ RootRow' /\ CoordRow'
      BY <1>0, <1>1, <2>1, <2>5, <3>1, <3>3 DEF NothingDispatched, RootRow, CoordRow
    <3>5. \A t \in SubIds : at[t] # "marking"
      BY <2>1 DEF SubRow
    <3>6. SubRow'
      BY <1>0, <1>1, <1>2, <2>1, <2>8, <3>1, <3>5 DEF SubRow, Of
    <3> QED BY <3>2, <3>4, <3>6
  <2>10. CASE ~(next < plan)
    <3>1. row[Root] = "pending"
      BY <2>1 DEF RootRow
    <3> QED BY <1>4, <1>5, <2>1, <2>3, <2>4, <2>5, <2>10, <3>1, <2>2
  <2> QED BY <2>9, <2>10
<1>6. CASE row' = row /\ Move(Root, "threw") /\ at[Root] \in {"collecting", "merging", "closing"}
  BY <1>4, <1>6
<1>7. ASSUME Merged \/ Closed, NEW s \in {"completed", "failed"}, Write(Root, s),
             Move(Root, "returned")
      PROVE  DInv' /\ FlowMoves
  <2>1. at[Root] \in {"merging", "closing"} /\ row[Root] = "pending"
    BY <1>7 DEF Merged, Closed, RootRow
  <2>2. row'[Root] = s /\ \A t \in Rows : t # Root => row'[t] = row[t]
    BY <1>7 DEF Write, OInv, FlowTypeOK
  <2>3. \A t \in Rows : row'[t] # row[t] => Reached(row'[t]) > Reached(row[t])
    BY <2>1, <2>2 DEF Reached
  <2> QED BY <1>4, <1>7, <2>1, <2>2, <2>3
<1>8. CASE Collected
  <2>1. at[Root] = "collecting" /\ (Fault /\ Throw => row' = row /\ Move(Root, "threw"))
    BY <1>8 DEF Collected, Fault, Throw
  <2>2. \/ Fault /\ Throw
        \/ /\ Write(Of(next), Outcome(Of(next))) /\ next' = next + 1
           /\ IF next < plan THEN UNCHANGED at ELSE Move(Root, "merging")
    BY <1>8 DEF Collected
  <2> QED BY <1>5, <1>6, <1>8, <2>1, <2>2
<1>9. CASE Merged
  <2>1. at[Root] = "merging" /\ flow = "direct" /\ Overall \in {"completed", "failed"}
    BY <1>9 DEF Merged, NothingDispatched, RootRow, OInv, FlowTypeOK, Overall
  <2>2. CASE Fault /\ Move(Root, "threw")
    BY <1>6, <2>1, <2>2 DEF Fault
  <2>3. CASE Write(Root, Overall) /\ Move(Root, "returned")
    BY <1>7, <1>9, <2>1, <2>3
  <2> QED BY <1>9, <2>1, <2>2, <2>3 DEF Merged
<1>10. CASE Closed
  <2>1. at[Root] = "closing"
    BY <1>10 DEF Closed
  <2>2. CASE Fault /\ Move(Root, "threw")
    BY <1>6, <2>1, <2>2 DEF Fault
  <2>3. CASE ~(Fault /\ Move(Root, "threw"))
    <3>1. PICK s \in {"completed", "failed"} : Write(Root, s) /\ Move(Root, "returned")
      BY <1>10, <2>3 DEF Closed
    <3> QED BY <1>7, <1>10, <3>1
  <2> QED BY <2>2, <2>3
<1> QED BY <1>3, <1>8, <1>9, <1>10

LEMMA DInvInit == Init => DInv
BY Ids DEF Init, TaskInit, DInv, NothingDispatched, RootRow, CoordRow, SubRow

LEMMA DInvNext ==
  ASSUME OInv, DInv, [Next]_allVars
  PROVE  DInv' /\ [FlowMoves]_allVars
<1>1. CASE Coordinate \/ Parallel \/ RootRecorded \/ PlanParsed \/ ParentRecorded
  BY <1>1, BeginMoves
<1>2. CASE SubRecorded
  BY <1>2, SubRecordedMoves
<1>3. CASE AllSettled \/ Collected \/ Merged \/ Closed
  BY <1>3, EndMoves
<1>4. CASE CoordStep \/ \E t \in SubIds : SubMarked(t) \/ SubSettles(t)
  BY <1>4, TaskMoves
<1>5. CASE UNCHANGED <<row, at, flow, plan, next>>
  <2>1. NothingDispatched' /\ RootRow' /\ CoordRow'
    BY <1>5 DEF DInv, NothingDispatched, RootRow, CoordRow
  <2>2. SubRow'
    BY <1>5 DEF DInv, SubRow, Different, Planned, Of
  <2>3. FlowMoves
    BY <1>5 DEF FlowMoves, Moves, orVars
  <2> QED BY <2>1, <2>2, <2>3 DEF DInv
<1>6. CASE Cancellation /\ UNCHANGED <<orVars, asking>>
  BY <1>5, <1>6 DEF Cancellation, Cancel, CancelWritten, StatusCheck, orVars
<1>7. CASE \E t \in SubIds : SubAsks(t) \/ SubAnswered(t)
  BY <1>5, <1>7 DEF SubAsks, SubAnswered, taskVars, orVars
<1>8. CASE UNCHANGED allVars
  BY <1>5, <1>8 DEF allVars, taskVars, orVars
<1> QED BY <1>1, <1>2, <1>3, <1>4, <1>6, <1>7, <1>8 DEF Next, FlowStep

LEMMA DInvAlways == Spec => [](OInv /\ DInv)
<1>1. Init => OInv /\ DInv
  BY OInvInit, DInvInit
<1>2. OInv /\ DInv /\ [Next]_allVars => (OInv /\ DInv)'
  BY OInvNext, DInvNext
<1> QED BY <1>1, <1>2, PTL DEF Spec

\* Places and rows of the workflow, its coordinator and its subtasks only move on: a
\* final status is never overwritten, and a step that moves nobody and is no
\* cancellation records or collects the next subtask, whatever is cancelled and
\* whichever queries fail (orchestrator.ts:161-285, 405-418).
THEOREM FlowOnlyMovesOn == Spec => FlowMovesOn
<1>1. OInv /\ DInv /\ [Next]_allVars => [FlowMoves]_allVars
  BY DInvNext
<1>2. FlowMoves =>
        /\ \A t \in Rows :
             /\ at'[t] # at[t] => Left(at'[t]) < Left(at[t])
             /\ row'[t] # row[t] => Reached(row'[t]) > Reached(row[t])
        /\ at' = at => next' = next + 1 \/ UNCHANGED <<row, orVars>>
  BY DEF FlowMoves, Moves
<1> QED BY <1>1, <1>2, DInvAlways, PTL DEF Spec, FlowMovesOn

\* A workflow never waits for a coordinator that was not started, a subtask that was
\* not set off, or a subtask beyond its plan (orchestrator.ts:180-241, 315-330).
THEOREM FlowNeverStuck == Spec => []FlowGoesOn
<1>1. ASSUME OInv, DInv PROVE FlowGoesOn
  <2>1. at[Root] = "planning" =>
          at[Coord] \in {"recording", "marking", "agent", "storing", "failing",
                         "returned", "threw"}
    BY <1>1 DEF OInv, DInv, PlaceInv, CoordRow, Places
  <2>2. at[Root] = "running" =>
          \A t \in Planned : at[t] \in {"marking", "agent", "ok", "bad"}
    BY <1>1, PlannedSubs DEF OInv, DInv, PlaceInv, SubRow, SubPlaces
  <2>3. at[Root] \in {"subs", "collecting"} => next \in 1 .. plan
    BY <1>1 DEF OInv, SubInv
  <2> QED BY <2>1, <2>2, <2>3 DEF FlowGoesOn
<1> QED BY <1>1, DInvAlways, PTL

\* A coordinated workflow never records or runs a subtask, for any plan and without
\* a single failing query: runParallel inserts the parent's row a second time
\* (orchestrator.ts:308, 177).
THEOREM CoordinatedNeverDispatches == Spec => []NothingDispatched
<1>1. OInv /\ DInv => NothingDispatched
  BY DEF DInv
<1> QED BY <1>1, DInvAlways, PTL
================================================================================
