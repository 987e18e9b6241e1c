--------------------------- MODULE AgentRunnerProofs ---------------------------
(***************************************************************************)
(* What holds of a run for any limits, any requests and any number of tool *)
(* calls in them.                                                          *)
(***************************************************************************)
EXTENDS AgentRunner, FiniteSetTheorems, WellFoundedInduction, TLAPS

LEMMA Limits ==
  /\ MinHardLimit \in Nat \ {0} /\ MaxConcurrency \in Nat \ {0}
  /\ MaxErrors \in Nat /\ MaxCompactions \in Nat /\ MaxContinuations \in Nat
BY ARAssumption

LEMMA HardLimitType ==
  ASSUME settings.maxTurns \in TurnLimits PROVE HardLimit \in Nat \ {0}
<1>1. settings.maxTurns \in Int
  <2>1. TurnLimits \subseteq Nat \cup {Unlimited}
    BY ARAssumption
  <2>2. settings.maxTurns \in Nat \/ settings.maxTurns = Unlimited
    BY <2>1
  <2> QED BY <2>2 DEF Unlimited
<1> DEFINE n == settings.maxTurns
<1>2. n * 3 \in Int
  BY <1>1
<1> QED BY <1>2, Limits DEF HardLimit

-----------------------------------------------------------------------------
(* Types and turns.                                                        *)

Trying == place \in {"primary", "fallback", "compacting", "backoff"}

TurnInv ==
  /\ ~Limited => turn = 0
  /\ Limited /\ Trying => turn >= 1
  /\ place # "tools" /\ place # "threw" =>
       later = {} /\ todo = {} /\ inflight = {} /\ answered = Calls(request)
  /\ place = "tools" => later \cup todo \cup inflight \cup answered = Calls(request)

TInv == TypeOK /\ TurnInv

LEMMA TInvInit == Init => TInv
<1> SUFFICES ASSUME Init PROVE TInv
  OBVIOUS
<1>1. HardLimit \in Nat
  BY HardLimitType DEF Init
<1>2. Calls(NoRequest) = {}
  BY DEF Calls, NoRequest
<1>3. TypeOK
  <2>1. turn <= HardLimit + 1
    BY <1>1 DEF Init
  <2>2. 0 \in 0 .. MaxErrors /\ 0 \in 0 .. MaxCompactions
        /\ 0 \in 0 .. MaxContinuations + 1
    BY Limits
  <2>3. later \cup todo \cup inflight \cup answered \subseteq Calls(request)
    BY DEF Init
  <2>4. failure \in Failures /\ place \in Places
    BY DEF Init, Failures, Places
  <2> QED BY <2>1, <2>2, <2>3, <2>4 DEF Init, TypeOK
<1>4. TurnInv
  BY <1>2 DEF Init, TurnInv, Trying
<1> QED BY <1>3, <1>4 DEF TInv

\* What a started batch leaves.
LEMMA StartBatchFacts ==
  ASSUME NEW rest, NEW r, StartBatch(rest, r)
  PROVE  later' \cup todo' \cup inflight' = rest
BY DEF StartBatch, IsBatch

LEMMA NextCallFacts ==
  ASSUME NEW c \in inflight, NextCall(c)
  PROVE  /\ later' = later
         /\ todo' \subseteq todo /\ inflight' \subseteq inflight \cup todo
         /\ todo' \cup inflight' \cup {c} = todo \cup inflight
BY DEF NextCall

LEMMA TInvNext == TInv /\ [Next]_vars => TInv'
<1> SUFFICES ASSUME TInv, [Next]_vars PROVE TInv'
  OBVIOUS
<1> USE Limits DEF Places, TInv
<1>1. HardLimit \in Nat \ {0}
  BY HardLimitType DEF TypeOK
<1>2. settings' = settings
  BY DEF Next, vars, Abort, RunnerStep, Cancelled, OutOfTurns, CallModel, FallBack,
     CallFails, Compacted, Backoff, Complete, CutOff, Answered, ToolCalls, BatchEnds,
     Managed, CallEnds
<1>3. HardLimit' = HardLimit /\ Limited' = Limited
  BY <1>2 DEF HardLimit, Limited
<1>4. Calls(NoRequest) = {}
  BY DEF Calls, NoRequest
<1>5. CASE UNCHANGED vars
  BY <1>3, <1>5 DEF vars, callVars, toolVars, TypeOK, TurnInv, Trying
<1>6. CASE Abort \/ Cancelled \/ OutOfTurns \/ Managed
  BY <1>2, <1>3, <1>6 DEF Abort, Ended, Cancelled, OutOfTurns, Managed, callVars,
     toolVars, TypeOK, TurnInv, Trying
<1>7. CASE CallModel
  <2>1. turn' \in Nat /\ modelCalls' \in Nat
    BY <1>7 DEF CallModel, Count, TypeOK
  <2>2. turn' <= HardLimit + 1
    BY <1>1, <1>7 DEF CallModel, Count, TurnInv, TypeOK
  <2> QED BY <1>2, <1>3, <1>7, <2>1, <2>2 DEF CallModel, Count, callVars, toolVars,
        TypeOK, TurnInv, Trying
<1>8. CASE FallBack
  BY <1>2, <1>3, <1>8 DEF FallBack, Count, toolVars, TypeOK, TurnInv, Trying
<1>9. CASE CallFails
  <2>1. /\ UNCHANGED <<settings, aborted, turn, usingFallback, continuations, toolVars,
                       modelCalls>>
        /\ Trying /\ place # "tools" /\ place # "threw"
        /\ failure' \in Failures
    BY <1>9 DEF CallFails, Streaming, Trying, TypeOK
  <2>2. errors' \in 0 .. MaxErrors /\ compactions' \in 0 .. MaxCompactions
        /\ place' \in {"compacting", "backoff", "returned"}
    BY <1>9 DEF CallFails, Classify, TypeOK
  <2> QED BY <1>3, <2>1, <2>2 DEF toolVars, TypeOK, TurnInv, Trying
<1>10. CASE Compacted
  <2>1. errors' \in 0 .. MaxErrors /\ place' \in {"top", "backoff", "returned"}
    BY <1>10 DEF Compacted, Classify, TypeOK
  <2> QED BY <1>3, <1>10, <2>1 DEF Compacted, toolVars, TypeOK, TurnInv, Trying
<1>11. CASE Backoff
  <2>1. turn' \in Nat /\ turn' <= HardLimit + 1
    BY <1>1, <1>11 DEF Backoff, TypeOK, TurnInv, Trying
  <2> QED BY <1>2, <1>3, <1>11, <2>1 DEF Backoff, callVars, toolVars, TypeOK, TurnInv,
        Trying
<1>12. CASE Complete \/ CutOff
  <2>1. /\ Answered /\ NoTools /\ place' \in {"returned", "managing", "top"}
        /\ place \in {"primary", "fallback"}
    BY <1>12 DEF Complete, CutOff, TextOrNothing, Answered, Streaming
  <2>2. continuations' \in 0 .. MaxContinuations + 1
    BY <1>12 DEF Complete, CutOff, Least, TypeOK
  <2>3. errors' \in 0 .. MaxErrors
    BY <2>1 DEF Answered
  <2> QED BY <1>3, <1>4, <2>1, <2>2, <2>3 DEF Answered, NoTools, TypeOK, TurnInv, Trying
<1>13. CASE ToolCalls
  <2>1. PICK r \in Requests : request' = r /\ StartBatch(Calls(r), r)
    BY <1>13 DEF ToolCalls
  <2>2. later' \cup todo' \cup inflight' = Calls(request')
    BY <2>1, StartBatchFacts
  <2>3. /\ Answered /\ answered' = {} /\ throwing' = FALSE /\ place' = "tools"
        /\ continuations' = 0
    BY <1>13 DEF ToolCalls
  <2>4. errors' \in 0 .. MaxErrors /\ continuations' \in 0 .. MaxContinuations + 1
    BY <2>3 DEF Answered
  <2>5. /\ UNCHANGED <<settings, aborted, turn, usingFallback, failure, compactions,
                       modelCalls>>
    BY <2>3 DEF Answered
  <2> QED BY <1>3, <2>1, <2>2, <2>3, <2>4, <2>5 DEF TypeOK, TurnInv, Trying
<1>14. CASE BatchEnds
  <2>1. /\ UNCHANGED <<settings, aborted, turn, callVars, request, answered, throwing,
                       modelCalls>>
        /\ place = "tools" /\ inflight = {} /\ todo = {}
    BY <1>14 DEF BatchEnds
  <2>2. CASE later # {} /\ place' = place /\ StartBatch(later, request)
    <3>1. later' \cup todo' \cup inflight' = later
      BY <2>2, StartBatchFacts
    <3> QED BY <1>3, <2>1, <2>2, <3>1 DEF callVars, TypeOK, TurnInv, Trying
  <2>3. CASE /\ UNCHANGED <<later, todo, inflight>>
             /\ place' = "threw" \/ (place' = "managing" /\ later = {})
    BY <1>3, <2>1, <2>3 DEF callVars, TypeOK, TurnInv, Trying
  <2> QED BY <1>14, <2>2, <2>3 DEF BatchEnds
<1>15. ASSUME NEW c \in CallIds, CallEnds(c) PROVE TInv'
  <2>1. /\ c \in inflight /\ NextCall(c)
        /\ UNCHANGED <<settings, aborted, place, turn, callVars, request, modelCalls>>
        /\ place = "tools" /\ answered' = answered \cup {c} /\ throwing' \in BOOLEAN
    BY <1>15 DEF CallEnds, TypeOK
  <2>2. later' \cup todo' \cup inflight' \cup answered' = Calls(request')
    BY <2>1, NextCallFacts DEF TurnInv
  <2> QED BY <1>3, <2>1, <2>2 DEF callVars, TypeOK, TurnInv, Trying
<1> QED BY <1>5, <1>6, <1>7, <1>8, <1>9, <1>10, <1>11, <1>12, <1>13, <1>14, <1>15
        DEF Next, RunnerStep

\* Types hold, and with them the bound on the turns, for any limits.
THEOREM TypeCorrect == Spec => []TypeOK
<1>1. TInv => TypeOK
  BY DEF TInv
<1> QED BY <1>1, TInvInit, TInvNext, PTL DEF Spec

\* No tool call is ever left open when the model is called.
THEOREM AnsweredBeforeNextCall == Spec => []NoOpenToolCall
<1>1. TInv => NoOpenToolCall
  BY DEF TInv, TurnInv, NoOpenToolCall
<1> QED BY <1>1, TInvInit, TInvNext, PTL DEF Spec

\* A cancelled run calls the model no more, but for the one switch.
THEOREM CancelledCallsNoMore == Spec => NoCallAfterAbort
<1>1. [Next]_vars => (aborted /\ place' \in {"primary", "fallback"} /\ place' # place
                        => place = "primary")
  <2> SUFFICES ASSUME [Next]_vars, aborted, place' \in {"primary", "fallback"},
                      place' # place
               PROVE  place = "primary"
    OBVIOUS
  <2>1. ~CallModel
    BY DEF CallModel
  <2>2. place' # place /\ Next
    BY DEF vars
  <2>3. \/ FallBack
    BY <2>1, <2>2 DEF Next, RunnerStep, Abort, Cancelled, OutOfTurns, CallFails, Classify,
       Compacted, Backoff, Complete, CutOff, TextOrNothing, ToolCalls, BatchEnds, Managed,
       CallEnds
  <2> QED BY <2>3 DEF FallBack
<1> QED BY <1>1, PTL DEF Spec, NoCallAfterAbort

-----------------------------------------------------------------------------
(* The number of model calls.                                              *)

\* What n turns allow, without the switch.
Allowed(n) == n * (MaxErrors + 1)

Switches == IF usingFallback THEN 1 ELSE 0

LEMMA AllowedFacts ==
  /\ \A n \in Nat : Allowed(n) \in Nat /\ Allowed(n + 1) = Allowed(n) + MaxErrors + 1
  /\ \A m, n \in Nat : m <= n => Allowed(m) <= Allowed(n)
<1> DEFINE k == MaxErrors + 1
<1>1. k \in Nat
  BY Limits
<1> HIDE DEF k
<1>2. \A n \in Nat : n * k \in Nat /\ (n + 1) * k = n * k + k
  BY <1>1
<1>3. \A m, n \in Nat : m <= n => m * k <= n * k
  BY <1>1
<1>4. \A n : Allowed(n) = n * k
  BY DEF Allowed, k
<1>5. \A n \in Nat : Allowed(n) \in Nat /\ Allowed(n + 1) = Allowed(n) + k
  BY <1>2, <1>4
<1>6. \A n \in Nat : Allowed(n) + k = Allowed(n) + MaxErrors + 1
  BY <1>5, Limits DEF k
<1> QED BY <1>3, <1>4, <1>5, <1>6

\* The retries of a turn are counted by errors, those of an earlier one by the
\* turns.
CallsInv ==
  Limited =>
    /\ place \in {"primary", "fallback", "compacting"} =>
         modelCalls <= Allowed(turn - 1) + errors + 1 + Switches
    /\ place = "backoff" => modelCalls <= Allowed(turn - 1) + errors + Switches
    /\ place = "top" => modelCalls <= Allowed(turn) + errors + Switches
    /\ place = "top" /\ turn > HardLimit => modelCalls <= Allowed(turn) + Switches
    /\ place \in {"tools", "managing"} => modelCalls <= Allowed(turn) + Switches
    /\ Ended => modelCalls <= Allowed(HardLimit + 1) + 1

\* In every place the bound holds.
LEMMA CallsInvBound == TInv /\ CallsInv => ModelCallsBounded
<1> SUFFICES ASSUME TInv, CallsInv, Limited
             PROVE  modelCalls <= Allowed(HardLimit + 1) + 1
  BY DEF ModelCallsBounded, Allowed
<1>1. /\ HardLimit \in Nat /\ turn \in Nat /\ turn <= HardLimit + 1 /\ errors \in Nat
      /\ errors <= MaxErrors /\ modelCalls \in Nat /\ place \in Places
  BY HardLimitType, Limits DEF TInv, TypeOK
<1>2. Switches \in {0, 1}
  BY DEF Switches
<1>3. CASE Trying
  <2>1. turn - 1 \in Nat /\ turn - 1 <= HardLimit
    BY <1>1, <1>3 DEF TInv, TurnInv
  <2>2. Allowed(turn - 1) \in Nat /\ Allowed(turn - 1) <= Allowed(HardLimit)
    BY <1>1, <2>1, AllowedFacts
  <2>3. Allowed(HardLimit) \in Nat
        /\ Allowed(HardLimit + 1) = Allowed(HardLimit) + MaxErrors + 1
    BY <1>1, AllowedFacts
  <2>4. modelCalls <= Allowed(turn - 1) + errors + 1 + Switches
    BY <1>1, <1>2, <1>3, <2>2 DEF CallsInv, Trying
  <2> QED BY <1>1, <1>2, <2>2, <2>3, <2>4, Limits
<1>4. CASE place = "top" /\ turn <= HardLimit
  <2>1. Allowed(turn) \in Nat /\ Allowed(turn) <= Allowed(HardLimit)
    BY <1>1, <1>4, AllowedFacts
  <2>2. Allowed(HardLimit) \in Nat
        /\ Allowed(HardLimit + 1) = Allowed(HardLimit) + MaxErrors + 1
    BY <1>1, AllowedFacts
  <2> QED BY <1>1, <1>2, <1>4, <2>1, <2>2, Limits DEF CallsInv
<1>5. CASE place \in {"tools", "managing"} \/ (place = "top" /\ turn > HardLimit)
  <2>1. /\ Allowed(turn) \in Nat /\ Allowed(HardLimit + 1) \in Nat
        /\ Allowed(turn) <= Allowed(HardLimit + 1)
    BY <1>1, AllowedFacts
  <2> QED BY <1>1, <1>2, <1>5, <2>1 DEF CallsInv
<1> QED BY <1>1, <1>3, <1>4, <1>5 DEF CallsInv, Ended, Trying, Places

LEMMA CallsInvNext == TInv /\ TInv' /\ CallsInv /\ [Next]_vars => CallsInv'
<1> SUFFICES ASSUME TInv, TInv', CallsInv, [Next]_vars, Limited'
             PROVE  CallsInv'
  BY DEF CallsInv
<1>1. settings' = settings
  BY DEF Next, vars, Abort, RunnerStep, Cancelled, OutOfTurns, CallModel, FallBack,
     CallFails, Compacted, Backoff, Complete, CutOff, Answered, ToolCalls, BatchEnds,
     Managed, CallEnds
<1>2. HardLimit' = HardLimit /\ Limited
  BY <1>1 DEF HardLimit, Limited
<1>3. /\ HardLimit \in Nat /\ turn \in Nat /\ turn <= HardLimit + 1 /\ errors \in Nat
      /\ errors <= MaxErrors /\ modelCalls \in Nat /\ place \in Places
      /\ Switches \in {0, 1} /\ errors' \in Nat
      /\ \A n : Allowed(n)' = Allowed(n)
  BY HardLimitType, Limits DEF TInv, TypeOK, Switches, Allowed
<1>4. modelCalls <= Allowed(HardLimit + 1) + 1
  BY <1>2, CallsInvBound DEF ModelCallsBounded, Allowed
<1>5. ASSUME modelCalls' = modelCalls, place' \in {"returned", "threw"}
      PROVE  CallsInv'
  BY <1>2, <1>3, <1>4, <1>5 DEF CallsInv, Ended
<1>6. Trying => /\ turn - 1 \in Nat /\ Allowed(turn - 1) \in Nat
                /\ Allowed(turn) = Allowed(turn - 1) + MaxErrors + 1
  <2> SUFFICES ASSUME Trying
               PROVE  /\ turn - 1 \in Nat /\ Allowed(turn - 1) \in Nat
                      /\ Allowed(turn) = Allowed(turn - 1) + MaxErrors + 1
    OBVIOUS
  <2>1. turn - 1 \in Nat
    BY <1>2, <1>3 DEF TInv, TurnInv
  <2>2. /\ Allowed(turn - 1) \in Nat
        /\ Allowed((turn - 1) + 1) = Allowed(turn - 1) + MaxErrors + 1
    BY <2>1, AllowedFacts
  <2>3. (turn - 1) + 1 = turn
    BY <1>3
  <2> QED BY <2>1, <2>2, <2>3
<1>7. Allowed(turn) \in Nat
  BY <1>3, AllowedFacts
<1> USE DEF Trying, Ended
<1>8. CASE UNCHANGED <<place, turn, usingFallback, errors, modelCalls>>
  BY <1>2, <1>3, <1>8 DEF CallsInv, Switches
<1>9. CASE Cancelled \/ OutOfTurns
  BY <1>5, <1>9 DEF Cancelled, OutOfTurns
<1>10. CASE CallModel
  <2>1. /\ place = "top" /\ turn <= HardLimit /\ turn' = turn + 1 /\ place' = "primary"
        /\ modelCalls' = modelCalls + 1 /\ UNCHANGED <<usingFallback, errors>>
    BY <1>2, <1>10 DEF CallModel, Count, callVars
  <2>2. turn' - 1 = turn /\ Switches' = Switches
    BY <1>3, <2>1 DEF Switches
  <2>3. modelCalls <= Allowed(turn) + errors + Switches
    BY <1>2, <2>1 DEF CallsInv
  <2>4. modelCalls' <= Allowed(turn) + errors + 1 + Switches
    BY <1>3, <1>7, <2>1, <2>3
  <2> QED BY <1>2, <1>3, <2>1, <2>2, <2>4 DEF CallsInv
<1>11. CASE FallBack
  <2>1. /\ place = "primary" /\ ~usingFallback /\ usingFallback' /\ place' = "fallback"
        /\ modelCalls' = modelCalls + 1 /\ UNCHANGED <<turn, errors>>
    BY <1>2, <1>11 DEF FallBack, Count
  <2>2. Switches = 0 /\ Switches' = 1
    BY <2>1 DEF Switches
  <2>3. modelCalls <= Allowed(turn - 1) + errors + 1
    BY <1>2, <1>3, <1>6, <2>1, <2>2 DEF CallsInv
  <2>4. modelCalls' <= Allowed(turn - 1) + errors + 1 + 1
    BY <1>3, <1>6, <2>1, <2>3
  <2> QED BY <1>2, <1>3, <2>1, <2>2, <2>4 DEF CallsInv
<1>12. CASE CallFails \/ Compacted
  <2>1. /\ UNCHANGED <<turn, usingFallback, modelCalls>> /\ Switches' = Switches
        /\ place \in {"primary", "fallback", "compacting"}
    BY <1>12 DEF CallFails, Compacted, Streaming, Switches
  <2>2. modelCalls <= Allowed(turn - 1) + errors + 1 + Switches
    BY <1>2, <2>1 DEF CallsInv
  <2>3. CASE place' = "returned"
    BY <1>5, <2>1, <2>3
  <2>4. CASE place' = "compacting" /\ errors' = errors
    BY <1>2, <1>3, <2>1, <2>2, <2>4 DEF CallsInv
  <2>5. CASE place' = "backoff" /\ errors' = errors + 1
    <3>1. modelCalls' <= Allowed(turn - 1) + errors' + Switches
      BY <1>3, <1>6, <2>1, <2>2, <2>5
    <3> QED BY <1>2, <1>3, <2>1, <2>5, <3>1 DEF CallsInv
  <2>6. CASE place' = "top" /\ errors' = errors
    <3>1. modelCalls <= Allowed(turn) + Switches
      BY <1>3, <1>6, <2>1, <2>2, Limits
    <3>2. modelCalls <= Allowed(turn) + errors + Switches
      BY <1>3, <1>7, <3>1
    <3> QED BY <1>2, <1>3, <2>1, <2>6, <3>1, <3>2 DEF CallsInv
  <2> QED BY <1>12, <2>3, <2>4, <2>5, <2>6 DEF CallFails, Compacted, Classify
<1>13. CASE Backoff
  <2>1. /\ UNCHANGED <<errors, usingFallback, modelCalls>> /\ Switches' = Switches
        /\ place = "backoff" /\ place' = "top" /\ turn' = turn - 1
    BY <1>2, <1>13 DEF Backoff, callVars, Switches
  <2>2. modelCalls <= Allowed(turn - 1) + errors + Switches
    BY <1>2, <2>1 DEF CallsInv
  <2>3. ~(turn' > HardLimit)
    BY <1>3, <2>1
  <2> QED BY <1>2, <1>3, <2>1, <2>2, <2>3 DEF CallsInv
<1>14. CASE Complete \/ CutOff \/ ToolCalls
  <2>1. /\ UNCHANGED <<turn, usingFallback, modelCalls>> /\ Switches' = Switches
        /\ errors' = 0 /\ place \in {"primary", "fallback"}
        /\ place' \in {"returned", "managing", "top", "tools"}
    BY <1>14 DEF Complete, CutOff, ToolCalls, TextOrNothing, Answered, Streaming, Switches
  <2>2. modelCalls <= Allowed(turn - 1) + errors + 1 + Switches
    BY <1>2, <2>1 DEF CallsInv
  <2>3. modelCalls <= Allowed(turn) + Switches
    BY <1>3, <1>6, <2>1, <2>2, Limits
  <2>4. modelCalls <= Allowed(turn) + errors' + Switches
    BY <1>3, <1>7, <2>1, <2>3
  <2>5. CASE place' = "returned"
    BY <1>5, <2>1, <2>5
  <2> QED BY <1>2, <1>3, <2>1, <2>3, <2>4, <2>5 DEF CallsInv
<1>15. CASE BatchEnds
  <2>1. /\ UNCHANGED <<turn, usingFallback, errors, modelCalls>> /\ Switches' = Switches
        /\ place = "tools" /\ place' \in {"threw", "tools", "managing"}
    BY <1>15 DEF BatchEnds, callVars, Switches
  <2>2. CASE place' = "threw"
    BY <1>5, <2>1, <2>2
  <2> QED BY <1>2, <1>3, <2>1, <2>2 DEF CallsInv
<1>16. CASE Managed
  <2>1. /\ UNCHANGED <<turn, usingFallback, errors, modelCalls>> /\ Switches' = Switches
        /\ place = "managing" /\ place' \in {"returned", "top"}
    BY <1>16 DEF Managed, callVars, Switches
  <2>2. modelCalls <= Allowed(turn) + Switches
    BY <1>2, <2>1 DEF CallsInv
  <2>3. modelCalls <= Allowed(turn) + errors + Switches
    BY <1>3, <1>7, <2>2
  <2>4. CASE place' = "returned"
    BY <1>5, <2>1, <2>4
  <2> QED BY <1>2, <1>3, <2>1, <2>2, <2>3, <2>4 DEF CallsInv
<1>17. ASSUME NEW c \in CallIds, CallEnds(c) PROVE CallsInv'
  BY <1>8, <1>17 DEF CallEnds, callVars
<1>18. CASE Abort \/ UNCHANGED vars
  BY <1>8, <1>18 DEF Abort, vars, callVars
<1> QED BY <1>9, <1>10, <1>11, <1>12, <1>13, <1>14, <1>15, <1>16, <1>17, <1>18
        DEF Next, RunnerStep

\* A run with limited turns makes a bounded number of model calls, for any limits,
\* however its calls fail.
THEOREM CallsAreBounded == Spec => []ModelCallsBounded
<1>1. Init => CallsInv
  <2> SUFFICES ASSUME Init PROVE CallsInv
    OBVIOUS
  <2>1. Allowed(0) \in Nat /\ Switches = 0 /\ errors = 0 /\ turn = 0 /\ modelCalls = 0
    BY AllowedFacts DEF Init, Switches
  <2> QED BY <2>1 DEF Init, CallsInv, Ended
<1> QED BY <1>1, TInvInit, TInvNext, CallsInvNext, CallsInvBound, PTL DEF Spec

-----------------------------------------------------------------------------
(* The order of the tool calls.                                            *)

\* The batch that runs lies before the ones to come; an unsafe call is one.
OrderInv ==
  place = "tools" =>
    /\ todo \cap inflight = {} /\ (todo \cup inflight) \cap later = {}
    /\ answered \cap (todo \cup inflight \cup later) = {}
    /\ \A c \in todo \cup inflight : \A b \in later : c < b
    /\ \A c \in todo \cup inflight : Alone(request, c) => todo = {} /\ inflight = {c}

LEMMA BatchFacts ==
  ASSUME NEW rest, NEW r, StartBatch(rest, r)
  PROVE  /\ todo' \cap inflight' = {} /\ (todo' \cup inflight') \cap later' = {}
         /\ \A c \in todo' \cup inflight' : \A b \in later' : c < b
         /\ \A c \in todo' \cup inflight' :
              Alone(r, c) => todo' = {} /\ inflight' = {c}
<1>1. PICK S \in SUBSET rest, first \in SUBSET rest :
        /\ IsBatch(S, rest, r)
        /\ first \subseteq S /\ Claims(first, S, MaxConcurrency)
        /\ later' = rest \ S /\ inflight' = first /\ todo' = S \ first
  BY DEF StartBatch
<1>2. ASSUME NEW c \in S, Alone(r, c) PROVE S \ first = {} /\ first = {c}
  <2>1. S = {c}
    BY <1>1, <1>2 DEF IsBatch
  <2>2. Cardinality(S) = 1
    BY <2>1, FS_Singleton
  <2>3. Cardinality(first) = 1
    BY <1>1, <2>2, Limits DEF Claims, Least
  <2>4. first # {}
    BY <2>3, FS_EmptySet
  <2> QED BY <1>1, <2>1, <2>4
<1> QED BY <1>1, <1>2 DEF IsBatch

LEMMA CallsAreNumbers ==
  ASSUME TypeOK PROVE Calls(request) \subseteq Nat
<1>1. request.count \in Nat
  BY ARAssumption DEF TypeOK, NoRequest
<1> QED BY <1>1 DEF Calls

LEMMA OrderInvNext == TInv /\ OrderInv /\ [Next]_vars => OrderInv'
<1> SUFFICES ASSUME TInv, OrderInv, [Next]_vars, place' = "tools" PROVE OrderInv'
  BY DEF OrderInv
<1> USE DEF TInv
<1>1. UNCHANGED settings
  BY DEF Next, vars, Abort, RunnerStep, Cancelled, OutOfTurns, CallModel, FallBack,
     CallFails, Compacted, Backoff, Complete, CutOff, Answered, ToolCalls, BatchEnds,
     Managed, CallEnds
<1>2. CASE Abort \/ UNCHANGED vars
  BY <1>2 DEF Abort, vars, toolVars, OrderInv, Alone
<1>3. CASE ToolCalls
  <2>1. PICK r \in Requests : request' = r /\ StartBatch(Calls(r), r)
    BY <1>3 DEF ToolCalls
  <2>2. answered' = {}
    BY <1>3 DEF ToolCalls
  <2> QED BY <1>1, <2>1, <2>2, BatchFacts DEF OrderInv, Alone
<1>4. CASE BatchEnds
  <2>1. /\ StartBatch(later, request) /\ UNCHANGED <<request, answered>>
        /\ place = "tools"
    BY <1>4 DEF BatchEnds
  <2>2. answered \cap later = {}
    BY <2>1 DEF OrderInv
  <2>3. later' \cup todo' \cup inflight' = later
    BY <2>1, StartBatchFacts
  <2> QED BY <1>1, <2>1, <2>2, <2>3, BatchFacts DEF OrderInv, Alone
<1>5. ASSUME NEW c \in CallIds, CallEnds(c) PROVE OrderInv'
  <2>1. /\ place = "tools" /\ c \in inflight /\ answered' = answered \cup {c}
        /\ NextCall(c) /\ UNCHANGED request
    BY <1>5 DEF CallEnds
  <2>2. CASE todo = {} /\ inflight' = inflight \ {c} /\ UNCHANGED <<todo, later>>
    BY <1>1, <2>1, <2>2 DEF OrderInv, Alone
  <2>3. CASE \E b \in todo : /\ inflight' = (inflight \ {c}) \cup {b}
                             /\ todo' = todo \ {b} /\ UNCHANGED later
    BY <1>1, <2>1, <2>3 DEF OrderInv, Alone
  <2> QED BY <2>1, <2>2, <2>3 DEF NextCall
<1>6. ~(\/ Cancelled \/ OutOfTurns \/ CallModel \/ FallBack \/ CallFails \/ Compacted
        \/ Backoff \/ Complete \/ CutOff \/ Managed)
  BY DEF Cancelled, OutOfTurns, CallModel, FallBack, CallFails, Classify, Compacted,
     Backoff, Complete, CutOff, TextOrNothing, Managed
<1> QED BY <1>2, <1>3, <1>4, <1>5, <1>6 DEF Next, RunnerStep

\* Who starts a batch has an answer for every call before it.
LEMMA BatchInOrder ==
  ASSUME NEW r, NEW done, NEW rest, StartBatch(rest, r),
         rest \cap done = {}, Calls(r) \subseteq rest \cup done,
         Calls(r) \subseteq Nat, rest \subseteq Nat,
         NEW c \in inflight'
  PROVE  /\ c \notin done
         /\ \A b \in Calls(r) : b < c /\ (Alone(r, b) \/ Alone(r, c)) => b \in done
         /\ Alone(r, c) => inflight' = {c}
<1>1. c \in rest
  BY StartBatchFacts
<1>2. ASSUME NEW b \in Calls(r), b < c, Alone(r, b) \/ Alone(r, c), b \notin done
      PROVE  FALSE
  <2>1. b \in rest /\ b \in Nat /\ c \in Nat
    BY <1>1, <1>2
  <2>2. b \notin later'
    BY <1>2, <2>1, BatchFacts
  <2>3. b \in todo' \cup inflight'
    BY <2>1, <2>2, StartBatchFacts
  <2>4. b = c
    BY <1>2, <2>3, BatchFacts
  <2> QED BY <1>2, <2>1, <2>4
<1> QED BY <1>1, <1>2, BatchFacts

\* For any requests and any limit, tool calls start once and in order, and an
\* unsafe one runs alone.
THEOREM ToolsKeepOrder == Spec => ToolsInOrder
<1>1. TInv /\ TInv' /\ OrderInv /\ [Next]_vars =>
        [\A c \in inflight' \ inflight :
           /\ c \notin answered'
           /\ \A b \in Calls(request') :
                b < c /\ (Alone(request', b) \/ Alone(request', c)) => b \in answered'
           /\ Alone(request', c) => inflight' = {c}]_vars
  <2> SUFFICES ASSUME TInv, TInv', OrderInv, [Next]_vars,
                      NEW c \in inflight' \ inflight
               PROVE  /\ c \notin answered'
                      /\ \A b \in Calls(request') :
                           b < c /\ (Alone(request', b) \/ Alone(request', c))
                             => b \in answered'
                      /\ Alone(request', c) => inflight' = {c}
    OBVIOUS
  <2> USE DEF TInv
  <2>1. ToolCalls \/ BatchEnds \/ \E d \in CallIds : CallEnds(d)
    BY DEF Next, vars, Abort, RunnerStep, Cancelled, OutOfTurns, CallModel, FallBack,
       CallFails, Compacted, Backoff, Complete, CutOff, NoTools, Managed, toolVars
  <2>2. Calls(request') \subseteq Nat
    <3>1. request'.count \in Nat
      BY ARAssumption DEF TypeOK, NoRequest
    <3> QED BY <3>1 DEF Calls
  <2>3. CASE ToolCalls
    <3>1. StartBatch(Calls(request'), request') /\ answered' = {}
      BY <2>3 DEF ToolCalls
    <3> QED BY <2>2, <3>1, BatchInOrder
  <2>4. CASE BatchEnds
    <3>1. /\ StartBatch(later, request) /\ UNCHANGED <<request, answered>>
          /\ place = "tools" /\ inflight = {} /\ todo = {}
      BY <2>4 DEF BatchEnds
    <3>2. later \cap answered = {} /\ Calls(request) = later \cup answered
      BY <3>1 DEF OrderInv, TurnInv
    <3> QED BY <2>2, <3>1, <3>2, BatchInOrder
  <2>5. ASSUME NEW d \in CallIds, CallEnds(d)
        PROVE  /\ c \notin answered'
               /\ \A b \in Calls(request') :
                    b < c /\ (Alone(request', b) \/ Alone(request', c))
                      => b \in answered'
               /\ Alone(request', c) => inflight' = {c}
    <3>1. /\ place = "tools" /\ d \in inflight /\ answered' = answered \cup {d}
          /\ NextCall(d) /\ UNCHANGED <<request, settings>>
      BY <2>5 DEF CallEnds
    <3>2. c \in todo /\ inflight # {}
      BY <3>1 DEF NextCall
    <3>3. c \notin answered' /\ ~Alone(request, c)
      BY <3>1, <3>2 DEF OrderInv
    <3>4. ASSUME NEW b \in Calls(request), b < c, Alone(request, b) PROVE b \in answered
      <4>1. b \in Nat /\ c \in Nat
        BY <2>2, <3>1, <3>2 DEF TypeOK
      <4>2. b \notin later
        BY <3>1, <3>2, <3>4, <4>1 DEF OrderInv
      <4>3. b \notin todo \cup inflight
        BY <3>1, <3>2, <3>4, <4>1 DEF OrderInv
      <4> QED BY <3>1, <3>4, <4>2, <4>3 DEF TurnInv
    <3> QED BY <3>1, <3>3, <3>4 DEF Alone
  <2> QED BY <2>1, <2>3, <2>4, <2>5
<1>2. Init => OrderInv
  BY DEF Init, OrderInv
<1> QED BY <1>1, <1>2, TInvInit, TInvNext, OrderInvNext, PTL DEF Spec, ToolsInOrder

-----------------------------------------------------------------------------
(* What RunEnds rests on: every step brings a run closer to its end.       *)

Stage ==
  CASE place = "primary"    -> 7
    [] place = "fallback"   -> 6
    [] place = "compacting" -> 5
    [] place = "backoff"    -> 4
    [] place = "tools"      -> 3
    [] place = "managing"   -> 2
    [] place = "top"        -> 1
    [] OTHER                -> 0

\* A call of a later batch has two steps to go, to be in the batch and to end.
CallsToGo == 2 * Cardinality(later) + Cardinality(todo \cup inflight)

\* A step of a run is a new call of the model, or the run comes to a later stage
\* of the turn, or a tool call makes progress; cancelling happens once.
RunProgresses ==
  [][Limited \/ aborted =>
       \/ ~aborted /\ aborted'
       \/ modelCalls' = modelCalls + 1
       \/ modelCalls' = modelCalls /\ Stage' < Stage
       \/ modelCalls' = modelCalls /\ Stage' = Stage /\ CallsToGo' < CallsToGo]_vars

LEMMA CallsFinite ==
  ASSUME TypeOK
  PROVE  /\ IsFiniteSet(later) /\ IsFiniteSet(todo) /\ IsFiniteSet(inflight)
         /\ CallsToGo \in Nat
<1>1. request.count \in Nat
  BY ARAssumption DEF TypeOK, NoRequest
<1>2. IsFiniteSet(Calls(request))
  BY <1>1, FS_Interval DEF Calls
<1>3. IsFiniteSet(later) /\ IsFiniteSet(todo) /\ IsFiniteSet(inflight)
  BY <1>2, FS_Subset DEF TypeOK
<1>4. Cardinality(later) \in Nat /\ Cardinality(todo \cup inflight) \in Nat
  BY <1>3, FS_Union, FS_CardinalityType
<1> QED BY <1>3, <1>4 DEF CallsToGo

\* The next batch takes its calls out of those to come.
LEMMA BatchTakesCalls ==
  ASSUME TypeOK, todo = {}, inflight = {}, StartBatch(later, request)
  PROVE  CallsToGo' < CallsToGo
<1>1. /\ later' \cup todo' \cup inflight' = later
      /\ (todo' \cup inflight') \cap later' = {}
  BY StartBatchFacts, BatchFacts
<1>2. todo' \cup inflight' # {}
  BY DEF StartBatch, IsBatch
<1> DEFINE batch == todo' \cup inflight'
           rest == later'
<1>3. later = rest \cup batch /\ rest \cap batch = {} /\ batch # {}
  BY <1>1, <1>2
<1>4. IsFiniteSet(later)
  BY CallsFinite
<1>5. IsFiniteSet(rest) /\ IsFiniteSet(batch)
  BY <1>3, <1>4, FS_Subset
<1> DEFINE k == Cardinality(rest)
           n == Cardinality(batch)
<1>6. k \in Nat /\ n \in Nat /\ n # 0
  BY <1>3, <1>5, FS_CardinalityType, FS_EmptySet
<1>7. Cardinality(rest \cap batch) = 0
  BY <1>3, FS_EmptySet
<1> HIDE DEF batch, rest
<1>8. Cardinality(rest \cup batch) = k + n - 0
  BY <1>5, <1>7, FS_Union
<1>9. CallsToGo' = 2 * k + n
  BY DEF CallsToGo, batch, rest
<1>10. Cardinality(todo \cup inflight) = 0
  BY FS_EmptySet
<1>11. CallsToGo = 2 * (k + n)
  BY <1>3, <1>6, <1>8, <1>10 DEF CallsToGo
<1> HIDE DEF k, n
<1> QED BY <1>6, <1>9, <1>11

\* A call that ends is gone, whether or not another one starts.
LEMMA CallIsDone ==
  ASSUME TypeOK, todo \cap inflight = {}, NEW c \in inflight, NextCall(c)
  PROVE  CallsToGo' < CallsToGo
<1>1. /\ later' = later
      /\ todo' \cup inflight' = (todo \cup inflight) \ {c}
  BY DEF NextCall
<1> DEFINE open == todo \cup inflight
<1>2. IsFiniteSet(open) /\ c \in open
  BY CallsFinite, FS_Union
<1>3. Cardinality(open \ {c}) = Cardinality(open) - 1
  BY <1>2, FS_RemoveElement
<1>4. Cardinality(open) \in Nat /\ Cardinality(later) \in Nat
  BY <1>2, CallsFinite, FS_CardinalityType
<1>5. CallsToGo' = 2 * Cardinality(later) + Cardinality(open \ {c})
  BY <1>1 DEF CallsToGo
<1> QED BY <1>3, <1>4, <1>5 DEF CallsToGo

\* For any limits and requests: a run with limited turns, or a cancelled one,
\* comes closer to its end with every step; with CallsAreBounded it can take
\* finitely many.
THEOREM EveryStepProgresses == Spec => RunProgresses
<1>1. TInv /\ OrderInv /\ [Next]_vars =>
        [Limited \/ aborted =>
           \/ ~aborted /\ aborted'
           \/ modelCalls' = modelCalls + 1
           \/ modelCalls' = modelCalls /\ Stage' < Stage
           \/ modelCalls' = modelCalls /\ Stage' = Stage /\ CallsToGo' < CallsToGo]_vars
  <2> SUFFICES ASSUME TInv, OrderInv, Next, Limited \/ aborted
               PROVE  \/ ~aborted /\ aborted'
                      \/ modelCalls' = modelCalls + 1
                      \/ modelCalls' = modelCalls /\ Stage' < Stage
                      \/ modelCalls' = modelCalls /\ Stage' = Stage
                         /\ CallsToGo' < CallsToGo
    OBVIOUS
  <2>1. CASE Abort
    BY <2>1 DEF Abort
  <2>2. CASE CallModel
    BY <2>2 DEF CallModel, Count
  <2>3. CASE FallBack
    BY <2>3 DEF FallBack, Count, Stage
  <2>4. CASE Cancelled \/ OutOfTurns \/ Managed
    BY <2>4 DEF Cancelled, OutOfTurns, Managed, Stage
  <2>5. CASE CallFails \/ Compacted
    <3>1. /\ modelCalls' = modelCalls
          /\ \/ /\ place \in {"primary", "fallback"}
                /\ place' \in {"compacting", "backoff", "returned"}
             \/ place = "compacting" /\ place' \in {"top", "backoff", "returned"}
      BY <2>5 DEF CallFails, Compacted, Classify, Streaming
    <3> QED BY <3>1 DEF Stage
  <2>6. CASE Backoff
    BY <2>6 DEF Backoff, Stage
  <2>7. CASE Complete \/ CutOff \/ ToolCalls
    <3>1. /\ modelCalls' = modelCalls
          /\ place \in {"primary", "fallback"}
          /\ place' \in {"returned", "managing", "top", "tools"}
      BY <2>7 DEF Complete, CutOff, ToolCalls, TextOrNothing, Answered, Streaming
    <3> QED BY <3>1 DEF Stage
  <2>8. CASE BatchEnds
    <3>1. /\ modelCalls' = modelCalls
          /\ place = "tools" /\ inflight = {} /\ todo = {}
          /\ \/ place' = place /\ StartBatch(later, request)
             \/ place' \in {"threw", "managing"}
      BY <2>8 DEF BatchEnds
    <3>2. CASE place' = place /\ StartBatch(later, request)
      <4>1. CallsToGo' < CallsToGo
        BY <3>1, <3>2, BatchTakesCalls DEF TInv
      <4>2. Stage' = Stage
        BY <3>2 DEF Stage
      <4> QED BY <3>1, <4>1, <4>2
    <3>3. CASE place' \in {"threw", "managing"}
      BY <3>1, <3>3 DEF Stage
    <3> QED BY <3>1, <3>2, <3>3
  <2>9. ASSUME NEW c \in CallIds, CallEnds(c)
        PROVE  modelCalls' = modelCalls /\ Stage' = Stage /\ CallsToGo' < CallsToGo
    <3>1. /\ c \in inflight /\ NextCall(c) /\ place = "tools"
          /\ modelCalls' = modelCalls /\ place' = place
      BY <2>9 DEF CallEnds
    <3>2. CallsToGo' < CallsToGo
      BY <3>1, CallIsDone DEF TInv, OrderInv
    <3>3. Stage' = Stage
      BY <3>1 DEF Stage
    <3> QED BY <3>1, <3>2, <3>3
  <2> QED BY <2>1, <2>2, <2>3, <2>4, <2>5, <2>6, <2>7, <2>8, <2>9 DEF Next, RunnerStep
<1>2. Init => OrderInv
  BY DEF Init, OrderInv
<1> QED BY <1>1, <1>2, TInvInit, TInvNext, OrderInvNext, PTL DEF Spec, RunProgresses

-----------------------------------------------------------------------------
(* And no run is stuck among its tools.                                    *)

LEMMA LeastOf ==
  ASSUME NEW T \in SUBSET Nat, T # {}
  PROVE  \E m \in T : \A k \in T : m <= k
<1> DEFINE R == OpToRel(<, Nat)
<1>1. \A x, y \in Nat : x < y => <<x, y>> \in R
  BY DEF OpToRel
<1>2. IsWellFoundedOn(R, Nat)
  BY NatLessThanWellFounded
<1> HIDE DEF R
<1>3. PICK m \in T : \A k \in T : <<k, m>> \notin R
  BY <1>2, WFMin
<1>4. ASSUME NEW k \in T PROVE m <= k
  <2>1. m \in Nat /\ k \in Nat
    OBVIOUS
  <2>2. ~(k < m)
    BY <1>1, <1>3, <2>1, Zenon
  <2> QED BY <2>1, <2>2
<1> QED BY <1>4

\* Some of the calls can always be claimed: the initial segments of S have every
\* size up to its own.
LEMMA SomeClaims ==
  ASSUME NEW S \in SUBSET Nat, IsFiniteSet(S), NEW limit \in Nat
  PROVE  \E first \in SUBSET S : Claims(first, S, limit)
<1> DEFINE top == Least(limit, Cardinality(S))
           Initial(F) == \A a \in F, b \in S \ F : a < b
           Has(k) == \E F \in SUBSET S : Initial(F) /\ Cardinality(F) = k
           Missing == {k \in 0 .. top : ~Has(k)}
<1>1. Cardinality(S) \in Nat
  BY FS_CardinalityType
<1>2. top \in Nat /\ top <= Cardinality(S)
  BY <1>1 DEF Least
<1> HIDE DEF top
<1>3. Missing = {}
  <2> SUFFICES ASSUME Missing # {} PROVE FALSE
    OBVIOUS
  <2>1. Missing \in SUBSET Nat
    BY <1>2
  <2> HIDE DEF Missing
  <2>2. PICK k \in Missing : \A j \in Missing : k <= j
    BY <2>1, LeastOf
  <2>3. k \in 0 .. top /\ ~Has(k)
    BY DEF Missing
  <2>4. Has(0)
    <3>1. {} \in SUBSET S /\ Initial({}) /\ Cardinality({}) = 0
      BY FS_EmptySet
    <3> QED BY <3>1
  <2>5. k # 0
    BY <2>3, <2>4
  <2>6. k - 1 \in 0 .. top /\ ~(k <= k - 1)
    BY <1>2, <2>3, <2>5
  <2>7. Has(k - 1)
    BY <2>2, <2>6 DEF Missing
  <2>8. PICK F \in SUBSET S : Initial(F) /\ Cardinality(F) = k - 1
    BY <2>7
  <2>9. IsFiniteSet(F)
    BY FS_Subset
  <2>10. S \ F # {}
    <3>1. Cardinality(F) # Cardinality(S)
      BY <1>1, <1>2, <2>3, <2>8
    <3>2. S \ F = {} => F = S
      OBVIOUS
    <3> QED BY <3>1, <3>2
  <2>11. PICK b \in S \ F : \A a \in S \ F : b <= a
    BY <2>10, LeastOf
  <2>12. Cardinality(F \cup {b}) = k
    <3>1. Cardinality(F \cup {b}) = Cardinality(F) + 1
      BY <2>9, <2>11, FS_AddElement
    <3> QED BY <2>3, <2>8, <3>1
  <2>13. Initial(F \cup {b})
    <3> SUFFICES ASSUME NEW a \in F \cup {b}, NEW c \in S \ (F \cup {b}) PROVE a < c
      OBVIOUS
    <3>1. c \in S \ F /\ c # b /\ b <= c
      BY <2>11
    <3>2. a \in Nat /\ b \in Nat /\ c \in Nat
      OBVIOUS
    <3>3. CASE a \in F
      BY <2>8, <3>1, <3>3
    <3>4. CASE a = b
      BY <3>1, <3>2, <3>4
    <3> QED BY <3>3, <3>4
  <2>14. F \cup {b} \in SUBSET S
    OBVIOUS
  <2> QED BY <2>3, <2>12, <2>13, <2>14
<1>4. Has(top)
  BY <1>2, <1>3
<1> QED BY <1>4 DEF Claims, top

\* A batch can always be formed.
LEMMA SomeBatch ==
  ASSUME NEW rest \in SUBSET Nat, IsFiniteSet(rest), rest # {}, NEW r
  PROVE  \E S \in SUBSET rest, first \in SUBSET rest :
           /\ IsBatch(S, rest, r) /\ first \subseteq S
           /\ Claims(first, S, MaxConcurrency)
<1>1. \E S \in SUBSET rest : IsBatch(S, rest, r)
  <2>1. PICK m \in rest : \A k \in rest : m <= k
    BY LeastOf
  <2> DEFINE A == {a \in rest : Alone(r, a)}
  <2>2. CASE Alone(r, m)
    <3>1. \A b \in rest \ {m} : m < b
      <4> TAKE b \in rest \ {m}
      <4>1. m \in Nat /\ b \in Nat /\ m <= b /\ m # b
        BY <2>1
      <4> QED BY <4>1
    <3> QED BY <2>2, <3>1 DEF IsBatch
  <2>3. CASE ~Alone(r, m) /\ A = {}
    <3>1. IsBatch(rest, rest, r)
      BY <2>3 DEF IsBatch
    <3> QED BY <3>1
  <2>4. CASE ~Alone(r, m) /\ A # {}
    <3>1. A \in SUBSET Nat
      OBVIOUS
    <3> HIDE DEF A
    <3>2. PICK a \in A : \A k \in A : a <= k
      BY <2>4, <3>1, LeastOf
    <3>3. a \in rest /\ a \in Nat /\ Alone(r, a)
      BY <3>1, <3>2 DEF A
    <3> DEFINE S == {c \in rest : c < a}
    <3>4. m \in S
      <4>1. m # a /\ m <= a /\ m \in Nat
        BY <2>1, <2>4, <3>3
      <4> QED BY <3>3, <4>1
    <3>5. ASSUME NEW c \in S, NEW b \in rest \ S PROVE c < b
      <4>1. c \in Nat /\ b \in Nat /\ c < a /\ ~(b < a)
        OBVIOUS
      <4> QED BY <3>3, <4>1
    <3>6. ASSUME NEW c \in S PROVE ~Alone(r, c)
      <4>1. c \in Nat /\ ~(a <= c) /\ c \in rest
        BY <3>3
      <4> QED BY <3>2, <4>1 DEF A
    <3>7. ASSUME NEW b \in rest \ S, FirstOf(b, rest \ S) PROVE Alone(r, b)
      <4>1. a \in rest \ S /\ b \in Nat
        BY <3>3
      <4>2. b <= a /\ ~(b < a)
        BY <3>7, <4>1 DEF FirstOf
      <4>3. b = a
        BY <3>3, <4>1, <4>2
      <4> QED BY <3>3, <4>3
    <3>8. S \in SUBSET rest
      OBVIOUS
    <3> HIDE DEF S
    <3>9. IsBatch(S, rest, r)
      BY <3>4, <3>5, <3>6, <3>7, <3>8 DEF IsBatch
    <3> QED BY <3>8, <3>9
  <2> QED BY <2>2, <2>3, <2>4
<1>2. PICK S \in SUBSET rest : IsBatch(S, rest, r)
  BY <1>1
<1>3. S \in SUBSET Nat /\ IsFiniteSet(S)
  BY FS_Subset
<1>4. \E first \in SUBSET S : Claims(first, S, MaxConcurrency)
  BY <1>3, SomeClaims, Limits
<1> QED BY <1>2, <1>4

\* A worker is busy as long as a call of the batch waits.
WorkerInv == place = "tools" => (todo # {} => inflight # {})

\* In every state among the tools some call can end, or the batch is over and the
\* next one can be formed: partitionToolCalls leaves no call behind.
ToolsGoOn ==
  place = "tools" =>
    \/ inflight # {}
    \/ /\ todo = {}
       /\ \/ throwing \/ later = {}
          \/ \E S \in SUBSET later, first \in SUBSET later :
               /\ IsBatch(S, later, request) /\ first \subseteq S
               /\ Claims(first, S, MaxConcurrency)

LEMMA BatchHasWorker ==
  ASSUME NEW rest, NEW r, StartBatch(rest, r), IsFiniteSet(rest)
  PROVE  inflight' # {}
<1>1. PICK S \in SUBSET rest, first \in SUBSET rest :
        IsBatch(S, rest, r) /\ Claims(first, S, MaxConcurrency) /\ inflight' = first
  BY DEF StartBatch
<1>2. S # {} /\ IsFiniteSet(S)
  BY <1>1, FS_Subset DEF IsBatch
<1>3. Cardinality(S) \in Nat /\ Cardinality(S) # 0
  BY <1>2, FS_CardinalityType, FS_EmptySet
<1>4. Cardinality(first) # 0
  BY <1>1, <1>3, Limits DEF Claims, Least
<1> QED BY <1>1, <1>4, FS_EmptySet

LEMMA WorkerInvNext == TInv /\ TInv' /\ WorkerInv /\ [Next]_vars => WorkerInv'
<1> SUFFICES ASSUME TInv, TInv', WorkerInv, [Next]_vars, place' = "tools"
             PROVE  todo' # {} => inflight' # {}
  BY DEF WorkerInv
<1>1. CASE Abort \/ UNCHANGED vars
  BY <1>1 DEF Abort, vars, toolVars, WorkerInv
<1>2. CASE ToolCalls
  <2>1. PICK r \in Requests : StartBatch(Calls(r), r)
    BY <1>2 DEF ToolCalls
  <2>2. IsFiniteSet(Calls(r))
    BY ARAssumption, FS_Interval DEF Calls
  <2> QED BY <2>1, <2>2, BatchHasWorker
<1>3. CASE BatchEnds
  <2>1. StartBatch(later, request)
    BY <1>3 DEF BatchEnds
  <2> QED BY <2>1, BatchHasWorker, CallsFinite DEF TInv
<1>4. ASSUME NEW c \in CallIds, CallEnds(c) PROVE todo' # {} => inflight' # {}
  BY <1>4 DEF CallEnds, NextCall
<1>5. ~(\/ Cancelled \/ OutOfTurns \/ CallModel \/ FallBack \/ CallFails \/ Compacted
        \/ Backoff \/ Complete \/ CutOff \/ Managed)
  BY DEF Cancelled, OutOfTurns, CallModel, FallBack, CallFails, Classify, Compacted,
     Backoff, Complete, CutOff, TextOrNothing, Managed
<1> QED BY <1>1, <1>2, <1>3, <1>4, <1>5 DEF Next, RunnerStep

\* For any requests, limits and number of tool calls, a turn is never stuck among
\* its batches.
THEOREM ToolsNeverStall == Spec => []ToolsGoOn
<1>1. TInv /\ WorkerInv => ToolsGoOn
  <2> SUFFICES ASSUME TInv, WorkerInv, place = "tools", inflight = {}, later # {}
               PROVE  /\ todo = {}
                      /\ \E S \in SUBSET later, first \in SUBSET later :
                           /\ IsBatch(S, later, request) /\ first \subseteq S
                           /\ Claims(first, S, MaxConcurrency)
    BY DEF ToolsGoOn, WorkerInv
  <2>1. later \in SUBSET Nat /\ IsFiniteSet(later)
    BY CallsAreNumbers, CallsFinite DEF TInv, TypeOK
  <2>2. todo = {}
    BY DEF WorkerInv
  <2> QED BY <2>1, <2>2, SomeBatch
<1>2. Init => WorkerInv
  BY DEF Init, WorkerInv
<1> QED BY <1>1, <1>2, TInvInit, TInvNext, WorkerInvNext, PTL DEF Spec
================================================================================
