------------------------------ MODULE AgentRunner ------------------------------
(***************************************************************************)
(* One run of an agent: the loop of AgentRunner.run in                     *)
(* services/agent/agent-runner.ts, which calls the model, runs the tools   *)
(* the reply asks for (services/agent/tool-orchestration.ts) and calls the *)
(* model again, until the model is done, the turns are used up, the model  *)
(* cannot be reached or the run is cancelled.                              *)
(*                                                                         *)
(* Of a reply it matters whether it asks for tools, says something or was  *)
(* cut off; of the messages, which tool calls have an answer.              *)
(***************************************************************************)
EXTENDS BoundedPool, Integers

CONSTANTS
  TurnLimits,        \* the advisory limits considered, Unlimited for none
  MinHardLimit,      \* the 100 of hardLimit
  MaxErrors,         \* MAX_CONSECUTIVE_LLM_ERRORS
  MaxCompactions,    \* MAX_EMERGENCY_COMPACTIONS
  MaxContinuations,  \* DEFAULT_CONTINUATION_CONFIG.maxContinuations
  MaxConcurrency,    \* DEFAULT_MAX_CONCURRENCY
  Requests           \* what a reply may ask for: count tool calls, the unsafe
                     \* ones among them, and whether one of them is finish

Unlimited == -1

ASSUME ARAssumption ==
  /\ TurnLimits \subseteq Nat \cup {Unlimited}
  /\ {MinHardLimit, MaxConcurrency} \subseteq Nat \ {0}
  /\ {MaxErrors, MaxCompactions, MaxContinuations} \subseteq Nat
  /\ Requests \subseteq [count : Nat, unsafe : SUBSET Nat, finish : BOOLEAN]

VARIABLES
  settings,       \* maxTurns, and the flags for concurrent tools and continuations
  aborted,        \* options.signal.aborted
  place,          \* where the loop is parked
  turn,           \* the turns begun; only looked at when they are limited
  usingFallback,  \* the run has switched to the other model
  failure,        \* what errorMsg matches
  errors,         \* consecutiveLLMErrors
  compactions,    \* emergencyCompactionCount
  continuations,  \* up to one more than the maximum, it only matters that it is
  request,        \* toolCalls of this turn
  later,          \* the tool calls of the batches to come
  todo, inflight, \* the batch that runs
  answered,       \* the tool calls of this turn that have ended
  throwing,       \* one of them has thrown
  modelCalls      \* history: the model calls of a run with limited turns

callVars == <<usingFallback, failure, errors, compactions, continuations>>
toolVars == <<request, later, todo, inflight, answered, throwing>>
vars == <<settings, aborted, place, turn, callVars, toolVars, modelCalls>>

Places == {"top", "primary", "fallback", "compacting", "backoff", "tools",
           "managing", "returned", "threw"}
Ended  == place \in {"returned", "threw"}

Limited   == settings.maxTurns # Unlimited
HardLimit == IF settings.maxTurns * 3 > MinHardLimit
             THEN settings.maxTurns * 3 ELSE MinHardLimit

\* isPromptTooLongError and isTransientError; a message may match both.
Failures == SUBSET {"too_long", "transient"}

NoRequest == [count |-> 0, unsafe |-> {}, finish |-> FALSE]
Calls(r)  == 1 .. r.count

Init ==
  /\ settings \in [maxTurns : TurnLimits, concurrent : BOOLEAN, continuation : BOOLEAN]
  /\ aborted = FALSE
  /\ place = "top" /\ turn = 0
  /\ usingFallback = FALSE /\ failure = {} /\ errors = 0
  /\ compactions = 0 /\ continuations = 0
  /\ request = NoRequest /\ later = {} /\ todo = {} /\ inflight = {}
  /\ answered = {} /\ throwing = FALSE
  /\ modelCalls = 0

\* The orchestrator's controller, or a workflow's timer.
Abort ==
  /\ ~aborted /\ ~Ended
  /\ aborted' = TRUE
  /\ UNCHANGED <<settings, place, turn, callVars, toolVars, modelCalls>>

-----------------------------------------------------------------------------
(* The top of the loop.                                                    *)

\* buildResult: a cancelled run returns, and announces complete after cancelled.
Cancelled ==
  /\ place = "top" /\ aborted
  /\ place' = "returned"
  /\ UNCHANGED <<settings, aborted, turn, callVars, toolVars, modelCalls>>

\* One turn beyond the hard limit is given for calling finish.
OutOfTurns ==
  /\ place = "top" /\ ~aborted /\ Limited /\ turn > HardLimit
  /\ place' = "returned"
  /\ UNCHANGED <<settings, aborted, turn, callVars, toolVars, modelCalls>>

Count(n) == IF Limited THEN n + 1 ELSE n

\* Mutant of CallModel: one turn more.
CallModelOnceMore ==
  /\ place = "top" /\ ~aborted
  /\ Limited => turn <= HardLimit + 1
  /\ turn' = Count(turn)
  /\ modelCalls' = Count(modelCalls)
  /\ place' = "primary"
  /\ UNCHANGED <<settings, aborted, callVars, toolVars>>

CallModel ==
  /\ place = "top" /\ ~aborted
  /\ Limited => turn <= HardLimit
  /\ turn' = Count(turn)
  /\ modelCalls' = Count(modelCalls)
  /\ place' = "primary"
  /\ UNCHANGED <<settings, aborted, callVars, toolVars>>

Streaming == place \in {"primary", "fallback"}

-----------------------------------------------------------------------------
(* A call that fails.                                                      *)

\* Mutant of FallBack: the switch is forgotten.
FallBackAgain ==
  /\ place = "primary" /\ ~usingFallback
  /\ UNCHANGED usingFallback
  /\ failure' \in Failures
  /\ modelCalls' = Count(modelCalls)
  /\ place' = "fallback"
  /\ UNCHANGED <<settings, aborted, turn, errors, compactions, continuations,
                 toolVars>>

\* chatStreamWithFallback: once in a run, if the other role has another model.
\* The signal is not looked at.
FallBack ==
  /\ place = "primary" /\ ~usingFallback
  /\ usingFallback' = TRUE
  /\ failure' \in Failures
  /\ modelCalls' = Count(modelCalls)
  /\ place' = "fallback"
  /\ UNCHANGED <<settings, aborted, turn, errors, compactions, continuations,
                 toolVars>>

Classify(f) ==
  IF "transient" \in f /\ errors < MaxErrors
  THEN errors' = errors + 1 /\ place' = "backoff"
  ELSE errors' = 0 /\ place' = "returned"

\* The error of the first call is the one that counts.
CallFails ==
  /\ Streaming
  /\ IF place = "primary" THEN failure' \in Failures ELSE UNCHANGED failure
  /\ IF "too_long" \in failure' /\ compactions < MaxCompactions
     THEN compactions' = compactions + 1 /\ place' = "compacting" /\ UNCHANGED errors
     ELSE Classify(failure') /\ UNCHANGED compactions
  /\ UNCHANGED <<settings, aborted, turn, usingFallback, continuations, toolVars,
                 modelCalls>>

\* Emergency compaction: the next call has its own turn.
Compacted ==
  /\ place = "compacting"
  /\ \/ place' = "top" /\ UNCHANGED errors
     \/ Classify(failure)
  /\ UNCHANGED <<settings, aborted, turn, usingFallback, failure, compactions,
                 continuations, toolVars, modelCalls>>

\* Mutant of Backoff: the call is repeated without going through the loop's top.
BackoffRepeats ==
  /\ place = "backoff"
  /\ place' = "primary"
  /\ modelCalls' = Count(modelCalls)
  /\ UNCHANGED <<settings, aborted, turn, callVars, toolVars>>

\* turn--: the repeated call belongs to the same turn.
Backoff ==
  /\ place = "backoff"
  /\ turn' = IF Limited THEN turn - 1 ELSE turn
  /\ place' = "top"
  /\ UNCHANGED <<settings, aborted, callVars, toolVars, modelCalls>>

-----------------------------------------------------------------------------
(* A reply without tool calls.                                             *)

Answered ==
  /\ Streaming
  /\ errors' = 0
  /\ UNCHANGED <<settings, aborted, turn, usingFallback, failure, compactions,
                 modelCalls>>

NoTools ==
  /\ request' = NoRequest /\ answered' = {}
  /\ UNCHANGED <<later, todo, inflight, throwing>>

\* A reply with text ends the run; after an empty one the loop goes on.
TextOrNothing == place' \in {"returned", "managing"}

Complete ==
  /\ Answered /\ NoTools
  /\ continuations' = 0
  /\ TextOrNothing

\* needsContinuation.
CutOff ==
  /\ Answered /\ NoTools
  /\ settings.continuation
  /\ continuations' = Least(continuations + 1, MaxContinuations + 1)
  /\ IF continuations < MaxContinuations THEN place' = "top" ELSE TextOrNothing

-----------------------------------------------------------------------------
(* Tool calls.                                                             *)

Alone(r, c) == ~settings.concurrent \/ c \in r.unsafe

\* Mutant of IsBatch: an unsafe call joins the batch before it.
IsBatchWithUnsafe(S, rest, r) ==
  /\ S # {} /\ S \subseteq rest
  /\ \A c \in S, b \in rest \ S : c < b
  /\ \A b \in rest \ S : FirstOf(b, rest \ S) => Alone(r, b)

\* partitionToolCalls: calls that are safe and follow each other run together.
IsBatch(S, rest, r) ==
  /\ S # {} /\ S \subseteq rest
  /\ \A c \in S, b \in rest \ S : c < b
  /\ \/ \E c \in S : S = {c} /\ Alone(r, c)
     \/ /\ \A c \in S : ~Alone(r, c)
        /\ \A b \in rest \ S : FirstOf(b, rest \ S) => Alone(r, b)

StartBatch(rest, r) ==
  \E S \in SUBSET rest, first \in SUBSET rest :
    /\ IsBatch(S, rest, r)
    /\ first \subseteq S /\ Claims(first, S, MaxConcurrency)
    /\ later' = rest \ S
    /\ inflight' = first
    /\ todo' = S \ first

ToolCalls ==
  /\ Answered
  /\ continuations' = 0
  /\ \E r \in Requests :
       /\ r.count > 0
       /\ request' = r
       /\ StartBatch(Calls(r), r)
  /\ answered' = {} /\ throwing' = FALSE
  /\ place' = "tools"

\* startNext, when c has ended.
NextCall(c) ==
  /\ UNCHANGED later
  /\ \/ todo = {} /\ inflight' = inflight \ {c} /\ UNCHANGED todo
     \/ \E b \in todo :
          /\ FirstOf(b, todo)
          /\ inflight' = (inflight \ {c}) \cup {b}
          /\ todo' = todo \ {b}

\* executeToolCall turns what a tool throws into an answer; arguments that are no
\* object may make it throw itself, which the batch reports once all have ended.
CallEnds(c) ==
  /\ place = "tools" /\ c \in inflight
  /\ answered' = answered \cup {c}
  /\ throwing' \in {throwing, TRUE}
  /\ NextCall(c)
  /\ UNCHANGED <<settings, aborted, place, turn, callVars, request, modelCalls>>

\* Mutant of BatchEnds: the turn is over with its first batch.
BatchEndsTurn ==
  /\ place = "tools" /\ inflight = {} /\ todo = {}
  /\ place' = IF throwing THEN "threw" ELSE "managing"
  /\ later' = {}
  /\ UNCHANGED <<settings, aborted, turn, callVars, request, todo, inflight,
                 answered, throwing, modelCalls>>

\* Mutant of BatchEnds: the promise of a batch is resolved, but never rejected.
BatchEndsUnlessThrown ==
  /\ place = "tools" /\ inflight = {} /\ todo = {}
  /\ ~throwing
  /\ IF later # {}
     THEN StartBatch(later, request) /\ UNCHANGED place
     ELSE place' = "managing" /\ UNCHANGED <<later, todo, inflight>>
  /\ UNCHANGED <<settings, aborted, turn, callVars, request, answered, throwing,
                 modelCalls>>

\* orchestrateToolCalls: the next batch, or the answers go into the messages.
BatchEnds ==
  /\ place = "tools" /\ inflight = {} /\ todo = {}
  /\ IF throwing
     THEN place' = "threw" /\ UNCHANGED <<later, todo, inflight>>
     ELSE IF later # {}
     THEN StartBatch(later, request) /\ UNCHANGED place
     ELSE place' = "managing" /\ UNCHANGED <<later, todo, inflight>>
  /\ UNCHANGED <<settings, aborted, turn, callVars, request, answered, throwing,
                 modelCalls>>

\* Pruning, which only computes, and compaction, whose failure is swallowed.
Managed ==
  /\ place = "managing"
  /\ place' = IF request.finish THEN "returned" ELSE "top"
  /\ UNCHANGED <<settings, aborted, turn, callVars, toolVars, modelCalls>>

-----------------------------------------------------------------------------
RunnerStep ==
  \/ Cancelled \/ OutOfTurns \/ CallModel
  \/ FallBack \/ CallFails \/ Compacted \/ Backoff
  \/ Complete \/ CutOff \/ ToolCalls
  \/ BatchEnds \/ Managed

CallIds == UNION {Calls(r) : r \in Requests}

Next == Abort \/ RunnerStep \/ \E c \in CallIds : CallEnds(c)

Spec == Init /\ [][Next]_vars

\* A stream ends: fetch closes a connection that is silent for five minutes.  So
\* do timers and, but for a question nobody answers, tools.
Fairness == WF_vars(RunnerStep) /\ \A c \in CallIds : WF_vars(CallEnds(c))

FairSpec == Spec /\ Fairness
-----------------------------------------------------------------------------
(* Properties.                                                             *)

TypeOK ==
  /\ settings \in [maxTurns : TurnLimits, concurrent : BOOLEAN, continuation : BOOLEAN]
  /\ aborted \in BOOLEAN /\ usingFallback \in BOOLEAN /\ throwing \in BOOLEAN
  /\ place \in Places
  /\ turn \in Nat /\ modelCalls \in Nat
  /\ turn <= HardLimit + 1
  /\ failure \in Failures
  /\ errors \in 0 .. MaxErrors
  /\ compactions \in 0 .. MaxCompactions
  /\ continuations \in 0 .. MaxContinuations + 1
  /\ request \in Requests \cup {NoRequest}
  /\ later \cup todo \cup inflight \cup answered \subseteq Calls(request)

\* However often the model fails, is retried, switched or compacted for, a run
\* with limited turns makes no more model calls than its turns, retries and the
\* one switch allow (agent-runner.ts:518-642).
ModelCallsBounded ==
  Limited => modelCalls <= (HardLimit + 1) * (MaxErrors + 1) + 1

\* When the model is called, the messages hold no tool call without its answer
\* (tool-orchestration.ts:168-199).
NoOpenToolCall ==
  place \notin {"tools", "threw"} => answered = Calls(request)

\* A tool call starts once, after all calls before it from which the order
\* separates it: an unsafe call runs alone (tool-orchestration.ts:40-80, 107-155).
ToolsInOrder ==
  [][\A c \in inflight' \ inflight :
       /\ c \notin answered'
       /\ \A b \in Calls(request') :
            b < c /\ (Alone(request', b) \/ Alone(request', c)) => b \in answered'
       /\ Alone(request', c) => inflight' = {c}]_vars

\* A cancelled run calls the model no more, but for the switch to the other model
\* while a call is under way (agent-runner.ts:531, 1163).
NoCallAfterAbort ==
  [][aborted /\ place' \in {"primary", "fallback"} /\ place' # place
       => place = "primary"]_vars

\* A run whose turns are limited ends, and so does one that is cancelled.
RunEnds == Limited \/ aborted ~> Ended
================================================================================
