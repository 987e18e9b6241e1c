------------------------------ MODULE BoundedPool ------------------------------
(***************************************************************************)
(* Running tasks side by side, a bounded number at a time and in order:    *)
(* parallelLimit (services/agent/workflow-engine.ts) and                   *)
(* runToolsConcurrently (services/agent/tool-orchestration.ts).  Tasks are *)
(* numbered; todo are the ones not claimed yet, inflight the ones that     *)
(* run.  Whoever finishes a task claims the next one at once.              *)
(***************************************************************************)
EXTENDS Naturals, FiniteSets

Least(a, b) == IF a <= b THEN a ELSE b

\* The first tasks of S, as many as the limit admits.
Claims(first, S, limit) ==
  /\ first \subseteq S
  /\ Cardinality(first) = Least(limit, Cardinality(S))
  /\ \A a \in first, b \in S \ first : a < b

\* The task claimed when another one ends: tasks[nextIndex++].
FirstOf(a, todo) == a \in todo /\ \A b \in todo : a <= b

\* No worker is idle while a task waits, and there are never too many.
Busy(todo, inflight, limit) ==
  /\ Cardinality(inflight) <= limit
  /\ todo # {} => Cardinality(inflight) = limit
================================================================================
