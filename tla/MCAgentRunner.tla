----------------------------- MODULE MCAgentRunner -----------------------------
(* Instances of AgentRunner for TLC: a few requests of up to four calls.       *)
EXTENDS AgentRunner

Ask(n, alone, last) == [count |-> n, unsafe |-> alone, finish |-> last]

\* Two safe calls at a time of three, an unsafe call in the middle, finish last.
SomeRequests == {Ask(4, {4}, FALSE), Ask(3, {2}, FALSE), Ask(1, {1}, TRUE)}

\* With an advisory limit of one the hard limit is three, with none it is two.
SomeLimits == {0, 1, Unlimited}
================================================================================
