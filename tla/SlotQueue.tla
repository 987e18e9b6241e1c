------------------------------- MODULE SlotQueue -------------------------------
(***************************************************************************)
(* What a work queue with a number of slots promises its callers: slots    *)
(* are given in the order of the requests, to nobody twice and beyond the  *)
(* limit to nobody, and nobody waits beside a free slot.  Nothing is said  *)
(* of attempts, timers, retries or of what the work is.                    *)
(***************************************************************************)
EXTENDS Naturals, Sequences, FiniteSets

CONSTANTS
  Docs,   \* who may ask for a slot
  Fresh   \* the limit a queue starts with

VARIABLES
  line,     \* who waits, in order
  slots,    \* who holds a slot
  limit,    \* how many slots there are
  evicted   \* how often d was evicted and not put back in the line yet

queueVars == <<line, slots, limit, evicted>>

Init ==
  /\ line = <<>>
  /\ slots = {}
  /\ limit = Fresh
  /\ evicted = [d \in Docs |-> 0]

Waits(d) == \E i \in 1 .. Len(line) : line[i] = d

\* Those at the head of the line get slots: none while the limit is used up, and
\* as many as it takes to use it up.
Admit(waiting, holding) ==
  \E k \in 0 .. Len(waiting) :
    /\ line' = SubSeq(waiting, k + 1, Len(waiting))
    /\ slots' = holding \cup {waiting[i] : i \in 1 .. k}
    /\ k > 0 => Cardinality(slots') <= limit'
    /\ line' # <<>> => Cardinality(slots') >= limit'

\* The line without its i-th member.
Without(i) == [j \in 1 .. Len(line) - 1 |-> IF j < i THEN line[j] ELSE line[j + 1]]

\* A request joins at the end, unless it waits or is served already.
Arrive(d) ==
  /\ ~Waits(d) /\ d \notin slots
  /\ Admit(Append(line, d), slots)
  /\ UNCHANGED <<limit, evicted>>

\* An urgent one gives up its place and its slot, and joins at the end too.
StartOver(d) ==
  \/ /\ ~Waits(d)
     /\ Admit(Append(line, d), slots \ {d})
  \/ \E i \in 1 .. Len(line) :
       line[i] = d /\ Admit(Append(Without(i), d), slots)

Urge(d) ==
  /\ StartOver(d)
  /\ UNCHANGED <<limit, evicted>>

\* Or it loses its slot first, which stays free until the next event ...
Evict(d) ==
  /\ d \in slots
  /\ slots' = slots \ {d}
  /\ evicted' = [evicted EXCEPT ![d] = @ + 1]
  /\ UNCHANGED <<line, limit>>

\* ... and joins later.
Return(d) ==
  /\ evicted[d] > 0
  /\ evicted' = [evicted EXCEPT ![d] = @ - 1]
  /\ StartOver(d)
  /\ UNCHANGED limit

\* Work on d ends, and its slot, if it holds one, is free.
Leave(d) ==
  /\ Admit(line, slots \ {d})
  /\ UNCHANGED <<limit, evicted>>

Resize ==
  /\ limit' \in Nat \ {0}
  /\ Admit(line, slots)
  /\ UNCHANGED evicted

Crash ==
  /\ line' = <<>>
  /\ slots' = {}
  /\ limit' = Fresh
  /\ evicted' = [d \in Docs |-> 0]

Next ==
  \/ \E d \in Docs : Arrive(d) \/ Urge(d) \/ Evict(d) \/ Return(d) \/ Leave(d)
  \/ Resize
  \/ Crash

Spec == Init /\ [][Next]_queueVars
=============================================================================
