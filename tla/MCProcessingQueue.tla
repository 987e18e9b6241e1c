------------------------- MODULE MCProcessingQueue -------------------------
(* Instances of ProcessingQueue for TLC: how many outside events of each     *)
(* kind a run allows.                                                        *)
EXTENDS ProcessingQueue, TLC

Events(ask, force, resize, fault, crash) ==
  "ask" :> ask @@ "force" :> force @@ "resize" :> resize @@ "fault" :> fault
    @@ "crash" :> crash

PlainBudget == Events(3, 0, 1, 0, 1)
ForceBudget == Events(1, 1, 1, 1, 1)
StormBudget == Events(2, 1, 0, 0, 1)
=============================================================================
