---------------------------- MODULE MCOrchestrator ----------------------------
(* Instances of Orchestrator for TLC: a workflow with up to three subtasks,  *)
(* the second of which has no turn limit.                                    *)
EXTENDS Orchestrator, TLC

CONSTANTS s1, s2, s3

ThreeSubs == <<s1, s2, s3>>
Ids       == {Root, Coord, s1, s2, s3}
=============================================================================
