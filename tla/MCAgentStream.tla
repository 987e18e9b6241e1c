---------------------------- MODULE MCAgentStream ----------------------------
(* Instances of AgentStream for TLC: streams open side by side.              *)
EXTENDS AgentStream, TLC
=============================================================================
