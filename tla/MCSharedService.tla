-------------------------- MODULE MCSharedService --------------------------
(* Instances of SharedService for TLC: as many managers as calls, so that a  *)
(* call that must start the service never lacks one.                         *)
EXTENDS SharedService
=============================================================================
