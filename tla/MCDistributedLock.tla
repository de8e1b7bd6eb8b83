-------------------------- MODULE MCDistributedLock --------------------------
(* The instance of DistributedLock that is checked; its cfg gives the values. *)
EXTENDS DistributedLock, TLC

==============================================================================
