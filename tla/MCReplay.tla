------------------------------ MODULE MCReplay ------------------------------
(***************************************************************************)
(* Instances of Replay for TLC, with the events of MCConsumer.             *)
(***************************************************************************)
EXTENDS MCConsumer, ReplayProperties
=============================================================================
