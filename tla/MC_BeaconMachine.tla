-------------------------- MODULE MC_BeaconMachine --------------------------
(* Instances of BeaconMachine for TLC. *)
EXTENDS BeaconMachine
=============================================================================
