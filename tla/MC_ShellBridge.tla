-------------------------- MODULE MC_ShellBridge --------------------------
(* Instances of ShellBridge for TLC. *)
EXTENDS ShellBridge
=============================================================================
