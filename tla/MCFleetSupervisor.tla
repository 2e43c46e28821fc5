-------------------------- MODULE MCFleetSupervisor --------------------------
(* Instances of FleetSupervisor for TLC. *)
EXTENDS FleetSupervisor
==============================================================================
