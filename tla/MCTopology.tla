------------------------------ MODULE MCTopology ------------------------------
(***************************************************************************)
(* One instance: instances are treated independently of each other.        *)
(***************************************************************************)
EXTENDS Topology
CONSTANTS dev
=============================================================================
