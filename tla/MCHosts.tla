------------------------------- MODULE MCHosts -------------------------------
(* The model-checking instance of Hosts: two runs, every fault.             *)
EXTENDS Hosts

CONSTANTS r1, r2
=============================================================================
