---------------------------- MODULE MCCloudPrint ----------------------------
(* Small instances of CloudPrint for TLC. *)
EXTENDS CloudPrint, TLC

CONSTANTS p1, p2
=============================================================================
