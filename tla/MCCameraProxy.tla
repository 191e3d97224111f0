--------------------------- MODULE MCCameraProxy ---------------------------
(* Small instances of CameraProxy for TLC. *)
EXTENDS CameraProxy, TLC

CONSTANTS v1, v2

Symmetry == Permutations(Viewers)
=============================================================================
