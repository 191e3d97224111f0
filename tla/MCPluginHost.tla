---------------------------- MODULE MCPluginHost ----------------------------
(* Small instances of PluginHost for TLC. *)
EXTENDS PluginHost

CONSTANTS c1, c2
=============================================================================
