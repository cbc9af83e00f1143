--------------------------- MODULE MCPluginRunner ---------------------------
(***************************************************************************)
(* PluginRunner for TLC.  The input and the output of the plugin are each  *)
(* larger than a pipe, so that every write can block.                      *)
(***************************************************************************)
EXTENDS PluginRunner
=============================================================================
