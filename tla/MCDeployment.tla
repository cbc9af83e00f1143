---------------------------- MODULE MCDeployment ----------------------------
(* Constants of Deployment for TLC: the requested test may be planned for   *)
(* one host or for none.                                                   *)
EXTENDS Deployment

CONSTANTS h1

MCHosts == {h1}
=============================================================================
