--------------------------- MODULE MCRunLifecycle ---------------------------
(***************************************************************************)
(* Constants of RunLifecycle for TLC.  RunLifecycle.cfg takes one run of a *)
(* discovery probe, two main tests and a late test through every phase;    *)
(* RunLifecycleTwo.cfg takes two runs of one main test each through the    *)
(* same worker.                                                            *)
(***************************************************************************)
EXTENDS RunLifecycleInv

CONSTANTS r1, r2, probe, mail, web, fuzz, h1

OneRun == {r1}
FourIds == {probe, mail, web, fuzz}
TwoRuns == {r1, r2}
OneId == {mail}
Probe == {probe}
Late == {fuzz}
OneHost == {h1}
None == {}
=============================================================================
