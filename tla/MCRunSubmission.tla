-------------------------- MODULE MCRunSubmission ---------------------------
(***************************************************************************)
(* Constants of RunSubmission for TLC: RunSubmission.cfg races two clients *)
(* over few runs; RunSubmissionChain.cfg lets one client repeat a request  *)
(* within the freshness window, with a limit of 3 rows instead of 8.       *)
(***************************************************************************)
EXTENDS RunSubmission, TLC

CONSTANTS r1, r2, r3, r4, f1, f2, c1, c2

FewRuns == {r1, r2, r3}
FourRuns == {r1, r2, r3, r4}
OneRequest == {f1}
TwoRequests == {f1, f2}
OneClient == {c1}
TwoClients == {c1, c2}
Symmetry == Permutations(TwoClients)
=============================================================================
