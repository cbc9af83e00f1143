---------------------------- MODULE MCTestPhase -----------------------------
(***************************************************************************)
(* Constants of TestPhase for TLC: one run of two tests on one host and a   *)
(* third on another, beside a run of the two tests on the first host.      *)
(***************************************************************************)
EXTENDS TestPhase, TLC

CONSTANTS r1, r2, a, b, c, h1, h2

TwoRuns == {r1, r2}
ThreeTests == {a, b, c}
Phases == (r1 :> {a, b, c}) @@ (r2 :> {a, b})
TwoHosts == {h1, h2}
HostMap == (a :> h1) @@ (b :> h1) @@ (c :> h2)
=============================================================================
