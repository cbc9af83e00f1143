----------------------------- MODULE MCDiscovery -----------------------------
(***************************************************************************)
(* A domain whose hosts link to each other in a cycle: a is found before b *)
(* and leads to it again, c is two links from the apex, and x is out of    *)
(* scope.                                                                  *)
(***************************************************************************)
EXTENDS Discovery

CONSTANTS apex, a, b, c, x

MCHosts == {apex, a, b, c, x}
MCInScope == MCHosts \ {x}
MCLinks ==
  [h \in MCHosts |->
     CASE h = apex -> {a, b} [] h = a -> {b, x} [] h = b -> {c} [] h = c -> {a}
       [] OTHER -> {}]
=============================================================================
