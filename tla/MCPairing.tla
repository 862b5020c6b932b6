----------------------------- MODULE MCPairing -----------------------------
(* The instance of Pairing TLC checks: a gateway under pairing, an older   *)
(* gateway a node may come from, two nodes, and one that is registered.    *)
EXTENDS Pairing

CONSTANTS n1, n2, n3, g1, g2

MCNodes == {n1, n2, n3}
MCGateways == {g1, g2}

\* g1 serves n3 from before: two more nodes fill it, once its record rotted.
MCStarts ==
  {g1 :> [EmptyBuckets EXCEPT ![1].recs = <<[addr |-> n3, key |-> CableKey(g1, n3)]>>]
     @@ g2 :> EmptyBuckets}

\* g1 answers two joins and n1 may try twice; g2 only holds old pairings.
MCDraws == n1 :> 2 @@ n2 :> 1 @@ n3 :> 0 @@ g1 :> 2 @@ g2 :> 0
=============================================================================
