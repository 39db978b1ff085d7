------------------------------ MODULE MCTunnel ------------------------------
EXTENDS Tunnel, TLC

\* The first host downloads both resources of the second.
OneWay  == (1 :> {1, 2}) @@ (2 :> {})
Served  == (1 :> {}) @@ (2 :> {1, 2})
\* Each host downloads what the other has.
BothWays == (1 :> {1}) @@ (2 :> {2})
Swapped  == (1 :> {2}) @@ (2 :> {1})
=============================================================================
