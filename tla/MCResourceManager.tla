-------------------------- MODULE MCResourceManager --------------------------
(***************************************************************************)
(* Instances of ResourceManager for TLC.  Two callers are enough for one   *)
(* to time out, update or be overtaken while the other waits; a notifier   *)
(* is held by a caller or registered for one, so two identities suffice.   *)
(***************************************************************************)
EXTENDS ResourceManager, TLC

CONSTANTS g1, g2, inbound, route, cluster, n1, n2, v1, v2

\* A type whose responses are complete and one whose responses may be partial.
ClusterAndRoute == (cluster :> "Cluster") @@ (route :> "RouteConfig")

OneRoute == (route :> "RouteConfig")

\* The circuit breaker's handler, or none.
ClusterHandler == ("circuitbreak" :> "Cluster")

NoHandler == <<>>

Symmetry == Permutations({g1, g2}) \cup Permutations({n1, n2}) \cup Permutations({v1, v2})
=============================================================================
