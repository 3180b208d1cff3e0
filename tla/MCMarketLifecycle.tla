-------------------------- MODULE MCMarketLifecycle --------------------------
(* Instances of MarketLifecycle for TLC. *)
EXTENDS MarketLifecycle, TLC

CONSTANTS m1, m2, e1, e2

\* One market on which Entity Permissions Core decides twice, in two events.
OneAbout == (e1 :> m1) @@ (e2 :> m1)
BothDecisions == (e1 :> "approve") @@ (e2 :> "reject")
OneSymbol == m1 :> "rwa1"

\* Two markets, registered without a symbol.
NoEvents == <<>>
SharedSymbol == (m1 :> "RWA") @@ (m2 :> "RWA")

CallSymmetry == Permutations(Call)
=============================================================================
