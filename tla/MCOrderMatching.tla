--------------------------- MODULE MCOrderMatching ---------------------------
(* Instances of OrderMatching for TLC. *)
EXTENDS OrderMatching, TLC

CONSTANTS u1, u2, o1, o2

StartBalance == [u \in {u1, u2} |-> [t \in {"base", "quote"} |-> 5]]

\* An ask of two and a bid of one that crosses it.
CrossOwner == (o1 :> u1) @@ (o2 :> u2)
CrossSide == (o1 :> "SELL") @@ (o2 :> "BUY")
CrossType == (o1 :> "LIMIT") @@ (o2 :> "LIMIT")
CrossPrice == (o1 :> 1) @@ (o2 :> 2)
CrossQuantity == (o1 :> 2) @@ (o2 :> 1)

\* A market ask of one that names a price, and a bid of two.  With a Scale of
\* two, the quotes of one and of two overlapping trades are rounded.
OverlapType == (o1 :> "MARKET") @@ (o2 :> "LIMIT")
OverlapPrice == (o1 :> 3) @@ (o2 :> 5)
OverlapQuantity == (o1 :> 1) @@ (o2 :> 2)

AllStatuses == OrderStatus
MigrationStatuses == {"OPEN", "PARTIAL", "FILLED", "CANCELLED", "REJECTED"}

WorkerSymmetry == Permutations(Worker)
=============================================================================
