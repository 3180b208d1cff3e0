--------------------------- MODULE MCSwapLifecycle ---------------------------
(***************************************************************************)
(* Two swaps between two accounts of a user: one quoted by the service,    *)
(* and one in the other direction that is too small for the fees, unless   *)
(* the client brings a quote.  That quote is negative, and the account may *)
(* hold less than it takes.                                                *)
(***************************************************************************)
EXTENDS SwapLifecycle, TLC

CONSTANTS s1, s2, w1, w2, acc1, acc2

MCSource == [s \in Swap |-> IF s = s2 THEN acc2 ELSE acc1]
MCTarget == [s \in Swap |-> IF s = s2 THEN acc1 ELSE acc2]
MCAmount == [s \in Swap |-> IF s = s1 THEN 2000 ELSE 50]
MCQuotes == [s \in Swap |-> IF s = s2 THEN {-60, None} ELSE {None}]
MCDecimals == acc1 :> 3 @@ acc2 :> 2
MCDeposit == acc1 :> 2050 @@ acc2 :> 50

=============================================================================
