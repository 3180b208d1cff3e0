-------------------------- MODULE MCReconciliation --------------------------
(***************************************************************************)
(* Two tokens and two users; the orders of one of them lock the same row,  *)
(* which cannot hold both at first.                                        *)
(***************************************************************************)
EXTENDS Reconciliation, TLC

CONSTANTS u1, u2, x, y, o1, o2

MCOrderOf == o1 :> <<u1, x>> @@ o2 :> <<u1, x>>
MCAmount == o1 :> 1 @@ o2 :> 2
MCDeposit == [r \in Row |-> IF r \in {<<u1, x>>, <<u2, y>>} THEN 2 ELSE 0]

=============================================================================
