---------------------------- MODULE MCSettlement ----------------------------
(***************************************************************************)
(* Two trades, settled by two workers of one process.                      *)
(***************************************************************************)
EXTENDS Settlement, TLC

CONSTANTS t1, t2, w1, w2

=============================================================================
