------------------------------ MODULE MCService ------------------------------
(***************************************************************************)
(* One transaction, and two requests with the same key, which expire at    *)
(* different times.                                                        *)
(***************************************************************************)
EXTENDS Service, TLC

CONSTANTS t1, r1, r2, n1

MCKeyOf == r1 :> n1 @@ r2 :> n1
MCExpiry == r1 :> 2 @@ r2 :> 1

=============================================================================
