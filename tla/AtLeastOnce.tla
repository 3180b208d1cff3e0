------------------------------ MODULE AtLeastOnce ------------------------------
(***************************************************************************)
(* What a queued operation with an effect outside the database promises:   *)
(* the effect (a call on the blockchain) may happen more than once, since  *)
(* no attempt can tell whether an earlier one got through, but no more     *)
(* often than Bound; the database records an effect that happened; and     *)
(* nothing happens to an item once its job is over.  Swaps, settlements    *)
(* and token deployments implement it.                                     *)
(***************************************************************************)
EXTENDS Naturals

CONSTANTS
  Item,    \* swaps, trades or markets
  Bound    \* how often the effect may happen

VARIABLES
  effects,   \* how often the effect happened
  recorded,  \* items the database shows as done
  over       \* items whose job is over

vars == <<effects, recorded, over>>

Init ==
  /\ effects = [i \in Item |-> 0]
  /\ recorded = {}
  /\ over = {}

\* The step may end the job as well: the answer to its last call was lost.
Effect(i) ==
  /\ i \notin over
  /\ effects[i] < Bound
  /\ effects' = [effects EXCEPT ![i] = @ + 1]
  /\ over' \in {over, over \cup {i}}
  /\ UNCHANGED recorded

Record(i) ==
  /\ i \notin over
  /\ effects[i] > 0
  /\ recorded' = recorded \cup {i}
  /\ UNCHANGED <<effects, over>>

\* The jobs of several items may end together, when their process dies.
Close(items) ==
  /\ over' = over \cup items
  /\ UNCHANGED <<effects, recorded>>

Next ==
  \/ \E i \in Item : Effect(i) \/ Record(i)
  \/ \E items \in SUBSET Item : Close(items)

Spec == Init /\ [][Next]_vars

=============================================================================
