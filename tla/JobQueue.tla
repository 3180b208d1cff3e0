------------------------------- MODULE JobQueue -------------------------------
(***************************************************************************)
(* A job of a BullMQ queue, as far as the application can tell: how often  *)
(* its processor is run.  The library is external; the options are the     *)
(* defaultJobOptions of initializeQueues.  A processor that throws is run  *)
(* again until the attempts are used up.  A job whose process dies stalls: *)
(* it is run again without an attempt being counted, MaxStalls times.      *)
(***************************************************************************)
EXTENDS Naturals

CONSTANTS
  Attempts,   \* defaultJobOptions.attempts (5)
  MaxStalls   \* BullMQ's maxStalledCount (1)

ASSUME JobAssumption == Attempts \in Nat \ {0} /\ MaxStalls \in Nat

JobRecord ==
  [state : {"none", "waiting", "active", "completed", "failed"},
   attempts : Nat, stalls : Nat]

NoJob == [state |-> "none", attempts |-> 0, stalls |-> 0]

\* Queue.add.
Enqueued(j) == [j EXCEPT !.state = "waiting"]

\* Mutant: a run counts as an attempt when it starts, too.
TakenCounted(j) == [j EXCEPT !.attempts = @ + 1, !.state = "active"]

\* A worker takes the job: attemptsMade is what it is until the run ends.
Taken(j) == [j EXCEPT !.state = "active"]

\* The processor returned.
Completed(j) == [j EXCEPT !.state = "completed"]

\* Mutant: the attempt that failed is not counted.
AttemptUncounted(j) ==
  [j EXCEPT !.state = IF j.attempts + 1 < Attempts THEN "waiting" ELSE "failed"]

\* The processor threw.
AttemptFailed(j) ==
  [j EXCEPT !.attempts = @ + 1,
            !.state = IF j.attempts + 1 < Attempts THEN "waiting" ELSE "failed"]

\* Mutant: nothing looks for stalled jobs.
StalledForever(j) == [j EXCEPT !.stalls = @ + 1]

\* The process died while it ran the job.
Stalled(j) ==
  [j EXCEPT !.stalls = @ + 1,
            !.state = IF j.stalls < MaxStalls THEN "waiting" ELSE "failed"]

Over(j) == j.state \in {"completed", "failed"}

\* The processor's last run, as a processor can tell from job.attemptsMade.
LastAttempt(j) == j.attempts + 1 >= Attempts

\* The runs that were started for the job, and how many there can be.
Runs(j) ==
  j.attempts + j.stalls + (IF j.state \in {"active", "completed"} THEN 1 ELSE 0)

MaxRuns == Attempts + MaxStalls

=============================================================================
