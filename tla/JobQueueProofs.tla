---------------------------- MODULE JobQueueProofs ----------------------------
(***************************************************************************)
(* Lemmas about a job, for any number of attempts and stalls: how often    *)
(* its processor may be run.                                               *)
(***************************************************************************)
EXTENDS Integers, JobQueue, TLAPS

\* A job that is not given up has attempts and stalls left.
JobSound(j) ==
  /\ j \in JobRecord
  /\ j.state # "failed" => j.attempts < Attempts /\ j.stalls <= MaxStalls
  /\ j.attempts + j.stalls <= MaxRuns

LEMMA NewJob == JobSound(NoJob) /\ Runs(NoJob) = 0
BY JobAssumption DEF JobSound, NoJob, JobRecord, MaxRuns, Runs

LEMMA EnqueuedJob ==
  ASSUME NEW j, JobSound(j), j.state = "none"
  PROVE  /\ JobSound(Enqueued(j)) /\ Runs(Enqueued(j)) = Runs(j)
         /\ Enqueued(j).state = "waiting"
BY JobAssumption DEF JobSound, JobRecord, Enqueued, MaxRuns, Runs

\* Only taking a job starts a run.
LEMMA TakenJob ==
  ASSUME NEW j, JobSound(j), j.state = "waiting"
  PROVE  /\ JobSound(Taken(j)) /\ Runs(Taken(j)) = Runs(j) + 1
         /\ Taken(j).state = "active"
BY JobAssumption DEF JobSound, JobRecord, Taken, MaxRuns, Runs

\* Ending a run, in whatever way, keeps the count.
LEMMA EndedJob ==
  ASSUME NEW j, JobSound(j), j.state = "active",
         NEW k \in {Completed(j), AttemptFailed(j), Stalled(j)}
  PROVE  /\ JobSound(k) /\ Runs(k) = Runs(j)
         /\ k.state \in {"waiting", "completed", "failed"}
<1>1. CASE k = Completed(j)
  BY <1>1, JobAssumption DEF JobSound, JobRecord, Completed, MaxRuns, Runs
<1>2. CASE k = AttemptFailed(j)
  <2> DEFINE m == [j EXCEPT !.attempts = @ + 1]
  <2>1. /\ m \in JobRecord /\ m.attempts = j.attempts + 1
        /\ m.stalls = j.stalls
    BY DEF JobSound, JobRecord
  <2>2. k = [m EXCEPT !.state = IF m.attempts < Attempts THEN "waiting"
                                ELSE "failed"]
    BY <1>2, <2>1 DEF AttemptFailed
  <2> HIDE DEF m
  <2>. QED
    BY <2>1, <2>2, JobAssumption DEF JobSound, JobRecord, MaxRuns, Runs
<1>3. CASE k = Stalled(j)
  <2> DEFINE m == [j EXCEPT !.stalls = @ + 1]
  <2>1. /\ m \in JobRecord /\ m.attempts = j.attempts
        /\ m.stalls = j.stalls + 1
    BY DEF JobSound, JobRecord
  <2>2. k = [m EXCEPT !.state = IF j.stalls < MaxStalls THEN "waiting"
                                ELSE "failed"]
    BY <1>3 DEF Stalled
  <2> HIDE DEF m
  <2>. QED
    BY <2>1, <2>2, JobAssumption DEF JobSound, JobRecord, MaxRuns, Runs
<1>. QED  BY <1>1, <1>2, <1>3

\* A job has MaxRuns runs at most.
LEMMA RunsBounded ==
  ASSUME NEW j, JobSound(j)
  PROVE  Runs(j) \in Nat /\ Runs(j) <= MaxRuns /\ MaxRuns \in Nat
BY JobAssumption DEF JobSound, JobRecord, MaxRuns, Runs

=============================================================================
