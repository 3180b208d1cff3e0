--------------------------- MODULE TransactionQueue ---------------------------
(***************************************************************************)
(* The transaction manager: enqueueTransaction, which writes a row and     *)
(* enqueues a job, processJob, the processor of the transaction queue (its *)
(* concurrency is 1), and the listener of 'failed', which writes the       *)
(* outcome and the dead letter.  BullMQ calls the listener and does not    *)
(* wait for it: its calls go on beside the next attempt of the job.  No    *)
(* code calls enqueueTransaction yet; the worker runs in every process.    *)
(***************************************************************************)
EXTENDS Naturals, JobQueue

CONSTANTS
  Tx,    \* transactions that may be enqueued
  NoTx   \* the worker has no job

ASSUME TransactionAssumption == NoTx \notin Tx

VARIABLES
  enq,      \* where the enqueueTransaction of each transaction is
  txStatus, \* transactions.status; "none" before the INSERT
  hash,     \* whether transactions.tx_hash is set
  txJob,    \* the job of each transaction
  txRun,    \* what the worker does
  calls,    \* calls of the 'failed' listener: the job, its attemptsMade, where
  dead      \* the dead letters of each transaction

transactions == <<enq, txStatus, hash, txJob, txRun, calls, dead>>

IdleTxRun == [pc |-> "idle", tx |-> NoTx]

TransactionsInit ==
  /\ enq = [t \in Tx |-> "create"]
  /\ txStatus = [t \in Tx |-> "none"]
  /\ hash = [t \in Tx |-> FALSE]
  /\ txJob = [t \in Tx |-> NoJob]
  /\ txRun = IdleTxRun
  /\ calls = {}
  /\ dead = [t \in Tx |-> 0]

Call(t, made, pc) == [tx |-> t, made |-> made, pc |-> pc]

-----------------------------------------------------------------------------
(* enqueueTransaction *)

CreateTransaction(t) ==
  /\ enq[t] = "create"
  /\ txStatus' = [txStatus EXCEPT ![t] = "pending"]
  /\ enq' = [enq EXCEPT ![t] = "add"]
  /\ UNCHANGED <<hash, txJob, txRun, calls, dead>>

AddTransactionJob(t) ==
  /\ enq[t] = "add"
  /\ txJob' = [txJob EXCEPT ![t] = Enqueued(@)]
  /\ enq' = [enq EXCEPT ![t] = "mark"]
  /\ UNCHANGED <<txStatus, hash, txRun, calls, dead>>

\* A blind write: the worker may be through with the job.
MarkInProgress(t) ==
  /\ enq[t] = "mark"
  /\ txStatus' = [txStatus EXCEPT ![t] = "in_progress"]
  /\ enq' = [enq EXCEPT ![t] = "over"]
  /\ UNCHANGED <<hash, txJob, txRun, calls, dead>>

\* A call of enqueueTransaction fails, and nothing undoes those before it.
EnqueueFails(t) ==
  /\ enq[t] \in {"create", "add", "mark"}
  /\ enq' = [enq EXCEPT ![t] = "over"]
  /\ UNCHANGED <<txStatus, hash, txJob, txRun, calls, dead>>

-----------------------------------------------------------------------------
(* processJob *)

TakeTransaction(t) ==
  /\ txRun.pc = "idle"
  /\ txJob[t].state = "waiting"
  /\ txJob' = [txJob EXCEPT ![t] = Taken(@)]
  /\ txRun' = [pc |-> "submit", tx |-> t]
  /\ UNCHANGED <<enq, txStatus, hash, calls, dead>>

\* encryptCalldata, which needs the Sapphire runtime, the stub of the
\* submission, and the UPDATE to confirmed with the hash.
ConfirmTransaction ==
  /\ txRun.pc = "submit"
  /\ txStatus' = [txStatus EXCEPT ![txRun.tx] = "confirmed"]
  /\ hash' = [hash EXCEPT ![txRun.tx] = TRUE]
  /\ txRun' = [txRun EXCEPT !.pc = "complete"]
  /\ UNCHANGED <<enq, txJob, calls, dead>>

CompleteTransaction ==
  /\ txRun.pc = "complete"
  /\ txJob' = [txJob EXCEPT ![txRun.tx] = Completed(@)]
  /\ txRun' = IdleTxRun
  /\ UNCHANGED <<enq, txStatus, hash, calls, dead>>

\* The UPDATE fails, or its answer is lost: the processor throws, the attempt
\* counts, and the listener is called.
TransactionFails ==
  /\ txRun.pc = "submit"
  /\ LET t == txRun.tx IN
     /\ \/ UNCHANGED <<txStatus, hash>>
        \/ /\ txStatus' = [txStatus EXCEPT ![t] = "confirmed"]
           /\ hash' = [hash EXCEPT ![t] = TRUE]
     /\ txJob' = [txJob EXCEPT ![t] = AttemptFailed(@)]
     /\ calls' = calls \cup {Call(t, txJob[t].attempts + 1, "status")}
  /\ txRun' = IdleTxRun
  /\ UNCHANGED <<enq, dead>>

-----------------------------------------------------------------------------
(* The listener of 'failed' *)

\* Mutant: attemptsMade is taken for the number of attempts before this one.
FinalAttemptBefore(c) == c.made + 1 >= Attempts

\* job.attemptsMade >= job.opts.attempts.
FinalAttempt(c) == c.made >= Attempts

\* updateTransactionStatus, blindly: the hash stays as it is.
HandleFailed(c) ==
  /\ c \in calls /\ c.pc = "status"
  /\ txStatus' = [txStatus EXCEPT ![c.tx] =
                    IF FinalAttempt(c) THEN "dropped" ELSE "failed"]
  /\ calls' = (calls \ {c})
                \cup (IF FinalAttempt(c) THEN {[c EXCEPT !.pc = "dead"]} ELSE {})
  /\ UNCHANGED <<enq, hash, txJob, txRun, dead>>

\* dlq.add.
AddDeadLetter(c) ==
  /\ c \in calls /\ c.pc = "dead"
  /\ dead' = [dead EXCEPT ![c.tx] = @ + 1]
  /\ calls' = calls \ {c}
  /\ UNCHANGED <<enq, txStatus, hash, txJob, txRun>>

\* The worker of a later process finds a job that stalled once too often: it
\* emits 'failed' with the attempts made so far.
NoticeStalled(c) ==
  /\ c \in calls /\ c.pc = "stalled"
  /\ calls' = (calls \ {c}) \cup {[c EXCEPT !.pc = "status"]}
  /\ UNCHANGED <<enq, txStatus, hash, txJob, txRun, dead>>

\* The process ends: its calls are lost, whatever they had done, and BullMQ
\* will find the job it was running stalled.
DropTransactions ==
  LET job(t) == IF txJob[t].state = "active" THEN Stalled(txJob[t]) ELSE txJob[t]
  IN
  /\ enq' = [t \in Tx |-> IF enq[t] = "create" THEN "create" ELSE "over"]
  /\ txJob' = [t \in Tx |-> job(t)]
  /\ txRun' = IdleTxRun
  /\ calls' = {c \in calls : c.pc = "stalled"} \cup
              {Call(t, txJob[t].attempts, "stalled") :
                 t \in {u \in Tx : txJob[u].state = "active"
                                   /\ job(u).state = "failed"}}
  /\ UNCHANGED <<txStatus, hash, dead>>

-----------------------------------------------------------------------------
(* Properties *)

TransactionsTypeOK ==
  /\ enq \in [Tx -> {"create", "add", "mark", "over"}]
  /\ txStatus \in [Tx -> {"none", "pending", "in_progress", "confirmed",
                          "failed", "dropped"}]
  /\ hash \in [Tx -> BOOLEAN]
  /\ txJob \in [Tx -> JobRecord]
  /\ txRun \in [pc : {"idle", "submit", "complete"}, tx : Tx \cup {NoTx}]
  /\ calls \subseteq [tx : Tx, made : 0..Attempts,
                      pc : {"stalled", "status", "dead"}]
  /\ dead \in [Tx -> Nat]

\* A transaction is given up once: it has at most one dead letter, it has one
\* or is called dropped only when its job has used up its attempts, and that
\* job never runs again.  The calls that say so overlap with later attempts,
\* and with stalled jobs, which fail before their attempts are used up.
DeadLettersWereExhausted ==
  \A t \in Tx : dead[t] > 0 \/ txStatus[t] = "dropped" =>
    /\ dead[t] <= 1
    /\ txJob[t].state = "failed" /\ txJob[t].attempts >= Attempts

=============================================================================
