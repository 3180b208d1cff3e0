----------------------------- MODULE ServiceProofs -----------------------------
(***************************************************************************)
(* Proofs about OrderGate, for any number of requests and keys, any        *)
(* expiries and any time to live, and about Service: what holds of         *)
(* transactions, requests and other jobs in a process that starts, stops   *)
(* and dies under them, for any number of transactions, requests, signals, *)
(* attempts, stalls and faults.                                            *)
(***************************************************************************)
EXTENDS Service, JobQueueProofs, FiniteSetTheorems, TLAPS

-----------------------------------------------------------------------------
(* The order gate: its inductive invariant *)

\* A key with which a request was let through lives at least Ttl longer than
\* that moment: a lost SET may have set it again, but only after it was gone.
KeysOutlive ==
  \A n \in NonceKey : passes[n] > 0 => last[n] + Ttl <= key[n]

GateInv == GateTypeOK /\ KeysOutlive

LEMMA InitGate == GateInit => GateInv
BY GateAssumption DEF GateInit, GateInv, GateTypeOK, KeysOutlive

\* A step that leaves keys and their history alone.
LEMMA QuietStep ==
  ASSUME GateInv, GateTypeOK', UNCHANGED <<key, passes, last>>
  PROVE  GateInv'
BY DEF GateInv, KeysOutlive

LEMMA MarkStep ==
  ASSUME GateInv, NEW r \in Request, MarkNonceAsUsed(r)
  PROVE  GateInv'
<1> DEFINE n == KeyOf[r]
<1>1. /\ n \in NonceKey /\ now \in Nat /\ now + Ttl \in Nat /\ Ttl \in Nat
      /\ key \in [NonceKey -> Nat] /\ passes \in [NonceKey -> Nat]
      /\ last \in [NonceKey -> Nat]
  BY GateAssumption DEF GateInv, GateTypeOK
<1> HIDE DEF n
<1>2. GateTypeOK'
  BY <1>1 DEF MarkNonceAsUsed, GateInv, GateTypeOK, Goto, n
<1>3. CASE Used(n)
  BY <1>2, <1>3, QuietStep DEF MarkNonceAsUsed, n
<1>4. CASE ~Used(n)
  <2>1. /\ key' = [key EXCEPT ![n] = now + Ttl]
        /\ passes' = [passes EXCEPT ![n] = @ + 1]
        /\ last' = [last EXCEPT ![n] = now]
    BY <1>4 DEF MarkNonceAsUsed, n
  <2>2. KeysOutlive'
    BY <1>1, <2>1 DEF GateInv, KeysOutlive
  <2>. QED  BY <1>2, <2>2 DEF GateInv
<1>. QED  BY <1>3, <1>4

LEMMA LoseStep ==
  ASSUME GateInv, NEW r \in Request, LoseNonce(r)
  PROVE  GateInv'
<1> DEFINE n == KeyOf[r]
<1>1. /\ n \in NonceKey /\ now \in Nat /\ now + Ttl \in Nat /\ Ttl \in Nat
      /\ key \in [NonceKey -> Nat] /\ passes \in [NonceKey -> Nat]
      /\ last \in [NonceKey -> Nat]
  BY GateAssumption DEF GateInv, GateTypeOK
<1>2. GateTypeOK'
  BY <1>1 DEF LoseNonce, GateInv, GateTypeOK, Goto
<1>3. CASE key' = key
  BY <1>2, <1>3, QuietStep DEF LoseNonce
<1>4. CASE key' = [key EXCEPT ![n] = now + Ttl] /\ ~Used(n)
  <2>1. \A m \in NonceKey : key[m] <= key'[m]
    BY <1>1, <1>4 DEF Used
  <2>2. key' \in [NonceKey -> Nat]
    BY <1>2 DEF GateTypeOK
  <2>3. KeysOutlive'
    BY <1>1, <2>1, <2>2 DEF GateInv, KeysOutlive, LoseNonce
  <2>. QED  BY <1>2, <2>3 DEF GateInv
<1>. QED  BY <1>3, <1>4 DEF LoseNonce

LEMMA GateStep == GateInv /\ [GateNext]_gate => GateInv'
<1> SUFFICES ASSUME GateInv, [GateNext]_gate PROVE GateInv'
  OBVIOUS
<1>1. ASSUME NEW r \in Request,
             Arrive(r) \/ LookUpNonce(r) \/ Submit(r)
      PROVE  GateInv'
  <2>1. GateTypeOK' /\ UNCHANGED <<key, passes, last>>
    BY <1>1 DEF Arrive, LookUpNonce, Submit, Goto, GateInv, GateTypeOK
  <2>. QED  BY <2>1, QuietStep
<1>2. CASE DropRequests \/ TimePasses \/ UNCHANGED gate
  <2>1. GateTypeOK' /\ UNCHANGED <<key, passes, last>>
    BY <1>2, GateAssumption
    DEF DropRequests, TimePasses, gate, GateInv, GateTypeOK
  <2>. QED  BY <2>1, QuietStep
<1>. QED  BY <1>1, <1>2, MarkStep, LoseStep DEF GateNext

\* A request is let through by a SET that found no key: the one before it has
\* expired, and it had lived for Ttl.
LEMMA PassesApart ==
  ASSUME GateInv, [GateNext]_gate, NEW n \in NonceKey,
         passes'[n] # passes[n], passes[n] > 0
  PROVE  now >= last[n] + Ttl
<1>1. PICK r \in Request : MarkNonceAsUsed(r)
  BY DEF GateNext, gate, Arrive, LookUpNonce, Submit, LoseNonce, DropRequests,
         TimePasses
<1>2. /\ passes \in [NonceKey -> Nat] /\ key \in [NonceKey -> Nat]
      /\ last \in [NonceKey -> Nat] /\ now \in Nat /\ Ttl \in Nat
      /\ KeyOf[r] \in NonceKey
  BY GateAssumption DEF GateInv, GateTypeOK
<1>3. ~Used(KeyOf[r]) /\ KeyOf[r] = n
  BY <1>1, <1>2 DEF MarkNonceAsUsed
<1>. QED  BY <1>2, <1>3 DEF Used, GateInv, KeysOutlive

-----------------------------------------------------------------------------
(* The order gate: theorems *)

\* The gate keeps its invariant, whatever fails and whenever the process dies.
THEOREM GateInvariant == GateSpec => []GateInv
BY InitGate, GateStep, PTL DEF GateSpec

\* NonceService.validateAndConsumeNonce: two requests with one Redis key, that
\* is with the nonce and the same spelling of the user's address, are let
\* through NONCE_TTL apart.
THEOREM NoncesAreApart == GateSpec => NoncesApart
<1>1. GateInv /\ [GateNext]_gate =>
        [\A n \in NonceKey : passes'[n] # passes[n] /\ passes[n] > 0
           => now >= last[n] + Ttl]_gate
  BY PassesApart
<1>. QED  BY <1>1, GateInvariant, PTL DEF GateSpec, NoncesApart

-----------------------------------------------------------------------------
(* The transaction manager: its inductive invariant *)

Exhausted(t) == txJob[t].state = "failed" /\ txJob[t].attempts >= Attempts

\* A job is active while the worker runs it, and only a job whose attempts
\* are used up is given up.
TxSound(t) ==
  /\ JobSound(txJob[t])
  /\ enq[t] \in {"create", "add"} => txJob[t].state = "none"
  /\ txJob[t].state = "active" <=> (txRun.pc # "idle" /\ txRun.tx = t)
  /\ txStatus[t] = "dropped" => Exhausted(t)
  /\ dead[t] > 0 =>
       /\ Exhausted(t) /\ dead[t] = 1
       /\ \A c \in calls : c.tx = t => ~FinalAttempt(c)

\* A call of the listener knows attempts that were made, and at most one call
\* of a transaction sees the last.
CallSound(c) ==
  /\ c.made <= txJob[c.tx].attempts
  /\ c.pc = "stalled" => ~FinalAttempt(c)
  /\ c.pc = "dead" => FinalAttempt(c)

OneFinalCall ==
  \A c, d \in calls :
    c.tx = d.tx /\ FinalAttempt(c) /\ FinalAttempt(d) => c = d

TransactionsInv ==
  /\ TransactionsTypeOK
  /\ \A t \in Tx : TxSound(t)
  /\ \A c \in calls : CallSound(c)
  /\ OneFinalCall
  /\ txRun.pc # "idle" => txRun.tx \in Tx

LEMMA InitTransactions == TransactionsInit => TransactionsInv
<1> SUFFICES ASSUME TransactionsInit PROVE TransactionsInv
  OBVIOUS
<1>1. JobSound(NoJob) /\ NoJob.state = "none"
  BY NewJob DEF NoJob
<1>2. TransactionsTypeOK
  BY <1>1 DEF TransactionsInit, TransactionsTypeOK, JobSound, IdleTxRun
<1>3. \A t \in Tx : TxSound(t)
  BY <1>1 DEF TransactionsInit, TxSound, IdleTxRun
<1>. QED
  BY <1>2, <1>3
  DEF TransactionsInit, TransactionsInv, OneFinalCall, IdleTxRun

\* enqueueTransaction writes the row blindly, but never calls it dropped.
LEMMA EnqueueStep ==
  ASSUME TransactionsInv, NEW t \in Tx,
         CreateTransaction(t) \/ MarkInProgress(t) \/ EnqueueFails(t)
  PROVE  TransactionsInv'
<1>1. UNCHANGED <<hash, txJob, txRun, calls, dead>>
  BY DEF CreateTransaction, MarkInProgress, EnqueueFails
<1>2. /\ enq' \in [Tx -> {"create", "add", "mark", "over"}]
      /\ \A u \in Tx : enq'[u] \in {"create", "add"}
                         => enq[u] \in {"create", "add"}
  BY DEF CreateTransaction, MarkInProgress, EnqueueFails, TransactionsInv,
         TransactionsTypeOK
<1>3. /\ txStatus' \in [Tx -> {"none", "pending", "in_progress", "confirmed",
                               "failed", "dropped"}]
      /\ \A u \in Tx : txStatus'[u] = "dropped" => txStatus[u] = "dropped"
  BY DEF CreateTransaction, MarkInProgress, EnqueueFails, TransactionsInv,
         TransactionsTypeOK
<1>. QED
  BY <1>1, <1>2, <1>3
  DEF TransactionsInv, TransactionsTypeOK, TxSound, CallSound, OneFinalCall,
      Exhausted, FinalAttempt

\* A job that was not exhausted changes, and its row with it.
LEMMA JobMoves ==
  ASSUME TransactionsInv, TransactionsTypeOK', NEW t \in Tx,
         ~Exhausted(t), UNCHANGED dead,
         JobSound(txJob'[t]),
         \A u \in Tx \ {t} : txJob'[u] = txJob[u] /\ txStatus'[u] = txStatus[u],
         txJob'[t].attempts >= txJob[t].attempts,
         txStatus'[t] # "dropped" \/ txStatus'[t] = txStatus[t],
         \A u \in Tx : enq'[u] \in {"create", "add"}
                         => enq[u] \in {"create", "add"} /\ u # t,
         \A u \in Tx : txJob'[u].state = "active"
                         <=> (txRun'.pc # "idle" /\ txRun'.tx = u),
         txRun'.pc # "idle" => txRun'.tx \in Tx,
         \A c \in calls' \ calls :
           /\ c.tx = t /\ c.pc = "status" /\ c.made = txJob'[t].attempts
           /\ c.made > txJob[t].attempts
           /\ calls' = calls \cup {c},
         calls \subseteq calls'
  PROVE  TransactionsInv'
<1>1. ASSUME NEW u \in Tx PROVE TxSound(u)'
  <2>1. txStatus'[u] = "dropped" => Exhausted(u)'
    BY DEF TransactionsInv, TxSound, Exhausted
  <2>2. ASSUME dead'[u] > 0
        PROVE  /\ Exhausted(u)' /\ dead'[u] = 1
               /\ \A c \in calls' : c.tx = u => ~FinalAttempt(c)
    <3>1. u # t /\ Exhausted(u) /\ dead[u] = 1
      BY <2>2 DEF TransactionsInv, TxSound
    <3>. QED  BY <2>2, <3>1 DEF TransactionsInv, TxSound, Exhausted
  <2>. QED  BY <2>1, <2>2 DEF TransactionsInv, TxSound, FinalAttempt
<1>2. ASSUME NEW c \in calls' PROVE CallSound(c)'
  <2>1. CASE c \in calls
    <3>1. c.tx \in Tx /\ c.made \in Nat /\ CallSound(c)
      BY <2>1 DEF TransactionsInv, TransactionsTypeOK
    <3>2. /\ txJob'[c.tx].attempts >= txJob[c.tx].attempts
          /\ txJob'[c.tx].attempts \in Nat /\ txJob[c.tx].attempts \in Nat
      <4>1. /\ txJob[c.tx] \in JobRecord /\ txJob'[c.tx] \in JobRecord
        BY <3>1 DEF TransactionsInv, TransactionsTypeOK
      <4>. QED  BY <3>1, <4>1 DEF JobRecord
    <3>. QED  BY <3>1, <3>2 DEF CallSound, FinalAttempt
  <2>2. CASE c \notin calls
    <3>1. c.tx = t /\ c.pc = "status" /\ c.made = txJob'[t].attempts
      BY <2>2
    <3>2. txJob'[t].attempts \in Nat
      BY DEF JobSound, JobRecord
    <3>. QED  BY <3>1, <3>2 DEF CallSound
  <2>. QED  BY <2>1, <2>2
<1>3. OneFinalCall'
  <2>1. ASSUME NEW c \in calls, NEW d \in calls' \ calls, c.tx = d.tx
        PROVE  ~FinalAttempt(c)
    <3>1. /\ c.tx = t /\ c.made <= txJob[t].attempts /\ c.made \in Nat
          /\ txJob[t] \in JobRecord /\ JobSound(txJob[t])
          /\ d.made = txJob'[t].attempts /\ d.made > txJob[t].attempts
      BY <2>1 DEF TransactionsInv, TransactionsTypeOK, CallSound, TxSound
    <3>2. txJob[t].attempts < Attempts
      <4>1. txJob[t].attempts \in Nat /\ Attempts \in Nat
        BY <3>1, JobAssumption DEF JobRecord
      <4>. QED  BY <3>1, <4>1 DEF JobSound, Exhausted
    <3>3. Attempts \in Nat /\ txJob[t].attempts \in Nat
      BY <3>1, JobAssumption DEF JobRecord
    <3>. QED  BY <3>1, <3>2, <3>3 DEF FinalAttempt
  <2>2. \A c, d \in calls' \ calls : c = d
    OBVIOUS
  <2>. QED  BY <2>1, <2>2 DEF TransactionsInv, OneFinalCall, FinalAttempt
<1>. QED  BY <1>1, <1>2, <1>3 DEF TransactionsInv

LEMMA AddJobStep ==
  ASSUME TransactionsInv, NEW t \in Tx, AddTransactionJob(t)
  PROVE  TransactionsInv'
<1>1. /\ txJob[t].state = "none" /\ JobSound(txJob[t]) /\ TransactionsTypeOK
      /\ UNCHANGED <<txStatus, hash, txRun, calls, dead>>
  BY DEF AddTransactionJob, TransactionsInv, TxSound
<1>2. /\ JobSound(Enqueued(txJob[t])) /\ Enqueued(txJob[t]).state = "waiting"
      /\ Enqueued(txJob[t]).attempts = txJob[t].attempts
      /\ txJob[t].attempts \in Nat
  BY <1>1, EnqueuedJob DEF Enqueued, JobSound, JobRecord
<1>3. /\ txJob' = [txJob EXCEPT ![t] = Enqueued(txJob[t])]
      /\ txJob'[t] = Enqueued(txJob[t])
      /\ \A u \in Tx \ {t} : txJob'[u] = txJob[u]
      /\ enq' = [enq EXCEPT ![t] = "mark"]
  BY <1>1 DEF AddTransactionJob, TransactionsTypeOK
<1>4. TransactionsTypeOK'
  BY <1>1, <1>2, <1>3 DEF TransactionsTypeOK, JobSound
<1>5. \A u \in Tx : enq'[u] \in {"create", "add"}
                      => enq[u] \in {"create", "add"} /\ u # t
  BY <1>1, <1>3 DEF TransactionsTypeOK
<1>6. ~Exhausted(t) /\ (txRun'.pc # "idle" => txRun'.tx \in Tx)
  BY <1>1 DEF Exhausted, TransactionsInv
<1>7. \A u \in Tx : txJob'[u].state = "active"
                      <=> (txRun'.pc # "idle" /\ txRun'.tx = u)
  BY <1>1, <1>2, <1>3 DEF TransactionsInv, TxSound
<1>. QED
  BY <1>1, <1>2, <1>3, <1>4, <1>5, <1>6, <1>7, JobMoves

\* What the worker knows of the transaction it runs.
LEMMA RunningTx ==
  ASSUME TransactionsInv, txRun.pc # "idle"
  PROVE  /\ txRun.tx \in Tx /\ txJob[txRun.tx].state = "active"
         /\ JobSound(txJob[txRun.tx]) /\ ~Exhausted(txRun.tx)
         /\ enq[txRun.tx] \notin {"create", "add"}
         /\ txJob[txRun.tx].attempts \in Nat
BY DEF TransactionsInv, TxSound, Exhausted, JobSound, JobRecord

LEMMA TakeTxStep ==
  ASSUME TransactionsInv, NEW t \in Tx, TakeTransaction(t)
  PROVE  TransactionsInv'
<1>1. /\ txJob[t].state = "waiting" /\ JobSound(txJob[t]) /\ TransactionsTypeOK
      /\ enq[t] \notin {"create", "add"} /\ txRun.pc = "idle"
      /\ UNCHANGED <<enq, txStatus, hash, calls, dead>>
  BY DEF TakeTransaction, TransactionsInv, TxSound
<1>2. /\ JobSound(Taken(txJob[t])) /\ Taken(txJob[t]).state = "active"
      /\ Taken(txJob[t]).attempts = txJob[t].attempts
      /\ txJob[t].attempts \in Nat
  BY <1>1, TakenJob DEF Taken, JobSound, JobRecord
<1>3. /\ txJob' = [txJob EXCEPT ![t] = Taken(txJob[t])]
      /\ txJob'[t] = Taken(txJob[t])
      /\ \A u \in Tx \ {t} : txJob'[u] = txJob[u]
      /\ txRun' = [pc |-> "submit", tx |-> t]
  BY <1>1 DEF TakeTransaction, TransactionsTypeOK
<1>4. TransactionsTypeOK'
  BY <1>1, <1>2, <1>3 DEF TransactionsTypeOK, JobSound
<1>5. ~Exhausted(t)
  BY <1>1 DEF Exhausted
<1>6. \A u \in Tx : txJob'[u].state = "active"
                      <=> (txRun'.pc # "idle" /\ txRun'.tx = u)
  <2>1. \A u \in Tx : txJob[u].state # "active"
    BY <1>1 DEF TransactionsInv, TxSound
  <2>. QED  BY <1>2, <1>3, <2>1
<1>7. \A u \in Tx : enq'[u] \in {"create", "add"}
                      => enq[u] \in {"create", "add"} /\ u # t
  BY <1>1
<1>8. txRun'.pc # "idle" => txRun'.tx \in Tx
  BY <1>3
<1>. QED
  BY <1>1, <1>2, <1>3, <1>4, <1>5, <1>6, <1>7, <1>8, JobMoves

LEMMA ConfirmStep ==
  ASSUME TransactionsInv, ConfirmTransaction
  PROVE  TransactionsInv'
<1>1. PICK t \in Tx : /\ t = txRun.tx /\ txRun.pc = "submit"
                      /\ TransactionsTypeOK
  BY RunningTx DEF ConfirmTransaction, TransactionsInv
<1>2. /\ txRun' = [txRun EXCEPT !.pc = "complete"]
      /\ txRun'.pc = "complete" /\ txRun'.tx = t
      /\ UNCHANGED <<enq, txJob, calls, dead>>
  BY <1>1 DEF ConfirmTransaction, TransactionsTypeOK
<1>3. \A u \in Tx : txStatus'[u] = "dropped" => txStatus[u] = "dropped"
  BY <1>1 DEF ConfirmTransaction, TransactionsTypeOK
<1>4. TransactionsTypeOK'
  BY <1>1, <1>2 DEF ConfirmTransaction, TransactionsTypeOK
<1>. QED
  BY <1>1, <1>2, <1>3, <1>4
  DEF TransactionsInv, TxSound, CallSound, OneFinalCall, Exhausted,
      FinalAttempt

\* The worker's run of the job of t ends with the job as k.
LEMMA TxRunEnds ==
  ASSUME TransactionsInv, NEW t \in Tx, t = txRun.tx, txRun.pc # "idle",
         NEW k, k \in {Completed(txJob[t]), AttemptFailed(txJob[t])},
         txJob' = [txJob EXCEPT ![t] = k],
         txRun' = IdleTxRun
  PROVE  /\ JobSound(txJob'[t]) /\ txJob'[t] = k
         /\ \A u \in Tx \ {t} : txJob'[u] = txJob[u]
         /\ txJob' \in [Tx -> JobRecord]
         /\ \A u \in Tx : txJob'[u].state = "active"
                            <=> (txRun'.pc # "idle" /\ txRun'.tx = u)
         /\ ~(txRun'.pc # "idle") /\ ~Exhausted(t)
         /\ \A u \in Tx : enq[u] \in {"create", "add"} => u # t
<1>1. /\ txJob \in [Tx -> JobRecord] /\ JobSound(txJob[t])
      /\ txJob[t].state = "active" /\ ~Exhausted(t)
      /\ enq[t] \notin {"create", "add"}
  BY RunningTx DEF TransactionsInv, TransactionsTypeOK
<1>2. JobSound(k) /\ k.state \in {"waiting", "completed", "failed"}
  BY <1>1, EndedJob
<1>3. \A u \in Tx \ {t} : txJob[u].state # "active"
  BY DEF TransactionsInv, TxSound
<1>. QED  BY <1>1, <1>2, <1>3 DEF IdleTxRun, JobSound

LEMMA CompleteStep ==
  ASSUME TransactionsInv, CompleteTransaction
  PROVE  TransactionsInv'
<1>1. PICK t \in Tx : /\ t = txRun.tx /\ txRun.pc # "idle"
                      /\ TransactionsTypeOK /\ txJob[t] \in JobRecord
  BY RunningTx DEF CompleteTransaction, TransactionsInv, JobSound
<1>2. /\ txJob' = [txJob EXCEPT ![t] = Completed(txJob[t])]
      /\ txRun' = IdleTxRun
      /\ UNCHANGED <<enq, txStatus, hash, calls, dead>>
  BY <1>1 DEF CompleteTransaction
<1>3. /\ Completed(txJob[t]).attempts = txJob[t].attempts
      /\ txJob[t].attempts \in Nat
  BY <1>1 DEF Completed, JobRecord
<1>4. /\ JobSound(txJob'[t]) /\ txJob'[t] = Completed(txJob[t])
      /\ \A u \in Tx \ {t} : txJob'[u] = txJob[u]
      /\ txJob' \in [Tx -> JobRecord]
      /\ \A u \in Tx : txJob'[u].state = "active"
                         <=> (txRun'.pc # "idle" /\ txRun'.tx = u)
      /\ ~(txRun'.pc # "idle") /\ ~Exhausted(t)
      /\ \A u \in Tx : enq[u] \in {"create", "add"} => u # t
  BY <1>1, <1>2, TxRunEnds
<1>5. TransactionsTypeOK'
  BY <1>1, <1>2, <1>4 DEF TransactionsTypeOK, IdleTxRun
<1>. QED  BY <1>1, <1>2, <1>3, <1>4, <1>5, JobMoves

LEMMA FailStep ==
  ASSUME TransactionsInv, TransactionFails
  PROVE  TransactionsInv'
<1>1. PICK t \in Tx : /\ t = txRun.tx /\ txRun.pc # "idle"
                      /\ TransactionsTypeOK /\ txJob[t] \in JobRecord
                      /\ JobSound(txJob[t]) /\ txJob[t].state = "active"
  BY RunningTx DEF TransactionFails, TransactionsInv, JobSound
<1>2. PICK c : c = Call(t, txJob[t].attempts + 1, "status")
  OBVIOUS
<1>3. /\ txJob' = [txJob EXCEPT ![t] = AttemptFailed(txJob[t])]
      /\ txRun' = IdleTxRun /\ calls' = calls \cup {c}
      /\ UNCHANGED <<enq, dead>>
  BY <1>1, <1>2 DEF TransactionFails
<1>4. /\ AttemptFailed(txJob[t]).attempts = txJob[t].attempts + 1
      /\ txJob[t].attempts \in Nat /\ txJob[t].attempts < Attempts
      /\ Attempts \in Nat
  BY <1>1, JobAssumption DEF AttemptFailed, JobRecord, JobSound
<1>5. /\ JobSound(txJob'[t]) /\ txJob'[t] = AttemptFailed(txJob[t])
      /\ \A u \in Tx \ {t} : txJob'[u] = txJob[u]
      /\ txJob' \in [Tx -> JobRecord]
      /\ \A u \in Tx : txJob'[u].state = "active"
                         <=> (txRun'.pc # "idle" /\ txRun'.tx = u)
      /\ ~(txRun'.pc # "idle") /\ ~Exhausted(t)
      /\ \A u \in Tx : enq[u] \in {"create", "add"} => u # t
  BY <1>1, <1>3, TxRunEnds
<1>6. /\ txStatus' \in [Tx -> {"none", "pending", "in_progress", "confirmed",
                               "failed", "dropped"}]
      /\ hash' \in [Tx -> BOOLEAN]
      /\ \A u \in Tx \ {t} : txStatus'[u] = txStatus[u]
      /\ txStatus'[t] # "dropped" \/ txStatus'[t] = txStatus[t]
  BY <1>1 DEF TransactionFails, TransactionsTypeOK
<1>7. /\ c.tx = t /\ c.pc = "status" /\ c.made = txJob[t].attempts + 1
      /\ c \in [tx : Tx, made : 0..Attempts, pc : {"stalled", "status", "dead"}]
  BY <1>2, <1>4 DEF Call
<1>8. TransactionsTypeOK'
  BY <1>1, <1>3, <1>5, <1>6, <1>7 DEF TransactionsTypeOK, IdleTxRun
<1>9. \A d \in calls' \ calls :
        /\ d.tx = t /\ d.pc = "status" /\ d.made = txJob'[t].attempts
        /\ d.made > txJob[t].attempts
        /\ calls' = calls \cup {d}
  BY <1>3, <1>4, <1>5, <1>7
<1>. QED  BY <1>1, <1>3, <1>4, <1>5, <1>6, <1>8, <1>9, JobMoves

-----------------------------------------------------------------------------
(* Steps of the listener *)

\* The last attempt of a call is the last of its job.
LEMMA FinalIsExhausted ==
  ASSUME TransactionsInv, NEW c \in calls, FinalAttempt(c)
  PROVE  c.tx \in Tx /\ Exhausted(c.tx)
<1>1. /\ c.tx \in Tx /\ c.made \in Nat /\ c.made <= txJob[c.tx].attempts
      /\ JobSound(txJob[c.tx])
  BY DEF TransactionsInv, TransactionsTypeOK, CallSound, TxSound
<1>2. txJob[c.tx].attempts \in Nat /\ Attempts \in Nat
  BY <1>1, JobAssumption DEF JobSound, JobRecord
<1>. QED  BY <1>1, <1>2 DEF FinalAttempt, Exhausted, JobSound

\* A call goes on: e replaces c, and knows of the same attempts.
LEMMA CallMoves ==
  ASSUME TransactionsInv, TransactionsTypeOK', NEW c \in calls, NEW e,
         e.tx = c.tx, e.made = c.made,
         e.pc # "stalled", e.pc = "dead" => FinalAttempt(e),
         calls' \in {calls \ {c}, (calls \ {c}) \cup {e}},
         UNCHANGED <<enq, txJob, txRun, dead>>,
         \A t \in Tx : txStatus'[t] = "dropped"
                         => txStatus[t] = "dropped" \/ Exhausted(t)
  PROVE  TransactionsInv'
<1>1. FinalAttempt(e) => FinalAttempt(c)
  BY DEF FinalAttempt
<1>2. CallSound(c) /\ \A d \in calls' : d \in calls \/ d = e
  BY DEF TransactionsInv
<1>3. ASSUME NEW t \in Tx PROVE TxSound(t)'
  <2>1. dead[t] > 0 => \A d \in calls' : d.tx = t => ~FinalAttempt(d)
    BY <1>1, <1>2 DEF TransactionsInv, TxSound
  <2>. QED  BY <2>1 DEF TransactionsInv, TxSound, Exhausted, FinalAttempt
<1>4. \A d \in calls' : CallSound(d)'
  BY <1>2 DEF TransactionsInv, CallSound, FinalAttempt
<1>5. OneFinalCall'
  BY <1>1, <1>2 DEF TransactionsInv, OneFinalCall, FinalAttempt
<1>. QED  BY <1>3, <1>4, <1>5 DEF TransactionsInv

LEMMA HandleStep ==
  ASSUME TransactionsInv, NEW c \in calls, HandleFailed(c)
  PROVE  TransactionsInv'
<1> DEFINE e == [c EXCEPT !.pc = "dead"]
<1>1. /\ TransactionsTypeOK /\ c.tx \in Tx /\ c.made \in 0..Attempts
      /\ c \in [tx : Tx, made : 0..Attempts, pc : {"stalled", "status", "dead"}]
  BY DEF TransactionsInv, TransactionsTypeOK
<1>2. /\ e.tx = c.tx /\ e.made = c.made /\ e.pc = "dead"
      /\ e \in [tx : Tx, made : 0..Attempts, pc : {"stalled", "status", "dead"}]
  BY <1>1
<1>3. UNCHANGED <<enq, hash, txJob, txRun, dead>>
  BY DEF HandleFailed
<1>4. \A t \in Tx : txStatus'[t] = "dropped"
                      => txStatus[t] = "dropped" \/ Exhausted(t)
  BY <1>1, FinalIsExhausted DEF HandleFailed, TransactionsTypeOK
<1>5. /\ txStatus' \in [Tx -> {"none", "pending", "in_progress", "confirmed",
                               "failed", "dropped"}]
      /\ calls' \in {calls \ {c}, (calls \ {c}) \cup {e}}
      /\ calls' = (calls \ {c}) \cup {e} => FinalAttempt(c) \/ e \in calls \ {c}
  BY <1>1 DEF HandleFailed, TransactionsTypeOK
<1> HIDE DEF e
<1>6. TransactionsTypeOK'
  BY <1>1, <1>2, <1>3, <1>5 DEF TransactionsTypeOK
<1>7. CASE FinalAttempt(c)
  <2>1. FinalAttempt(e)
    BY <1>2, <1>7 DEF FinalAttempt
  <2>. QED  BY <1>2, <1>3, <1>4, <1>5, <1>6, <2>1, CallMoves
<1>8. CASE ~FinalAttempt(c)
  <2>1. calls' = calls \ {c}
    BY <1>8 DEF HandleFailed
  <2> DEFINE f == [c EXCEPT !.pc = "status"]
  <2>2. f.tx = c.tx /\ f.made = c.made /\ f.pc = "status"
    BY <1>1
  <2> HIDE DEF f
  <2>. QED  BY <1>3, <1>4, <1>6, <2>1, <2>2, CallMoves
<1>. QED  BY <1>7, <1>8

LEMMA NoticeStep ==
  ASSUME TransactionsInv, NEW c \in calls, NoticeStalled(c)
  PROVE  TransactionsInv'
<1> DEFINE e == [c EXCEPT !.pc = "status"]
<1>1. /\ TransactionsTypeOK
      /\ c \in [tx : Tx, made : 0..Attempts, pc : {"stalled", "status", "dead"}]
  BY DEF TransactionsInv, TransactionsTypeOK
<1>2. /\ e.tx = c.tx /\ e.made = c.made /\ e.pc = "status"
      /\ e \in [tx : Tx, made : 0..Attempts, pc : {"stalled", "status", "dead"}]
  BY <1>1
<1>3. /\ calls' = (calls \ {c}) \cup {e}
      /\ UNCHANGED <<enq, txStatus, hash, txJob, txRun, dead>>
  BY DEF NoticeStalled
<1> HIDE DEF e
<1>4. TransactionsTypeOK'
  BY <1>1, <1>2, <1>3 DEF TransactionsTypeOK
<1>. QED  BY <1>2, <1>3, <1>4, CallMoves

\* The dead letter of the one call that saw the last attempt.
LEMMA DeadLetterStep ==
  ASSUME TransactionsInv, NEW c \in calls, AddDeadLetter(c)
  PROVE  TransactionsInv'
<1>1. PICK t \in Tx : /\ t = c.tx /\ TransactionsTypeOK /\ FinalAttempt(c)
                      /\ Exhausted(t)
  <2>1. FinalAttempt(c) /\ TransactionsTypeOK
    BY DEF AddDeadLetter, TransactionsInv, CallSound
  <2>. QED  BY <2>1, FinalIsExhausted
<1>2. dead[t] = 0
  BY <1>1 DEF TransactionsInv, TransactionsTypeOK, TxSound
<1>3. /\ dead' = [dead EXCEPT ![t] = @ + 1] /\ dead'[t] = 1
      /\ \A u \in Tx \ {t} : dead'[u] = dead[u]
      /\ calls' = calls \ {c}
      /\ UNCHANGED <<enq, txStatus, hash, txJob, txRun>>
  BY <1>1, <1>2 DEF AddDeadLetter, TransactionsTypeOK
<1>4. TransactionsTypeOK'
  BY <1>1, <1>3 DEF TransactionsTypeOK
<1>5. \A d \in calls' : d.tx = t => ~FinalAttempt(d)
  BY <1>1, <1>3 DEF TransactionsInv, OneFinalCall
<1>6. ASSUME NEW u \in Tx PROVE TxSound(u)'
  BY <1>1, <1>3, <1>5
  DEF TransactionsInv, TxSound, Exhausted, FinalAttempt
<1>. QED
  BY <1>3, <1>4, <1>6
  DEF TransactionsInv, CallSound, OneFinalCall, FinalAttempt

\* The process ends: calls are lost, and a job that was running stalls.
LEMMA DropStep ==
  ASSUME TransactionsInv, DropTransactions
  PROVE  TransactionsInv'
<1>1. /\ TransactionsTypeOK /\ UNCHANGED <<txStatus, hash, dead>>
      /\ txRun' = IdleTxRun
  BY DEF DropTransactions, TransactionsInv
<1>2. ASSUME NEW t \in Tx
      PROVE  /\ JobSound(txJob'[t]) /\ txJob'[t].state # "active"
             /\ txJob'[t].attempts = txJob[t].attempts
             /\ txJob[t].state # "active" => txJob'[t] = txJob[t]
             /\ txJob[t].state = "active" => txJob'[t] = Stalled(txJob[t])
             /\ txJob[t].attempts \in Nat
  <2>1. JobSound(txJob[t]) /\ txJob[t] \in JobRecord
    BY DEF TransactionsInv, TxSound, JobSound
  <2>2. CASE txJob[t].state = "active"
    <3>1. txJob'[t] = Stalled(txJob[t])
      BY <2>2 DEF DropTransactions
    <3>2. /\ JobSound(Stalled(txJob[t]))
          /\ Stalled(txJob[t]).state \in {"waiting", "completed", "failed"}
      BY <2>1, <2>2, EndedJob
    <3>3. Stalled(txJob[t]).attempts = txJob[t].attempts
      BY <2>1 DEF Stalled, JobRecord
    <3>. QED  BY <2>1, <2>2, <3>1, <3>2, <3>3 DEF JobRecord
  <2>3. CASE txJob[t].state # "active"
    <3>1. txJob'[t] = txJob[t]
      BY <2>3 DEF DropTransactions
    <3>. QED  BY <2>1, <2>3, <3>1 DEF JobRecord
  <2>. QED  BY <2>2, <2>3
<1>3. ASSUME NEW c \in calls'
      PROVE  /\ c \in [tx : Tx, made : 0..Attempts,
                       pc : {"stalled", "status", "dead"}]
             /\ c.pc = "stalled" /\ ~FinalAttempt(c)
             /\ c.made <= txJob'[c.tx].attempts
  <2>1. CASE c \in calls /\ c.pc = "stalled"
    <3>1. c.tx \in Tx /\ CallSound(c)
      BY <2>1 DEF TransactionsInv, TransactionsTypeOK
    <3>. QED  BY <1>1, <1>2, <2>1, <3>1 DEF CallSound, TransactionsTypeOK
  <2>2. CASE \E t \in Tx : /\ txJob[t].state = "active"
                           /\ c = Call(t, txJob[t].attempts, "stalled")
    <3>1. PICK t \in Tx : /\ txJob[t].state = "active"
                          /\ c = Call(t, txJob[t].attempts, "stalled")
      BY <2>2
    <3>2. /\ txJob[t].attempts \in Nat /\ txJob[t].attempts < Attempts
          /\ Attempts \in Nat
      BY <1>2, <3>1, JobAssumption DEF TransactionsInv, TxSound, JobSound
    <3>. QED  BY <1>2, <3>1, <3>2 DEF Call, FinalAttempt
  <2>. QED  BY <2>1, <2>2 DEF DropTransactions
<1>4. TransactionsTypeOK'
  <2>1. txJob' \in [Tx -> JobRecord]
    BY <1>2 DEF DropTransactions, JobSound
  <2>2. enq' \in [Tx -> {"create", "add", "mark", "over"}]
    BY DEF DropTransactions
  <2>. QED  BY <1>1, <1>3, <2>1, <2>2 DEF TransactionsTypeOK, IdleTxRun
<1>5. ASSUME NEW t \in Tx PROVE TxSound(t)'
  <2>1. Exhausted(t) => Exhausted(t)'
    BY <1>2 DEF Exhausted
  <2>2. enq'[t] \in {"create", "add"} =>
          enq[t] = "create" /\ txJob'[t].state = "none"
    BY <1>2 DEF DropTransactions, TransactionsInv, TxSound
  <2>3. /\ txStatus'[t] = "dropped" => Exhausted(t)'
        /\ dead'[t] > 0 => Exhausted(t)' /\ dead'[t] = 1
    BY <1>1, <2>1 DEF TransactionsInv, TxSound
  <2>. QED
    BY <1>1, <1>2, <1>3, <2>2, <2>3 DEF TxSound, IdleTxRun, FinalAttempt
<1>6. /\ \A c \in calls' : CallSound(c)'
      /\ OneFinalCall'
  BY <1>3 DEF CallSound, OneFinalCall, FinalAttempt
<1>7. ~(txRun'.pc # "idle")
  BY <1>1 DEF IdleTxRun
<1>. QED  BY <1>4, <1>5, <1>6, <1>7 DEF TransactionsInv

-----------------------------------------------------------------------------
(* The process: its inductive invariant *)

\* Some shutdown is through with the step i of Stop.
Passed(i) == \E k \in Shutdown : at[k] > i

Booted(n) == {Boot[i] : i \in 1..n}

\* What is initialised in each phase: a prefix of Boot, everything, or what no
\* shutdown has stopped.
LifecycleInv ==
  /\ LifecycleTypeOK
  /\ phase = "down" => up = {}
  /\ phase = "booting" => \E n \in 0..Len(Boot) : up = Booted(n)
  /\ phase \in {"serving", "draining"} => up = Component
  /\ phase = "stopping" =>
       \A i \in 1..Len(Stop) : ~Passed(i) => Stopped(Stop[i]) \subseteq up
  /\ phase # "stopping" => \A k \in Shutdown : at[k] = 0
  /\ \A k \in Shutdown : at[k] > 0 => k <= signals
  /\ Passed(1) => "listener" \notin up

\* What runs needs components that are up, and that no shutdown stops before
\* it has waited for it.
TxNeeds == {"database", "redis", "sapphire"}
JobNeeds == {"database", "redis"}

RunningInv ==
  /\ left \subseteq InFlight
  /\ Connected # {} => phase \in {"serving", "draining"}
  /\ txRun.pc # "idle" => TxNeeds \subseteq up /\ ~Passed(2)
  /\ busy => JobNeeds \subseteq up /\ ~Passed(4)

ServiceInv ==
  /\ LifecycleInv /\ TransactionsInv /\ GateInv /\ RunningInv
  /\ faults \in Nat /\ crashes \in Nat
  /\ ShutdownsInterruptNothing

-----------------------------------------------------------------------------
(* The sequences of components *)

LEMMA BootFacts ==
  /\ Len(Boot) = 7 /\ Boot \in Seq(Component)
  /\ Boot[1] = "database" /\ Boot[2] = "redis" /\ Boot[3] = "queues"
  /\ Boot[4] = "sapphire" /\ Boot[5] = "listener" /\ Boot[6] = "manager"
  /\ Boot[7] = "workers"
  /\ Component = {"database", "redis", "queues", "sapphire", "listener",
                  "manager", "workers"}
<1>1. /\ Len(Boot) = 7 /\ DOMAIN Boot = 1..7
      /\ Boot[1] = "database" /\ Boot[2] = "redis" /\ Boot[3] = "queues"
      /\ Boot[4] = "sapphire" /\ Boot[5] = "listener" /\ Boot[6] = "manager"
      /\ Boot[7] = "workers"
  BY DEF Boot
<1>2. 1..7 = {1, 2, 3, 4, 5, 6, 7}
  OBVIOUS
<1>3. Component = {Boot[i] : i \in {1, 2, 3, 4, 5, 6, 7}}
  BY <1>1, <1>2 DEF Component, Range
<1>4. Component = {Boot[1], Boot[2], Boot[3], Boot[4], Boot[5], Boot[6],
                   Boot[7]}
  BY <1>3
<1>5. Boot \in Seq(Component)
  BY <1>1, <1>4 DEF Boot
<1>. QED  BY <1>1, <1>4, <1>5

LEMMA StopFacts ==
  /\ Len(Stop) = 6
  /\ Stop[1] = "listener" /\ Stop[2] = "manager" /\ Stop[3] = "sapphire"
  /\ Stop[4] = "queues" /\ Stop[5] = "redis" /\ Stop[6] = "database"
  /\ Stopped(Stop[1]) = {"listener"} /\ Stopped(Stop[2]) = {"manager"}
  /\ Stopped(Stop[3]) = {"sapphire"} /\ Stopped(Stop[4]) = {"queues", "workers"}
  /\ Stopped(Stop[5]) = {"redis"} /\ Stopped(Stop[6]) = {"database"}
BY DEF Stop, Stopped

\* The components initialised so far tell how many there are.
LEMMA BootedCount ==
  ASSUME NEW n \in 0..7
  PROVE  IsFiniteSet(Booted(n)) /\ Cardinality(Booted(n)) = n
<1> DEFINE P(i) == IsFiniteSet(Booted(i)) /\ Cardinality(Booted(i)) = i
<1>0. P(0)
  BY FS_EmptySet DEF Booted
<1>1. ASSUME NEW i \in 0..6, P(i) PROVE P(i + 1)
  <2>1. Booted(i + 1) = Booted(i) \cup {Boot[i + 1]}
    <3>1. 1..(i + 1) = (1..i) \cup {i + 1}
      OBVIOUS
    <3>. QED  BY <3>1 DEF Booted
  <2>2. Boot[i + 1] \notin Booted(i)
    <3>1. i \in {0, 1, 2, 3, 4, 5, 6}
      OBVIOUS
    <3>2. ASSUME NEW j \in 1..i PROVE Boot[j] # Boot[i + 1]
      <4>1. j \in {1, 2, 3, 4, 5, 6} /\ j # i + 1
        OBVIOUS
      <4>. QED  BY <3>1, <4>1, BootFacts
    <3>. QED  BY <3>2 DEF Booted
  <2>3. IsFiniteSet(Booted(i)) /\ Cardinality(Booted(i)) = i
    BY <1>1
  <2>4. /\ IsFiniteSet(Booted(i) \cup {Boot[i + 1]})
        /\ Cardinality(Booted(i) \cup {Boot[i + 1]}) = i + 1
    BY <2>2, <2>3, FS_AddElement
  <2>. QED  BY <2>1, <2>4
<1> HIDE DEF P
<1>2. P(1)
  BY <1>0, <1>1
<1>3. P(2)
  BY <1>2, <1>1
<1>4. P(3)
  BY <1>3, <1>1
<1>5. P(4)
  BY <1>4, <1>1
<1>6. P(5)
  BY <1>5, <1>1
<1>7. P(6)
  BY <1>6, <1>1
<1>8. P(7)
  BY <1>7, <1>1
<1>9. n \in {0, 1, 2, 3, 4, 5, 6, 7}
  OBVIOUS
<1>10. P(n)
  BY <1>0, <1>2, <1>3, <1>4, <1>5, <1>6, <1>7, <1>8, <1>9
<1>. QED  BY <1>10 DEF P

\* bootstrapInfrastructure: one component more, the next of Boot.
LEMMA BootGrows ==
  ASSUME NEW n \in 0..7, up = Booted(n), up # Component
  PROVE  /\ n \in 0..6 /\ Boot[Cardinality(up) + 1] \in Component
         /\ up \cup {Boot[Cardinality(up) + 1]} = Booted(n + 1)
<1>1. Cardinality(up) = n
  BY BootedCount
<1>2. n # 7
  <2>1. Booted(7) = Component
    BY BootFacts DEF Booted, Component, Range
  <2>. QED  BY <2>1
<1>3. 1..(n + 1) = (1..n) \cup {n + 1} /\ n \in 0..6
  BY <1>2
<1>4. n + 1 \in {1, 2, 3, 4, 5, 6, 7}
  BY <1>3
<1>5. Boot[n + 1] \in Component
  BY <1>4, BootFacts
<1>6. Booted(n) \cup {Boot[n + 1]} = Booted(n + 1)
  BY <1>3 DEF Booted
<1>. QED  BY <1>1, <1>3, <1>5, <1>6

\* The manager and the other workers come after what they need.
LEMMA BootOrder ==
  ASSUME NEW n \in 0..7
  PROVE  /\ "manager" \in Booted(n) => TxNeeds \subseteq Booted(n)
         /\ "workers" \in Booted(n) => JobNeeds \subseteq Booted(n)
         /\ "listener" \in Booted(n) => JobNeeds \subseteq Booted(n)
<1>1. ASSUME n >= 4
      PROVE  TxNeeds \subseteq Booted(n) /\ JobNeeds \subseteq Booted(n)
  <2>1. 1 \in 1..n /\ 2 \in 1..n /\ 4 \in 1..n
    BY <1>1
  <2>. QED  BY <2>1, BootFacts DEF Booted, TxNeeds, JobNeeds
<1>2. ASSUME \/ "manager" \in Booted(n) \/ "workers" \in Booted(n)
             \/ "listener" \in Booted(n)
      PROVE  n >= 4
  <2>1. PICK i \in 1..n : Boot[i] \in {"manager", "workers", "listener"}
    BY <1>2 DEF Booted
  <2>2. i \notin {1, 2, 3, 4}
    BY <2>1, BootFacts
  <2>. QED  BY <2>1, <2>2
<1>. QED  BY <1>1, <1>2

-----------------------------------------------------------------------------
(* Steps of one part, which leave the others alone *)

LEMMA DownSound == LifecycleInit => LifecycleInv
<1> SUFFICES ASSUME LifecycleInit PROVE LifecycleInv
  OBVIOUS
<1>1. /\ at = [k \in Shutdown |-> 0] /\ 0 \in 0..(Len(Stop) + 1)
      /\ signals = 0 /\ 0 \in 0..MaxSignals
  BY StopFacts, SignalAssumption DEF LifecycleInit
<1>2. LifecycleTypeOK
  BY <1>1 DEF LifecycleInit, LifecycleTypeOK
<1>. QED  BY <1>1, <1>2 DEF LifecycleInit, LifecycleInv

LEMMA InitService == Init => ServiceInv
<1> SUFFICES ASSUME Init PROVE ServiceInv
  OBVIOUS
<1>1. TransactionsInv /\ GateInv
  BY InitTransactions, InitGate DEF Init
<1>2. LifecycleInv
  BY DownSound DEF Init
<1>3. RunningInv
  BY DEF Init, LifecycleInit, TransactionsInit, GateInit, RunningInv, InFlight,
         Connected, IdleTxRun
<1>4. ShutdownsInterruptNothing
  BY DEF Init, TransactionsInit, ShutdownsInterruptNothing, NoJob
<1>. QED  BY <1>1, <1>2, <1>3, <1>4 DEF Init, ServiceInv

LEMMA QuietTransactions ==
  ASSUME TransactionsInv, UNCHANGED transactions
  PROVE  TransactionsInv'
BY DEF transactions, TransactionsInv, TransactionsTypeOK, TxSound, CallSound,
       OneFinalCall, Exhausted, FinalAttempt

LEMMA QuietGate ==
  ASSUME GateInv, UNCHANGED gate
  PROVE  GateInv'
BY GateStep

LEMMA QuietLifecycle ==
  ASSUME LifecycleInv, UNCHANGED lifecycle
  PROVE  LifecycleInv' /\ \A i \in Nat : Passed(i)' = Passed(i)
BY DEF lifecycle, LifecycleInv, LifecycleTypeOK, Passed

LEMMA LifecycleMoves ==
  ASSUME ServiceInv, UNCHANGED <<transactions, gate, left, faults, crashes>>,
         LifecycleInv', RunningInv'
  PROVE  ServiceInv'
BY QuietTransactions, QuietGate
DEF ServiceInv, ShutdownsInterruptNothing, transactions

LEMMA TransactionsMove ==
  ASSUME ServiceInv, UNCHANGED <<lifecycle, gate, left, crashes>>,
         faults' \in Nat,
         TransactionsInv',
         txRun'.pc # "idle" => TxNeeds \subseteq up /\ ~Passed(2),
         \A t \in Tx : txJob'[t].stalls = txJob[t].stalls
  PROVE  ServiceInv'
<1>1. LifecycleInv' /\ GateInv'
  BY QuietLifecycle, QuietGate DEF ServiceInv
<1>2. RunningInv'
  BY DEF ServiceInv, RunningInv, lifecycle, gate, InFlight, Connected, Passed
<1>3. ShutdownsInterruptNothing'
  BY DEF ServiceInv, ShutdownsInterruptNothing
<1>. QED  BY <1>1, <1>2, <1>3 DEF ServiceInv

LEMMA GateMoves ==
  ASSUME ServiceInv, UNCHANGED <<lifecycle, transactions, crashes>>,
         faults' \in Nat, GateNext, left' = left \cap InFlight',
         InFlight' \subseteq InFlight \/ phase \in {"serving", "draining"}
  PROVE  ServiceInv'
<1>1. LifecycleInv' /\ GateInv' /\ TransactionsInv'
  BY QuietLifecycle, GateStep, QuietTransactions DEF ServiceInv
<1>2. RunningInv'
  BY DEF ServiceInv, RunningInv, Connected, lifecycle, transactions, Passed
<1>3. ShutdownsInterruptNothing'
  BY DEF ServiceInv, ShutdownsInterruptNothing, transactions
<1>. QED  BY <1>1, <1>2, <1>3 DEF ServiceInv

\* The process is gone, after a crash or at the end of a shutdown, which must
\* not have left a transaction running.
LEMMA ProcessGone ==
  ASSUME ServiceInv, Down, Gone, faults' \in Nat, crashes' \in Nat,
         crashes' >= crashes, txRun.pc # "idle" => crashes' = crashes + 1
  PROVE  ServiceInv'
<1>1. TransactionsInv' /\ GateInv'
  <2>1. GateNext
    BY DEF Gone, GateNext
  <2>. QED  BY <2>1, DropStep, GateStep DEF ServiceInv, Gone
<1>2. LifecycleInv'
  <2>1. LifecycleInit'
    BY DEF Down, LifecycleInit
  <2>. QED  BY <2>1, DownSound, PTL
<1>3. RunningInv'
  BY DEF Down, Gone, DropTransactions, DropRequests, RunningInv, InFlight,
         Connected, IdleTxRun
<1>4. ShutdownsInterruptNothing'
  <2>1. ASSUME NEW t \in Tx PROVE txJob'[t].stalls <= crashes'
    <3>1. /\ txJob[t] \in JobRecord /\ txJob[t].stalls <= crashes
          /\ crashes \in Nat
          /\ txJob[t].state = "active" => txRun.pc # "idle"
      BY DEF ServiceInv, ShutdownsInterruptNothing, TransactionsInv, TxSound,
             TransactionsTypeOK
    <3>2. CASE txJob[t].state = "active"
      <4>1. txJob'[t] = Stalled(txJob[t])
        BY <3>2 DEF Gone, DropTransactions
      <4>2. Stalled(txJob[t]).stalls = txJob[t].stalls + 1
        BY <3>1 DEF Stalled, JobRecord
      <4>3. txJob[t].stalls \in Nat
        BY <3>1 DEF JobRecord
      <4>. QED  BY <3>1, <3>2, <4>1, <4>2, <4>3
    <3>3. CASE txJob[t].state # "active"
      <4>1. txJob'[t] = txJob[t] /\ txJob[t].stalls \in Nat
        BY <3>1, <3>3 DEF Gone, DropTransactions, JobRecord
      <4>. QED  BY <3>1, <4>1
    <3>. QED  BY <3>2, <3>3
  <2>. QED  BY <2>1 DEF ShutdownsInterruptNothing
<1>. QED  BY <1>1, <1>2, <1>3, <1>4 DEF ServiceInv

-----------------------------------------------------------------------------
(* Steps of the process *)

\* The other steps of a lifecycle that is not stopping.
LEMMA StartStep ==
  ASSUME ServiceInv, Lifecycle(StartProcess \/ BootStep \/ Listen)
  PROVE  ServiceInv'
<1>1. /\ UNCHANGED <<transactions, gate, left, faults, crashes, signals, at, busy>>
      /\ LifecycleInv /\ RunningInv
  BY DEF Lifecycle, StartProcess, BootStep, Listen, ServiceInv
<1>2. /\ \A i \in Nat : Passed(i)' = Passed(i)
      /\ InFlight' = InFlight /\ Connected' = Connected /\ txRun' = txRun
  BY <1>1 DEF Passed, InFlight, Connected, gate, transactions
<1>3. CASE StartProcess
  <2>1. /\ up' = up /\ up = {} /\ phase' = "booting" /\ phase = "down"
    BY <1>1, <1>3 DEF StartProcess, LifecycleInv
  <2>2. up = Booted(0) /\ 0 \in 0..Len(Boot)
    BY <2>1, BootFacts DEF Booted
  <2>3. LifecycleInv'
    BY <1>1, <2>1, <2>2 DEF LifecycleInv, LifecycleTypeOK
  <2>4. RunningInv'
    BY <1>1, <1>2, <2>1 DEF RunningInv
  <2>. QED  BY <1>1, <2>3, <2>4, LifecycleMoves
<1>4. CASE BootStep
  <2>1. PICK n \in 0..7 : up = Booted(n)
    BY <1>1, <1>4, BootFacts DEF BootStep, LifecycleInv
  <2>2. /\ phase' = phase /\ phase = "booting" /\ up # Component
        /\ up' = up \cup {Boot[Cardinality(up) + 1]}
    BY <1>4 DEF BootStep
  <2>3. /\ n + 1 \in 0..Len(Boot) /\ up' = Booted(n + 1)
        /\ Boot[Cardinality(up) + 1] \in Component
    BY <2>1, <2>2, BootGrows, BootFacts
  <2>4. ~Passed(1)'
    BY <1>1, <2>2 DEF LifecycleInv, Passed
  <2>5. LifecycleInv'
    BY <1>1, <2>2, <2>3, <2>4 DEF LifecycleInv, LifecycleTypeOK
  <2>6. RunningInv'
    BY <1>1, <1>2, <2>2 DEF RunningInv
  <2>. QED  BY <1>1, <2>5, <2>6, LifecycleMoves
<1>5. CASE Listen
  <2>1. phase' = "serving" /\ up' = up /\ up = Component /\ phase = "booting"
    BY <1>5 DEF Listen
  <2>2. ~Passed(1)'
    BY <1>1, <2>1 DEF LifecycleInv, Passed
  <2>3. LifecycleInv'
    BY <1>1, <2>1, <2>2 DEF LifecycleInv, LifecycleTypeOK
  <2>4. RunningInv'
    BY <1>1, <1>2, <2>1 DEF RunningInv
  <2>. QED  BY <1>1, <2>3, <2>4, LifecycleMoves
<1>. QED  BY <1>3, <1>4, <1>5 DEF Lifecycle

LEMMA SignalStep ==
  ASSUME ServiceInv, Lifecycle(Signal)
  PROVE  ServiceInv'
<1>1. /\ UNCHANGED <<transactions, gate, left, faults, crashes, up, busy>>
      /\ LifecycleInv /\ RunningInv
      /\ at \in [Shutdown -> 0..(Len(Stop) + 1)] /\ Len(Stop) = 6
      /\ signals \in 0..MaxSignals /\ signals' = signals + 1
      /\ signals < MaxSignals /\ MaxSignals \in Nat /\ Shutdown = 1..MaxSignals
  BY SignalAssumption, StopFacts
  DEF Lifecycle, Signal, ServiceInv, LifecycleInv, LifecycleTypeOK, Shutdown
<1>2. InFlight' = InFlight /\ Connected' = Connected /\ txRun' = txRun
  BY <1>1 DEF InFlight, Connected, gate, transactions
<1>3. CASE phase = "stopping"
  <2>1. at' = [at EXCEPT ![signals + 1] = 1] /\ phase' = phase
    BY <1>3 DEF Lifecycle, Signal
  <2>2. at[signals + 1] = 0
    BY <1>1 DEF LifecycleInv
  <2>3. \A i \in 1..6 : Passed(i)' = Passed(i)
    BY <1>1, <2>1, <2>2 DEF Passed
  <2>4. LifecycleInv'
    BY <1>1, <1>3, <2>1, <2>3 DEF LifecycleInv, LifecycleTypeOK
  <2>5. RunningInv'
    BY <1>1, <1>2, <2>1, <2>3 DEF RunningInv
  <2>. QED  BY <1>1, <2>4, <2>5, LifecycleMoves
<1>4. CASE phase # "stopping"
  <2>1. at' = at /\ phase' = "draining" /\ phase \in {"serving", "draining"}
    BY <1>4 DEF Lifecycle, Signal
  <2>2. ~Passed(1)'
    BY <1>1, <2>1 DEF LifecycleInv, Passed
  <2>3. LifecycleInv'
    BY <1>1, <2>1, <2>2 DEF LifecycleInv, LifecycleTypeOK
  <2>4. RunningInv'
    BY <1>1, <1>2, <2>1 DEF RunningInv, Passed
  <2>. QED  BY <1>1, <2>3, <2>4, LifecycleMoves
<1>. QED  BY <1>3, <1>4

\* The server is closed once no request has a connection.
LEMMA CloseStep ==
  ASSUME ServiceInv, CloseIdleServer
  PROVE  ServiceInv'
<1>1. /\ UNCHANGED <<transactions, gate, left, faults, crashes, up, signals, busy>>
      /\ LifecycleInv /\ RunningInv /\ Connected = {} /\ phase = "draining"
      /\ phase' = "stopping"
      /\ at' = [k \in Shutdown |-> IF k <= signals THEN 1 ELSE 0]
      /\ up = Component /\ Len(Stop) = 6
  BY StopFacts
  DEF CloseIdleServer, CloseServer, Lifecycle, ServiceInv, LifecycleInv
<1>2. InFlight' = InFlight /\ Connected' = Connected /\ txRun' = txRun
  BY <1>1 DEF InFlight, Connected, gate, transactions
<1>3. \A i \in 1..6 : ~Passed(i)'
  BY <1>1 DEF Passed
<1>4. \A i \in 1..6 : Stopped(Stop[i]) \subseteq Component
  <2>1. ASSUME NEW i \in {1, 2, 3, 4, 5, 6}
        PROVE  Stopped(Stop[i]) \subseteq Component
    BY StopFacts, BootFacts
  <2>. QED  BY <2>1
<1>5. LifecycleInv'
  <2>1. ~Passed(1)'
    BY <1>3
  <2>. QED  BY <1>1, <1>4, <2>1 DEF LifecycleInv, LifecycleTypeOK
<1>6. RunningInv'
  BY <1>1, <1>2, <1>3 DEF RunningInv
<1>. QED  BY <1>1, <1>5, <1>6, LifecycleMoves

\* An awaited step of a shutdown: the manager and the other workers are
\* stopped before what they need, and waited for.
LEMMA StopsStep ==
  ASSUME ServiceInv, NEW k \in Shutdown, StopNext(k)
  PROVE  ServiceInv'
<1>1. /\ UNCHANGED <<transactions, gate, left, faults, crashes, phase, signals, busy>>
      /\ LifecycleInv /\ RunningInv
      /\ at \in [Shutdown -> 0..7] /\ Len(Stop) = 6 /\ up \subseteq Component
  BY StopFacts
  DEF StopNext, StopStep, Lifecycle, ServiceInv, LifecycleInv, LifecycleTypeOK
<1>2. PICK i \in 1..6 : /\ at[k] = i
                        /\ up' = up \ Stopped(Stop[i])
                        /\ at' = [at EXCEPT ![k] = i + 1]
                        /\ i \in {2, 4} => txRun.pc = "idle"
                        /\ i = 4 => ~busy
  <2>1. at[k] \in 1..6
    <3>1. Stopping(k)
      BY DEF StopNext
    <3>. QED  BY <1>1, <3>1 DEF Stopping
  <2>2. /\ Current(k) = Stop[at[k]]
        /\ Current(k) \in {"manager", "queues"} => txRun.pc = "idle"
        /\ Current(k) = "queues" => ~busy
        /\ up' = up \ Stopped(Current(k))
        /\ at' = [at EXCEPT ![k] = @ + 1]
    BY DEF StopNext, Lifecycle, StopStep, Current
  <2>3. at[k] = 2 => Current(k) = "manager"
    BY <2>2, StopFacts
  <2>4. at[k] = 4 => Current(k) = "queues"
    BY <2>2, StopFacts
  <2>. QED  BY <2>1, <2>2, <2>3, <2>4
<1>3. phase = "stopping"
  BY <1>2 DEF ServiceInv, LifecycleInv
<1>4. \A j \in 1..6 : Passed(j)' <=> Passed(j) \/ j = i
  <2>1. at'[k] = i + 1 /\ \A m \in Shutdown \ {k} : at'[m] = at[m]
    BY <1>1, <1>2
  <2>2. ASSUME NEW j \in 1..6, Passed(j) \/ j = i PROVE Passed(j)'
    <3>1. CASE j = i
      BY <1>2, <2>1, <3>1 DEF Passed
    <3>2. CASE Passed(j)
      <4>1. PICK m \in Shutdown : at[m] > j
        BY <3>2 DEF Passed
      <4>2. at'[m] > j
        BY <1>1, <1>2, <2>1, <4>1
      <4>. QED  BY <4>2 DEF Passed
    <3>. QED  BY <2>2, <3>1, <3>2
  <2>3. ASSUME NEW j \in 1..6, Passed(j)' PROVE Passed(j) \/ j = i
    <3>1. PICK m \in Shutdown : at'[m] > j
      BY <2>3 DEF Passed
    <3>2. CASE m = k
      <4>1. i + 1 > j
        BY <2>1, <3>1, <3>2
      <4>2. j = i \/ i > j
        BY <4>1
      <4>. QED  BY <1>2, <4>2 DEF Passed
    <3>3. CASE m # k
      BY <2>1, <3>1, <3>3 DEF Passed
    <3>. QED  BY <3>2, <3>3
  <2>. QED  BY <2>2, <2>3
<1>5. \A j \in 1..6 : j # i => Stopped(Stop[j]) \cap Stopped(Stop[i]) = {}
  <2>1. ASSUME NEW j \in {1, 2, 3, 4, 5, 6}, NEW m \in {1, 2, 3, 4, 5, 6},
               j # m
        PROVE  Stopped(Stop[j]) \cap Stopped(Stop[m]) = {}
    BY <2>1, StopFacts
  <2>. QED  BY <2>1
<1>6. LifecycleInv'
  <2>1. \A j \in 1..6 : ~Passed(j)' => Stopped(Stop[j]) \subseteq up'
    BY <1>1, <1>2, <1>3, <1>4, <1>5 DEF LifecycleInv
  <2>2. LifecycleTypeOK'
    BY <1>1, <1>2 DEF LifecycleInv, LifecycleTypeOK
  <2>3. \A m \in Shutdown : at'[m] > 0 => m <= signals'
    BY <1>1, <1>2 DEF LifecycleInv
  <2>4. Passed(1)' => "listener" \notin up'
    <3>1. 1 \in 1..6 /\ (i = 1 => "listener" \notin up')
      BY <1>2, StopFacts
    <3>. QED  BY <1>2, <1>4, <3>1 DEF LifecycleInv, ServiceInv
  <2>. QED  BY <1>1, <1>3, <2>1, <2>2, <2>3, <2>4 DEF LifecycleInv
<1>7. InFlight' = InFlight /\ Connected' = Connected /\ txRun' = txRun
  BY <1>1 DEF InFlight, Connected, gate, transactions
<1>8. RunningInv'
  <2>1. \A j, m \in 1..6 : Passed(j)' /\ m < j => Passed(m)'
    <3>1. at' \in [Shutdown -> 0..7]
      BY <1>1, <1>2
    <3>. QED  BY <3>1 DEF Passed
  <2>2. \A j \in 1..6 : ~Passed(j)' => Stopped(Stop[j]) \subseteq up'
    <3>1. phase' = "stopping"
      BY <1>1, <1>3
    <3>. QED  BY <1>1, <1>6, <3>1 DEF LifecycleInv
  <2>3. ASSUME txRun.pc # "idle" PROVE TxNeeds \subseteq up' /\ ~Passed(2)'
    <3>1. ~Passed(2)'
      BY <1>1, <1>2, <1>4, <2>3 DEF RunningInv
    <3>2. ~Passed(3)' /\ ~Passed(5)' /\ ~Passed(6)'
      BY <2>1, <3>1
    <3>3. /\ Stopped(Stop[3]) \subseteq up' /\ Stopped(Stop[5]) \subseteq up'
          /\ Stopped(Stop[6]) \subseteq up'
      BY <2>2, <3>2
    <3>. QED  BY <3>1, <3>3, StopFacts DEF TxNeeds
  <2>4. ASSUME busy PROVE JobNeeds \subseteq up' /\ ~Passed(4)'
    <3>1. ~Passed(4)'
      BY <1>1, <1>2, <1>4, <2>4 DEF RunningInv
    <3>2. ~Passed(5)' /\ ~Passed(6)'
      BY <2>1, <3>1
    <3>3. Stopped(Stop[5]) \subseteq up' /\ Stopped(Stop[6]) \subseteq up'
      BY <2>2, <3>2
    <3>. QED  BY <3>1, <3>3, StopFacts DEF JobNeeds
  <2>. QED  BY <1>1, <1>7, <2>3, <2>4 DEF RunningInv
<1>. QED  BY <1>1, <1>6, <1>8, LifecycleMoves

\* What a worker that may take a job finds: it is up with what it needs, and
\* no shutdown is past it.
LEMMA NeedsAreUp ==
  ASSUME LifecycleInv
  PROVE  /\ "manager" \in up /\ ~Closing("manager")
              => TxNeeds \subseteq up /\ ~Passed(2)
         /\ "workers" \in up /\ ~Closing("queues")
              => JobNeeds \subseteq up /\ ~Passed(4)
<1>1. /\ at \in [Shutdown -> 0..7] /\ Len(Stop) = 6 /\ Len(Boot) = 7
      /\ phase \in {"down", "booting", "serving", "draining", "stopping"}
  BY StopFacts, BootFacts DEF LifecycleInv, LifecycleTypeOK
<1>2. ASSUME ~Closing("manager") PROVE ~Passed(2)
  <2>1. ASSUME NEW k \in Shutdown, at[k] > 2 PROVE FALSE
    <3>1. 2 \in 1..at[k] /\ 2 <= Len(Stop) /\ Stop[2] = "manager"
      BY <1>1, <2>1, StopFacts
    <3>. QED  BY <1>2, <3>1 DEF Closing
  <2>. QED  BY <2>1 DEF Passed
<1>3. ASSUME ~Closing("queues") PROVE ~Passed(4)
  <2>1. ASSUME NEW k \in Shutdown, at[k] > 4 PROVE FALSE
    <3>1. 4 \in 1..at[k] /\ 4 <= Len(Stop) /\ Stop[4] = "queues"
      BY <1>1, <2>1, StopFacts
    <3>. QED  BY <1>3, <3>1 DEF Closing
  <2>. QED  BY <2>1 DEF Passed
<1>4. CASE phase = "down"
  BY <1>4 DEF LifecycleInv
<1>5. CASE phase = "booting"
  <2>1. PICK n \in 0..7 : up = Booted(n)
    BY <1>1, <1>5 DEF LifecycleInv
  <2>. QED  BY <1>2, <1>3, <2>1, BootOrder
<1>6. CASE phase \in {"serving", "draining"}
  <2>1. up = Component
    BY <1>6 DEF LifecycleInv
  <2>. QED  BY <1>2, <1>3, <2>1, BootFacts DEF TxNeeds, JobNeeds
<1>7. CASE phase = "stopping"
  <2>1. \A i \in 1..6 : ~Passed(i) => Stopped(Stop[i]) \subseteq up
    BY <1>1, <1>7 DEF LifecycleInv
  <2>2. \A i, j \in 1..6 : i < j /\ Passed(j) => Passed(i)
    BY <1>1 DEF Passed
  <2>3. ~Passed(2) => ~Passed(3) /\ ~Passed(5) /\ ~Passed(6)
    BY <2>2
  <2>4. ~Passed(4) => ~Passed(5) /\ ~Passed(6)
    BY <2>2
  <2>5. ~Passed(2) => TxNeeds \subseteq up
    <3>1. ASSUME ~Passed(2)
          PROVE  /\ Stopped(Stop[3]) \subseteq up
                 /\ Stopped(Stop[5]) \subseteq up
                 /\ Stopped(Stop[6]) \subseteq up
      BY <2>1, <2>3, <3>1
    <3>. QED  BY <3>1, StopFacts DEF TxNeeds
  <2>6. ~Passed(4) => JobNeeds \subseteq up
    <3>1. ASSUME ~Passed(4)
          PROVE  /\ Stopped(Stop[5]) \subseteq up
                 /\ Stopped(Stop[6]) \subseteq up
      BY <2>1, <2>4, <3>1
    <3>. QED  BY <3>1, StopFacts DEF JobNeeds
  <2>. QED  BY <1>2, <1>3, <2>5, <2>6
<1>. QED  BY <1>1, <1>4, <1>5, <1>6, <1>7

LEMMA OtherJobStep ==
  ASSUME ServiceInv, Lifecycle(TakeOtherJob \/ EndOtherJob)
  PROVE  ServiceInv'
<1>1. /\ UNCHANGED <<transactions, gate, left, faults, crashes>>
      /\ UNCHANGED <<phase, up, signals, at>>
      /\ busy' \in BOOLEAN /\ LifecycleInv /\ RunningInv
      /\ busy' => "workers" \in up /\ ~Closing("queues")
  BY DEF Lifecycle, TakeOtherJob, EndOtherJob, ServiceInv
<1>2. LifecycleInv'
  BY <1>1 DEF LifecycleInv, LifecycleTypeOK, Passed
<1>3. RunningInv'
  <2>1. busy' => JobNeeds \subseteq up /\ ~Passed(4)
    BY <1>1, NeedsAreUp
  <2>. QED
    BY <1>1, <2>1 DEF RunningInv, Passed, InFlight, Connected, gate, transactions
<1>. QED  BY <1>1, <1>2, <1>3, LifecycleMoves

\* process.exit: the shutdown that calls it has waited for the manager.
LEMMA ExitStep ==
  ASSUME ServiceInv, NEW k \in Shutdown, ExitProcess(k)
  PROVE  ServiceInv'
<1>1. /\ at \in [Shutdown -> 0..7] /\ Len(Stop) = 6 /\ RunningInv
      /\ crashes \in Nat /\ faults \in Nat
      /\ Down /\ Gone /\ UNCHANGED <<faults, crashes>>
  BY StopFacts
  DEF ServiceInv, LifecycleInv, LifecycleTypeOK, ExitProcess, Exit, StopTwice
<1>2. at[k] > 2
  <2>1. CASE Exit(k)
    BY <1>1, <2>1 DEF Exit
  <2>2. CASE StopTwice(k)
    <3>1. at[k] \in 1..6 /\ Stop[at[k]] \in {"redis", "database"}
      BY <1>1, <2>2 DEF StopTwice, Stopping, Current
    <3>2. at[k] \notin {1, 2}
      BY <3>1, StopFacts
    <3>. QED  BY <3>1, <3>2
  <2>. QED  BY <2>1, <2>2 DEF ExitProcess
<1>3. ~(txRun.pc # "idle")
  BY <1>1, <1>2 DEF RunningInv, Passed
<1>. QED  BY <1>1, <1>3, ProcessGone

LEMMA DiedStep ==
  ASSUME ServiceInv, Died, faults' \in Nat
  PROVE  ServiceInv'
<1>1. crashes \in Nat
  BY DEF ServiceInv
<1>. QED  BY <1>1, ProcessGone DEF Died

-----------------------------------------------------------------------------
(* Steps of what runs in the process *)

LEMMA StallsKept ==
  ASSUME TransactionsInv, NEW t \in Tx,
         NEW k \in {Enqueued(txJob[t]), Taken(txJob[t]), Completed(txJob[t]),
                    AttemptFailed(txJob[t])},
         txJob' = [txJob EXCEPT ![t] = k]
  PROVE  \A u \in Tx : txJob'[u].stalls = txJob[u].stalls
<1>1. txJob \in [Tx -> JobRecord] /\ txJob[t] \in JobRecord
  BY DEF TransactionsInv, TransactionsTypeOK
<1>2. k.stalls = txJob[t].stalls
  BY <1>1 DEF JobRecord, Enqueued, Taken, Completed, AttemptFailed
<1>. QED  BY <1>1, <1>2

LEMMA TransactionStep ==
  ASSUME ServiceInv,
         \/ \E t \in Tx : TakeNext(t) \/ EnqueueNext(t) \/ EnqueueFault(t)
         \/ ProcessNext \/ ProcessFault
         \/ \E c \in calls : NoticeNext(c) \/ ListenerNext(c)
  PROVE  ServiceInv'
<1>1. /\ TransactionsInv /\ RunningInv /\ LifecycleInv /\ faults \in Nat
      /\ txRun.pc # "idle" => TxNeeds \subseteq up /\ ~Passed(2)
  BY DEF ServiceInv, RunningInv
<1>2. ASSUME NEW t \in Tx, TakeNext(t) PROVE ServiceInv'
  <2>1. /\ TakeTransaction(t) /\ UNCHANGED <<lifecycle, gate, left, faults, crashes>>
        /\ "manager" \in up /\ ~Closing("manager")
    BY <1>2 DEF TakeNext, Transactions
  <2>2. \A u \in Tx : txJob'[u].stalls = txJob[u].stalls
    BY <1>1, <2>1, StallsKept DEF TakeTransaction
  <2>3. TxNeeds \subseteq up /\ ~Passed(2)
    BY <1>1, <2>1, NeedsAreUp
  <2>. QED  BY <1>1, <2>1, <2>2, <2>3, TakeTxStep, TransactionsMove
<1>3. ASSUME NEW t \in Tx, EnqueueNext(t) \/ EnqueueFault(t) PROVE ServiceInv'
  <2>1. /\ \/ CreateTransaction(t) \/ AddTransactionJob(t) \/ MarkInProgress(t)
           \/ EnqueueFails(t)
        /\ UNCHANGED <<lifecycle, gate, left, crashes>> /\ faults' \in Nat
    BY <1>1, <1>3 DEF EnqueueNext, EnqueueFault, Transactions, Fault
  <2>2. txRun' = txRun
    BY <2>1
    DEF CreateTransaction, AddTransactionJob, MarkInProgress, EnqueueFails
  <2>3. \A u \in Tx : txJob'[u].stalls = txJob[u].stalls
    BY <1>1, <2>1, StallsKept
    DEF CreateTransaction, AddTransactionJob, MarkInProgress, EnqueueFails
  <2>4. TransactionsInv'
    BY <1>1, <2>1, EnqueueStep, AddJobStep
  <2>. QED  BY <1>1, <2>1, <2>2, <2>3, <2>4, TransactionsMove
<1>4. CASE ProcessNext \/ ProcessFault
  <2>1. /\ ConfirmTransaction \/ CompleteTransaction \/ TransactionFails
        /\ UNCHANGED <<lifecycle, gate, left, crashes>> /\ faults' \in Nat
    BY <1>1, <1>4 DEF ProcessNext, ProcessFault, Transactions, Fault
  <2>2. txRun.pc # "idle"
    BY <2>1 DEF ConfirmTransaction, CompleteTransaction, TransactionFails
  <2>3. \A u \in Tx : txJob'[u].stalls = txJob[u].stalls
    <3>1. txRun.tx \in Tx
      BY <1>1, <2>2, RunningTx
    <3>. QED
      BY <1>1, <2>1, <3>1, StallsKept
      DEF ConfirmTransaction, CompleteTransaction, TransactionFails
  <2>4. TransactionsInv'
    BY <1>1, <2>1, ConfirmStep, CompleteStep, FailStep
  <2>. QED  BY <1>1, <2>1, <2>2, <2>3, <2>4, TransactionsMove
<1>5. ASSUME NEW c \in calls, NoticeNext(c) \/ ListenerNext(c)
      PROVE  ServiceInv'
  <2>1. /\ NoticeStalled(c) \/ HandleFailed(c) \/ AddDeadLetter(c)
        /\ UNCHANGED <<lifecycle, gate, left, faults, crashes>>
    BY <1>5 DEF NoticeNext, ListenerNext, Transactions
  <2>2. UNCHANGED <<txRun, txJob>>
    BY <2>1 DEF NoticeStalled, HandleFailed, AddDeadLetter
  <2>3. TransactionsInv'
    BY <1>1, <2>1, NoticeStep, HandleStep, DeadLetterStep
  <2>. QED  BY <1>1, <2>1, <2>2, <2>3, TransactionsMove
<1>. QED  BY <1>2, <1>3, <1>4, <1>5

LEMMA RequestStep ==
  ASSUME ServiceInv,
         \/ \E r \in Request : \/ ArriveNext(r) \/ RequestNext(r)
                             \/ Disconnect(r) \/ RequestFault(r)
         \/ Gate(TimePasses)
  PROVE  ServiceInv'
<1>1. faults \in Nat
  BY DEF ServiceInv
<1>2. ASSUME NEW r \in Request, ArriveNext(r) PROVE ServiceInv'
  <2>1. /\ GateNext /\ UNCHANGED <<lifecycle, transactions, crashes, faults>>
        /\ phase \in {"serving", "draining"} /\ left' = left \cap InFlight'
    BY <1>2 DEF ArriveNext, Gate, GateNext
  <2>. QED  BY <1>1, <2>1, GateMoves
<1>3. ASSUME NEW r \in Request, RequestNext(r) \/ RequestFault(r)
      PROVE  ServiceInv'
  <2>1. /\ GateNext /\ UNCHANGED <<lifecycle, transactions, crashes>>
        /\ faults' \in Nat /\ left' = left \cap InFlight'
    BY <1>1, <1>3 DEF RequestNext, RequestFault, Gate, GateNext, Fault
  <2>2. /\ sub[r] # "idle"
        /\ \E pc \in {"idle", "set", "submit"} : sub' = [sub EXCEPT ![r] = pc]
    BY <1>3
    DEF RequestNext, RequestFault, Gate, LookUpNonce, MarkNonceAsUsed, Submit,
        LoseNonce, Goto
  <2>3. sub \in [Request -> {"idle", "exists", "set", "submit"}]
    BY DEF ServiceInv, GateInv, GateTypeOK
  <2>4. InFlight' \subseteq InFlight
    BY <2>2, <2>3 DEF InFlight
  <2>. QED  BY <2>1, <2>4, GateMoves
<1>4. ASSUME NEW r \in Request, Disconnect(r) PROVE ServiceInv'
  <2>1. /\ r \in InFlight /\ left' = left \cup {r}
        /\ UNCHANGED <<lifecycle, transactions, gate, faults, crashes>>
    BY <1>4 DEF Disconnect, Connected
  <2>2. InFlight' = InFlight /\ Connected' \subseteq Connected
    BY <2>1 DEF gate, InFlight, Connected
  <2>3. RunningInv'
    BY <2>1, <2>2
    DEF ServiceInv, RunningInv, lifecycle, transactions, Passed
  <2>. QED
    BY <2>1, <2>3, QuietLifecycle, QuietGate, QuietTransactions
    DEF ServiceInv, ShutdownsInterruptNothing, transactions
<1>5. CASE Gate(TimePasses)
  <2>1. /\ GateNext /\ UNCHANGED <<lifecycle, transactions, crashes, faults>>
        /\ InFlight' = InFlight /\ left' = left \cap InFlight'
    BY <1>5 DEF Gate, GateNext, TimePasses, InFlight
  <2>. QED  BY <1>1, <2>1, GateMoves
<1>. QED  BY <1>2, <1>3, <1>4, <1>5

LEMMA ServiceStep == ServiceInv /\ [Next]_vars => ServiceInv'
<1> SUFFICES ASSUME ServiceInv, [Next]_vars PROVE ServiceInv'
  OBVIOUS
<1>1. CASE UNCHANGED vars
  <2>1. /\ UNCHANGED <<lifecycle, transactions, gate, left, faults, crashes>>
        /\ UNCHANGED <<txRun, txJob>>
    BY <1>1 DEF vars, transactions
  <2>2. TransactionsInv' /\ faults \in Nat /\ RunningInv
    BY <2>1, QuietTransactions DEF ServiceInv
  <2>. QED  BY <2>1, <2>2, TransactionsMove DEF RunningInv
<1>2. CASE Crash \/ \E c \in calls : ListenerThrows(c)
  <2>1. Died /\ faults' \in Nat
    BY <1>2 DEF Crash, ListenerThrows, Fault, ServiceInv
  <2>. QED  BY <2>1, DiedStep
<1>3. CASE \/ Lifecycle(StartProcess \/ BootStep \/ Listen \/ Signal)
           \/ Lifecycle(TakeOtherJob \/ EndOtherJob)
  <2>1. \/ Lifecycle(StartProcess \/ BootStep \/ Listen)
        \/ Lifecycle(Signal) \/ Lifecycle(TakeOtherJob \/ EndOtherJob)
    BY <1>3 DEF Lifecycle
  <2>. QED  BY <2>1, StartStep, SignalStep, OtherJobStep
<1>. QED
  BY <1>1, <1>2, <1>3, CloseStep, StopsStep, ExitStep, TransactionStep,
     RequestStep
  DEF Next

-----------------------------------------------------------------------------
(* Theorems *)

\* The strengthened invariant holds in every reachable state.
THEOREM ServiceInvariant == Spec => []ServiceInv
BY InitService, ServiceStep, PTL DEF Spec

\* Every variable of the parts and of their composition keeps its type.
THEOREM TypeCorrect == Spec => []TypeOK
<1>1. ServiceInv => TypeOK
  BY DEF ServiceInv, LifecycleInv, TransactionsInv, GateInv, RunningInv, TypeOK
<1>. QED  BY <1>1, ServiceInvariant, PTL

\* The first component that is stopped is the listener, and the last is the
\* database.
LEMMA ListenerNeedsDatabase ==
  ASSUME LifecycleInv, "listener" \in up
  PROVE  "database" \in up
<1>1. /\ Len(Stop) = 6 /\ Len(Boot) = 7
      /\ at \in [Shutdown -> 0..7]
      /\ phase \in {"down", "booting", "serving", "draining", "stopping"}
  BY StopFacts, BootFacts DEF LifecycleInv, LifecycleTypeOK
<1>2. CASE phase = "booting"
  <2>1. PICK n \in 0..7 : up = Booted(n)
    BY <1>1, <1>2 DEF LifecycleInv
  <2>. QED  BY <2>1, BootOrder DEF JobNeeds
<1>3. CASE phase = "stopping"
  <2>1. ~Passed(1)
    BY DEF LifecycleInv
  <2>2. ~Passed(6)
    BY <1>1, <2>1 DEF Passed
  <2>3. Stopped(Stop[6]) \subseteq up
    BY <1>1, <1>3, <2>2 DEF LifecycleInv
  <2>. QED  BY <2>3, StopFacts
<1>4. CASE phase \in {"down", "serving", "draining"}
  BY <1>4, BootFacts DEF LifecycleInv
<1>. QED  BY <1>1, <1>2, <1>3, <1>4

\* bootstrapInfrastructure and shutdownInfrastructure: a request has its
\* components while its client waits, a transaction and another job while they
\* run, and a poll when it starts, while the process boots, serves and stops.
THEOREM ComponentsOutliveWork == Spec => []WorkHasItsComponents
<1>1. ServiceInv => WorkHasItsComponents
  BY ListenerNeedsDatabase
  DEF ServiceInv, RunningInv, LifecycleInv, TxNeeds, JobNeeds,
      WorkHasItsComponents
<1>. QED  BY <1>1, ServiceInvariant, PTL

\* transactionManager.shutdown: a transaction stalls only in a crash.
THEOREM ShutdownsWait == Spec => []ShutdownsInterruptNothing
BY ServiceInvariant, PTL DEF ServiceInv

\* handleFailedJob: a transaction has at most one dead letter, and only when
\* its job has used up its attempts.
THEOREM DeadLettersAreFinal == Spec => []DeadLettersWereExhausted
<1>1. ServiceInv => DeadLettersWereExhausted
  BY DEF ServiceInv, TransactionsInv, TransactionsTypeOK, TxSound, Exhausted,
         DeadLettersWereExhausted
<1>. QED  BY <1>1, ServiceInvariant, PTL

\* The gate of order submissions keeps requests with one Redis key apart in a
\* process that starts, stops and dies: every step of the composition is one
\* of the gate, or leaves it alone.
THEOREM NoncesStayApart == Spec => NoncesApart
<1>1. [Next]_vars => [GateNext]_gate
  BY DEF Next, vars, Lifecycle, Transactions, Gate, CloseIdleServer, Crash,
         Died, Gone, StopNext, ExitProcess, TakeNext, EnqueueNext, EnqueueFault,
         ProcessNext, ProcessFault, NoticeNext, ListenerNext, ListenerThrows,
         ArriveNext, RequestNext, Disconnect, RequestFault, GateNext
<1>2. Init => GateInit
  BY DEF Init
<1>. QED  BY <1>1, <1>2, NoncesAreApart, PTL DEF Spec, GateSpec

=============================================================================
