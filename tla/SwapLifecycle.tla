---------------------------- MODULE SwapLifecycle ----------------------------
(***************************************************************************)
(* Token swaps: SwapService.requestSwap (POST /swaps), which locks the     *)
(* source amount and enqueues a job, and processSwapJob, the processor of  *)
(* the BullMQ queue 'process-token-swap', which swaps on Sapphire and then *)
(* settles the ledger.                                                     *)
(*                                                                         *)
(* Neither is a transaction: an action ends at each await whose outcome    *)
(* another actor can see or change.  What is not modelled because it       *)
(* changes nothing: the compliance check, whose failure is caught and      *)
(* ignored; the balance check before the lock, which repeats the condition *)
(* of the lock's UPDATE on a cached row and can only refuse; the events,   *)
(* whose publisher swallows every error.                                   *)
(***************************************************************************)
EXTENDS Integers, FiniteSets, Functions, JobQueue

CONSTANTS
  Swap,            \* swaps that may be requested
  Worker,          \* concurrent executions of processSwapJob (5)
  Account,         \* rows of user_balances: a user and a token
  Source, Target,  \* [Swap -> Account]
  Amount,          \* [Swap -> Nat], sourceAmount
  Quotes,          \* [Swap -> SUBSET (Int \cup {None})], expectedTargetAmount
                   \* of the quote a request may come with, or None
  None,            \* no quote, no swap
  Decimals,        \* [Account -> Nat], decimals of the account's token
  Deposit,         \* [Account -> Nat], what is available at first
  MaxFaults        \* bound: failed calls and crashes in a behaviour

ASSUME SwapAssumption ==
  /\ IsFiniteSet(Swap)
  /\ Source \in [Swap -> Account] /\ Target \in [Swap -> Account]
  /\ \A s \in Swap : Source[s] # Target[s]
  /\ Amount \in [Swap -> Nat \ {0}]
  /\ Quotes \in [Swap -> SUBSET (Int \cup {None})]
  /\ None \notin Int /\ None \notin Swap
  /\ Decimals \in [Account -> Nat]
  /\ Deposit \in [Account -> Nat]
  /\ MaxFaults \in Nat

VARIABLES
  quote,      \* the quote each request comes with
  signer,     \* whether CONFIDENTIAL_SIGNER_PRIVATE_KEY is configured
  status,     \* token_swaps.status; "none" before the INSERT
  bal,        \* user_balances
  chain,      \* how often each swap was made on Sapphire
  job,        \* BullMQ 'process-token-swap': the job of each swap
  req,        \* where the requestSwap call of each swap is
  run,        \* where each execution of processSwapJob is
  faults,     \* failed calls and crashes so far
  taken,      \* history: how often the amount left the source account
  credited,   \* history: how often the target account was credited
  overlapped  \* history: accounts on which a settlement overwrote another

vars == <<quote, signer, status, bal, chain, job, req, run, faults,
          taken, credited, overlapped>>

Balance == [available : Nat, locked : Nat]
Zero == [available |-> 0, locked |-> 0]
IdleRun == [pc |-> "idle", swap |-> None, entry |-> Zero]

Init ==
  /\ quote \in {q \in [Swap -> UNION {Quotes[s] : s \in Swap}] :
                 \A s \in Swap : q[s] \in Quotes[s]}
  /\ signer \in BOOLEAN
  /\ status = [s \in Swap |-> "none"]
  /\ bal = [a \in Account |-> [available |-> Deposit[a], locked |-> 0]]
  /\ chain = [s \in Swap |-> 0]
  /\ job = [s \in Swap |-> NoJob]
  /\ req = [s \in Swap |-> "lock"]
  /\ run = [w \in Worker |-> IdleRun]
  /\ faults = 0
  /\ taken = [s \in Swap |-> 0]
  /\ credited = [s \in Swap |-> 0]
  /\ overlapped = {}

given == <<quote, signer>>
settled == <<taken, credited, overlapped>>

-----------------------------------------------------------------------------
(* Quotes *)

\* platformFee + bridgeFee + networkFee: 0.25%, 0.15% and a flat 1000 units.
TotalFee(amount) ==
  (amount * 25) \div 10000 + (amount * 15) \div 10000 + 1000

PowerOfTen[n \in Nat] == IF n = 0 THEN 1 ELSE 10 * PowerOfTen[n - 1]

\* convertAmount: to the smallest units of a token with other decimals.
ConvertAmount(amount, from, to) ==
  IF from > to THEN amount \div PowerOfTen[from - to]
  ELSE amount * PowerOfTen[to - from]

\* buildQuote throws when the fees eat up the amount.
Quotable(s) == quote[s] # None \/ TotalFee(Amount[s]) < Amount[s]

\* The expected_target_amount of the row.  A quote of the client is taken as
\* it is, a negative one too.
Expected(s) ==
  IF quote[s] # None THEN quote[s]
  ELSE ConvertAmount(Amount[s] - TotalFee(Amount[s]),
                     Decimals[Source[s]], Decimals[Target[s]])

-----------------------------------------------------------------------------
(* requestSwap *)

\* Fields, numbers, tokens, contract addresses or the balance check refuse.
RequestRefused(s) ==
  /\ req[s] = "lock"
  /\ req' = [req EXCEPT ![s] = "over"]
  /\ UNCHANGED <<given, status, bal, chain, job, run, faults, settled>>

\* lockBalanceForOrder: one UPDATE with its condition in WHERE.
LockSource(s) ==
  /\ req[s] = "lock"
  /\ bal[Source[s]].available >= Amount[s]
  /\ bal' = [bal EXCEPT ![Source[s]].available = @ - Amount[s],
                        ![Source[s]].locked = @ + Amount[s]]
  /\ req' = [req EXCEPT ![s] = "create"]
  /\ UNCHANGED <<given, status, chain, job, run, faults, settled>>

\* buildQuote and createSwapRequest.  The quote is made after the lock: when
\* it throws, the call ends and the amount stays locked.
CreateSwap(s) ==
  /\ req[s] = "create"
  /\ IF Quotable(s)
     THEN /\ status' = [status EXCEPT ![s] = "PENDING"]
          /\ req' = [req EXCEPT ![s] = "enqueue"]
     ELSE /\ req' = [req EXCEPT ![s] = "over"]
          /\ status' = status
  /\ UNCHANGED <<given, bal, chain, job, run, faults, settled>>

EnqueueSwap(s) ==
  /\ req[s] = "enqueue"
  /\ job' = [job EXCEPT ![s] = Enqueued(@)]
  /\ req' = [req EXCEPT ![s] = "queued"]
  /\ UNCHANGED <<given, status, bal, chain, run, faults, settled>>

\* updateSwapStatus(QUEUED), whatever the worker wrote in between; the audit
\* log and the answer follow.
MarkQueued(s) ==
  /\ req[s] = "queued"
  /\ status' = [status EXCEPT ![s] = "QUEUED"]
  /\ req' = [req EXCEPT ![s] = "over"]
  /\ UNCHANGED <<given, bal, chain, job, run, faults, settled>>

\* An awaited call of the handler fails, or its process dies: there is no
\* catch, so nothing is undone.
RequestFault(s) ==
  /\ req[s] \in {"create", "enqueue", "queued"}
  /\ faults < MaxFaults
  /\ faults' = faults + 1
  /\ req' = [req EXCEPT ![s] = "over"]
  /\ UNCHANGED <<given, status, bal, chain, job, run, settled>>

-----------------------------------------------------------------------------
(* processSwapJob *)

Goto(w, pc) == run' = [run EXCEPT ![w].pc = pc]

Mine(w) == job[run[w].swap]

\* The processor returns or throws: j is what becomes of its job.
End(w, j) ==
  /\ run' = [run EXCEPT ![w] = IdleRun]
  /\ job' = [job EXCEPT ![run[w].swap] = j]

TakeJob(w, s) ==
  /\ run[w].pc = "idle"
  /\ job[s].state = "waiting"
  /\ job' = [job EXCEPT ![s] = Taken(@)]
  /\ run' = [run EXCEPT ![w] = [pc |-> "load", swap |-> s, entry |-> Zero]]
  /\ UNCHANGED <<given, status, bal, chain, req, faults, settled>>

\* findSwapById.  A swap in a terminal status completes its job.  A server
\* without a signer key gives the swap up.
LoadSwap(w) ==
  /\ run[w].pc = "load"
  /\ IF status[run[w].swap] \in {"PENDING", "QUEUED", "PROCESSING"}
     THEN Goto(w, IF signer THEN "start" ELSE "fail") /\ job' = job
     ELSE End(w, Completed(Mine(w)))
  /\ UNCHANGED <<given, status, bal, chain, req, faults, settled>>

\* markSwapProcessing, before the try.
StartProcessing(w) ==
  /\ run[w].pc = "start"
  /\ status' = [status EXCEPT ![run[w].swap] = "PROCESSING"]
  /\ Goto(w, "chain")
  /\ UNCHANGED <<given, bal, chain, job, req, faults, settled>>

\* sapphireClient.swapTokens, mined: a new swap each time.
SwapOnChain(w) ==
  /\ run[w].pc = "chain"
  /\ chain' = [chain EXCEPT ![run[w].swap] = @ + 1]
  /\ Goto(w, "record")
  /\ UNCHANGED <<given, status, bal, job, req, faults, settled>>

\* Mutant: the transaction is recorded as the end of the swap.
RecordAndReport(w) ==
  /\ run[w].pc = "record"
  /\ status' = [status EXCEPT ![run[w].swap] = "PROCESSING"]
  /\ Goto(w, "complete")
  /\ UNCHANGED <<given, bal, chain, job, req, faults, settled>>

\* markSwapProcessing with the transaction hash.
RecordTransaction(w) ==
  /\ run[w].pc = "record"
  /\ status' = [status EXCEPT ![run[w].swap] = "PROCESSING"]
  /\ Goto(w, "readSource")
  /\ UNCHANGED <<given, bal, chain, job, req, faults, settled>>

\* settleBalances reads a row, computes, and writes what it computed.
ReadSource(w) ==
  /\ run[w].pc = "readSource"
  /\ run' = [run EXCEPT ![w].entry = bal[Source[run[w].swap]], ![w].pc = "take"]
  /\ UNCHANGED <<given, status, bal, chain, job, req, faults, settled>>

Sum(b) == b.available + b.locked

\* updateBalance of account a to b, computed from the row the run read.
Write(w, a, b) ==
  /\ bal' = [bal EXCEPT ![a] = b]
  /\ overlapped' = IF Sum(bal[a]) = Sum(run[w].entry)
                   THEN overlapped ELSE overlapped \cup {a}

\* The catch of processSwapJob: give up after the last attempt.
Caught(w) ==
  run' = [run EXCEPT
    ![w].pc = IF LastAttempt(Mine(w)) THEN "fail" ELSE "requeue",
    ![w].entry = Zero]

\* Mutant: the table has no CHECK.
TakeUnchecked(w) ==
  LET s == run[w].swap
  IN  /\ run[w].pc = "take"
      /\ Write(w, Source[s], [run[w].entry EXCEPT !.locked = @ - Amount[s]])
      /\ taken' = [taken EXCEPT ![s] = @ + 1]
      /\ Goto(w, "readTarget")
      /\ UNCHANGED <<given, status, chain, job, req, faults, credited>>

\* The CHECK of user_balances refuses a locked balance below zero.
TakeSource(w) ==
  LET s == run[w].swap
      b == [run[w].entry EXCEPT !.locked = @ - Amount[s]]
  IN  /\ run[w].pc = "take"
      /\ IF b.locked >= 0
         THEN /\ Write(w, Source[s], b)
              /\ taken' = [taken EXCEPT ![s] = @ + 1]
              /\ Goto(w, "readTarget")
         ELSE /\ Caught(w)
              /\ UNCHANGED <<bal, taken, overlapped>>
      /\ UNCHANGED <<given, status, chain, job, req, faults, credited>>

ReadTarget(w) ==
  /\ run[w].pc = "readTarget"
  /\ run' = [run EXCEPT ![w].entry = bal[Target[run[w].swap]],
                        ![w].pc = "credit"]
  /\ UNCHANGED <<given, status, bal, chain, job, req, faults, settled>>

\* The CHECK refuses an available balance below zero as well.
CreditTarget(w) ==
  LET s == run[w].swap
      b == [run[w].entry EXCEPT !.available = @ + Expected(s)]
  IN  /\ run[w].pc = "credit"
      /\ IF b.available >= 0
         THEN /\ Write(w, Target[s], b)
              /\ credited' = [credited EXCEPT ![s] = @ + 1]
              /\ run' = [run EXCEPT ![w].pc = "complete", ![w].entry = Zero]
         ELSE /\ Caught(w)
              /\ UNCHANGED <<bal, credited, overlapped>>
      /\ UNCHANGED <<given, status, chain, job, req, faults, taken>>

MarkCompleted(w) ==
  /\ run[w].pc = "complete"
  /\ status' = [status EXCEPT ![run[w].swap] = "COMPLETED"]
  /\ Goto(w, "audit")
  /\ UNCHANGED <<given, bal, chain, job, req, faults, settled>>

\* insertAuditLog and the event.
AuditCompleted(w) ==
  /\ run[w].pc = "audit"
  /\ End(w, Completed(Mine(w)))
  /\ UNCHANGED <<given, status, bal, chain, req, faults, settled>>

InTry == {"chain", "record", "readSource", "take", "readTarget", "credit",
          "complete", "audit"}

\* Mutant: a swap whose confirmation times out counts as made.
TryFaultGoesOn(w) ==
  /\ run[w].pc \in InTry
  /\ faults < MaxFaults
  /\ faults' = faults + 1
  /\ IF run[w].pc = "chain" THEN Goto(w, "record") ELSE Caught(w)
  /\ UNCHANGED <<given, status, bal, chain, job, req, settled>>

\* An awaited call of the try fails.  A swap whose confirmation fails to
\* arrive may have been made.
TryFault(w) ==
  /\ run[w].pc \in InTry
  /\ faults < MaxFaults
  /\ faults' = faults + 1
  /\ \/ chain' = chain
     \/ /\ run[w].pc = "chain"
        /\ chain' = [chain EXCEPT ![run[w].swap] = @ + 1]
  /\ Caught(w)
  /\ UNCHANGED <<given, status, bal, job, req, settled>>

\* The catch, not the last attempt: updateSwapStatus(QUEUED), and rethrow.
Requeue(w) ==
  /\ run[w].pc = "requeue"
  /\ status' = [status EXCEPT ![run[w].swap] = "QUEUED"]
  /\ End(w, AttemptFailed(Mine(w)))
  /\ UNCHANGED <<given, bal, chain, req, faults, settled>>

\* failSwap: markSwapFailed.
MarkFailed(w) ==
  /\ run[w].pc = "fail"
  /\ status' = [status EXCEPT ![run[w].swap] = "FAILED"]
  /\ Goto(w, "unlock")
  /\ UNCHANGED <<given, bal, chain, job, req, faults, settled>>

\* Mutant: the amount is given back without being taken off what is locked.
RefundTwice(w) ==
  LET s == run[w].swap
  IN  /\ run[w].pc = "unlock"
      /\ bal' = [bal EXCEPT ![Source[s]].available = @ + Amount[s]]
      /\ Goto(w, "report")
      /\ UNCHANGED <<given, status, chain, job, req, faults, settled>>

\* failSwap: unlockBalanceFromOrder, which throws when less than the amount is
\* locked.  What it throws is logged and ignored.
UnlockSource(w) ==
  LET s == run[w].swap
  IN  /\ run[w].pc = "unlock"
      /\ bal' = IF bal[Source[s]].locked >= Amount[s]
                THEN [bal EXCEPT ![Source[s]].available = @ + Amount[s],
                                 ![Source[s]].locked = @ - Amount[s]]
                ELSE bal
      /\ Goto(w, "report")
      /\ UNCHANGED <<given, status, chain, job, req, faults, settled>>

\* failSwap: insertAuditLog and the event.  The catch then rethrows; a
\* server without a signer key returns.
ReportFailure(w) ==
  /\ run[w].pc = "report"
  /\ IF signer THEN End(w, AttemptFailed(Mine(w))) ELSE End(w, Completed(Mine(w)))
  /\ UNCHANGED <<given, status, bal, chain, req, faults, settled>>

\* An awaited call outside the try fails, those of the catch included.  The
\* error of unlockBalanceFromOrder is caught.
HandlerFault(w) ==
  /\ run[w].pc \in {"load", "start", "requeue", "fail", "report"}
  /\ faults < MaxFaults
  /\ faults' = faults + 1
  /\ End(w, AttemptFailed(Mine(w)))
  /\ UNCHANGED <<given, status, bal, chain, req, settled>>

UnlockFault(w) ==
  /\ run[w].pc = "unlock"
  /\ faults < MaxFaults
  /\ faults' = faults + 1
  /\ Goto(w, "report")
  /\ UNCHANGED <<given, status, bal, chain, job, req, settled>>

\* The worker's process dies at an await; BullMQ finds the job stalled.
Crash(w) ==
  /\ run[w].pc # "idle"
  /\ faults < MaxFaults
  /\ faults' = faults + 1
  /\ End(w, Stalled(Mine(w)))
  /\ UNCHANGED <<given, status, bal, chain, req, settled>>

-----------------------------------------------------------------------------
Request(s) ==
  \/ RequestRefused(s) \/ LockSource(s) \/ CreateSwap(s) \/ EnqueueSwap(s)
  \/ MarkQueued(s) \/ RequestFault(s)

\* The steps a worker takes by itself.
Work(w) ==
  \/ \E s \in Swap : TakeJob(w, s)
  \/ LoadSwap(w) \/ StartProcessing(w) \/ SwapOnChain(w) \/ RecordTransaction(w)
  \/ ReadSource(w) \/ TakeSource(w) \/ ReadTarget(w) \/ CreditTarget(w)
  \/ MarkCompleted(w) \/ AuditCompleted(w) \/ Requeue(w) \/ MarkFailed(w)
  \/ UnlockSource(w) \/ ReportFailure(w)

Next ==
  \/ \E s \in Swap : Request(s)
  \/ \E w \in Worker :
       Work(w) \/ TryFault(w) \/ HandlerFault(w) \/ UnlockFault(w) \/ Crash(w)

Spec == Init /\ [][Next]_vars

\* Node.js schedules every awaited call of a worker, and BullMQ hands waiting
\* jobs to idle workers.  Nobody has to request a swap.
FairSpec == Spec /\ \A w \in Worker : WF_vars(Work(w))

-----------------------------------------------------------------------------
(* Properties *)

Status == {"none", "PENDING", "QUEUED", "PROCESSING", "COMPLETED", "FAILED"}
PC == InTry \cup
  {"idle", "load", "start", "requeue", "fail", "unlock", "report"}

\* Every variable keeps its type.
TypeOK ==
  /\ quote \in [Swap -> Int \cup {None}]
  /\ signer \in BOOLEAN
  /\ status \in [Swap -> Status]
  /\ bal \in [Account -> Balance]
  /\ chain \in [Swap -> Nat]
  /\ job \in [Swap -> JobRecord]
  /\ req \in [Swap -> {"lock", "create", "enqueue", "queued", "over"}]
  /\ run \in [Worker -> [pc : PC, swap : Swap \cup {None}, entry : Balance]]
  /\ faults \in Nat
  /\ taken \in [Swap -> Nat] /\ credited \in [Swap -> Nat]
  /\ overlapped \in SUBSET Account

\* A swap that says COMPLETED was swapped on chain, and both sides of the
\* ledger were settled, whatever attempts, retries and restarts it took.
CompletedWasSettled ==
  \A s \in Swap : status[s] = "COMPLETED" =>
    chain[s] > 0 /\ taken[s] > 0 /\ credited[s] > 0

\* The ledger never runs ahead of the chain, over all the attempts together:
\* what was credited was taken first, and each taking had a swap of its own.
CreditsWereSwapped ==
  \A s \in Swap : credited[s] <= taken[s] /\ taken[s] <= chain[s]

\* What settlements took from account a, and what they credited to it.
Outflow(a) ==
  SumFunctionOnSet([s \in Swap |-> taken[s] * Amount[s]],
                   {s \in Swap : Source[s] = a})
Inflow(a) ==
  SumFunctionOnSet([s \in Swap |-> credited[s] * Expected(s)],
                   {s \in Swap : Target[s] = a})

\* Locks, refunds, retries and requests that race with a settlement never
\* change what an account holds in all: it is its deposit, less what
\* settlements took, plus what they credited.  Only a settlement that
\* overwrites another one of the same account can falsify it.
LedgerMatchesSettlements ==
  \A a \in Account \ overlapped :
    Sum(bal[a]) = Deposit[a] - Outflow(a) + Inflow(a)

\* Swaps keep what AtLeastOnce promises of an operation whose effect is on
\* the chain: made at most once per run of the job, credited only after it
\* was made, and neither after the job is over.
Promise == INSTANCE AtLeastOnce WITH
  Item <- Swap, Bound <- MaxRuns, effects <- chain,
  recorded <- {s \in Swap : credited[s] > 0},
  over <- {s \in Swap : Over(job[s])}

SwapsKeepPromise == Promise!Spec

\* The queue drains: however jobs fail, stall and come back, there is again
\* a moment when every swap that was enqueued has its job over.
SwapQueueDrains ==
  []<>(\A s \in Swap : job[s] = NoJob \/ Over(job[s]))

=============================================================================
