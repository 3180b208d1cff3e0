------------------------------ MODULE Settlement ------------------------------
(***************************************************************************)
(* On-chain settlement of trades: SettlementService.executeSettlement, the *)
(* processor of the BullMQ queue 'execute-blockchain-settlement', and the  *)
(* JSON-RPC client it calls Sapphire with (SapphireRpcClient.call), which  *)
(* retries by itself and is slowed down by the rate limiter.  The workers  *)
(* of one server process share the client, and die together.               *)
(***************************************************************************)
EXTENDS Integers, FiniteSets, JobQueue, RateLimiter

CONSTANTS
  Trade,        \* trades the matching worker may make
  Worker,       \* concurrent executions of executeSettlement (3)
  RpcAttempts,  \* MAX_ATTEMPTS of the client (5)
  GiveUpAt,     \* the 5 of job.attemptsMade < 5
  MaxFaults,    \* bound: failed calls and crashes in a behaviour
  None          \* no trade

\* The queue's attempts and the 5 of executeSettlement are the same number.
ASSUME SettlementAssumption ==
  /\ IsFiniteSet(Trade) /\ None \notin Trade
  /\ RpcAttempts \in Nat \ {0}
  /\ GiveUpAt \in Nat /\ Attempts <= GiveUpAt
  /\ MaxFaults \in Nat

VARIABLES
  status,  \* trades.settlement_status; "none" before the INSERT
  chain,   \* Sapphire: how often each trade was settled
  job,     \* the settlement job of each trade
  run,     \* where each execution of executeSettlement is
  faults   \* failed calls and crashes so far

vars == <<status, chain, job, run, faults, limiter>>

IdleRun == [pc |-> "idle", trade |-> None, tries |-> 0]

Init ==
  /\ status = [t \in Trade |-> "none"]
  /\ chain = [t \in Trade |-> 0]
  /\ job = [t \in Trade |-> NoJob]
  /\ run = [w \in Worker |-> IdleRun]
  /\ faults = 0
  /\ LimiterInit

Goto(w, pc) == run' = [run EXCEPT ![w].pc = pc]

Mine(w) == job[run[w].trade]

\* The processor returns or throws: j is what becomes of its job.
End(w, j) ==
  /\ run' = [run EXCEPT ![w] = IdleRun]
  /\ job' = [job EXCEPT ![run[w].trade] = j]

Fault == faults < MaxFaults /\ faults' = faults + 1

-----------------------------------------------------------------------------
(* The matching worker, after a trade *)

\* createTrade: settlement_status is PENDING by default.
ExecuteTrade(t) ==
  /\ status[t] = "none"
  /\ status' = [status EXCEPT ![t] = "PENDING"]
  /\ UNCHANGED <<chain, job, run, faults, limiter>>

\* settlementQueue.add, some awaits later; it may never be reached.
EnqueueSettlement(t) ==
  /\ status[t] = "PENDING" /\ job[t] = NoJob
  /\ job' = [job EXCEPT ![t] = Enqueued(@)]
  /\ UNCHANGED <<status, chain, run, faults, limiter>>

-----------------------------------------------------------------------------
(* executeSettlement *)

\* The trade is not read: the job settles whatever its status is.
TakeJob(w, t) ==
  /\ run[w].pc = "idle"
  /\ job[t].state = "waiting"
  /\ job' = [job EXCEPT ![t] = Taken(@)]
  /\ run' = [run EXCEPT ![w] = [pc |-> "acquire", trade |-> t, tries |-> 0]]
  /\ UNCHANGED <<status, chain, faults, limiter>>

\* rateLimiter.acquire, before each attempt of the client.
Acquire(w) ==
  /\ run[w].pc = "acquire"
  /\ Consume
  /\ run' = [run EXCEPT ![w].pc = "rpc", ![w].tries = @ + 1]
  /\ UNCHANGED <<status, chain, job, faults>>

\* sapphire_settleTrade answers with a transaction hash.
SettleTrade(w) ==
  /\ run[w].pc = "rpc"
  /\ chain' = [chain EXCEPT ![run[w].trade] = @ + 1]
  /\ Goto(w, "save")
  /\ UNCHANGED <<status, job, faults, limiter>>

\* Mutant: the attempt that failed counts, so that the last one writes FAILED.
CaughtLast(w) ==
  IF Mine(w).attempts + 1 < GiveUpAt
  THEN End(w, AttemptFailed(Mine(w))) /\ status' = status
  ELSE /\ status' = [status EXCEPT ![run[w].trade] = "FAILED"]
       /\ End(w, Completed(Mine(w)))

\* The catch.  A job is tried Attempts times, numbered from 0, so that the
\* test against GiveUpAt never fails and FAILED is never written.
Caught(w) ==
  IF Mine(w).attempts < GiveUpAt
  THEN End(w, AttemptFailed(Mine(w))) /\ status' = status
  ELSE /\ status' = [status EXCEPT ![run[w].trade] = "FAILED"]
       /\ End(w, Completed(Mine(w)))

\* Mutant: the client tries once more than it should.
RpcFaultOnceMore(w) ==
  /\ run[w].pc = "rpc"
  /\ Fault
  /\ chain' \in {chain, [chain EXCEPT ![run[w].trade] = @ + 1]}
  /\ IF run[w].tries <= RpcAttempts
     THEN Goto(w, "acquire") /\ UNCHANGED <<status, job>>
     ELSE Caught(w)
  /\ UNCHANGED limiter

\* The call fails or its answer is lost: the trade may have been settled.
\* The client tries again, RpcAttempts times in all.
RpcFault(w) ==
  /\ run[w].pc = "rpc"
  /\ Fault
  /\ chain' \in {chain, [chain EXCEPT ![run[w].trade] = @ + 1]}
  /\ IF run[w].tries < RpcAttempts
     THEN Goto(w, "acquire") /\ UNCHANGED <<status, job>>
     ELSE Caught(w)
  /\ UNCHANGED limiter

\* updateTradeSettlement(SETTLED) with the hash.
SaveSettlement(w) ==
  /\ run[w].pc = "save"
  /\ status' = [status EXCEPT ![run[w].trade] = "SETTLED"]
  /\ Goto(w, "publish")
  /\ UNCHANGED <<chain, job, faults, limiter>>

\* The UPDATE fails, or the answer came without a hash, which throws as well.
SaveFault(w) ==
  /\ run[w].pc = "save"
  /\ Fault
  /\ Caught(w)
  /\ UNCHANGED <<chain, limiter>>

\* publishTradeSettled, whose errors are swallowed; the job completes.
PublishSettled(w) ==
  /\ run[w].pc = "publish"
  /\ End(w, Completed(Mine(w)))
  /\ UNCHANGED <<status, chain, faults, limiter>>

\* The process dies at an await and is started again: BullMQ finds the jobs
\* of its workers stalled.
Crash ==
  /\ \E w \in Worker : run[w].pc # "idle"
  /\ Fault
  /\ run' = [w \in Worker |-> IdleRun]
  /\ job' = [t \in Trade |->
       IF job[t].state = "active" THEN Stalled(job[t]) ELSE job[t]]
  /\ Restart
  /\ UNCHANGED <<status, chain>>

TimePasses == Tick /\ UNCHANGED <<status, chain, job, run, faults>>

-----------------------------------------------------------------------------
\* The steps a worker takes by itself.
Work(w) ==
  \/ \E t \in Trade : TakeJob(w, t)
  \/ Acquire(w) \/ SettleTrade(w) \/ SaveSettlement(w) \/ PublishSettled(w)

Next ==
  \/ \E t \in Trade : ExecuteTrade(t) \/ EnqueueSettlement(t)
  \/ \E w \in Worker : Work(w) \/ RpcFault(w) \/ SaveFault(w)
  \/ Crash \/ TimePasses

Spec == Init /\ [][Next]_vars

\* Node.js schedules every awaited call of a worker, BullMQ hands waiting
\* jobs to idle workers, time passes, and a caller polls the limiter every
\* 50 ms for as long as it takes.
FairSpec ==
  Spec /\ WF_vars(TimePasses) /\ \A w \in Worker : WF_vars(Work(w))

-----------------------------------------------------------------------------
(* Properties *)

\* Every variable keeps its type.
TypeOK ==
  /\ status \in [Trade -> {"none", "PENDING", "SETTLED", "FAILED"}]
  /\ chain \in [Trade -> Nat]
  /\ job \in [Trade -> JobRecord]
  /\ run \in [Worker -> [pc : {"idle", "acquire", "rpc", "save", "publish"},
                         trade : Trade \cup {None}, tries : 0..RpcAttempts]]
  /\ faults \in Nat
  /\ LimiterTypeOK

\* Settlements keep what AtLeastOnce promises of an operation whose effect is
\* on the chain.  A trade says SETTLED only after it was settled, says so for
\* good, and is settled at most as often as its runs may call the RPC.
Promise == INSTANCE AtLeastOnce WITH
  Item <- Trade, Bound <- MaxRuns * RpcAttempts, effects <- chain,
  recorded <- {t \in Trade : status[t] = "SETTLED"},
  over <- {t \in Trade : Over(job[t])}

SettlementsKeepPromise == Promise!Spec

\* The queue drains: whatever fails, the limiter lets every call through in
\* the end, and there is again a moment when every job enqueued is over.
SettlementQueueDrains ==
  []<>(\A t \in Trade : job[t] = NoJob \/ Over(job[t]))

=============================================================================
