--------------------------- MODULE SettlementProofs ---------------------------
(***************************************************************************)
(* Proofs about RateLimiter, for every capacity and refill interval, and   *)
(* about Settlement, which uses it, for any number of trades, workers,     *)
(* attempts, stalls and faults.                                            *)
(***************************************************************************)
EXTENDS Settlement, JobQueueProofs, TLAPS

-----------------------------------------------------------------------------
(* The rate limiter: its inductive invariant *)

\* What the debt may be: an interval for each token that is missing, and one
\* more, less the time that has passed since lastRefill, which will be turned
\* into tokens only in whole intervals.
Allowance == Interval * (MaxTokens - tokens) + (Interval - 1) - elapsed

LimiterInv ==
  /\ LimiterTypeOK
  /\ debt = 0 \/ debt <= Allowance

-----------------------------------------------------------------------------
(* The rate limiter: arithmetic *)

\* A product with a larger number is larger.
LEMMA TimesMonotone ==
  ASSUME NEW i \in Nat, NEW m \in Int, NEW n \in Int, m <= n
  PROVE  i * m <= i * n
BY SMT

LEMMA TimesDistributes ==
  ASSUME NEW i \in Int, NEW m \in Int, NEW n \in Int
  PROVE  /\ i * (m + n) = i * m + i * n
         /\ i * (m - n) = i * m - i * n
BY SMT

\* Whole intervals fit in the time they were counted in.
LEMMA DivisionFits ==
  ASSUME NEW i \in Nat \ {0}, NEW e \in Nat
  PROVE  e \div i \in Nat /\ i * (e \div i) <= e
BY SMT

\* A refill fills the bucket no further than its capacity, and takes no more
\* than the time that has passed.
LEMMA RefilledFits ==
  ASSUME LimiterInv
  PROVE  /\ Refilled \in 0..MaxTokens
         /\ elapsed >= Interval =>
              debt <= Interval * (MaxTokens - Refilled) + (Interval - 1)
<1> USE LimiterAssumption
<1> DEFINE count == elapsed \div Interval
<1>1. /\ tokens \in 0..MaxTokens /\ elapsed \in Nat /\ debt \in Nat
      /\ debt = 0 \/ debt <= Allowance
      /\ MaxTokens \in Nat \ {0} /\ Interval \in Nat \ {0}
  <2>1. Interval * MaxTokens \in Nat
    BY SMT
  <2>. QED  BY <2>1 DEF LimiterInv, LimiterTypeOK
<1>2. count \in Nat /\ Interval * count <= elapsed
  BY <1>1, DivisionFits
<1> HIDE DEF count
<1>3. CASE elapsed < Interval
  BY <1>1, <1>3 DEF Refilled
<1>4. CASE elapsed >= Interval
  <2>1. CASE tokens + count < MaxTokens
    <3>1. Refilled = tokens + count
      BY <1>1, <1>4, <2>1 DEF Refilled, count
    <3>2. Interval * (MaxTokens - Refilled)
            = Interval * (MaxTokens - tokens) - Interval * count
      BY <1>1, <1>2, <3>1, TimesDistributes
    <3>3. Interval * (MaxTokens - Refilled) >= 0
      BY <1>1, <1>2, <2>1, <3>1, TimesMonotone
    <3>. QED  BY <1>1, <1>2, <1>4, <2>1, <3>1, <3>2, <3>3 DEF Allowance
  <2>2. CASE tokens + count >= MaxTokens
    <3>1. Refilled = MaxTokens
      BY <1>1, <1>2, <1>4, <2>2 DEF Refilled, count
    <3>2. Interval * (MaxTokens - tokens) <= Interval * count
      BY <1>1, <1>2, <2>2, TimesMonotone
    <3>3. Interval * (MaxTokens - tokens) \in Int /\ Interval * count \in Int
      BY <1>1, <1>2
    <3>4. Interval * (MaxTokens - Refilled) = 0
      BY <1>1, <3>1
    <3>. QED  BY <1>1, <1>2, <1>4, <3>1, <3>2, <3>3, <3>4 DEF Allowance
  <2>. QED  BY <1>1, <1>2, <2>1, <2>2
<1>. QED  BY <1>1, <1>3, <1>4

-----------------------------------------------------------------------------
(* The rate limiter: its invariant is inductive *)

LEMMA InitLimiter == LimiterInit => LimiterInv
<1> SUFFICES ASSUME LimiterInit PROVE LimiterInv
  OBVIOUS
<1>1. Interval * MaxTokens \in Nat
  BY LimiterAssumption
<1>. QED  BY <1>1, LimiterAssumption DEF LimiterInit, LimiterInv, LimiterTypeOK

LEMMA ConsumeStep == LimiterInv /\ Consume => LimiterInv'
<1> SUFFICES ASSUME LimiterInv, Consume PROVE LimiterInv'
  OBVIOUS
<1>1. /\ MaxTokens \in Nat \ {0} /\ Interval \in Nat \ {0}
      /\ tokens \in 0..MaxTokens /\ elapsed \in 0..(Interval * MaxTokens)
      /\ debt \in Nat /\ Interval * MaxTokens \in Nat
  BY LimiterAssumption DEF LimiterInv, LimiterTypeOK
<1>2. Refilled \in 0..MaxTokens /\ Refilled > 0 /\ tokens' = Refilled - 1
  BY RefilledFits DEF Consume
<1>3. LimiterTypeOK'
  <2>1. elapsed' \in 0..(Interval * MaxTokens)
    BY <1>1 DEF Consume
  <2>2. debt' \in Nat
    BY <1>1 DEF Consume
  <2>. QED  BY <1>1, <1>2, <2>1, <2>2 DEF LimiterTypeOK
<1>4. Interval * (MaxTokens - tokens')
        = Interval * (MaxTokens - Refilled) + Interval
  <2>1. MaxTokens - tokens' = (MaxTokens - Refilled) + 1
    BY <1>1, <1>2
  <2>2. Interval * 1 = Interval
    BY <1>1
  <2>. QED  BY <1>1, <1>2, <2>1, <2>2, TimesDistributes
<1>5. Interval * (MaxTokens - Refilled) \in Nat
  BY <1>1, <1>2, TimesMonotone
<1>6. debt' <= Allowance'
  <2>1. CASE elapsed < Interval
    <3>1. Refilled = tokens /\ elapsed' = elapsed /\ debt' = debt + Interval
      BY <2>1 DEF Consume, Refilled
    <3>2. debt = 0 \/ debt <= Interval * (MaxTokens - tokens) + (Interval - 1) - elapsed
      BY DEF LimiterInv, Allowance
    <3>. QED  BY <1>1, <1>4, <1>5, <2>1, <3>1, <3>2 DEF Allowance
  <2>2. CASE elapsed >= Interval
    <3>1. elapsed' = 0 /\ debt' = debt + Interval
      BY <1>1, <2>2 DEF Consume
    <3>2. debt <= Interval * (MaxTokens - Refilled) + (Interval - 1)
      BY <2>2, RefilledFits
    <3>. QED  BY <1>1, <1>4, <1>5, <3>1, <3>2 DEF Allowance
  <2>. QED  BY <1>1, <2>1, <2>2
<1>. QED  BY <1>3, <1>6 DEF LimiterInv

\* When the time that counts is used up, the bucket is full at the next call:
\* what remains of the debt is paid back by time alone.
LEMMA TickStep == LimiterInv /\ Tick => LimiterInv'
<1> SUFFICES ASSUME LimiterInv, Tick PROVE LimiterInv'
  OBVIOUS
<1>1. /\ MaxTokens \in Nat \ {0} /\ Interval \in Nat \ {0}
      /\ tokens \in 0..MaxTokens /\ elapsed \in 0..(Interval * MaxTokens)
      /\ debt \in Nat /\ Interval * MaxTokens \in Nat
  BY LimiterAssumption DEF LimiterInv, LimiterTypeOK
<1>2. Interval * (MaxTokens - tokens) \in Nat /\ tokens' = tokens
  BY <1>1, TimesMonotone DEF Tick
<1>3. LimiterTypeOK'
  BY <1>1 DEF LimiterTypeOK, Tick
<1>4. debt' = 0 \/ debt' <= Allowance'
  BY <1>1, <1>2 DEF Tick, LimiterInv, Allowance
<1>. QED  BY <1>3, <1>4 DEF LimiterInv

LEMMA RestartStep == Restart => LimiterInv'
<1>1. Interval * MaxTokens \in Nat
  BY LimiterAssumption
<1>. QED  BY <1>1, LimiterAssumption DEF Restart, LimiterInv, LimiterTypeOK

LEMMA StutterStep == LimiterInv /\ UNCHANGED limiter => LimiterInv'
BY DEF LimiterInv, LimiterTypeOK, Allowance, limiter

LEMMA BoundFollows == LimiterInv => RateBounded
<1> SUFFICES ASSUME LimiterInv PROVE RateBounded
  OBVIOUS
<1>1. /\ MaxTokens \in Nat \ {0} /\ Interval \in Nat \ {0}
      /\ tokens \in 0..MaxTokens /\ elapsed \in Nat /\ debt \in Nat
  <2>1. Interval * MaxTokens \in Nat
    BY LimiterAssumption
  <2>. QED  BY <2>1, LimiterAssumption DEF LimiterInv, LimiterTypeOK
<1>2. Interval * (MaxTokens - tokens) <= Interval * MaxTokens
  BY <1>1, TimesMonotone
<1>3. Interval * (MaxTokens + 1) = Interval * MaxTokens + Interval
  BY <1>1, TimesDistributes
<1>4. Interval * MaxTokens \in Nat /\ Interval * (MaxTokens - tokens) \in Int
  BY <1>1
<1>. QED
  BY <1>1, <1>2, <1>3, <1>4 DEF LimiterInv, Allowance, RateBounded

-----------------------------------------------------------------------------
(* The rate limiter: theorems *)

\* The limiter by itself keeps its invariant, and with it the rate.
THEOREM LimiterInvariant == LimiterSpec => []LimiterInv
<1>1. LimiterInv /\ [Consume \/ Tick \/ Restart]_limiter => LimiterInv'
  BY ConsumeStep, TickStep, RestartStep, StutterStep
<1>. QED  BY InitLimiter, <1>1, PTL DEF LimiterSpec

\* tryConsume and refill: however calls and time interleave, a window of T
\* ticks sees fewer than MaxTokens + 1 + T / Interval calls.
THEOREM RateIsBounded == LimiterSpec => []RateBounded
BY LimiterInvariant, BoundFollows, PTL

-----------------------------------------------------------------------------
(* Settlement: the inductive invariant *)

\* The calls that the runs started so far may have made.
Budget(j) == Runs(j) * RpcAttempts

\* What a run that is not idle knows: it has not used its calls up.
InRun(r) ==
  /\ job[r.trade].state = "active"
  /\ r.pc = "acquire" =>
       /\ r.tries < RpcAttempts
       /\ chain[r.trade] + RpcAttempts <= Budget(job[r.trade]) + r.tries
  /\ r.pc = "rpc" =>
       chain[r.trade] + RpcAttempts < Budget(job[r.trade]) + r.tries
  /\ r.pc = "save" => chain[r.trade] > 0

RunsSound ==
  \A w \in Worker : run[w].pc # "idle" =>
    run[w].trade \in Trade /\ InRun(run[w])

\* A job is run by one worker at a time.
OneRun ==
  \A v, w \in Worker :
    run[v].pc # "idle" /\ run[w].pc # "idle" /\ run[v].trade = run[w].trade
      => v = w

\* What is known of a trade at any time.
TradeSound(t) ==
  /\ JobSound(job[t])
  /\ chain[t] <= Budget(job[t])
  /\ status[t] = "SETTLED" => chain[t] > 0
  /\ status[t] # "FAILED"

TradesSound == \A t \in Trade : TradeSound(t)

SettlementInv ==
  TypeOK /\ LimiterInv /\ TradesSound /\ RunsSound /\ OneRun

RunType ==
  [pc : {"idle", "acquire", "rpc", "save", "publish"},
   trade : Trade \cup {None}, tries : 0..RpcAttempts]

-----------------------------------------------------------------------------
(* Budgets *)

LEMMA BudgetIsNat ==
  ASSUME NEW j, JobSound(j)
  PROVE  /\ Budget(j) \in Nat /\ Budget(j) <= MaxRuns * RpcAttempts
         /\ MaxRuns * RpcAttempts \in Nat
<1>1. /\ RpcAttempts \in Nat /\ Runs(j) \in Nat /\ MaxRuns \in Nat
      /\ Runs(j) <= MaxRuns
  BY SettlementAssumption, RunsBounded
<1>2. /\ RpcAttempts * Runs(j) <= RpcAttempts * MaxRuns
      /\ RpcAttempts * Runs(j) = Runs(j) * RpcAttempts
      /\ RpcAttempts * MaxRuns = MaxRuns * RpcAttempts
  BY <1>1, TimesMonotone
<1>. QED  BY <1>1, <1>2 DEF Budget

\* Taking a job allows RpcAttempts calls more.
LEMMA BudgetGrows ==
  ASSUME NEW j, JobSound(j), j.state = "waiting"
  PROVE  Budget(Taken(j)) = Budget(j) + RpcAttempts
<1>1. Runs(Taken(j)) = Runs(j) + 1 /\ Runs(j) \in Nat /\ RpcAttempts \in Nat
  BY TakenJob, RunsBounded, SettlementAssumption
<1>2. (Runs(j) + 1) * RpcAttempts = Runs(j) * RpcAttempts + RpcAttempts
  BY <1>1
<1>. QED  BY <1>1, <1>2 DEF Budget

LEMMA NewBudget == Budget(NoJob) = 0
BY NewJob, SettlementAssumption DEF Budget

-----------------------------------------------------------------------------
LEMMA InitSettlement == Init => SettlementInv
<1> SUFFICES ASSUME Init PROVE SettlementInv
  OBVIOUS
<1>1. LimiterInv
  BY InitLimiter DEF Init
<1>2. TypeOK
  <2>1. job \in [Trade -> JobRecord]
    BY NewJob DEF Init, JobSound
  <2>2. IdleRun \in RunType
    BY SettlementAssumption DEF IdleRun, RunType
  <2>3. run \in [Worker -> RunType]
    BY <2>2 DEF Init
  <2>. QED  BY <1>1, <2>1, <2>3 DEF Init, TypeOK, LimiterInv, RunType
<1>3. TradesSound
  BY NewJob, NewBudget DEF Init, TradesSound, TradeSound
<1>4. RunsSound /\ OneRun
  BY DEF Init, RunsSound, OneRun, IdleRun
<1>. QED  BY <1>1, <1>2, <1>3, <1>4 DEF SettlementInv

-----------------------------------------------------------------------------
(* Steps *)

\* A step of the run of worker w, which holds the job of trade t before it or
\* takes it.
LEMMA WorkerMoves ==
  ASSUME SettlementInv, TypeOK', LimiterInv', NEW w \in Worker, NEW t \in Trade,
         \A v \in Worker \ {w} : run'[v] = run[v],
         \A u \in Trade \ {t} :
           status'[u] = status[u] /\ job'[u] = job[u] /\ chain'[u] = chain[u],
         \A v \in Worker \ {w} : run[v].pc # "idle" => run[v].trade # t,
         TradeSound(t)',
         run'[w].pc = "idle" \/ (run'[w].trade = t /\ InRun(run[w])')
  PROVE  SettlementInv'
<1>1. \A u \in Trade \ {t} : TradeSound(u)'
  BY DEF SettlementInv, TradesSound, TradeSound
<1>2. RunsSound'
  <2>1. ASSUME NEW v \in Worker \ {w}, run[v].pc # "idle"
        PROVE  run[v].trade \in Trade \ {t} /\ InRun(run[v])'
    <3>1. run[v].trade \in Trade \ {t} /\ run'[v] = run[v] /\ InRun(run[v])
      BY <2>1 DEF SettlementInv, RunsSound
    <3>. QED  BY <3>1 DEF InRun
  <2>. QED  BY <2>1 DEF RunsSound
<1>3. OneRun'
  BY DEF SettlementInv, OneRun
<1>. QED  BY <1>1, <1>2, <1>3 DEF SettlementInv, TradesSound

\* What a run that is not idle knows of its trade.
LEMMA RunKnows ==
  ASSUME SettlementInv, NEW w \in Worker, run[w].pc # "idle"
  PROVE  /\ TypeOK /\ run[w].trade \in Trade
         /\ TradeSound(run[w].trade) /\ InRun(run[w])
         /\ \A v \in Worker \ {w} :
              run[v].pc # "idle" => run[v].trade # run[w].trade
BY DEF SettlementInv, TradesSound, RunsSound, OneRun

\* The run ends: its job is over, or will be run again.
LEMMA RunEnds ==
  ASSUME SettlementInv, NEW w \in Worker, NEW t \in Trade, t = run[w].trade,
         run[w].pc # "idle",
         End(w, Completed(Mine(w))) \/ End(w, AttemptFailed(Mine(w))),
         faults' \in Nat,
         chain' \in [Trade -> Nat], chain'[t] <= Budget(job[t]),
         chain'[t] >= chain[t],
         \A u \in Trade \ {t} : chain'[u] = chain[u],
         UNCHANGED <<status, limiter>>
  PROVE  SettlementInv'
<1>1. /\ TypeOK /\ TradeSound(t) /\ job[t].state = "active"
      /\ \A v \in Worker \ {w} : run[v].pc # "idle" => run[v].trade # t
  BY RunKnows DEF InRun
<1>2. PICK k \in {Completed(job[t]), AttemptFailed(job[t])} :
        job' = [job EXCEPT ![t] = k] /\ run' = [run EXCEPT ![w] = IdleRun]
  BY DEF End, Mine
<1>3. JobSound(k) /\ Runs(k) = Runs(job[t])
  BY <1>1, EndedJob DEF TradeSound
<1>4. LimiterInv'
  BY StutterStep DEF SettlementInv
<1>5. TypeOK'
  <2>1. job' \in [Trade -> JobRecord]
    BY <1>1, <1>2, <1>3 DEF TypeOK, JobSound
  <2>2. IdleRun \in RunType
    BY SettlementAssumption DEF IdleRun, RunType
  <2>3. run' \in [Worker -> RunType]
    BY <1>1, <1>2, <2>2 DEF TypeOK, RunType
  <2>. QED  BY <1>1, <1>4, <2>1, <2>3 DEF TypeOK, RunType, LimiterInv
<1>6. job'[t] = k /\ run'[w].pc = "idle"
  BY <1>1, <1>2 DEF TypeOK, IdleRun
<1>7. TradeSound(t)'
  <2>1. JobSound(job'[t]) /\ Budget(job'[t]) = Budget(job[t])
    BY <1>3, <1>6 DEF Budget
  <2>2. status'[t] = "SETTLED" => chain'[t] > 0
    BY <1>1 DEF TradeSound, TypeOK
  <2>. QED  BY <1>1, <2>1, <2>2 DEF TradeSound
<1>8. /\ \A u \in Trade \ {t} : job'[u] = job[u]
      /\ \A v \in Worker \ {w} : run'[v] = run[v]
  BY <1>1, <1>2 DEF TypeOK
<1>. QED
  BY <1>1, <1>4, <1>5, <1>6, <1>7, <1>8, WorkerMoves

LEMMA TakeStep ==
  ASSUME SettlementInv, NEW w \in Worker, NEW t \in Trade, TakeJob(w, t)
  PROVE  SettlementInv'
<1> DEFINE r == [pc |-> "acquire", trade |-> t, tries |-> 0]
<1>1. TypeOK /\ TradeSound(t) /\ job[t].state = "waiting"
  BY DEF SettlementInv, TradesSound, TakeJob
<1>2. /\ JobSound(Taken(job[t])) /\ Taken(job[t]).state = "active"
      /\ Budget(Taken(job[t])) = Budget(job[t]) + RpcAttempts
      /\ Budget(job[t]) \in Nat /\ RpcAttempts \in Nat \ {0}
  BY <1>1, TakenJob, BudgetGrows, BudgetIsNat, SettlementAssumption
  DEF TradeSound
<1>3. /\ job' = [job EXCEPT ![t] = Taken(job[t])] /\ job'[t] = Taken(job[t])
      /\ run' = [run EXCEPT ![w] = r] /\ run'[w] = r
      /\ UNCHANGED <<status, chain, faults, limiter>>
  BY <1>1 DEF TakeJob, TypeOK
<1>4. LimiterInv'
  BY <1>3, StutterStep DEF SettlementInv
<1>5. TypeOK'
  <2>1. job' \in [Trade -> JobRecord]
    BY <1>1, <1>2, <1>3 DEF TypeOK, JobSound
  <2>2. r \in RunType
    BY <1>2 DEF RunType
  <2>3. run' \in [Worker -> RunType]
    BY <1>1, <1>3, <2>2 DEF TypeOK, RunType
  <2>. QED  BY <1>1, <1>3, <1>4, <2>1, <2>3 DEF TypeOK, RunType, LimiterInv
<1>6. TradeSound(t)'
  <2>1. JobSound(job'[t]) /\ chain[t] <= Budget(job'[t])
    BY <1>1, <1>2, <1>3 DEF TradeSound, TypeOK
  <2>. QED  BY <1>1, <1>3, <2>1 DEF TradeSound
<1>7. \A v \in Worker : run[v].pc # "idle" => run[v].trade # t
  BY <1>1 DEF SettlementInv, RunsSound, InRun
<1>8. run'[w].trade = t /\ InRun(run[w])'
  <2>1. /\ run'[w].trade = t /\ run'[w].pc = "acquire" /\ run'[w].tries = 0
    BY <1>3
  <2>2. chain'[t] + RpcAttempts <= Budget(job'[t]) + 0
    BY <1>1, <1>2, <1>3 DEF TradeSound, TypeOK
  <2>3. job'[t].state = "active"
    BY <1>2, <1>3
  <2>. QED  BY <1>2, <2>1, <2>2, <2>3 DEF InRun
<1>9. /\ \A u \in Trade \ {t} : job'[u] = job[u]
      /\ \A v \in Worker \ {w} : run'[v] = run[v]
  BY <1>1, <1>3 DEF TypeOK
<1>. QED
  BY <1>3, <1>4, <1>5, <1>6, <1>7, <1>8, <1>9, WorkerMoves

LEMMA AcquireStep ==
  ASSUME SettlementInv, NEW w \in Worker, Acquire(w)
  PROVE  SettlementInv'
<1>1. PICK t \in Trade :
        /\ t = run[w].trade /\ run[w].pc = "acquire"
        /\ TypeOK /\ TradeSound(t) /\ InRun(run[w])
        /\ \A v \in Worker \ {w} : run[v].pc # "idle" => run[v].trade # t
  BY RunKnows DEF Acquire
<1>2. LimiterInv'
  BY ConsumeStep DEF SettlementInv, Acquire
<1>3. UNCHANGED <<status, chain, job, faults>>
  BY DEF Acquire
<1>4. /\ run' \in [Worker -> RunType] /\ run'[w].trade = t /\ run'[w].pc = "rpc"
      /\ run'[w].tries = run[w].tries + 1 /\ run[w].tries \in Nat
      /\ \A v \in Worker \ {w} : run'[v] = run[v]
  <2>1. run[w].tries < RpcAttempts /\ run[w].tries \in 0..RpcAttempts
        /\ RpcAttempts \in Nat
    BY <1>1, SettlementAssumption DEF TypeOK, InRun
  <2>. QED  BY <1>1, <2>1 DEF Acquire, TypeOK, RunType
<1>5. TypeOK'
  BY <1>1, <1>2, <1>3, <1>4 DEF TypeOK, RunType, LimiterInv
<1>6. TradeSound(t)'
  BY <1>1, <1>3 DEF TradeSound
<1>7. InRun(run[w])'
  <2>1. /\ Budget(job[t]) \in Nat /\ RpcAttempts \in Nat /\ chain[t] \in Nat
        /\ chain[t] + RpcAttempts <= Budget(job[t]) + run[w].tries
    BY <1>1, BudgetIsNat, SettlementAssumption DEF TradeSound, InRun, TypeOK
  <2>2. chain'[t] + RpcAttempts < Budget(job'[t]) + run'[w].tries
    BY <1>3, <1>4, <2>1
  <2>3. job'[t].state = "active"
    BY <1>1, <1>3 DEF InRun
  <2>. QED  BY <1>4, <2>2, <2>3 DEF InRun
<1>. QED
  BY <1>1, <1>2, <1>3, <1>4, <1>5, <1>6, <1>7, WorkerMoves

LEMMA GotoMoves ==
  ASSUME TypeOK, NEW w \in Worker, NEW pc \in {"acquire", "save", "publish"},
         Goto(w, pc)
  PROVE  /\ run' \in [Worker -> RunType]
         /\ run'[w].pc = pc /\ run'[w].trade = run[w].trade
         /\ run'[w].tries = run[w].tries
         /\ \A v \in Worker \ {w} : run'[v] = run[v]
BY DEF TypeOK, Goto, RunType

\* A call that may have settled the trade, below the budget.
LEMMA ChainGrows ==
  ASSUME SettlementInv, NEW w \in Worker, NEW t \in Trade, t = run[w].trade,
         run[w].pc = "rpc",
         chain' \in {chain, [chain EXCEPT ![t] = @ + 1]}
  PROVE  /\ chain' \in [Trade -> Nat] /\ chain'[t] >= chain[t]
         /\ chain'[t] <= Budget(job[t])
         /\ chain'[t] + RpcAttempts <= Budget(job[t]) + run[w].tries
         /\ \A u \in Trade \ {t} : chain'[u] = chain[u]
<1>1. TypeOK /\ TradeSound(t) /\ InRun(run[w])
  BY RunKnows
<1>2. /\ Budget(job[t]) \in Nat /\ RpcAttempts \in Nat /\ chain[t] \in Nat
      /\ run[w].tries \in Nat /\ run[w].tries <= RpcAttempts
      /\ chain[t] + RpcAttempts < Budget(job[t]) + run[w].tries
      /\ chain \in [Trade -> Nat]
  BY <1>1, BudgetIsNat, SettlementAssumption DEF TradeSound, InRun, TypeOK
<1>3. chain' \in [Trade -> Nat] /\ chain'[t] \in {chain[t], chain[t] + 1}
      /\ \A u \in Trade \ {t} : chain'[u] = chain[u]
  BY <1>2
<1>. QED  BY <1>2, <1>3

LEMMA SettleStep ==
  ASSUME SettlementInv, NEW w \in Worker, SettleTrade(w)
  PROVE  SettlementInv'
<1>1. PICK t \in Trade :
        /\ t = run[w].trade /\ run[w].pc = "rpc"
        /\ TypeOK /\ TradeSound(t) /\ InRun(run[w])
        /\ \A v \in Worker \ {w} : run[v].pc # "idle" => run[v].trade # t
  BY RunKnows DEF SettleTrade
<1>2. /\ chain' = [chain EXCEPT ![t] = @ + 1] /\ Goto(w, "save")
      /\ UNCHANGED <<status, job, faults, limiter>>
  BY <1>1 DEF SettleTrade
<1>3. /\ chain' \in [Trade -> Nat] /\ chain'[t] <= Budget(job[t])
      /\ chain'[t] = chain[t] + 1 /\ chain[t] \in Nat
      /\ \A u \in Trade \ {t} : chain'[u] = chain[u]
  BY <1>1, <1>2, ChainGrows DEF TypeOK
<1>4. /\ run' \in [Worker -> RunType] /\ run'[w].pc = "save"
      /\ run'[w].trade = t /\ \A v \in Worker \ {w} : run'[v] = run[v]
  BY <1>1, <1>2, GotoMoves
<1>5. LimiterInv'
  BY <1>2, StutterStep DEF SettlementInv
<1>6. TypeOK'
  BY <1>1, <1>2, <1>3, <1>4, <1>5 DEF TypeOK, RunType, LimiterInv
<1>7. TradeSound(t)'
  BY <1>1, <1>2, <1>3 DEF TradeSound, Budget
<1>8. InRun(run[w])'
  BY <1>1, <1>2, <1>3, <1>4 DEF InRun
<1>. QED
  BY <1>1, <1>2, <1>3, <1>4, <1>5, <1>6, <1>7, <1>8, WorkerMoves

\* The catch: attemptsMade is below GiveUpAt while the processor runs, so
\* that it always rethrows.
LEMMA CaughtEnds ==
  ASSUME SettlementInv, NEW w \in Worker, run[w].pc # "idle", Caught(w)
  PROVE  End(w, AttemptFailed(Mine(w))) /\ status' = status
<1>1. Mine(w).attempts < Attempts /\ Mine(w).attempts \in Nat
  BY RunKnows DEF TradeSound, InRun, JobSound, JobRecord, Mine
<1>2. Attempts \in Nat /\ GiveUpAt \in Nat /\ Attempts <= GiveUpAt
  BY JobAssumption, SettlementAssumption
<1>. QED  BY <1>1, <1>2 DEF Caught

LEMMA RpcFaultStep ==
  ASSUME SettlementInv, NEW w \in Worker, RpcFault(w)
  PROVE  SettlementInv'
<1>1. PICK t \in Trade :
        /\ t = run[w].trade /\ run[w].pc = "rpc"
        /\ TypeOK /\ TradeSound(t) /\ InRun(run[w])
        /\ \A v \in Worker \ {w} : run[v].pc # "idle" => run[v].trade # t
  BY RunKnows DEF RpcFault
<1>2. /\ chain' \in {chain, [chain EXCEPT ![t] = @ + 1]}
      /\ faults' \in Nat /\ UNCHANGED limiter
  BY <1>1 DEF RpcFault, Fault, TypeOK
<1>3. /\ chain' \in [Trade -> Nat] /\ chain'[t] >= chain[t]
      /\ chain'[t] <= Budget(job[t])
      /\ chain'[t] + RpcAttempts <= Budget(job[t]) + run[w].tries
      /\ \A u \in Trade \ {t} : chain'[u] = chain[u]
  BY <1>1, <1>2, ChainGrows
<1>4. LimiterInv'
  BY <1>2, StutterStep DEF SettlementInv
<1>5. CASE run[w].tries < RpcAttempts
  <2>1. Goto(w, "acquire") /\ UNCHANGED <<status, job>>
    BY <1>5 DEF RpcFault
  <2>2. /\ run' \in [Worker -> RunType] /\ run'[w].pc = "acquire"
        /\ run'[w].trade = t /\ run'[w].tries = run[w].tries
        /\ \A v \in Worker \ {w} : run'[v] = run[v]
    BY <1>1, <2>1, GotoMoves
  <2>3. TypeOK'
    BY <1>1, <1>2, <1>3, <1>4, <2>1, <2>2 DEF TypeOK, RunType, LimiterInv
  <2>4. TradeSound(t)'
    BY <1>1, <1>3, <2>1 DEF TradeSound, Budget, TypeOK
  <2>5. InRun(run[w])'
    BY <1>1, <1>3, <1>5, <2>1, <2>2 DEF InRun, Budget
  <2>. QED
    BY <1>1, <1>3, <1>4, <2>1, <2>2, <2>3, <2>4, <2>5, WorkerMoves
<1>6. CASE ~(run[w].tries < RpcAttempts)
  <2>1. Caught(w)
    BY <1>6 DEF RpcFault
  <2>2. End(w, AttemptFailed(Mine(w))) /\ status' = status
    BY <1>1, <2>1, CaughtEnds
  <2>. QED  BY <1>1, <1>2, <1>3, <2>2, RunEnds
<1>. QED  BY <1>5, <1>6

LEMMA SaveStep ==
  ASSUME SettlementInv, NEW w \in Worker, SaveSettlement(w)
  PROVE  SettlementInv'
<1>1. PICK t \in Trade :
        /\ t = run[w].trade /\ run[w].pc = "save"
        /\ TypeOK /\ TradeSound(t) /\ InRun(run[w])
        /\ \A v \in Worker \ {w} : run[v].pc # "idle" => run[v].trade # t
  BY RunKnows DEF SaveSettlement
<1>2. /\ status' = [status EXCEPT ![t] = "SETTLED"] /\ Goto(w, "publish")
      /\ UNCHANGED <<chain, job, faults, limiter>>
  BY <1>1 DEF SaveSettlement
<1>3. /\ run' \in [Worker -> RunType] /\ run'[w].pc = "publish"
      /\ run'[w].trade = t /\ \A v \in Worker \ {w} : run'[v] = run[v]
  BY <1>1, <1>2, GotoMoves
<1>4. LimiterInv'
  BY <1>2, StutterStep DEF SettlementInv
<1>5. TypeOK'
  BY <1>1, <1>2, <1>3, <1>4 DEF TypeOK, RunType, LimiterInv
<1>6. TradeSound(t)' /\ \A u \in Trade \ {t} : status'[u] = status[u]
  BY <1>1, <1>2 DEF TradeSound, Budget, TypeOK, InRun
<1>7. InRun(run[w])'
  BY <1>1, <1>2, <1>3 DEF InRun
<1>. QED
  BY <1>1, <1>2, <1>3, <1>4, <1>5, <1>6, <1>7, WorkerMoves

LEMMA EndStep ==
  ASSUME SettlementInv, NEW w \in Worker, SaveFault(w) \/ PublishSettled(w)
  PROVE  SettlementInv'
<1>1. PICK t \in Trade :
        /\ t = run[w].trade /\ run[w].pc # "idle" /\ TypeOK /\ TradeSound(t)
  BY RunKnows DEF SaveFault, PublishSettled
<1>2. UNCHANGED <<chain, limiter>> /\ faults' \in Nat
  BY <1>1 DEF SaveFault, PublishSettled, Fault, TypeOK
<1>3. /\ status' = status
      /\ End(w, Completed(Mine(w))) \/ End(w, AttemptFailed(Mine(w)))
  BY <1>1, CaughtEnds DEF SaveFault, PublishSettled
<1>4. /\ chain' \in [Trade -> Nat] /\ chain'[t] <= Budget(job[t])
      /\ chain'[t] >= chain[t] /\ chain[t] \in Nat
  BY <1>1, <1>2 DEF TypeOK, TradeSound
<1>. QED  BY <1>1, <1>2, <1>3, <1>4, RunEnds

\* The process dies: no run is left, and each job counts as a stall.
LEMMA CrashStep ==
  ASSUME SettlementInv, Crash
  PROVE  SettlementInv'
<1>1. TypeOK /\ UNCHANGED <<status, chain>> /\ faults' \in Nat
  BY DEF SettlementInv, TypeOK, Crash, Fault
<1>2. LimiterInv'
  BY RestartStep DEF Crash
<1>3. \A t \in Trade :
        /\ JobSound(job'[t]) /\ Runs(job'[t]) = Runs(job[t])
        /\ job'[t] \in JobRecord
  <2>1. ASSUME NEW t \in Trade, job[t].state = "active"
        PROVE  JobSound(job'[t]) /\ Runs(job'[t]) = Runs(job[t])
    <3>1. job'[t] = Stalled(job[t]) /\ JobSound(job[t])
      BY <2>1 DEF Crash, SettlementInv, TradesSound, TradeSound
    <3>2. /\ JobSound(Stalled(job[t]))
          /\ Runs(Stalled(job[t])) = Runs(job[t])
      BY <2>1, <3>1, EndedJob
    <3>. QED  BY <3>1, <3>2
  <2>2. ASSUME NEW t \in Trade, job[t].state # "active"
        PROVE  JobSound(job'[t]) /\ Runs(job'[t]) = Runs(job[t])
    <3>1. job'[t] = job[t] /\ JobSound(job[t])
      BY <2>2 DEF Crash, SettlementInv, TradesSound, TradeSound
    <3>. QED  BY <3>1
  <2>. QED  BY <2>1, <2>2 DEF JobSound
<1>4. TypeOK'
  <2>1. job' \in [Trade -> JobRecord]
    BY <1>3 DEF Crash
  <2>2. IdleRun \in RunType
    BY SettlementAssumption DEF IdleRun, RunType
  <2>3. run' \in [Worker -> RunType]
    BY <2>2 DEF Crash
  <2>. QED  BY <1>1, <1>2, <2>1, <2>3 DEF TypeOK, RunType, LimiterInv
<1>5. TradesSound'
  BY <1>1, <1>3 DEF SettlementInv, TradesSound, TradeSound, Budget
<1>6. RunsSound' /\ OneRun'
  BY DEF Crash, RunsSound, OneRun, IdleRun
<1>. QED  BY <1>2, <1>4, <1>5, <1>6 DEF SettlementInv

\* A trade is made, its job is enqueued, or time passes.
LEMMA OtherStep ==
  ASSUME SettlementInv,
         \/ \E t \in Trade : ExecuteTrade(t) \/ EnqueueSettlement(t)
         \/ TimePasses \/ UNCHANGED vars
  PROVE  SettlementInv'
<1>1. TypeOK /\ LimiterInv /\ TradesSound
  BY DEF SettlementInv
<1>2. ASSUME NEW t \in Trade, ExecuteTrade(t) PROVE SettlementInv'
  <2>1. LimiterInv'
    BY <1>1, <1>2, StutterStep DEF ExecuteTrade
  <2>2. TypeOK'
    BY <1>1, <1>2, <2>1 DEF TypeOK, ExecuteTrade, LimiterInv
  <2>3. TradesSound'
    BY <1>1, <1>2 DEF TypeOK, TradesSound, TradeSound, ExecuteTrade
  <2>. QED
    BY <1>2, <2>1, <2>2, <2>3
    DEF SettlementInv, RunsSound, OneRun, InRun, ExecuteTrade
<1>3. ASSUME NEW t \in Trade, EnqueueSettlement(t) PROVE SettlementInv'
  <2>1. JobSound(job[t]) /\ job[t].state = "none"
    BY <1>1, <1>3 DEF TradesSound, TradeSound, EnqueueSettlement, NoJob
  <2>2. /\ JobSound(Enqueued(job[t]))
        /\ Runs(Enqueued(job[t])) = Runs(job[t])
    BY <2>1, EnqueuedJob
  <2>3. /\ job' = [job EXCEPT ![t] = Enqueued(job[t])]
        /\ job'[t] = Enqueued(job[t])
        /\ \A u \in Trade \ {t} : job'[u] = job[u]
        /\ UNCHANGED <<status, chain, run, faults, limiter>>
    BY <1>1, <1>3 DEF EnqueueSettlement, TypeOK
  <2>4. LimiterInv'
    BY <1>1, <2>3, StutterStep
  <2>5. TypeOK'
    BY <1>1, <2>2, <2>3, <2>4 DEF TypeOK, JobSound, LimiterInv
  <2>6. TradesSound'
    BY <1>1, <2>2, <2>3 DEF TradesSound, TradeSound, Budget
  <2>7. RunsSound'
    BY <2>1, <2>3 DEF SettlementInv, RunsSound, InRun
  <2>8. OneRun'
    BY <2>3 DEF SettlementInv, OneRun
  <2>. QED  BY <2>4, <2>5, <2>6, <2>7, <2>8 DEF SettlementInv
<1>4. CASE TimePasses \/ UNCHANGED vars
  <2>1. UNCHANGED <<status, chain, job, run, faults>>
    BY <1>4 DEF TimePasses, vars
  <2>2. LimiterInv'
    BY <1>1, <1>4, TickStep, StutterStep DEF TimePasses, vars
  <2>3. TypeOK'
    BY <1>1, <2>1, <2>2 DEF TypeOK, LimiterInv
  <2>. QED
    BY <2>1, <2>2, <2>3
    DEF SettlementInv, TradesSound, TradeSound, RunsSound, OneRun, InRun
<1>. QED  BY <1>2, <1>3, <1>4

LEMMA SettlementStep == SettlementInv /\ [Next]_vars => SettlementInv'
BY TakeStep, AcquireStep, SettleStep, RpcFaultStep, SaveStep, EndStep,
   CrashStep, OtherStep
DEF Next, Work

-----------------------------------------------------------------------------
(* Theorems *)

\* The strengthened invariant holds in every reachable state.
THEOREM SettlementInvariant == Spec => []SettlementInv
BY InitSettlement, SettlementStep, PTL DEF Spec

\* Every variable keeps its type: in particular no run of a job has the
\* client try a call more than RpcAttempts times.
THEOREM TypeCorrect == Spec => []TypeOK
BY SettlementInvariant, PTL DEF SettlementInv

\* acquire(): in the life of a process, the retries of the client and the runs
\* of several workers together never exceed the limiter's rate.  A restart ends
\* the window: the next process starts with a full bucket, and nothing is said
\* of the calls of two processes together.
THEOREM CallsAreBounded == Spec => []RateBounded
<1>1. SettlementInv => RateBounded
  BY BoundFollows DEF SettlementInv
<1>. QED  BY <1>1, SettlementInvariant, PTL

-----------------------------------------------------------------------------
(* The refinement of AtLeastOnce *)

RecordedTrades == {t \in Trade : status[t] = "SETTLED"}
ClosedTrades == {t \in Trade : Over(job[t])}

\* Steps that change neither the chain, nor what is recorded, nor which jobs
\* are over.
LEMMA PromiseStutters ==
  ASSUME chain' = chain, RecordedTrades' = RecordedTrades,
         ClosedTrades' = ClosedTrades
  PROVE  UNCHANGED Promise!vars
BY DEF Promise!vars, RecordedTrades, ClosedTrades

\* A job that is being run is not over.
LEMMA ActiveIsOpen ==
  ASSUME SettlementInv, NEW w \in Worker, run[w].pc # "idle"
  PROVE  run[w].trade \in Trade /\ ~Over(job[run[w].trade])
BY RunKnows DEF InRun, Over

\* The run of worker w ends, and its job may be over with it.
LEMMA RunCloses ==
  ASSUME TypeOK, NEW w \in Worker, NEW t \in Trade, t = run[w].trade, NEW j,
         End(w, j)
  PROVE  ClosedTrades' \in {ClosedTrades \ {t}, ClosedTrades \cup {t}}
<1>1. \A u \in Trade \ {t} : job'[u] = job[u]
  BY DEF End, TypeOK
<1>. QED  BY <1>1 DEF ClosedTrades

\* A call reaches the chain: once more, but within the budget.
LEMMA PromiseEffect ==
  ASSUME SettlementInv, NEW w \in Worker, NEW t \in Trade, t = run[w].trade,
         run[w].pc = "rpc", chain' = [chain EXCEPT ![t] = @ + 1],
         status' = status,
         ClosedTrades' \in {ClosedTrades, ClosedTrades \cup {t}}
  PROVE  Promise!Next
<1>1. TypeOK /\ TradeSound(t) /\ ~Over(job[t])
  BY RunKnows, ActiveIsOpen
<1>2. chain[t] < MaxRuns * RpcAttempts
  <2>1. /\ Budget(job[t]) \in Nat /\ Budget(job[t]) <= MaxRuns * RpcAttempts
        /\ MaxRuns * RpcAttempts \in Nat
    BY <1>1, BudgetIsNat DEF TradeSound
  <2>2. /\ chain'[t] <= Budget(job[t]) /\ chain'[t] = chain[t] + 1
        /\ chain[t] \in Nat
    BY <1>1, ChainGrows DEF TypeOK
  <2> DEFINE bound == MaxRuns * RpcAttempts
  <2>3. bound \in Nat /\ Budget(job[t]) <= bound
    BY <2>1
  <2> HIDE DEF bound
  <2>4. chain[t] < bound
    BY <2>1, <2>2, <2>3
  <2>. QED  BY <2>4 DEF bound
<1>3. RecordedTrades' = RecordedTrades
  BY DEF RecordedTrades
<1>4. Promise!Effect(t)
  BY <1>1, <1>2, <1>3 DEF Promise!Effect, ClosedTrades, RecordedTrades
<1>. QED  BY <1>4 DEF Promise!Next

\* Jobs may end, and nothing else happens.
LEMMA PromiseCloses ==
  ASSUME NEW items \in SUBSET Trade, chain' = chain, status' = status,
         ClosedTrades' = ClosedTrades \cup items
  PROVE  Promise!Next
<1>1. RecordedTrades' = RecordedTrades
  BY DEF RecordedTrades
<1>2. Promise!Close(items)
  BY <1>1 DEF Promise!Close, ClosedTrades, RecordedTrades
<1>. QED  BY <1>2 DEF Promise!Next

LEMMA PromiseRecord ==
  ASSUME SettlementInv, NEW w \in Worker, SaveSettlement(w)
  PROVE  Promise!Next
<1>1. PICK t \in Trade : /\ t = run[w].trade /\ run[w].pc = "save"
                         /\ TypeOK /\ TradeSound(t) /\ InRun(run[w])
                         /\ ~Over(job[t])
  BY RunKnows, ActiveIsOpen DEF SaveSettlement
<1>2. chain[t] > 0
  BY <1>1 DEF InRun
<1>3. /\ RecordedTrades' = RecordedTrades \cup {t}
      /\ ClosedTrades' = ClosedTrades /\ chain' = chain
  BY <1>1 DEF SaveSettlement, RecordedTrades, ClosedTrades, TypeOK
<1>4. Promise!Record(t)
  BY <1>1, <1>2, <1>3 DEF Promise!Record, RecordedTrades, ClosedTrades
<1>. QED  BY <1>4 DEF Promise!Next

LEMMA PromiseRpcFault ==
  ASSUME SettlementInv, NEW w \in Worker, RpcFault(w)
  PROVE  [Promise!Next]_Promise!vars
<1>1. PICK t \in Trade : /\ t = run[w].trade /\ run[w].pc = "rpc" /\ TypeOK
                         /\ ~Over(job[t])
  BY RunKnows, ActiveIsOpen DEF RpcFault
<1>2. /\ status' = status
      /\ ClosedTrades' \in {ClosedTrades, ClosedTrades \cup {t}}
  <2>1. CASE run[w].tries < RpcAttempts
    BY <2>1 DEF RpcFault, ClosedTrades
  <2>2. CASE ~(run[w].tries < RpcAttempts)
    <3>1. End(w, AttemptFailed(Mine(w))) /\ status' = status
      BY <1>1, <2>2, CaughtEnds DEF RpcFault
    <3>2. t \notin ClosedTrades
      BY <1>1 DEF ClosedTrades
    <3>. QED  BY <1>1, <3>1, <3>2, RunCloses
  <2>. QED  BY <2>1, <2>2
<1>3. CASE chain' = [chain EXCEPT ![t] = @ + 1]
  BY <1>1, <1>2, <1>3, PromiseEffect
<1>4. CASE chain' = chain
  <2>1. PICK items \in {{}, {t}} : ClosedTrades' = ClosedTrades \cup items
    BY <1>2
  <2>. QED  BY <1>2, <1>4, <2>1, PromiseCloses
<1>. QED  BY <1>1, <1>3, <1>4 DEF RpcFault

LEMMA PromiseWorks ==
  ASSUME SettlementInv, NEW w \in Worker,
         Work(w) \/ RpcFault(w) \/ SaveFault(w)
  PROVE  [Promise!Next]_Promise!vars
<1>1. ASSUME NEW t \in Trade, TakeJob(w, t) PROVE [Promise!Next]_Promise!vars
  <2>1. TypeOK /\ job[t] \in JobRecord /\ job[t].state = "waiting"
    BY <1>1 DEF SettlementInv, TypeOK, TakeJob
  <2>2. Taken(job[t]).state = "active"
    BY <2>1 DEF JobRecord, Taken
  <2>3. \A u \in Trade : Over(job'[u]) = Over(job[u])
    BY <1>1, <2>1, <2>2 DEF TakeJob, TypeOK, Over
  <2>4. ClosedTrades' = ClosedTrades /\ RecordedTrades' = RecordedTrades
    BY <1>1, <2>3 DEF TakeJob, ClosedTrades, RecordedTrades
  <2>. QED  BY <1>1, <2>4, PromiseStutters DEF TakeJob
<1>2. CASE Acquire(w)
  BY <1>2, PromiseStutters DEF Acquire, ClosedTrades, RecordedTrades
<1>3. CASE SettleTrade(w)
  <2>1. PICK t \in Trade : t = run[w].trade
    BY <1>3, ActiveIsOpen DEF SettleTrade
  <2>. QED
    BY <1>3, <2>1, PromiseEffect DEF SettleTrade, ClosedTrades
<1>4. CASE SaveFault(w) \/ PublishSettled(w)
  <2>1. PICK t \in Trade : t = run[w].trade /\ TypeOK /\ ~Over(job[t])
    BY <1>4, RunKnows, ActiveIsOpen DEF SaveFault, PublishSettled
  <2>2. /\ status' = status /\ chain' = chain
        /\ End(w, Completed(Mine(w))) \/ End(w, AttemptFailed(Mine(w)))
    BY <1>4, CaughtEnds DEF SaveFault, PublishSettled
  <2>3. t \notin ClosedTrades
    BY <2>1 DEF ClosedTrades
  <2>4. ClosedTrades' \in {ClosedTrades, ClosedTrades \cup {t}}
    BY <2>1, <2>2, <2>3, RunCloses
  <2>5. PICK items \in {{}, {t}} : ClosedTrades' = ClosedTrades \cup items
    BY <2>4
  <2>. QED  BY <2>2, <2>5, PromiseCloses
<1>. QED
  BY <1>1, <1>2, <1>3, <1>4, PromiseRecord, PromiseRpcFault DEF Work

\* The process dies: the jobs whose stalls are used up are over.
LEMMA PromiseCrash ==
  ASSUME SettlementInv, Crash
  PROVE  Promise!Next
<1>1. PICK items \in SUBSET Trade :
        items = {t \in Trade : job[t].state = "active" /\ Over(Stalled(job[t]))}
  OBVIOUS
<1>2. ClosedTrades' = ClosedTrades \cup items
  BY <1>1 DEF Crash, ClosedTrades, Over
<1>. QED  BY <1>1, <1>2, PromiseCloses DEF Crash

LEMMA PromiseOthers ==
  ASSUME SettlementInv,
         \/ \E t \in Trade : ExecuteTrade(t) \/ EnqueueSettlement(t)
         \/ TimePasses \/ UNCHANGED vars
  PROVE  UNCHANGED Promise!vars
<1>1. TypeOK
  BY DEF SettlementInv
<1>2. ASSUME NEW t \in Trade, ExecuteTrade(t) PROVE UNCHANGED Promise!vars
  <2>1. RecordedTrades' = RecordedTrades /\ ClosedTrades' = ClosedTrades
    BY <1>1, <1>2 DEF ExecuteTrade, RecordedTrades, ClosedTrades, TypeOK
  <2>. QED  BY <1>2, <2>1, PromiseStutters DEF ExecuteTrade
<1>3. ASSUME NEW t \in Trade, EnqueueSettlement(t)
      PROVE  UNCHANGED Promise!vars
  <2>1. JobSound(job[t]) /\ job[t].state = "none"
    BY <1>3 DEF SettlementInv, TradesSound, TradeSound, EnqueueSettlement,
                NoJob
  <2>2. Enqueued(job[t]).state = "waiting"
    BY <2>1, EnqueuedJob
  <2>3. \A u \in Trade : Over(job'[u]) = Over(job[u])
    BY <1>1, <1>3, <2>1, <2>2 DEF EnqueueSettlement, TypeOK, Over
  <2>4. ClosedTrades' = ClosedTrades /\ RecordedTrades' = RecordedTrades
    BY <1>3, <2>3 DEF EnqueueSettlement, ClosedTrades, RecordedTrades
  <2>. QED  BY <1>3, <2>4, PromiseStutters DEF EnqueueSettlement
<1>4. CASE TimePasses \/ UNCHANGED vars
  <2>1. UNCHANGED <<status, chain, job>>
    BY <1>4 DEF TimePasses, vars
  <2>. QED  BY <2>1, PromiseStutters DEF ClosedTrades, RecordedTrades
<1>. QED  BY <1>2, <1>3, <1>4

\* Settlement implements AtLeastOnce: a trade is settled on the chain at most
\* as often as the runs of its job may call the RPC, says SETTLED only after
\* it was settled and for good, and nothing happens once its job is over.
THEOREM KeepsPromise == Spec => SettlementsKeepPromise
<1>1. Init => Promise!Init
  <2>1. Init => RecordedTrades = {} /\ ClosedTrades = {}
    BY DEF Init, RecordedTrades, ClosedTrades, Over, NoJob
  <2>. QED
    BY <2>1 DEF Init, Promise!Init, RecordedTrades, ClosedTrades
<1>2. SettlementInv /\ [Next]_vars => [Promise!Next]_Promise!vars
  BY PromiseWorks, PromiseCrash, PromiseOthers DEF Next
<1>. QED
  BY <1>1, <1>2, SettlementInvariant, PTL
  DEF Spec, SettlementsKeepPromise, Promise!Spec

=============================================================================
