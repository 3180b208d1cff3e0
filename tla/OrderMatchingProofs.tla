------------------------- MODULE OrderMatchingProofs -------------------------
(***************************************************************************)
(* Proofs about OrderMatching, for every number of users, orders, workers  *)
(* and cancellations, every price and quantity, and any number of faults.  *)
(***************************************************************************)
EXTENDS OrderMatching, FiniteSums, SequenceTheorems, FiniteSetTheorems, TLAPS

-----------------------------------------------------------------------------
(* The inductive invariant *)

TradePc == {"available", "availableFill", "locked", "lockedFill", "write", "cache",
            "fillBuyer", "fillSeller", "settle", "notify"}
MatchedPc == {"fetch", "match", "insert", "schedule"} \cup TradePc

\* A row exists exactly when the submission got past its INSERT.
RowsFollowSubmissions ==
  \A o \in Order :
    /\ sub[o].pc \in {"submit", "refused", "cache", "create"} => row[o].status = "none"
    /\ sub[o].pc \in {"enqueue", "accepted"} => row[o].status # "none"
    /\ sub[o].pc = "accepted" => jobs[<<o, o>>].state # "none"

\* A job is for an order that exists; one that completed found the order past
\* PENDING_MATCH or took it there.
JobsFollowRows ==
  \A j \in Job :
    /\ jobs[j].state # "none" => row[j[1]].status # "none"
    /\ jobs[j].state = "completed" => row[j[1]].status # "PENDING_MATCH"

CancelsSound ==
  \A c \in Canceller : can[c].pc \in {"unlock", "cache", "mark"} =>
    /\ can[c].order \in Order
    /\ row[can[c].order].status \notin {"none", "PENDING_MATCH"}
    /\ can[c].filled <= Quantity[can[c].order]

RowsSound ==
  \A o \in Order :
    /\ row[o].filled <= Quantity[o]
    /\ row[o].filled <= traded[o]
    /\ row[o].status = "FILLED" => Quantity[o] <= traded[o]

TradesSound ==
  \A i \in 1..Len(trades) :
    LET t == trades[i]
    IN  /\ Side[t.buyer] = "BUY" /\ Side[t.seller] = "SELL"
        /\ row[t.buyer].status \notin {"none", "PENDING_MATCH"}
        /\ row[t.seller].status \notin {"none", "PENDING_MATCH"}
        /\ Type[t.buyer] # "MARKET" => t.price <= Price[t.buyer]
        /\ Type[t.seller] # "MARKET" => t.price >= Price[t.seller]

\* All but market buys, which pay any price.
Limited(o) == Side[o] = "BUY" => Type[o] # "MARKET"

\* An order's trades took no more off its lock than what submitOrder would have
\* locked for the quantity that was traded.
LocksCover == \A o \in Order : Limited(o) => TakenOff(o) <= LockAmount(o, traded[o])

\* What an opposing order looked like when it was read.
SnapshotSound(o, s) ==
  /\ Side[s.order] # Side[o]
  /\ row[s.order].status \notin {"none", "PENDING_MATCH"}
  /\ s.filled <= Quantity[s.order]
  /\ s.filled <= traded[s.order]

\* What an execution knows of its order: never more filled than was traded.
ReadSound(w) ==
  run[w].pc # "idle" =>
    /\ run[w].job \in Job
    /\ row[run[w].job[1]].status # "none"
    /\ run[w].filled <= Quantity[run[w].job[1]]
    /\ run[w].filled <= traded[run[w].job[1]]
    /\ run[w].pc \in MatchedPc => row[run[w].job[1]].status # "PENDING_MATCH"
    /\ \A s \in run[w].todo : SnapshotSound(run[w].job[1], s)

\* What is left to match is no more than was open when the order was read, and
\* the rest was traded.
RemainingSound(w) ==
  run[w].pc \in TradePc \cup {"match", "insert", "schedule"} =>
    /\ run[w].remaining <= Quantity[run[w].job[1]] - run[w].filled
    /\ Quantity[run[w].job[1]] - run[w].remaining <= traded[run[w].job[1]]

Maker(o, t) == IF Side[o] = "BUY" THEN t.seller ELSE t.buyer
Taker(o, t) == IF Side[o] = "BUY" THEN t.buyer ELSE t.seller

\* The trade in progress: its quantity fits both orders as they were read, and
\* it is counted in traded on top of what they were read with.
TradeInProgressSound(r, t) ==
  LET o == r.job[1]
      p == Maker(o, t)
      q == t.quantity
  IN  /\ o = Taker(o, t)
      /\ q <= r.remaining
      /\ r.filled + q <= traded[o]
      /\ Quantity[o] - r.remaining + q <= traded[o]
      /\ r.makerFilled + q <= traded[p]
      /\ r.makerFilled + q <= Quantity[p]

ExecutionSound(w) ==
  /\ run[w].pc \in TradePc =>
       /\ run[w].trade \in 1..Len(trades)
       /\ TradeInProgressSound(run[w], trades[run[w].trade])
  /\ run[w].pc \notin TradePc => run[w].trade = 0

\* Where the balance updates of the trade in progress are.
LegSound(w) ==
  /\ run[w].pc \in {"available", "availableFill", "locked", "lockedFill", "write"} =>
       run[w].leg \in 1..4 /\ trades[run[w].trade].legs = run[w].leg - 1
  /\ run[w].pc = "cache" =>
       run[w].leg \in 1..4 /\ trades[run[w].trade].legs = run[w].leg
  /\ run[w].pc \in {"fillBuyer", "fillSeller", "settle", "notify"} =>
       trades[run[w].trade].legs = 4

RunSound(w) ==
  ReadSound(w) /\ RemainingSound(w) /\ ExecutionSound(w) /\ LegSound(w)

RunsSound == \A w \in Worker : RunSound(w)

\* A trade is executed by one worker only.
OneExecution ==
  \A v, w \in Worker : run[v].trade = run[w].trade /\ run[v].trade # 0 => v = w

IInv ==
  /\ TypeOK
  /\ RowsFollowSubmissions
  /\ JobsFollowRows
  /\ CancelsSound
  /\ RowsSound
  /\ TradesSound
  /\ LocksCover
  /\ RunsSound
  /\ OneExecution
  /\ SettlementFollowsLedger

-----------------------------------------------------------------------------
(* Amounts and records *)

\* Quote amounts and fees are natural numbers: the floor of a quotient of them.
LEMMA AmountsAreNatural ==
  ASSUME NEW q \in Nat, NEW p \in Nat
  PROVE  /\ QuoteAmount(q, p) \in Nat
         /\ Fee(q, p) \in Nat
<1> USE NumberAssumption
<1>1. \A a \in Nat, b \in Nat : a * b \in Nat
  OBVIOUS
<1>2. \A a \in Nat, b \in Nat \ {0} : a \div b \in Nat
  OBVIOUS
<1>3. QuoteAmount(q, p) \in Nat
  BY <1>1, <1>2 DEF QuoteAmount
<1> QED
  BY <1>1, <1>2, <1>3 DEF Fee

\* What an order locks is a natural number, of a token its owner has.
LEMMA LockIsNatural ==
  ASSUME NEW o \in Order, NEW q \in Nat
  PROVE  /\ LockAmount(o, q) \in Nat
         /\ LockToken(o) \in Token
         /\ Owner[o] \in User
BY AmountsAreNatural, OrderAssumption DEF LockAmount, LockToken, Token

\* Locking what is available, and unlocking what is locked, gives a balance.
LEMMA LockingKeepsBalances ==
  ASSUME NEW b \in Balance, NEW a \in Nat
  PROVE  /\ Locked(b, a).available >= 0 => Locked(b, a) \in Balance
         /\ Unlocked(b, a).locked >= 0 => Unlocked(b, a) \in Balance
BY DEF Locked, Unlocked, Balance

\* The balance updates of a trade name a user and a token, and integers.
LEMMA LegType ==
  ASSUME NEW i \in 1..4, NEW t \in TradeState
  PROVE  Leg(i, t) \in [user : User, token : Token, available : Int, locked : Int]
<1>1. /\ t.buyer \in Order /\ t.seller \in Order
      /\ t.price \in Nat /\ t.quantity \in Nat
  BY DEF TradeState
<1>2. QuoteAmount(t.quantity, t.price) \in Nat /\ Fee(t.quantity, t.price) \in Nat
  BY <1>1, AmountsAreNatural
<1>3. Owner[t.buyer] \in User /\ Owner[t.seller] \in User
  BY <1>1, OrderAssumption
<1> DEFINE value == QuoteAmount(t.quantity, t.price)
           fee == Fee(t.quantity, t.price)
<1> HIDE DEF value, fee
<1>4. value \in Nat /\ fee \in Nat
  BY <1>2 DEF value, fee
<1>5. CASE i = 1
  BY <1>1, <1>3, <1>4, <1>5 DEF Leg, Token, value, fee
<1>6. CASE i = 2
  BY <1>1, <1>3, <1>4, <1>6 DEF Leg, Token, value, fee
<1>7. CASE i = 3
  BY <1>1, <1>3, <1>4, <1>7 DEF Leg, Token, value, fee
<1>8. CASE i = 4
  BY <1>1, <1>3, <1>4, <1>8 DEF Leg, Token, value, fee
<1> QED
  BY <1>5, <1>6, <1>7, <1>8

\* Idle records are typed.
LEMMA IdleTypes ==
  /\ Zero \in Balance
  /\ IdleRun \in RunState
  /\ IdleCancel \in CancelState
  /\ NewSubmission \in SubmitState
BY DEF Zero, Balance, IdleRun, RunState, RunPc, IdleCancel, CancelState,
       NewSubmission, SubmitState

\* A worker that is not idle works on a job, and so on an order.
LEMMA RunningOrder ==
  ASSUME RunsSound, NEW w \in Worker, run[w].pc # "idle"
  PROVE  run[w].job \in Job /\ run[w].job[1] \in Order
BY DEF RunsSound, RunSound, ReadSound, Job

\* The trade a worker executes.
LEMMA RunningTrade ==
  ASSUME TypeOK, RunsSound, NEW w \in Worker, run[w].pc \in TradePc
  PROVE  /\ run[w].trade \in 1..Len(trades)
         /\ trades[run[w].trade] \in TradeState
         /\ TradeInProgressSound(run[w], trades[run[w].trade])
<1>1. run[w].trade \in 1..Len(trades)
      /\ TradeInProgressSound(run[w], trades[run[w].trade])
  BY DEF RunsSound, RunSound, ExecutionSound
<1> QED
  BY <1>1, ElementOfSeq DEF TypeOK

\* The balance update a worker is making.
LEMMA CurrentLegType ==
  ASSUME TypeOK, RunsSound, NEW w \in Worker,
         run[w].pc \in {"available", "availableFill", "locked", "lockedFill",
                        "write", "cache"}
  PROVE  /\ run[w].leg \in 1..4
         /\ CurrentLeg(w) \in [user : User, token : Token, available : Int, locked : Int]
<1>1. trades[run[w].trade] \in TradeState
  BY RunningTrade DEF TradePc
<1>2. run[w].leg \in 1..4
  BY DEF RunsSound, RunSound, LegSound
<1> QED
  BY <1>1, <1>2, LegType DEF CurrentLeg

-----------------------------------------------------------------------------
(* Type correctness, one lemma for each process *)

\* Submissions keep the types.
LEMMA SubmitTypes ==
  ASSUME TypeOK, NEW o \in Order, Submit(o)
  PROVE  TypeOK'
<1>1. CASE SubmitRefused(o)
  <2>1. sub' \in [Order -> SubmitState]
    BY <1>1 DEF SubmitRefused, SubmitState, TypeOK
  <2> QED
    BY <1>1, <2>1 DEF SubmitRefused, TypeOK, ledger, book
<1>2. CASE SubmitLock(o)
  <2> DEFINE b == Locked(bal[Owner[o]][LockToken(o)], LockAmount(o, Quantity[o]))
  <2>1. Owner[o] \in User /\ LockToken(o) \in Token /\ LockAmount(o, Quantity[o]) \in Nat
    BY OrderAssumption, LockIsNatural
  <2>2. bal[Owner[o]][LockToken(o)] \in Balance
    BY <2>1 DEF TypeOK
  <2>3. /\ b.available >= 0
        /\ bal' = [bal EXCEPT ![Owner[o]][LockToken(o)] = b]
        /\ sub' = [sub EXCEPT ![o] = [pc |-> "cache", entry |-> b]]
    BY <1>2 DEF SubmitLock
  <2>4. b \in Balance
    BY <2>1, <2>2, <2>3, LockingKeepsBalances
  <2> HIDE DEF b
  <2>5. bal' \in [User -> [Token -> Balance]]
    BY <2>1, <2>3, <2>4 DEF TypeOK
  <2>6. sub' \in [Order -> SubmitState]
    BY <2>3, <2>4 DEF SubmitState, TypeOK
  <2> QED
    BY <1>2, <2>5, <2>6 DEF SubmitLock, TypeOK, book
<1>3. CASE SubmitCache(o)
  <2>1. Owner[o] \in User /\ LockToken(o) \in Token
    BY OrderAssumption, LockIsNatural
  <2>2. cache' \in [User -> [Token -> Balance \cup {NoEntry}]]
    BY <1>3, <2>1 DEF SubmitCache, SubmitState, TypeOK
  <2>3. sub' \in [Order -> SubmitState]
    BY <1>3, IdleTypes DEF SubmitCache, SubmitState, TypeOK
  <2> QED
    BY <1>3, <2>2, <2>3 DEF SubmitCache, TypeOK, book
<1>4. CASE SubmitCreate(o)
  <2> DEFINE n == Cardinality({p \in Order : row[p].status # "none"})
  <2>1. n \in Nat
    BY OrderAssumption, FS_Subset, FS_CardinalityType
  <2>2. \/ /\ row' = [row EXCEPT ![o] =
                [status |-> "PENDING_MATCH", filled |-> 0, at |-> n]]
           /\ sub' = [sub EXCEPT ![o].pc = "enqueue"]
        \/ row' = row /\ sub' = [sub EXCEPT ![o].pc = "failed"]
    BY <1>4 DEF SubmitCreate
  <2> HIDE DEF n
  <2>3. ASSUME row' = row, sub' = [sub EXCEPT ![o].pc = "failed"]
        PROVE  row' \in [Order -> RowState] /\ sub' \in [Order -> SubmitState]
    BY <2>3 DEF SubmitState, TypeOK
  <2>4. ASSUME row' = [row EXCEPT ![o] =
                  [status |-> "PENDING_MATCH", filled |-> 0, at |-> n]],
               sub' = [sub EXCEPT ![o].pc = "enqueue"]
        PROVE  row' \in [Order -> RowState] /\ sub' \in [Order -> SubmitState]
    BY <2>1, <2>4 DEF SubmitState, RowState, OrderStatus, TypeOK
  <2>5. row' \in [Order -> RowState] /\ sub' \in [Order -> SubmitState]
    BY <2>2, <2>3, <2>4
  <2> QED
    BY <1>4, <2>5 DEF SubmitCreate, TypeOK, ledger, book
<1>5. CASE SubmitEnqueue(o)
  <2>1. sub' \in [Order -> SubmitState]
    BY <1>5 DEF SubmitEnqueue, SubmitState, TypeOK
  <2>2. jobs' \in [Job -> JobRecord]
    BY <1>5 DEF SubmitEnqueue, Add, JobRecord, JobState, TypeOK
  <2> QED
    BY <1>5, <2>1, <2>2 DEF SubmitEnqueue, TypeOK, ledger, book
<1>6. CASE SubmitFault(o)
  <2>1. sub' \in [Order -> SubmitState]
    BY <1>6, IdleTypes DEF SubmitFault, SubmitState, TypeOK
  <2>2. faults' \in 0..MaxFaults
    BY <1>6, NumberAssumption DEF SubmitFault, TypeOK
  <2> QED
    BY <1>6, <2>1, <2>2 DEF SubmitFault, TypeOK, ledger, book
<1> QED
  BY <1>1, <1>2, <1>3, <1>4, <1>5, <1>6 DEF Submit

\* Cancellations keep the types.
LEMMA CancelTypes ==
  ASSUME TypeOK, CancelsSound, NEW c \in Canceller, Cancel(c)
  PROVE  TypeOK'
<1>1. ASSUME NEW o \in Order, CancelRead(c, o)
      PROVE  TypeOK'
  <2>1. can' \in [Canceller -> CancelState]
    BY <1>1, IdleTypes DEF CancelRead, CancelState, RowState, TypeOK
  <2> QED
    BY <1>1, <2>1 DEF CancelRead, TypeOK, ledger, book
<1>2. CASE CancelUnlock(c)
  <2> DEFINE o == can[c].order
             a == LockAmount(o, Quantity[o] - can[c].filled)
             b == Unlocked(bal[Owner[o]][LockToken(o)], a)
  <2>1. o \in Order /\ can[c].filled \in Nat /\ can[c].filled <= Quantity[o]
    BY <1>2 DEF CancelUnlock, CancelsSound, CancelState, TypeOK
  <2>2. Quantity[o] - can[c].filled \in Nat
    BY <2>1, OrderAssumption
  <2>3. Owner[o] \in User /\ LockToken(o) \in Token /\ a \in Nat
    BY <2>1, <2>2, LockIsNatural
  <2>4. bal[Owner[o]][LockToken(o)] \in Balance
    BY <2>3 DEF TypeOK
  <2>5. b.locked >= 0 => b \in Balance
    BY <2>3, <2>4, LockingKeepsBalances
  <2>6. \/ /\ b.locked >= 0
           /\ bal' = [bal EXCEPT ![Owner[o]][LockToken(o)] = b]
           /\ can' = [can EXCEPT ![c].pc = "cache", ![c].entry = b]
        \/ bal' = bal /\ can' = [can EXCEPT ![c].pc = "failed"]
    BY <1>2 DEF CancelUnlock
  <2> HIDE DEF o, b
  <2>7. ASSUME b \in Balance,
               bal' = [bal EXCEPT ![Owner[o]][LockToken(o)] = b],
               can' = [can EXCEPT ![c].pc = "cache", ![c].entry = b]
        PROVE  /\ bal' \in [User -> [Token -> Balance]]
               /\ can' \in [Canceller -> CancelState]
    BY <2>3, <2>7 DEF CancelState, TypeOK
  <2>8. ASSUME bal' = bal, can' = [can EXCEPT ![c].pc = "failed"]
        PROVE  /\ bal' \in [User -> [Token -> Balance]]
               /\ can' \in [Canceller -> CancelState]
    BY <2>8 DEF CancelState, TypeOK
  <2>9. /\ bal' \in [User -> [Token -> Balance]]
        /\ can' \in [Canceller -> CancelState]
    BY <2>5, <2>6, <2>7, <2>8
  <2> QED
    BY <1>2, <2>9 DEF CancelUnlock, TypeOK, book
<1>3. CASE CancelCache(c)
  <2>1. can[c].order \in Order
    BY <1>3 DEF CancelCache, CancelsSound
  <2>2. Owner[can[c].order] \in User /\ LockToken(can[c].order) \in Token
    BY <2>1, LockIsNatural
  <2>3. cache' \in [User -> [Token -> Balance \cup {NoEntry}]]
    BY <1>3, <2>2 DEF CancelCache, CancelState, TypeOK
  <2>4. can' \in [Canceller -> CancelState]
    BY <1>3, IdleTypes DEF CancelCache, CancelState, TypeOK
  <2> QED
    BY <1>3, <2>3, <2>4 DEF CancelCache, TypeOK, book
<1>4. CASE CancelMark(c)
  <2>1. row' \in [Order -> RowState]
    <3>1. can[c].order \in Order /\ "CANCELLED" \in OrderStatus
      BY <1>4 DEF CancelMark, CancelsSound, OrderStatus
    <3> QED
      BY <1>4, <3>1 DEF CancelMark, RowState, TypeOK
  <2>2. can' \in [Canceller -> CancelState]
    BY <1>4 DEF CancelMark, CancelState, TypeOK
  <2> QED
    BY <1>4, <2>1, <2>2 DEF CancelMark, TypeOK, ledger, book
<1>5. CASE CancelFault(c)
  <2>1. can' \in [Canceller -> CancelState]
    BY <1>5, IdleTypes DEF CancelFault, CancelState, TypeOK
  <2>2. faults' \in 0..MaxFaults
    BY <1>5, NumberAssumption DEF CancelFault, TypeOK
  <2> QED
    BY <1>5, <2>1, <2>2 DEF CancelFault, TypeOK, ledger, book
<1> QED
  BY <1>1, <1>2, <1>3, <1>4, <1>5 DEF Cancel

\* What BullMQ does to a job keeps the types.
LEMMA JobTypes ==
  ASSUME TypeOK, NEW j \in Job
  PROVE  /\ Completed(jobs, j) \in [Job -> JobRecord]
         /\ AttemptFailed(jobs, j) \in [Job -> JobRecord]
         /\ Stalled(jobs, j) \in [Job -> JobRecord]
         /\ \A ids : Add(jobs, ids) \in [Job -> JobRecord]
<1>1. Completed(jobs, j) \in [Job -> JobRecord]
  BY DEF Completed, JobRecord, JobState, TypeOK
<1>2. ASSUME NEW st \in JobState
      PROVE  /\ [jobs EXCEPT ![j].attempts = @ + 1, ![j].state = st]
                  \in [Job -> JobRecord]
             /\ [jobs EXCEPT ![j].stalls = @ + 1, ![j].state = st]
                  \in [Job -> JobRecord]
  <2>1. jobs[j] \in JobRecord
    BY DEF TypeOK
  <2>2. /\ [jobs[j] EXCEPT !.attempts = @ + 1, !.state = st] \in JobRecord
        /\ [jobs[j] EXCEPT !.stalls = @ + 1, !.state = st] \in JobRecord
    <3>1. jobs[j].attempts + 1 \in Nat /\ jobs[j].stalls + 1 \in Nat
      BY <2>1 DEF JobRecord
    <3>2. ASSUME NEW r \in JobRecord, NEW n \in Nat
          PROVE  /\ [r EXCEPT !.attempts = n, !.state = st] \in JobRecord
                 /\ [r EXCEPT !.stalls = n, !.state = st] \in JobRecord
      BY DEF JobRecord
    <3> QED
      BY <2>1, <3>1, <3>2
  <2>3. /\ [jobs EXCEPT ![j].attempts = @ + 1, ![j].state = st]
             = [jobs EXCEPT ![j] = [jobs[j] EXCEPT !.attempts = @ + 1, !.state = st]]
        /\ [jobs EXCEPT ![j].stalls = @ + 1, ![j].state = st]
             = [jobs EXCEPT ![j] = [jobs[j] EXCEPT !.stalls = @ + 1, !.state = st]]
    BY DEF TypeOK
  <2>4. ASSUME NEW q \in JobRecord
        PROVE  [jobs EXCEPT ![j] = q] \in [Job -> JobRecord]
    BY DEF TypeOK
  <2> QED
    BY <2>2, <2>3, <2>4
<1>3. /\ AttemptFailed(jobs, j) \in [Job -> JobRecord]
      /\ Stalled(jobs, j) \in [Job -> JobRecord]
  <2> DEFINE a == IF jobs[j].attempts + 1 < Attempts THEN "waiting" ELSE "failed"
             b == IF jobs[j].stalls < MaxStalls THEN "waiting" ELSE "failed"
  <2>1. a \in JobState /\ b \in JobState
    BY DEF JobState
  <2>2. /\ AttemptFailed(jobs, j) = [jobs EXCEPT ![j].attempts = @ + 1, ![j].state = a]
        /\ Stalled(jobs, j) = [jobs EXCEPT ![j].stalls = @ + 1, ![j].state = b]
    BY DEF AttemptFailed, Stalled
  <2> QED
    BY <1>2, <2>1, <2>2
<1>4. ASSUME NEW ids
      PROVE  Add(jobs, ids) \in [Job -> JobRecord]
  BY DEF Add, JobRecord, JobState, TypeOK
<1> QED
  BY <1>1, <1>2, <1>3, <1>4

\* A trade that failed, or that was executed, leaves a typed record.
LEMMA TradeFailedType ==
  ASSUME NEW r \in RunState
  PROVE  TradeFailed(r) \in RunState
<1>1. ASSUME NEW a \in RunPc, NEW b \in Nat, NEW c \in 0..4, NEW d \in Nat,
             NEW e \in Balance, NEW f \in Balance
      PROVE  [r EXCEPT !.pc = a, !.trade = b, !.leg = c, !.makerFilled = d,
                       !.entry = e, !.fetched = f] \in RunState
  BY DEF RunState
<1>2. "match" \in RunPc /\ 0 \in Nat /\ 0 \in 0..4
  BY DEF RunPc
<1> QED
  BY <1>1, <1>2, IdleTypes DEF TradeFailed

\* Replacing what an execution remembers keeps the types.
LEMMA RunUpdateTypes ==
  ASSUME TypeOK, NEW w \in Worker, NEW a \in RunPc, NEW n \in Nat,
         NEW S \in SUBSET Snapshot
  PROVE  /\ [run EXCEPT ![w].pc = a] \in [Worker -> RunState]
         /\ [run EXCEPT ![w].todo = S] \in [Worker -> RunState]
         /\ [run EXCEPT ![w].pc = a, ![w].filled = n] \in [Worker -> RunState]
         /\ [run EXCEPT ![w].pc = a, ![w].todo = S] \in [Worker -> RunState]
         /\ [run EXCEPT ![w].pc = a, ![w].todo = S, ![w].remaining = n]
              \in [Worker -> RunState]
<1> DEFINE r == run[w]
<1>1. r \in RunState
  BY DEF TypeOK
<1> HIDE DEF r
<1>2. /\ [r EXCEPT !.pc = a] \in RunState
      /\ [r EXCEPT !.todo = S] \in RunState
      /\ [r EXCEPT !.pc = a, !.filled = n] \in RunState
      /\ [r EXCEPT !.pc = a, !.todo = S] \in RunState
      /\ [r EXCEPT !.pc = a, !.todo = S, !.remaining = n] \in RunState
  BY <1>1 DEF RunState
<1>3. ASSUME NEW q \in RunState
      PROVE  [run EXCEPT ![w] = q] \in [Worker -> RunState]
  BY DEF TypeOK
<1>4. /\ [run EXCEPT ![w].pc = a] = [run EXCEPT ![w] = [r EXCEPT !.pc = a]]
      /\ [run EXCEPT ![w].todo = S] = [run EXCEPT ![w] = [r EXCEPT !.todo = S]]
      /\ [run EXCEPT ![w].pc = a, ![w].filled = n]
           = [run EXCEPT ![w] = [r EXCEPT !.pc = a, !.filled = n]]
      /\ [run EXCEPT ![w].pc = a, ![w].todo = S]
           = [run EXCEPT ![w] = [r EXCEPT !.pc = a, !.todo = S]]
      /\ [run EXCEPT ![w].pc = a, ![w].todo = S, ![w].remaining = n]
           = [run EXCEPT ![w] = [r EXCEPT !.pc = a, !.todo = S, !.remaining = n]]
  BY DEF r, TypeOK
<1> QED
  BY <1>2, <1>3, <1>4

\* The steps of the worker around its loop keep the types.
LEMMA JobStepTypes ==
  ASSUME TypeOK, RunsSound, NEW w \in Worker,
         \/ \E j \in Job : TakeJob(w, j)
         \/ LoadOrder(w) \/ CancelInactive(w) \/ OpenOrder(w)
         \/ FetchOpposing(w) \/ NextOpposing(w) \/ FinishMatching(w)
         \/ ScheduleOpposing(w)
  PROVE  TypeOK'
<1>1. ASSUME NEW j \in Job, TakeJob(w, j)
      PROVE  TypeOK'
  <2>1. jobs' \in [Job -> JobRecord]
    BY <1>1 DEF TakeJob, JobRecord, JobState, TypeOK
  <2>2. [IdleRun EXCEPT !.pc = "load", !.job = j] \in RunState
    BY IdleTypes DEF RunState, RunPc
  <2>3. run' \in [Worker -> RunState]
    BY <1>1, <2>2 DEF TakeJob, TypeOK
  <2> QED
    BY <1>1, <2>1, <2>3 DEF TakeJob, TypeOK, ledger, book
<1> DEFINE o == run[w].job[1]
<1>2. run[w].pc # "idle" => run[w].job \in Job /\ o \in Order
  BY RunningOrder
<1>3. run[w].pc # "idle" => Completed(jobs, run[w].job) \in [Job -> JobRecord]
  BY <1>2, JobTypes
<1> HIDE DEF o
<1>4. CASE LoadOrder(w)
  <2>1. o \in Order
    BY <1>2, <1>4 DEF LoadOrder
  <2>2. jobs' \in [Job -> JobRecord]
    BY <1>3, <1>4 DEF LoadOrder, TypeOK
  <2>3. ASSUME NEW next \in RunPc,
               run' = [run EXCEPT ![w].pc = next, ![w].filled = row[o].filled]
        PROVE  run' \in [Worker -> RunState]
    <3>1. row[o].filled \in Nat /\ {} \in SUBSET Snapshot
      BY <2>1 DEF RowState, TypeOK
    <3> QED
      BY <2>3, <3>1, RunUpdateTypes
  <2>4. ASSUME run' = [run EXCEPT ![w] = IdleRun]
        PROVE  run' \in [Worker -> RunState]
    BY <2>4, IdleTypes DEF TypeOK
  <2>5. \/ \E next \in {"cancelInactive", "open", "fetch"} :
             run' = [run EXCEPT ![w].pc = next, ![w].filled = row[o].filled]
        \/ run' = [run EXCEPT ![w] = IdleRun]
    BY <1>4 DEF LoadOrder, o
  <2>6. run' \in [Worker -> RunState]
    BY <2>3, <2>4, <2>5 DEF RunPc
  <2> QED
    BY <1>4, <2>2, <2>6 DEF LoadOrder, TypeOK, ledger, book
<1>5. CASE CancelInactive(w)
  <2>1. o \in Order /\ Completed(jobs, run[w].job) \in [Job -> JobRecord]
    BY <1>2, <1>3, <1>5 DEF CancelInactive
  <2>2. row' \in [Order -> RowState]
    BY <1>5, <2>1 DEF CancelInactive, RowState, OrderStatus, TypeOK, o
  <2>3. run' \in [Worker -> RunState]
    BY <1>5, IdleTypes DEF CancelInactive, TypeOK
  <2> QED
    BY <1>5, <2>1, <2>2, <2>3 DEF CancelInactive, TypeOK, ledger, book
<1>6. CASE OpenOrder(w)
  <2>1. row' \in [Order -> RowState]
    BY <1>2, <1>6 DEF OpenOrder, RowState, OrderStatus, TypeOK, o
  <2>2. run' \in [Worker -> RunState]
    BY <1>6, RunUpdateTypes DEF OpenOrder, RunPc
  <2> QED
    BY <1>6, <2>1, <2>2 DEF OpenOrder, TypeOK, ledger, book
<1>7. CASE FetchOpposing(w)
  <2>1. o \in Order /\ run[w].filled <= Quantity[o]
    BY <1>2, <1>7 DEF FetchOpposing, NextOpposing, RunsSound, RunSound, ReadSound, o
  <2>2. Quantity[o] - run[w].filled \in Nat
    BY <2>1, OrderAssumption DEF TypeOK, RunState
  <2>3. OpenOpposing(o) \in SUBSET Snapshot
    BY DEF OpenOpposing, Opposing, Snapshot, RowState, TypeOK
  <2>4. run' = [run EXCEPT ![w].pc = "match", ![w].todo = OpenOpposing(o),
                           ![w].remaining = Quantity[o] - run[w].filled]
    BY <1>7 DEF FetchOpposing, NextOpposing, o
  <2>5. run' \in [Worker -> RunState]
    BY <2>2, <2>3, <2>4, RunUpdateTypes DEF RunPc
  <2> QED
    BY <1>7, <2>5 DEF FetchOpposing, NextOpposing, TypeOK, ledger, book
<1>8. CASE FinishMatching(w)
  <2>1. o \in Order /\ Completed(jobs, run[w].job) \in [Job -> JobRecord]
    BY <1>2, <1>3, <1>8 DEF FinishMatching
  <2>2. jobs' \in [Job -> JobRecord]
    BY <1>8, <2>1 DEF FinishMatching, TypeOK
  <2>3. row' \in [Order -> RowState]
    <3>1. ASSUME NEW status \in OrderStatus, row' = [row EXCEPT ![o].status = status]
          PROVE  row' \in [Order -> RowState]
      BY <2>1, <3>1 DEF RowState, TypeOK
    <3>2. \/ row' = row
          \/ \E status \in {"FILLED", "PARTIAL"} : row' = [row EXCEPT ![o].status = status]
      BY <1>8 DEF FinishMatching, o
    <3> QED
      BY <3>1, <3>2 DEF OrderStatus, TypeOK
  <2>4. ASSUME run' = [run EXCEPT ![w].pc = "schedule", ![w].todo = {}]
        PROVE  run' \in [Worker -> RunState]
    <3>1. "schedule" \in RunPc /\ {} \in SUBSET Snapshot /\ 0 \in Nat
      BY DEF RunPc
    <3> QED
      BY <2>4, <3>1, RunUpdateTypes
  <2>5. ASSUME run' = [run EXCEPT ![w] = IdleRun]
        PROVE  run' \in [Worker -> RunState]
    BY <2>5, IdleTypes DEF TypeOK
  <2>6. run' \in [Worker -> RunState]
    <3>1. \/ run' = [run EXCEPT ![w].pc = "schedule", ![w].todo = {}]
          \/ run' = [run EXCEPT ![w] = IdleRun]
      BY <1>8 DEF FinishMatching
    <3> QED
      BY <2>4, <2>5, <3>1
  <2> QED
    BY <1>8, <2>2, <2>3, <2>6 DEF FinishMatching, TypeOK, ledger, book
<1>9. CASE ScheduleOpposing(w)
  <2>1. run[w].job \in Job
    BY <1>2, <1>9 DEF ScheduleOpposing
  <2>2. \A ids : Add(jobs, ids) \in [Job -> JobRecord]
    BY <2>1, JobTypes
  <2>3. \A ids : Completed(Add(jobs, ids), run[w].job) \in [Job -> JobRecord]
    BY <2>1, <2>2 DEF Completed, JobRecord, JobState
  <2>4. jobs' \in [Job -> JobRecord]
    BY <1>9, <2>3 DEF ScheduleOpposing
  <2>5. run' \in [Worker -> RunState]
    BY <1>9, IdleTypes DEF ScheduleOpposing, TypeOK
  <2> QED
    BY <1>9, <2>4, <2>5 DEF ScheduleOpposing, TypeOK, ledger, book
<1>10. CASE NextOpposing(w)
  <2>1. \/ run' = [run EXCEPT ![w].pc = "insert"]
        \/ \E s : run' = [run EXCEPT ![w].todo = @ \ {s}]
    BY <1>10 DEF NextOpposing
  <2>2. "insert" \in RunPc /\ run[w].todo \in SUBSET Snapshot /\ 0 \in Nat
    BY DEF RunPc, RunState, TypeOK
  <2>3. CASE run' = [run EXCEPT ![w].pc = "insert"]
    BY <1>10, <2>2, <2>3, RunUpdateTypes DEF NextOpposing, TypeOK, ledger, book
  <2>4. ASSUME NEW s, run' = [run EXCEPT ![w].todo = @ \ {s}]
        PROVE  TypeOK'
    <3>1. run[w].todo \ {s} \in SUBSET Snapshot
      BY <2>2
    <3>2. run' \in [Worker -> RunState]
      BY <2>2, <2>4, <3>1, RunUpdateTypes
    <3> QED
      BY <1>10, <3>2 DEF NextOpposing, TypeOK, ledger, book
  <2> QED
    BY <2>1, <2>3, <2>4
<1> QED
  BY <1>1, <1>4, <1>5, <1>6, <1>7, <1>8, <1>9, <1>10

\* A snapshot that is best among those left is one of them.
LEMMA BestIsLeft ==
  ASSUME NEW S, NEW s \in Best(S)
  PROVE  s \in S
BY DEF Best

\* The quantity of a match: a natural number, no more than either side.
LEMMA MatchQuantity ==
  ASSUME NEW a \in Nat, NEW b \in Nat
  PROVE  /\ Least(a, b) \in Nat
         /\ Least(a, b) <= a /\ Least(a, b) <= b
BY DEF Least

\* A trade between two orders is typed.
LEMMA TradeOfType ==
  ASSUME NEW o \in Order, NEW p \in Order, NEW q \in Nat
  PROVE  TradeOf(o, p, q) \in TradeState
BY OrderAssumption DEF TradeOf, TradeState

\* A turn of the loop keeps the types.
LEMMA MatchTypes ==
  ASSUME TypeOK, RunsSound, NEW w \in Worker, InsertTrade(w)
  PROVE  TypeOK'
<1> DEFINE r == run[w]
           o == r.job[1]
<1>1. r.pc = "insert" /\ r \in RunState
  BY DEF InsertTrade, TypeOK
<1>2. o \in Order /\ r.todo \subseteq Snapshot
  BY <1>1, RunningOrder DEF RunState
<1>3. PICK s \in Best(r.todo) :
        LET qty == Least(r.remaining, Quantity[s.order] - s.filled)
        IN IF CanMatch(o, s.order) /\ Price[s.order] # 0 /\ qty # 0
           THEN /\ trades' = Append(trades, TradeOf(o, s.order, qty))
                /\ traded' = [p \in Order |-> IF p \in {o, s.order}
                                THEN traded[p] + qty ELSE traded[p]]
                /\ run' = [run EXCEPT ![w] = [r EXCEPT
                             !.pc = "available", !.leg = 1,
                             !.todo = @ \ {s}, !.makerFilled = s.filled,
                             !.trade = Len(trades) + 1]]
           ELSE /\ run' = [run EXCEPT ![w].pc = "match", ![w].todo = @ \ {s}]
                /\ UNCHANGED <<trades, traded>>
  BY DEF InsertTrade
<1> DEFINE qty == Least(r.remaining, Quantity[s.order] - s.filled)
<1>4. s \in r.todo /\ s.order \in Order /\ s.filled \in Nat
  BY <1>2, <1>3, BestIsLeft DEF Snapshot
<1>5. s.filled <= Quantity[s.order]
  BY <1>1, <1>4 DEF RunsSound, RunSound, ReadSound, SnapshotSound
<1>6. qty \in Nat
  <2>1. Quantity[s.order] - s.filled \in Nat
    BY <1>4, <1>5, OrderAssumption
  <2>2. r.remaining \in Nat
    BY <1>1 DEF RunState
  <2> QED
    BY <2>1, <2>2, MatchQuantity
<1> HIDE DEF qty
<1>7. ASSUME run' = [run EXCEPT ![w].pc = "match", ![w].todo = @ \ {s}], UNCHANGED <<trades, traded>>
      PROVE  TypeOK'
  <2>1. run' \in [Worker -> RunState]
    <3>1. r.todo \ {s} \in SUBSET Snapshot /\ "match" \in RunPc /\ 0 \in Nat
      BY <1>2 DEF RunPc
    <3> QED
      BY <1>7, <3>1, RunUpdateTypes
  <2> QED
    BY <1>7, <2>1 DEF InsertTrade, TypeOK, ledger
<1>8. ASSUME trades' = Append(trades, TradeOf(o, s.order, qty)),
             traded' = [p \in Order |-> IF p \in {o, s.order}
                                THEN traded[p] + qty ELSE traded[p]],
             run' = [run EXCEPT ![w] = [r EXCEPT
                             !.pc = "available", !.leg = 1,
                             !.todo = @ \ {s}, !.makerFilled = s.filled,
                             !.trade = Len(trades) + 1]]
      PROVE  TypeOK'
  <2>1. TradeOf(o, s.order, qty) \in TradeState
    BY <1>2, <1>4, <1>6, TradeOfType
  <2>2. trades' \in Seq(TradeState) /\ Len(trades') = Len(trades) + 1
    BY <1>8, <2>1, AppendProperties DEF TypeOK
  <2>3. Len(trades) \in Nat
    BY LenProperties DEF TypeOK
  <2>4. settling' \subseteq 1..Len(trades')
    BY <2>2, <2>3 DEF InsertTrade, TypeOK
  <2>5. traded' \in [Order -> Nat]
    BY <1>6, <1>8 DEF TypeOK
  <2> DEFINE q == [r EXCEPT !.pc = "available", !.leg = 1,
                             !.todo = @ \ {s}, !.makerFilled = s.filled,
                             !.trade = Len(trades) + 1]
  <2>6. q \in RunState
    <3>1. ASSUME NEW a \in RunPc, NEW b \in 0..4, NEW c \in SUBSET Snapshot,
                 NEW d \in Nat, NEW e \in Nat
          PROVE  [r EXCEPT !.pc = a, !.leg = b, !.todo = c, !.makerFilled = d,
                           !.trade = e] \in RunState
      BY <1>1 DEF RunState
    <3>2. /\ "available" \in RunPc /\ 1 \in 0..4 /\ Len(trades) + 1 \in Nat
          /\ r.todo \ {s} \in SUBSET Snapshot
      BY <1>2, <2>3 DEF RunPc
    <3> QED
      BY <1>4, <3>1, <3>2
  <2> HIDE DEF q
  <2>7. run' = [run EXCEPT ![w] = q]
    BY <1>8 DEF q
  <2>8. run' \in [Worker -> RunState]
    BY <2>6, <2>7 DEF TypeOK
  <2> QED
    BY <2>2, <2>4, <2>5, <2>8 DEF InsertTrade, TypeOK, ledger
<1> QED
  BY <1>3, <1>7, <1>8 DEF qty

\* What executeTrade writes to filled_quantity fits the order, and was traded.
LEMMA FilledSound ==
  ASSUME TypeOK, RunsSound, NEW w \in Worker, run[w].pc \in TradePc,
         NEW o \in {trades[run[w].trade].buyer, trades[run[w].trade].seller}
  PROVE  /\ o \in Order
         /\ Filled(w, o) \in Nat
         /\ Filled(w, o) <= Quantity[o]
         /\ Filled(w, o) <= traded[o]
<1> DEFINE r == run[w]
           t == trades[run[w].trade]
<1>1. t \in TradeState /\ TradeInProgressSound(r, t)
  BY RunningTrade
<1>2. /\ t.buyer \in Order /\ t.seller \in Order /\ t.quantity \in Nat
      /\ r.filled \in Nat /\ r.makerFilled \in Nat /\ r.remaining \in Nat
  BY <1>1 DEF TradeState, RunState, TypeOK
<1>3. r.job[1] \in Order
  BY RunningOrder DEF TradePc
<1>4. r.remaining <= Quantity[r.job[1]] - r.filled
  BY DEF RunsSound, RunSound, RemainingSound
<1>5. Quantity[o] \in Nat /\ Quantity[r.job[1]] \in Nat /\ traded[o] \in Nat
  BY <1>2, <1>3, OrderAssumption DEF TypeOK
<1>6. CASE o = r.job[1]
  <2>1. Filled(w, o) = r.filled + t.quantity
    BY <1>6 DEF Filled
  <2>2. t.quantity <= r.remaining /\ r.filled + t.quantity <= traded[o]
    BY <1>1, <1>6 DEF TradeInProgressSound
  <2> QED
    BY <1>2, <1>4, <1>5, <1>6, <2>1, <2>2
<1>7. CASE o # r.job[1]
  <2>1. Filled(w, o) = r.makerFilled + t.quantity
    BY <1>7 DEF Filled
  <2>2. o = Maker(r.job[1], t)
    BY <1>1, <1>7 DEF TradeInProgressSound, Maker, Taker
  <2>3. r.makerFilled + t.quantity <= Quantity[o] /\ r.makerFilled + t.quantity <= traded[o]
    BY <1>1, <2>2 DEF TradeInProgressSound
  <2> QED
    BY <1>2, <1>5, <2>1, <2>3
<1> QED
  BY <1>6, <1>7

\* An UPDATE of one balance, or of one cached entry, keeps the types.
LEMMA BalanceUpdateTypes ==
  ASSUME TypeOK, NEW u \in User, NEW t \in Token, NEW b \in Balance
  PROVE  /\ [bal EXCEPT ![u][t] = b] \in [User -> [Token -> Balance]]
         /\ [cache EXCEPT ![u][t] = b] \in [User -> [Token -> Balance \cup {NoEntry}]]
BY DEF TypeOK

\* What is cached, and what the table holds, is a typed balance.
LEMMA StoredBalanceType ==
  ASSUME TypeOK, NEW u \in User, NEW t \in Token
  PROVE  /\ cache[u][t] # NoEntry => cache[u][t] \in Balance
         /\ bal[u][t] \in Balance
BY DEF TypeOK

\* The steps of executeTrade keep the types.
LEMMA TradeStepTypes ==
  ASSUME TypeOK, RunsSound, NEW w \in Worker,
         \/ ReadAvailable(w) \/ ReadLocked(w) \/ FillCache(w) \/ WriteBalance(w)
         \/ CacheBalance(w) \/ FillBuyer(w) \/ FillSeller(w) \/ EnqueueSettlement(w)
         \/ TradeExecuted(w)
  PROVE  TypeOK'
<1> DEFINE r == run[w]
           leg == CurrentLeg(w)
<1>1. r \in RunState
  BY DEF TypeOK
<1>2. r.pc \in TradePc
  BY DEF ReadAvailable, ReadLocked, FillCache, WriteBalance, CacheBalance, FillBuyer,
         FillSeller, EnqueueSettlement, TradeExecuted, TradePc
<1>3. /\ r.trade \in 1..Len(trades)
      /\ trades[r.trade] \in TradeState
      /\ TradeInProgressSound(r, trades[r.trade])
  BY <1>2, RunningTrade
<1>4. r.pc \in {"available", "availableFill", "locked", "lockedFill", "write", "cache"} =>
        /\ r.leg \in 1..4 /\ leg.user \in User /\ leg.token \in Token
        /\ leg.available \in Int /\ leg.locked \in Int
  BY CurrentLegType
<1>5. ASSUME NEW q \in RunState
      PROVE  [run EXCEPT ![w] = q] \in [Worker -> RunState]
  BY DEF TypeOK
<1>6. ASSUME NEW a \in RunPc
      PROVE  [run EXCEPT ![w].pc = a] \in [Worker -> RunState]
  <2>1. 0 \in Nat /\ {} \in SUBSET Snapshot
    OBVIOUS
  <2> QED
    BY <2>1, RunUpdateTypes
<1>7. ASSUME NEW a \in RunPc, NEW e \in Balance
      PROVE  [run EXCEPT ![w].pc = a, ![w].entry = e] \in [Worker -> RunState]
  <2>1. [r EXCEPT !.pc = a, !.entry = e] \in RunState
    BY <1>1 DEF RunState
  <2>2. [run EXCEPT ![w].pc = a, ![w].entry = e]
          = [run EXCEPT ![w] = [r EXCEPT !.pc = a, !.entry = e]]
    BY DEF TypeOK
  <2> QED
    BY <1>5, <2>1, <2>2
<1> HIDE DEF leg
<1>17. ASSUME NEW a \in RunPc, NEW e \in Balance, NEW f \in Balance
       PROVE  [run EXCEPT ![w].pc = a, ![w].entry = e, ![w].fetched = f]
                \in [Worker -> RunState]
  <2>1. [r EXCEPT !.pc = a, !.entry = e, !.fetched = f] \in RunState
    BY <1>1 DEF RunState
  <2>2. [run EXCEPT ![w].pc = a, ![w].entry = e, ![w].fetched = f]
          = [run EXCEPT ![w] = [r EXCEPT !.pc = a, !.entry = e, !.fetched = f]]
    BY DEF TypeOK
  <2> QED
    BY <1>5, <2>1, <2>2
<1> DEFINE entry == cache[leg.user][leg.token]
           stored == bal[leg.user][leg.token]
<1>18. r.pc \in {"available", "locked"} =>
         (entry # NoEntry => entry \in Balance) /\ stored \in Balance
  BY <1>4, StoredBalanceType
<1>19. \A x \in Balance, n \in Balance :
         /\ [x EXCEPT !.available = n.available] \in Balance
         /\ [x EXCEPT !.locked = n.locked] \in Balance
  BY DEF Balance
<1>20. r.entry \in Balance
  BY <1>1 DEF RunState
<1> HIDE DEF entry, stored
<1>8. CASE ReadAvailable(w)
  <2>1. r.pc = "available"
        /\ \/ /\ entry # NoEntry
              /\ run' = [run EXCEPT ![w].pc = "locked",
                                    ![w].entry.available = entry.available]
           \/ run' = [run EXCEPT ![w].pc = "availableFill",
                                 ![w].entry.available = stored.available,
                                 ![w].fetched = stored]
    BY <1>8 DEF ReadAvailable, leg, entry, stored
  <2>2. ASSUME entry # NoEntry,
               run' = [run EXCEPT ![w].pc = "locked",
                                  ![w].entry.available = entry.available]
        PROVE  run' \in [Worker -> RunState]
    <3>1. run' = [run EXCEPT ![w].pc = "locked",
                             ![w].entry = [r.entry EXCEPT !.available = entry.available]]
      BY <2>2 DEF TypeOK
    <3>2. [r.entry EXCEPT !.available = entry.available] \in Balance
      BY <1>18, <1>19, <1>20, <2>1, <2>2
    <3> QED
      BY <1>7, <3>1, <3>2 DEF RunPc
  <2>3. ASSUME run' = [run EXCEPT ![w].pc = "availableFill",
                                  ![w].entry.available = stored.available,
                                  ![w].fetched = stored]
        PROVE  run' \in [Worker -> RunState]
    <3>1. run' = [run EXCEPT ![w].pc = "availableFill",
                             ![w].entry = [r.entry EXCEPT !.available = stored.available],
                             ![w].fetched = stored]
      BY <2>3 DEF TypeOK
    <3>2. [r.entry EXCEPT !.available = stored.available] \in Balance /\ stored \in Balance
      BY <1>18, <1>19, <1>20, <2>1
    <3> QED
      BY <1>17, <3>1, <3>2 DEF RunPc
  <2> QED
    BY <1>8, <2>1, <2>2, <2>3 DEF ReadAvailable, TypeOK, ledger, book
<1>9. CASE ReadLocked(w)
  <2>1. r.pc = "locked"
        /\ \/ /\ entry # NoEntry
              /\ run' = [run EXCEPT ![w].pc = "write",
                                    ![w].entry.locked = entry.locked]
           \/ run' = [run EXCEPT ![w].pc = "lockedFill",
                                 ![w].entry.locked = stored.locked,
                                 ![w].fetched = stored]
    BY <1>9 DEF ReadLocked, leg, entry, stored
  <2>2. ASSUME entry # NoEntry,
               run' = [run EXCEPT ![w].pc = "write",
                                  ![w].entry.locked = entry.locked]
        PROVE  run' \in [Worker -> RunState]
    <3>1. run' = [run EXCEPT ![w].pc = "write",
                             ![w].entry = [r.entry EXCEPT !.locked = entry.locked]]
      BY <2>2 DEF TypeOK
    <3>2. [r.entry EXCEPT !.locked = entry.locked] \in Balance
      BY <1>18, <1>19, <1>20, <2>1, <2>2
    <3> QED
      BY <1>7, <3>1, <3>2 DEF RunPc
  <2>3. ASSUME run' = [run EXCEPT ![w].pc = "lockedFill",
                                  ![w].entry.locked = stored.locked,
                                  ![w].fetched = stored]
        PROVE  run' \in [Worker -> RunState]
    <3>1. run' = [run EXCEPT ![w].pc = "lockedFill",
                             ![w].entry = [r.entry EXCEPT !.locked = stored.locked],
                             ![w].fetched = stored]
      BY <2>3 DEF TypeOK
    <3>2. [r.entry EXCEPT !.locked = stored.locked] \in Balance /\ stored \in Balance
      BY <1>18, <1>19, <1>20, <2>1
    <3> QED
      BY <1>17, <3>1, <3>2 DEF RunPc
  <2> QED
    BY <1>9, <2>1, <2>2, <2>3 DEF ReadLocked, TypeOK, ledger, book
<1>21. CASE FillCache(w)
  <2>1. leg.user \in User /\ leg.token \in Token /\ r.fetched \in Balance
    BY <1>1, <1>4, <1>21 DEF FillCache, RunState
  <2>2. cache' \in [User -> [Token -> Balance \cup {NoEntry}]]
    BY <1>21, <2>1, BalanceUpdateTypes DEF FillCache, leg
  <2>3. \E a \in {"locked", "write"} :
          run' = [run EXCEPT ![w] = [r EXCEPT !.pc = a, !.fetched = Zero]]
    BY <1>21 DEF FillCache
  <2>4. \A a \in RunPc : [r EXCEPT !.pc = a, !.fetched = Zero] \in RunState
    BY <1>1, IdleTypes DEF RunState
  <2>5. run' \in [Worker -> RunState]
    BY <1>5, <2>3, <2>4 DEF RunPc
  <2> QED
    BY <1>21, <2>2, <2>5 DEF FillCache, TypeOK, book
<1>10. CASE WriteBalance(w)
  <2> DEFINE b == [available |-> r.entry.available + leg.available,
                   locked |-> r.entry.locked + leg.locked]
  <2>1. leg.user \in User /\ leg.token \in Token /\ r.leg \in 0..4
    BY <1>4, <1>10 DEF WriteBalance
  <2>2. b.available >= 0 /\ b.locked >= 0 => b \in Balance
    BY <1>1, <1>4, <1>10 DEF WriteBalance, RunState, Balance
  <2>3. \/ /\ b.available >= 0 /\ b.locked >= 0
           /\ bal' = [bal EXCEPT ![leg.user][leg.token] = b]
           /\ trades' = [trades EXCEPT ![r.trade].legs = r.leg]
           /\ run' = [run EXCEPT ![w].pc = "cache", ![w].entry = b]
        \/ /\ run' = [run EXCEPT ![w] = TradeFailed(r)]
           /\ UNCHANGED <<bal, trades>>
    BY <1>10 DEF WriteBalance, PositiveBalance, leg
  <2>6. overlapped' \in SUBSET (User \X Token)
    <3>1. overlapped' = overlapped
          \/ overlapped' = overlapped \cup {<<leg.user, leg.token>>}
      BY <1>10 DEF WriteBalance, leg
    <3>. QED  BY <2>1, <3>1 DEF TypeOK
  <2> HIDE DEF b
  <2>4. ASSUME b \in Balance,
               bal' = [bal EXCEPT ![leg.user][leg.token] = b],
               trades' = [trades EXCEPT ![r.trade].legs = r.leg],
               run' = [run EXCEPT ![w].pc = "cache", ![w].entry = b]
        PROVE  TypeOK'
    <3>1. [trades[r.trade] EXCEPT !.legs = r.leg] \in TradeState
      BY <1>3, <2>1 DEF TradeState
    <3>2. trades' = [trades EXCEPT ![r.trade] = [trades[r.trade] EXCEPT !.legs = r.leg]]
      BY <1>3, <2>4 DEF TypeOK
    <3>3. trades' \in Seq(TradeState) /\ Len(trades') = Len(trades)
      BY <1>3, <3>1, <3>2, ExceptSeq DEF TypeOK
    <3>4. run' \in [Worker -> RunState]
      BY <1>7, <2>4 DEF RunPc
    <3>5. bal' \in [User -> [Token -> Balance]]
      BY <2>1, <2>4, BalanceUpdateTypes
    <3> QED
      BY <1>10, <2>6, <3>3, <3>4, <3>5 DEF WriteBalance, TypeOK
  <2>5. ASSUME run' = [run EXCEPT ![w] = TradeFailed(r)], UNCHANGED <<bal, trades>>
        PROVE  TypeOK'
    <3>1. run' \in [Worker -> RunState]
      BY <1>1, <1>5, <2>5, TradeFailedType
    <3> QED
      BY <1>10, <2>5, <2>6, <3>1 DEF WriteBalance, TypeOK
  <2> QED
    BY <2>2, <2>3, <2>4, <2>5
<1>11. CASE CacheBalance(w)
  <2>1. leg.user \in User /\ leg.token \in Token /\ r.leg \in 1..4 /\ r.entry \in Balance
    BY <1>1, <1>4, <1>11 DEF CacheBalance, RunState
  <2>2. cache' \in [User -> [Token -> Balance \cup {NoEntry}]]
    BY <1>11, <2>1, BalanceUpdateTypes DEF CacheBalance, leg
  <2>3. PICK a \in RunPc, n \in 0..4 :
          run' = [run EXCEPT ![w] = [r EXCEPT !.pc = a, !.leg = n, !.entry = Zero]]
    <3>1. CASE r.leg < 4
      <4>1. run' = [run EXCEPT ![w] = [r EXCEPT !.pc = "available",
                                         !.leg = r.leg + 1, !.entry = Zero]]
        BY <1>11, <3>1 DEF CacheBalance
      <4>2. "available" \in RunPc /\ r.leg + 1 \in 0..4
        BY <2>1, <3>1 DEF RunPc
      <4> QED
        BY <4>1, <4>2
    <3>2. CASE ~(r.leg < 4)
      <4>1. run' = [run EXCEPT ![w] = [r EXCEPT !.pc = "fillBuyer",
                                         !.leg = 0, !.entry = Zero]]
        BY <1>11, <3>2 DEF CacheBalance
      <4>2. "fillBuyer" \in RunPc /\ 0 \in 0..4
        BY DEF RunPc
      <4> QED
        BY <4>1, <4>2
    <3> QED
      BY <3>1, <3>2
  <2>4. [r EXCEPT !.pc = a, !.leg = n, !.entry = Zero] \in RunState
    BY <1>1, <2>3, IdleTypes DEF RunState
  <2>5. run' \in [Worker -> RunState]
    BY <1>5, <2>3, <2>4
  <2> QED
    BY <1>11, <2>2, <2>5 DEF CacheBalance, TypeOK, book
<1>12. ASSUME NEW o \in {trades[r.trade].buyer, trades[r.trade].seller}, Fill(w, o)
       PROVE  row' \in [Order -> RowState]
  <2>1. o \in Order /\ Filled(w, o) \in Nat
    BY <1>2, <1>12, FilledSound
  <2> DEFINE st == IF Filled(w, o) = Quantity[o] THEN "FILLED" ELSE "PARTIAL"
  <2>2. st \in OrderStatus
    BY DEF OrderStatus
  <2>3. row' = [row EXCEPT ![o] = [row[o] EXCEPT !.filled = Filled(w, o), !.status = st]]
    BY <1>12, <2>1 DEF Fill
  <2> HIDE DEF st
  <2>4. [row[o] EXCEPT !.filled = Filled(w, o), !.status = st] \in RowState
    <3>1. row[o] \in RowState
      BY <2>1 DEF TypeOK
    <3>2. ASSUME NEW q \in RowState, NEW n \in Nat, NEW x \in OrderStatus
          PROVE  [q EXCEPT !.filled = n, !.status = x] \in RowState
      BY DEF RowState
    <3> QED
      BY <2>1, <2>2, <3>1, <3>2
  <2> QED
    BY <2>1, <2>3, <2>4 DEF TypeOK
<1>13. CASE FillBuyer(w)
  <2>1. run' \in [Worker -> RunState]
    BY <1>6, <1>13 DEF FillBuyer, RunPc
  <2> QED
    BY <1>12, <1>13, <2>1 DEF FillBuyer, TypeOK, ledger, book
<1>14. CASE FillSeller(w)
  <2>1. run' \in [Worker -> RunState]
    BY <1>6, <1>14 DEF FillSeller, RunPc
  <2> QED
    BY <1>12, <1>14, <2>1 DEF FillSeller, TypeOK, ledger, book
<1>15. CASE EnqueueSettlement(w)
  <2>1. run' \in [Worker -> RunState]
    BY <1>6, <1>15 DEF EnqueueSettlement, RunPc
  <2>2. settling' \subseteq 1..Len(trades)
    BY <1>3, <1>15 DEF EnqueueSettlement, TypeOK
  <2> QED
    BY <1>15, <2>1, <2>2 DEF EnqueueSettlement, TypeOK, ledger
<1>16. CASE TradeExecuted(w)
  <2>1. r.remaining - trades[r.trade].quantity \in Nat
    BY <1>1, <1>3 DEF TradeInProgressSound, RunState, TradeState
  <2> DEFINE n == r.remaining - trades[r.trade].quantity
  <2>2. run' = [run EXCEPT ![w] = [TradeFailed(r) EXCEPT !.remaining = n]]
    BY <1>16 DEF TradeExecuted, TradeFailed
  <2> HIDE DEF n
  <2>3. [TradeFailed(r) EXCEPT !.remaining = n] \in RunState
    <3>1. ASSUME NEW q \in RunState
          PROVE  [q EXCEPT !.remaining = n] \in RunState
      BY <2>1 DEF RunState, n
    <3> QED
      BY <1>1, <3>1, TradeFailedType
  <2>4. run' \in [Worker -> RunState]
    BY <1>5, <2>2, <2>3
  <2> QED
    BY <1>16, <2>4 DEF TradeExecuted, TypeOK, ledger, book
<1> QED
  BY <1>8, <1>9, <1>10, <1>11, <1>13, <1>14, <1>15, <1>16, <1>21

\* Failures keep the types.
LEMMA FaultTypes ==
  ASSUME TypeOK, RunsSound, NEW w \in Worker,
         InsertFault(w) \/ TradeFault(w) \/ AttemptFault(w) \/ Crash(w)
  PROVE  TypeOK'
<1>1. faults' \in 0..MaxFaults
  BY NumberAssumption DEF InsertFault, TradeFault, AttemptFault, Crash, TypeOK
<1>2. ASSUME NEW q \in RunState
      PROVE  [run EXCEPT ![w] = q] \in [Worker -> RunState]
  BY DEF TypeOK
<1>3. CASE InsertFault(w)
  <2>1. PICK s \in Best(run[w].todo) :
          run' = [run EXCEPT ![w].pc = "match", ![w].todo = @ \ {s}]
    BY <1>3 DEF InsertFault
  <2>2. run[w].todo \ {s} \in SUBSET Snapshot /\ "match" \in RunPc /\ 0 \in Nat
    BY DEF RunState, RunPc, TypeOK
  <2>3. run' \in [Worker -> RunState]
    BY <2>1, <2>2, RunUpdateTypes
  <2> QED
    BY <1>1, <1>3, <2>3 DEF InsertFault, TypeOK, ledger, book
<1>4. CASE TradeFault(w)
  <2>1. TradeFailed(run[w]) \in RunState
    BY TradeFailedType DEF TypeOK
  <2>2. run' \in [Worker -> RunState]
    BY <1>2, <1>4, <2>1 DEF TradeFault
  <2> QED
    BY <1>1, <1>4, <2>2 DEF TradeFault, TypeOK, ledger, book
<1>5. CASE AttemptFault(w)
  <2>1. run[w].job \in Job
    BY <1>5, RunningOrder DEF AttemptFault
  <2>2. run' \in [Worker -> RunState] /\ jobs' \in [Job -> JobRecord]
    BY <1>2, <1>5, <2>1, IdleTypes, JobTypes DEF AttemptFault
  <2> QED
    BY <1>1, <1>5, <2>2 DEF AttemptFault, TypeOK, ledger, book
<1>6. CASE Crash(w)
  <2>1. run[w].job \in Job
    BY <1>6, RunningOrder DEF Crash
  <2>2. run' \in [Worker -> RunState] /\ jobs' \in [Job -> JobRecord]
    BY <1>2, <1>6, <2>1, IdleTypes, JobTypes DEF Crash
  <2> QED
    BY <1>1, <1>6, <2>2 DEF Crash, TypeOK, ledger, book
<1> QED
  BY <1>3, <1>4, <1>5, <1>6

\* Every step keeps the types.
LEMMA NextTypes ==
  ASSUME TypeOK, CancelsSound, RunsSound, Next
  PROVE  TypeOK'
<1>1. ASSUME NEW o \in Order, Submit(o)
      PROVE  TypeOK'
  BY <1>1, SubmitTypes
<1>2. ASSUME NEW c \in Canceller, Cancel(c)
      PROVE  TypeOK'
  BY <1>2, CancelTypes
<1>3. ASSUME NEW w \in Worker, Work(w)
      PROVE  TypeOK'
  BY <1>3, JobStepTypes, MatchTypes, TradeStepTypes DEF Work
<1>4. ASSUME NEW w \in Worker,
             InsertFault(w) \/ TradeFault(w) \/ AttemptFault(w) \/ Crash(w)
      PROVE  TypeOK'
  BY <1>4, FaultTypes
<1>5. CASE DeactivatePair
  BY <1>5 DEF DeactivatePair, TypeOK, ledger, book
<1> QED
  BY <1>1, <1>2, <1>3, <1>4, <1>5 DEF Next

-----------------------------------------------------------------------------
(* What no step takes back *)

Past == {"OPEN", "PARTIAL", "FILLED", "CANCELLED", "REJECTED"}

\* A row does not disappear or become PENDING_MATCH again; what was traded of
\* an order only grows; a trade keeps its orders, price and quantity; a job id
\* is never forgotten.
Forward ==
  /\ \A o \in Order :
       /\ row[o].status # "none" => row'[o].status # "none"
       /\ row[o].status \in Past => row'[o].status \in Past
       /\ traded[o] <= traded'[o]
  /\ \A i \in 1..Len(trades) :
       /\ i \in 1..Len(trades')
       /\ trades'[i].buyer = trades[i].buyer
       /\ trades'[i].seller = trades[i].seller
       /\ trades'[i].price = trades[i].price
       /\ trades'[i].quantity = trades[i].quantity
  /\ \A j \in Job : jobs[j].state # "none" => jobs'[j].state # "none"

\* Only a submission creates a row.
NoNewRow == \A o \in Order : row[o].status = "none" => row'[o].status = "none"

\* A status is none, PENDING_MATCH, or past it.
LEMMA StatusIsPast ==
  ASSUME TypeOK, NEW o \in Order
  PROVE  row[o].status \notin {"none", "PENDING_MATCH"} <=> row[o].status \in Past
BY DEF TypeOK, RowState, OrderStatus, Past

\* An UPDATE of an order's row that is not about PENDING_MATCH goes forward.
LEMMA RowUpdateForward ==
  ASSUME TypeOK, NEW o \in Order, row[o].status # "none",
         NEW q \in RowState, q.status \in Past, row' = [row EXCEPT ![o] = q]
  PROVE  /\ \A p \in Order : row[p].status # "none" => row'[p].status # "none"
         /\ \A p \in Order : row[p].status \in Past => row'[p].status \in Past
         /\ NoNewRow
BY DEF TypeOK, Past, NoNewRow

\* What BullMQ does to a job never forgets one.
LEMMA JobsForward ==
  ASSUME TypeOK, NEW j \in Job, NEW k \in Job, jobs[k].state # "none"
  PROVE  /\ Completed(jobs, j)[k].state # "none"
         /\ AttemptFailed(jobs, j)[k].state # "none"
         /\ Stalled(jobs, j)[k].state # "none"
         /\ \A ids : Add(jobs, ids)[k].state # "none"
         /\ \A ids : Completed(Add(jobs, ids), j)[k].state # "none"
<1>1. \A ids : Add(jobs, ids)[k] = jobs[k]
  BY DEF Add
<1>2. Completed(jobs, j)[k].state # "none"
  BY DEF Completed, TypeOK, JobRecord
<1>3. AttemptFailed(jobs, j)[k].state # "none"
  BY DEF AttemptFailed, TypeOK, JobRecord
<1>4. Stalled(jobs, j)[k].state # "none"
  BY DEF Stalled, TypeOK, JobRecord
<1>5. ASSUME NEW ids
      PROVE  Completed(Add(jobs, ids), j)[k].state # "none"
  <2>1. Add(jobs, ids) \in [Job -> JobRecord]
    BY JobTypes
  <2> QED
    BY <1>1, <2>1 DEF Completed, JobRecord
<1> QED
  BY <1>1, <1>2, <1>3, <1>4, <1>5

\* Writing legs in one trade changes nothing else of the trades.
LEMMA LegsWritten ==
  ASSUME TypeOK, NEW i \in 1..Len(trades), NEW n \in 0..4,
         trades' = [trades EXCEPT ![i].legs = n]
  PROVE  /\ Len(trades') = Len(trades)
         /\ trades'[i].legs = n
         /\ \A k \in 1..Len(trades) :
              /\ k # i => trades'[k] = trades[k]
              /\ trades'[k].buyer = trades[k].buyer
              /\ trades'[k].seller = trades[k].seller
              /\ trades'[k].price = trades[k].price
              /\ trades'[k].quantity = trades[k].quantity
<1> DEFINE t == trades[i]
           q == [t EXCEPT !.legs = n]
<1>1. t \in TradeState
  BY ElementOfSeq DEF TypeOK
<1>2. /\ q \in TradeState /\ q.legs = n
      /\ q.buyer = t.buyer /\ q.seller = t.seller
      /\ q.price = t.price /\ q.quantity = t.quantity
  BY <1>1 DEF TradeState
<1>3. trades' = [trades EXCEPT ![i] = q]
  OBVIOUS
<1> HIDE DEF q
<1>4. /\ Len(trades') = Len(trades)
      /\ \A k \in 1..Len(trades) : trades'[k] = IF k = i THEN q ELSE trades[k]
  BY <1>2, <1>3, ExceptSeq DEF TypeOK
<1> QED
  BY <1>2, <1>4

\* A step that leaves the orders, the trades and the jobs alone goes forward.
LEMMA StoresKept ==
  ASSUME TypeOK
  PROVE  /\ row' = row => NoNewRow
         /\ UNCHANGED <<row, trades, traded, jobs>> => Forward
         /\ UNCHANGED <<row, trades, traded>>
              /\ (\A j \in Job : jobs[j].state # "none" => jobs'[j].state # "none")
              => Forward
         /\ UNCHANGED <<trades, traded>>
              /\ (\A j \in Job : jobs[j].state # "none" => jobs'[j].state # "none")
              /\ (\A o \in Order : row[o].status # "none" => row'[o].status # "none")
              /\ (\A o \in Order : row[o].status \in Past => row'[o].status \in Past)
              => Forward
BY DEF TypeOK, Forward, NoNewRow

\* Submissions go forward.
LEMMA SubmitForward ==
  ASSUME TypeOK, RowsFollowSubmissions, NEW o \in Order, Submit(o)
  PROVE  Forward
<1>1. CASE SubmitRefused(o) \/ SubmitLock(o) \/ SubmitCache(o) \/ SubmitFault(o)
  <2>1. UNCHANGED <<row, trades, traded, jobs>>
    BY <1>1 DEF SubmitRefused, SubmitLock, SubmitCache, SubmitFault, book
  <2> QED
    BY <2>1, StoresKept
<1>2. CASE SubmitEnqueue(o)
  <2>1. UNCHANGED <<row, trades, traded>>
    BY <1>2 DEF SubmitEnqueue, book
  <2>2. \A j \in Job : jobs[j].state # "none" => jobs'[j].state # "none"
    BY <1>2 DEF SubmitEnqueue, Add
  <2> QED
    BY <2>1, <2>2, StoresKept
<1>3. CASE SubmitCreate(o)
  <2>1. row[o].status = "none" /\ UNCHANGED <<trades, traded, jobs>>
    BY <1>3 DEF SubmitCreate, RowsFollowSubmissions, book
  <2>2. row' = row \/ \E q : row' = [row EXCEPT ![o] = q]
    BY <1>3 DEF SubmitCreate
  <2>3. \A p \in Order : p # o => row'[p] = row[p]
    BY <2>2 DEF TypeOK
  <2>4. \A p \in Order : row[p].status # "none" => row'[p].status = row[p].status
    BY <2>1, <2>3
  <2> QED
    BY <2>1, <2>4, StoresKept DEF Past
<1> QED
  BY <1>1, <1>2, <1>3 DEF Submit

\* Cancellations go forward.
LEMMA CancelForward ==
  ASSUME TypeOK, CancelsSound, NEW c \in Canceller, Cancel(c)
  PROVE  Forward /\ NoNewRow
<1>1. ASSUME NEW o \in Order, CancelRead(c, o)
      PROVE  UNCHANGED <<row, trades, traded, jobs>>
  BY <1>1 DEF CancelRead, book
<1>2. CASE CancelUnlock(c) \/ CancelCache(c) \/ CancelFault(c)
  <2>1. UNCHANGED <<row, trades, traded, jobs>>
    BY <1>2 DEF CancelUnlock, CancelCache, CancelFault, book
  <2> QED
    BY <2>1, StoresKept
<1>3. CASE CancelMark(c)
  <2> DEFINE o == can[c].order
  <2>1. o \in Order /\ row[o].status # "none" /\ UNCHANGED <<trades, traded, jobs>>
    BY <1>3 DEF CancelMark, CancelsSound, book
  <2>2. [row[o] EXCEPT !.status = "CANCELLED"] \in RowState
    BY <2>1 DEF RowState, OrderStatus, TypeOK
  <2>3. row' = [row EXCEPT ![o] = [row[o] EXCEPT !.status = "CANCELLED"]]
    BY <1>3 DEF CancelMark
  <2>4. [row[o] EXCEPT !.status = "CANCELLED"].status \in Past
    BY <2>1 DEF Past, RowState, TypeOK
  <2> QED
    BY <2>1, <2>2, <2>3, <2>4, RowUpdateForward, StoresKept
<1> QED
  BY <1>1, <1>2, <1>3, StoresKept DEF Cancel

\* The worker and its failures go forward.
LEMMA WorkForward ==
  ASSUME TypeOK, RunsSound, TradesSound, NEW w \in Worker,
         \/ Work(w)
         \/ InsertFault(w) \/ TradeFault(w) \/ AttemptFault(w) \/ Crash(w)
  PROVE  Forward /\ NoNewRow
<1> DEFINE r == run[w]
           o == r.job[1]
<1>1. r.pc # "idle" => r.job \in Job /\ o \in Order /\ row[o].status # "none"
  BY RunningOrder DEF RunsSound, RunSound, ReadSound
<1>2. ASSUME NEW p \in Order, row[p].status # "none", NEW st \in Past,
             row' = [row EXCEPT ![p].status = st]
      PROVE  /\ \A x \in Order : row[x].status # "none" => row'[x].status # "none"
             /\ \A x \in Order : row[x].status \in Past => row'[x].status \in Past
             /\ NoNewRow
  <2>1. [row[p] EXCEPT !.status = st] \in RowState
    BY DEF RowState, OrderStatus, TypeOK, Past
  <2>2. [row[p] EXCEPT !.status = st].status = st
    BY DEF RowState, TypeOK
  <2>3. row' = [row EXCEPT ![p] = [row[p] EXCEPT !.status = st]]
    BY <1>2
  <2> QED
    BY <1>2, <2>1, <2>2, <2>3, RowUpdateForward
<1>3. ASSUME NEW j \in Job, TakeJob(w, j)
      PROVE  Forward /\ NoNewRow
  <2>1. UNCHANGED <<row, trades, traded>>
    BY <1>3 DEF TakeJob, book
  <2>2. \A k \in Job : jobs[k].state # "none" => jobs'[k].state # "none"
    BY <1>3 DEF TakeJob, TypeOK, JobRecord
  <2> QED
    BY <2>1, <2>2, StoresKept
<1>4. CASE LoadOrder(w) \/ AttemptFault(w) \/ Crash(w) \/ ScheduleOpposing(w)
  <2>1. UNCHANGED <<row, trades, traded>>
    BY <1>4 DEF LoadOrder, AttemptFault, Crash, ScheduleOpposing, book
  <2>2. r.job \in Job
    BY <1>1, <1>4 DEF LoadOrder, AttemptFault, Crash, ScheduleOpposing
  <2>3. \/ jobs' = jobs
        \/ jobs' = Completed(jobs, r.job)
        \/ jobs' = AttemptFailed(jobs, r.job)
        \/ jobs' = Stalled(jobs, r.job)
        \/ \E ids : jobs' = Completed(Add(jobs, ids), r.job)
    BY <1>4 DEF LoadOrder, AttemptFault, Crash, ScheduleOpposing
  <2>4. \A k \in Job : jobs[k].state # "none" => jobs'[k].state # "none"
    BY <2>2, <2>3, JobsForward
  <2> QED
    BY <2>1, <2>4, StoresKept
<1>5. CASE CancelInactive(w)
  <2>1. o \in Order /\ row[o].status # "none" /\ r.job \in Job
    BY <1>1, <1>5 DEF CancelInactive
  <2>2. row' = [row EXCEPT ![o].status = "CANCELLED"] /\ "CANCELLED" \in Past
    BY <1>5 DEF CancelInactive, Past
  <2>3. jobs' = Completed(jobs, r.job) /\ UNCHANGED <<trades, traded>>
    BY <1>5 DEF CancelInactive, book
  <2> QED
    BY <1>2, <2>1, <2>2, <2>3, JobsForward, StoresKept
<1>6. CASE OpenOrder(w)
  <2>1. o \in Order /\ row[o].status # "none"
    BY <1>1, <1>6 DEF OpenOrder
  <2>2. row' = [row EXCEPT ![o].status = "OPEN"] /\ "OPEN" \in Past
    BY <1>6 DEF OpenOrder, Past
  <2>3. UNCHANGED <<trades, traded, jobs>>
    BY <1>6 DEF OpenOrder, book
  <2> QED
    BY <1>2, <2>1, <2>2, <2>3, StoresKept
<1>7. CASE FinishMatching(w)
  <2>1. o \in Order /\ row[o].status # "none" /\ r.job \in Job
    BY <1>1, <1>7 DEF FinishMatching
  <2>2. row' = row \/ \E st \in {"FILLED", "PARTIAL"} : row' = [row EXCEPT ![o].status = st]
    BY <1>7 DEF FinishMatching
  <2>3. (jobs' = jobs \/ jobs' = Completed(jobs, r.job)) /\ UNCHANGED <<trades, traded>>
    BY <1>7 DEF FinishMatching, book
  <2>4. \A k \in Job : jobs[k].state # "none" => jobs'[k].state # "none"
    BY <2>1, <2>3, JobsForward
  <2>5. CASE row' = row
    BY <2>3, <2>4, <2>5, StoresKept
  <2>6. ASSUME NEW st \in {"FILLED", "PARTIAL"}, row' = [row EXCEPT ![o].status = st]
        PROVE  Forward /\ NoNewRow
    <3>1. st \in Past
      BY DEF Past
    <3> HIDE DEF o
    <3> QED
      BY <1>2, <2>1, <2>3, <2>4, <2>6, <3>1, StoresKept
  <2> QED
    BY <2>2, <2>5, <2>6
<1>8. CASE FetchOpposing(w) \/ NextOpposing(w) \/ ReadAvailable(w) \/ ReadLocked(w)
           \/ FillCache(w) \/ CacheBalance(w) \/ EnqueueSettlement(w) \/ TradeExecuted(w) \/ InsertFault(w) \/ TradeFault(w)
  <2>1. UNCHANGED <<row, trades, traded, jobs>>
    BY <1>8 DEF FetchOpposing, NextOpposing, ReadAvailable, ReadLocked, FillCache, CacheBalance,
                EnqueueSettlement, TradeExecuted, InsertFault, TradeFault, book
  <2> QED
    BY <2>1, StoresKept
<1>9. CASE InsertTrade(w)
  <2>1. UNCHANGED <<row, jobs>>
    BY <1>9 DEF InsertTrade
  <2>2. Len(trades) \in Nat
    BY LenProperties DEF TypeOK
  <2>3. TypeOK'
    BY <1>9, MatchTypes
  <2>4. \/ UNCHANGED <<trades, traded>>
        \/ \E s \in Best(r.todo) : \E t :
             /\ trades' = Append(trades, t)
             /\ traded' = [p \in Order |-> IF p \in {o, s.order}
                  THEN traded[p] + Least(r.remaining, Quantity[s.order] - s.filled)
                  ELSE traded[p]]
    BY <1>9 DEF InsertTrade
  <2>5. CASE UNCHANGED <<trades, traded>>
    BY <2>1, <2>5, StoresKept
  <2>6. ASSUME NEW s \in Best(r.todo), NEW t,
               trades' = Append(trades, t),
               traded' = [p \in Order |-> IF p \in {o, s.order}
                  THEN traded[p] + Least(r.remaining, Quantity[s.order] - s.filled)
                  ELSE traded[p]]
        PROVE  Forward /\ NoNewRow
    <3> DEFINE qty == Least(r.remaining, Quantity[s.order] - s.filled)
    <3>1. qty \in Nat
      <4>1. s \in r.todo /\ r.pc = "insert"
        BY <1>9, BestIsLeft DEF InsertTrade
      <4>2. s.order \in Order /\ s.filled \in Nat /\ r.remaining \in Nat
        BY <4>1 DEF TypeOK, RunState, Snapshot
      <4>3. s.filled <= Quantity[s.order]
        BY <4>1 DEF RunsSound, RunSound, ReadSound, SnapshotSound
      <4>4. Quantity[s.order] - s.filled \in Nat
        BY <4>2, <4>3, OrderAssumption
      <4> QED
        BY <4>2, <4>4, MatchQuantity
    <3> HIDE DEF qty
    <3>2. \A p \in Order : traded[p] <= traded'[p]
      <4>1. \A p \in Order : traded'[p] = traded[p] + qty \/ traded'[p] = traded[p]
        BY <2>6 DEF qty
      <4> QED
        BY <3>1, <4>1 DEF TypeOK
    <3>3. Len(trades') = Len(trades) + 1 /\ \A i \in 1..Len(trades) : trades'[i] = trades[i]
      <4>1. trades \in Seq(TradeState \cup {t})
        BY DEF TypeOK
      <4> QED
        BY <2>6, <4>1, AppendProperties
    <3> QED
      BY <2>1, <2>2, <3>2, <3>3 DEF Forward, NoNewRow
  <2> QED
    BY <2>4, <2>5, <2>6
<1>10. CASE WriteBalance(w)
  <2>1. UNCHANGED <<row, jobs, traded>>
    BY <1>10 DEF WriteBalance
  <2>2. r.trade \in 1..Len(trades) /\ trades[r.trade] \in TradeState
    BY <1>10, RunningTrade DEF WriteBalance, TradePc
  <2>3. trades' = trades \/ trades' = [trades EXCEPT ![r.trade].legs = r.leg]
    BY <1>10 DEF WriteBalance
  <2>4. CASE trades' = trades
    BY <2>1, <2>4, StoresKept
  <2>5. CASE trades' = [trades EXCEPT ![r.trade].legs = r.leg]
    <3>1. r.leg \in 0..4
      BY DEF TypeOK, RunState
    <3>2. /\ Len(trades') = Len(trades)
          /\ \A k \in 1..Len(trades) :
               /\ trades'[k].buyer = trades[k].buyer
               /\ trades'[k].seller = trades[k].seller
               /\ trades'[k].price = trades[k].price
               /\ trades'[k].quantity = trades[k].quantity
      BY <2>2, <2>5, <3>1, LegsWritten
    <3>3. traded \in [Order -> Nat]
      BY DEF TypeOK
    <3> QED
      BY <2>1, <3>2, <3>3 DEF Forward, NoNewRow
  <2> QED
    BY <2>3, <2>4, <2>5
<1>11. CASE FillBuyer(w) \/ FillSeller(w)
  <2> DEFINE t == trades[r.trade]
  <2>1. r.pc \in TradePc /\ UNCHANGED <<trades, traded, jobs>>
    BY <1>11 DEF FillBuyer, FillSeller, TradePc, book
  <2>2. PICK p \in {t.buyer, t.seller} : Fill(w, p)
    BY <1>11 DEF FillBuyer, FillSeller
  <2>3. p \in Order /\ Filled(w, p) \in Nat
    BY <2>1, FilledSound
  <2>4. row[p].status # "none"
    BY <2>1, RunningTrade DEF TradesSound
  <2> DEFINE st == IF Filled(w, p) = Quantity[p] THEN "FILLED" ELSE "PARTIAL"
  <2>5. st \in Past
    BY DEF Past
  <2>6. row' = [row EXCEPT ![p] = [row[p] EXCEPT !.filled = Filled(w, p), !.status = st]]
    BY <2>2, <2>3 DEF Fill
  <2> HIDE DEF st
  <2>7. /\ [row[p] EXCEPT !.filled = Filled(w, p), !.status = st] \in RowState
        /\ [row[p] EXCEPT !.filled = Filled(w, p), !.status = st].status = st
    BY <2>3, <2>5 DEF TypeOK, RowState, OrderStatus, Past
  <2> QED
    BY <2>1, <2>3, <2>4, <2>5, <2>6, <2>7, RowUpdateForward, StoresKept
<1> QED
  BY <1>3, <1>4, <1>5, <1>6, <1>7, <1>8, <1>9, <1>10, <1>11 DEF Work

-----------------------------------------------------------------------------
(* The parts of the invariant about submissions, jobs and cancellations *)

\* RowsFollowSubmissions, when the step is no submission.
LEMMA SubmissionsKept ==
  ASSUME RowsFollowSubmissions, Forward, NoNewRow, sub' = sub
  PROVE  RowsFollowSubmissions'
<1> SUFFICES ASSUME NEW o \in Order
             PROVE  /\ sub'[o].pc \in {"submit", "refused", "cache", "create"}
                         => row'[o].status = "none"
                    /\ sub'[o].pc \in {"enqueue", "accepted"} => row'[o].status # "none"
                    /\ sub'[o].pc = "accepted" => jobs'[<<o, o>>].state # "none"
  BY DEF RowsFollowSubmissions
<1> <<o, o>> \in Job
  BY DEF Job
<1> QED
  BY DEF RowsFollowSubmissions, Forward, NoNewRow

\* RowsFollowSubmissions, when the step is a submission.
LEMMA SubmissionsFollow ==
  ASSUME TypeOK, RowsFollowSubmissions, NEW o \in Order, Submit(o)
  PROVE  RowsFollowSubmissions'
<1>1. Forward
  BY SubmitForward
<1>2. \A p \in Order : <<p, p>> \in Job
  BY DEF Job
<1>3. \A p \in Order : p # o => sub'[p] = sub[p] /\ row'[p] = row[p]
  <2>1. \E q : sub' = [sub EXCEPT ![o] = q]
    BY DEF Submit, SubmitRefused, SubmitLock, SubmitCache, SubmitCreate,
           SubmitEnqueue, SubmitFault
  <2>2. row' = row \/ \E q : row' = [row EXCEPT ![o] = q]
    BY DEF Submit, SubmitRefused, SubmitLock, SubmitCache, SubmitCreate,
           SubmitEnqueue, SubmitFault
  <2> QED
    BY <2>1, <2>2 DEF TypeOK
<1>4. /\ sub'[o].pc \in {"submit", "refused", "cache", "create"} => row'[o].status = "none"
      /\ sub'[o].pc \in {"enqueue", "accepted"} => row'[o].status # "none"
      /\ sub'[o].pc = "accepted" => jobs'[<<o, o>>].state # "none"
  <2>1. CASE SubmitRefused(o)
    BY <2>1 DEF SubmitRefused, RowsFollowSubmissions, TypeOK, SubmitState
  <2>2. CASE SubmitLock(o)
    BY <2>2 DEF SubmitLock, RowsFollowSubmissions, TypeOK, SubmitState
  <2>3. CASE SubmitCache(o)
    BY <2>3 DEF SubmitCache, RowsFollowSubmissions, TypeOK, SubmitState
  <2>4. CASE SubmitCreate(o)
    <3>1. CASE "PENDING_MATCH" \in OrderStatusCheck
      <4>1. row'[o].status = "PENDING_MATCH" /\ sub'[o].pc = "enqueue"
        BY <2>4, <3>1 DEF SubmitCreate, TypeOK, SubmitState
      <4> QED
        BY <4>1
    <3>2. CASE "PENDING_MATCH" \notin OrderStatusCheck
      BY <2>4, <3>2 DEF SubmitCreate, TypeOK, SubmitState
    <3> QED
      BY <3>1, <3>2
  <2>5. CASE SubmitEnqueue(o)
    <3>1. row'[o].status # "none" /\ sub'[o].pc = "accepted"
      BY <2>5 DEF SubmitEnqueue, RowsFollowSubmissions, TypeOK, SubmitState
    <3>2. jobs'[<<o, o>>].state # "none"
      BY <1>2, <2>5 DEF SubmitEnqueue, Add, TypeOK, JobRecord
    <3> QED
      BY <3>1, <3>2
  <2>6. CASE SubmitFault(o)
    BY <2>6 DEF SubmitFault, TypeOK
  <2> QED
    BY <2>1, <2>2, <2>3, <2>4, <2>5, <2>6 DEF Submit
<1> QED
  BY <1>1, <1>2, <1>3, <1>4 DEF RowsFollowSubmissions, Forward

\* JobsFollowRows, when every job was known before and no job completes.
LEMMA JobRowsKept ==
  ASSUME TypeOK, TypeOK', JobsFollowRows, Forward,
         \A j \in Job :
           /\ jobs'[j].state # "none" =>
                jobs[j].state # "none" \/ row'[j[1]].status # "none"
           /\ jobs'[j].state = "completed" =>
                jobs[j].state = "completed" \/ row'[j[1]].status \in Past
  PROVE  JobsFollowRows'
<1> SUFFICES ASSUME NEW j \in Job
             PROVE  /\ jobs'[j].state # "none" => row'[j[1]].status # "none"
                    /\ jobs'[j].state = "completed" => row'[j[1]].status # "PENDING_MATCH"
  BY DEF JobsFollowRows
<1>1. j[1] \in Order
  BY DEF Job
<1>2. jobs[j].state = "completed" => row[j[1]].status \in Past
  <2>1. jobs[j].state = "completed" =>
          row[j[1]].status # "none" /\ row[j[1]].status # "PENDING_MATCH"
    BY DEF JobsFollowRows
  <2> QED
    BY <1>1, <2>1, StatusIsPast
<1>3. jobs[j].state # "none" => row[j[1]].status # "none"
  BY DEF JobsFollowRows
<1> QED
  BY <1>1, <1>2, <1>3 DEF Forward, Past

\* What BullMQ does to one job leaves the others alone.
LEMMA OtherJobs ==
  ASSUME TypeOK, NEW j \in Job, NEW k \in Job
  PROVE  /\ k # j => /\ Completed(jobs, j)[k] = jobs[k]
                     /\ AttemptFailed(jobs, j)[k] = jobs[k]
                     /\ Stalled(jobs, j)[k] = jobs[k]
         /\ AttemptFailed(jobs, j)[j].state \in {"waiting", "failed"}
         /\ Stalled(jobs, j)[j].state \in {"waiting", "failed"}
BY DEF Completed, AttemptFailed, Stalled, TypeOK, JobRecord

\* JobsFollowRows, for submissions.
LEMMA SubmitJobs ==
  ASSUME TypeOK, TypeOK', RowsFollowSubmissions, JobsFollowRows, Forward,
         NEW o \in Order, Submit(o)
  PROVE  JobsFollowRows'
<1>1. CASE SubmitEnqueue(o)
  <2>1. row'[o].status # "none"
    BY <1>1 DEF SubmitEnqueue, RowsFollowSubmissions
  <2>2. \A j \in Job : jobs'[j] = jobs[j] \/ (j = <<o, o>> /\ jobs'[j].state = "waiting")
    BY <1>1 DEF SubmitEnqueue, Add, TypeOK, JobRecord
  <2> QED
    BY <2>1, <2>2, JobRowsKept
<1>2. CASE ~SubmitEnqueue(o)
  <2>1. jobs' = jobs
    BY <1>2 DEF Submit, SubmitRefused, SubmitLock, SubmitCache, SubmitCreate, SubmitFault
  <2> QED
    BY <2>1, JobRowsKept
<1> QED
  BY <1>1, <1>2

\* JobsFollowRows, for the worker and its failures.
LEMMA WorkJobs ==
  ASSUME TypeOK, TypeOK', RunsSound, JobsFollowRows, Forward, NEW w \in Worker,
         \/ Work(w)
         \/ InsertFault(w) \/ TradeFault(w) \/ AttemptFault(w) \/ Crash(w)
  PROVE  JobsFollowRows'
<1> DEFINE r == run[w]
           o == r.job[1]
<1>1. r.pc # "idle" => r.job \in Job /\ o \in Order /\ row[o].status # "none"
  BY RunningOrder DEF RunsSound, RunSound, ReadSound
<1>2. r.pc \in MatchedPc => row[o].status # "PENDING_MATCH"
  BY DEF RunsSound, RunSound, ReadSound, MatchedPc, TradePc
<1>3. ASSUME jobs' = jobs
      PROVE  JobsFollowRows'
  BY <1>3, JobRowsKept
<1>4. ASSUME r.job \in Job,
             jobs' = AttemptFailed(jobs, r.job) \/ jobs' = Stalled(jobs, r.job),
             row[o].status # "none"
      PROVE  JobsFollowRows'
  <2>1. r.job[1] \in Order
    BY <1>4 DEF Job
  <2> QED
    BY <1>4, <2>1, OtherJobs, JobRowsKept DEF Forward
<1>5. ASSUME r.job \in Job, jobs' = Completed(jobs, r.job), row'[o].status \in Past
      PROVE  JobsFollowRows'
  <2>1. \A j \in Job : j # r.job => jobs'[j] = jobs[j]
    BY <1>5, OtherJobs
  <2> QED
    BY <1>5, <2>1, JobRowsKept DEF Past
<1>6. ASSUME NEW j \in Job, TakeJob(w, j)
      PROVE  JobsFollowRows'
  <2>1. \A k \in Job : k # j => jobs'[k] = jobs[k]
    BY <1>6 DEF TakeJob, TypeOK
  <2>2. jobs[j].state # "none" /\ jobs'[j].state = "active"
    BY <1>6 DEF TakeJob, TypeOK, JobRecord
  <2> QED
    BY <2>1, <2>2, JobRowsKept
<1>7. CASE LoadOrder(w)
  <2>1. CASE jobs' = jobs
    BY <1>3, <2>1
  <2>2. CASE jobs' # jobs
    <3>1. /\ jobs' = Completed(jobs, r.job) /\ row' = row
          /\ row[o].status \notin {"PENDING_MATCH", "OPEN", "PARTIAL"}
          /\ r.pc # "idle"
      BY <1>7, <2>2 DEF LoadOrder
    <3> QED
      BY <1>1, <1>5, <3>1, StatusIsPast
  <2> QED
    BY <2>1, <2>2
<1>8. CASE CancelInactive(w)
  <2>1. r.pc # "idle" /\ jobs' = Completed(jobs, r.job)
        /\ row' = [row EXCEPT ![o].status = "CANCELLED"]
    BY <1>8 DEF CancelInactive
  <2>2. row'[o].status = "CANCELLED"
    BY <1>1, <2>1 DEF TypeOK, RowState
  <2> QED
    BY <1>1, <1>5, <2>1, <2>2 DEF Past
<1>9. CASE FinishMatching(w)
  <2>1. r.pc # "idle" /\ r.pc \in MatchedPc
    BY <1>9 DEF FinishMatching, MatchedPc
  <2>2. row[o].status \in Past
    BY <1>1, <1>2, <2>1, StatusIsPast
  <2>3. row'[o].status \in Past
    BY <1>1, <2>1, <2>2 DEF Forward
  <2>4. jobs' = jobs \/ jobs' = Completed(jobs, r.job)
    BY <1>9 DEF FinishMatching
  <2> QED
    BY <1>1, <1>3, <1>5, <2>1, <2>3, <2>4
<1>10. CASE ScheduleOpposing(w)
  <2>1. r.pc # "idle" /\ r.pc \in MatchedPc
    BY <1>10 DEF ScheduleOpposing, MatchedPc
  <2>2. row[o].status \in Past
    BY <1>1, <1>2, <2>1, StatusIsPast
  <2> DEFINE ids == {<<p, o>> : p \in {q \in {s.order : s \in OpenOpposing(o)} : CanMatch(q, o)}}
  <2>3. jobs' = Completed(Add(jobs, ids), r.job) /\ row' = row
    BY <1>10 DEF ScheduleOpposing
  <2>4. \A j \in ids : j[1] \in Order /\ row[j[1]].status \in {"OPEN", "PARTIAL"}
    BY DEF OpenOpposing, Opposing
  <2> HIDE DEF ids, o
  <2>5. Add(jobs, ids) \in [Job -> JobRecord]
    BY <1>1, <2>1, JobTypes
  <2>6. \A j \in Job : j # r.job => jobs'[j] = Add(jobs, ids)[j]
    BY <2>3, <2>5 DEF Completed
  <2>7. \A j \in Job : Add(jobs, ids)[j] = jobs[j]
                       \/ (j \in ids /\ Add(jobs, ids)[j].state = "waiting")
    BY DEF Add, TypeOK, JobRecord
  <2>8. \A j \in Job : j # r.job =>
          jobs'[j] = jobs[j] \/ (j \in ids /\ jobs'[j].state = "waiting")
    BY <2>6, <2>7
  <2> QED
    BY <1>1, <2>1, <2>2, <2>3, <2>4, <2>8, JobRowsKept DEF Past, o
<1>11. CASE AttemptFault(w) \/ Crash(w)
  BY <1>1, <1>4, <1>11 DEF AttemptFault, Crash
<1>12. CASE OpenOrder(w) \/ FetchOpposing(w) \/ NextOpposing(w) \/ InsertTrade(w)
            \/ ReadAvailable(w) \/ ReadLocked(w) \/ FillCache(w) \/ WriteBalance(w) \/ CacheBalance(w) \/ FillBuyer(w)
            \/ FillSeller(w) \/ EnqueueSettlement(w) \/ TradeExecuted(w)
            \/ InsertFault(w) \/ TradeFault(w)
  BY <1>3, <1>12 DEF OpenOrder, FetchOpposing, NextOpposing, InsertTrade, ReadAvailable, ReadLocked, FillCache,
     WriteBalance, CacheBalance, FillBuyer, FillSeller, EnqueueSettlement,
     TradeExecuted, InsertFault, TradeFault
<1> QED
  BY <1>6, <1>7, <1>8, <1>9, <1>10, <1>11, <1>12 DEF Work

\* CancelsSound, when the step is no cancellation.
LEMMA CancelsKept ==
  ASSUME TypeOK, TypeOK', CancelsSound, Forward, can' = can
  PROVE  CancelsSound'
<1> SUFFICES ASSUME NEW c \in Canceller, can[c].pc \in {"unlock", "cache", "mark"}
             PROVE  /\ can[c].order \in Order
                    /\ row'[can[c].order].status \notin {"none", "PENDING_MATCH"}
                    /\ can[c].filled <= Quantity[can[c].order]
  BY DEF CancelsSound
<1>1. /\ can[c].order \in Order
      /\ row[can[c].order].status \notin {"none", "PENDING_MATCH"}
      /\ can[c].filled <= Quantity[can[c].order]
  BY DEF CancelsSound
<1> QED
  BY <1>1, StatusIsPast DEF Forward, Past

\* CancelsSound, when the step is a cancellation.
LEMMA CancelsFollow ==
  ASSUME TypeOK, TypeOK', CancelsSound, RowsSound, Forward, NEW c \in Canceller, Cancel(c)
  PROVE  CancelsSound'
<1>1. \A d \in Canceller : d # c => can'[d] = can[d]
  <2>1. \E q : can' = [can EXCEPT ![c] = q]
    BY DEF Cancel, CancelRead, CancelUnlock, CancelCache, CancelMark, CancelFault
  <2> QED
    BY <2>1 DEF TypeOK
<1>2. \A d \in Canceller : d # c /\ can[d].pc \in {"unlock", "cache", "mark"} =>
        /\ can[d].order \in Order
        /\ row'[can[d].order].status \notin {"none", "PENDING_MATCH"}
        /\ can[d].filled <= Quantity[can[d].order]
  BY StatusIsPast DEF CancelsSound, Forward, Past
<1>3. can'[c].pc \in {"unlock", "cache", "mark"} =>
        /\ can'[c].order \in Order
        /\ row'[can'[c].order].status \notin {"none", "PENDING_MATCH"}
        /\ can'[c].filled <= Quantity[can'[c].order]
  <2>1. ASSUME NEW o \in Order, CancelRead(c, o)
        PROVE  /\ can'[c].order \in Order
               /\ row'[can'[c].order].status \notin {"none", "PENDING_MATCH"}
               /\ can'[c].filled <= Quantity[can'[c].order]
    <3>1. can'[c].order = o /\ can'[c].filled = row[o].filled /\ row' = row
      BY <2>1 DEF CancelRead, TypeOK, CancelState
    <3>2. row[o].status \in {"OPEN", "PARTIAL"}
      BY <2>1 DEF CancelRead
    <3> QED
      BY <3>1, <3>2 DEF RowsSound
  <2>2. CASE CancelUnlock(c) \/ CancelCache(c)
    <3>1. can[c].pc \in {"unlock", "cache", "mark"} /\ row' = row
      BY <2>2 DEF CancelUnlock, CancelCache
    <3>2. can'[c].order = can[c].order /\ can'[c].filled = can[c].filled
      BY <2>2 DEF CancelUnlock, CancelCache, TypeOK, CancelState
    <3> QED
      BY <3>1, <3>2 DEF CancelsSound
  <2>3. CASE CancelMark(c) \/ CancelFault(c)
    BY <2>3 DEF CancelMark, CancelFault, TypeOK, CancelState
  <2> QED
    BY <2>1, <2>2, <2>3 DEF Cancel
<1> QED
  BY <1>1, <1>2, <1>3 DEF CancelsSound

-----------------------------------------------------------------------------
(* The parts of the invariant about orders and trades *)

\* RowsSound, for one order whose row the step does not change.
LEMMA RowKept ==
  ASSUME TypeOK, TypeOK', RowsSound, Forward, NEW o \in Order,
         row'[o].filled = row[o].filled,
         row'[o].status = "FILLED" => row[o].status = "FILLED"
  PROVE  /\ row'[o].filled <= Quantity[o]
         /\ row'[o].filled <= traded'[o]
         /\ row'[o].status = "FILLED" => Quantity[o] <= traded'[o]
<1>1. row[o].filled \in Nat /\ traded[o] \in Nat /\ traded'[o] \in Nat /\ Quantity[o] \in Nat
  BY OrderAssumption DEF TypeOK, RowState
<1>2. traded[o] <= traded'[o]
  BY DEF Forward
<1> QED
  BY <1>1, <1>2 DEF RowsSound

\* RowsSound, when a step writes the status of one order only.
LEMMA StatusWritten ==
  ASSUME TypeOK, TypeOK', RowsSound, Forward, NEW o \in Order,
         \A p \in Order : p # o => row'[p] = row[p],
         row'[o].filled = row[o].filled,
         row'[o].status = "FILLED" => Quantity[o] <= traded'[o]
  PROVE  RowsSound'
<1>1. /\ row[o].filled <= Quantity[o] /\ row[o].filled <= traded[o]
      /\ traded[o] <= traded'[o]
  BY DEF RowsSound, Forward
<1>2. row[o].filled \in Nat /\ traded[o] \in Nat /\ traded'[o] \in Nat
  BY DEF TypeOK, RowState
<1>3. row'[o].filled <= traded'[o]
  BY <1>1, <1>2
<1> QED
  BY <1>1, <1>3, RowKept DEF RowsSound

\* RowsSound, for every step.
LEMMA RowsFollow ==
  ASSUME TypeOK, TypeOK', RowsFollowSubmissions, CancelsSound, RowsSound, RunsSound,
         Forward, Next
  PROVE  RowsSound'
<1>1. ASSUME row' = row
      PROVE  RowsSound'
  BY <1>1, RowKept DEF RowsSound
<1>2. ASSUME NEW o \in Order, SubmitCreate(o)
      PROVE  RowsSound'
  <2>1. \A p \in Order : p # o => row'[p] = row[p]
    BY <1>2 DEF SubmitCreate, TypeOK
  <2>2. row'[o] = row[o] \/ (row'[o].filled = 0 /\ row'[o].status = "PENDING_MATCH")
    BY <1>2 DEF SubmitCreate, TypeOK
  <2>3. 0 <= Quantity[o] /\ 0 <= traded'[o]
    BY OrderAssumption DEF TypeOK
  <2>4. /\ row'[o].filled <= Quantity[o]
        /\ row'[o].filled <= traded'[o]
        /\ row'[o].status = "FILLED" => Quantity[o] <= traded'[o]
    BY <2>2, <2>3, RowKept
  <2> QED
    BY <2>1, <2>4, RowKept DEF RowsSound
<1>3. ASSUME NEW o \in Order, Submit(o)
      PROVE  RowsSound'
  BY <1>1, <1>2, <1>3 DEF Submit, SubmitRefused, SubmitLock, SubmitCache, SubmitEnqueue,
                          SubmitFault
<1>4. ASSUME NEW c \in Canceller, CancelMark(c)
      PROVE  RowsSound'
  <2>1. can[c].order \in Order
    BY <1>4 DEF CancelMark, CancelsSound
  <2>2. /\ \A p \in Order : p # can[c].order => row'[p] = row[p]
        /\ row'[can[c].order].filled = row[can[c].order].filled
        /\ row'[can[c].order].status = "CANCELLED"
    BY <1>4, <2>1 DEF CancelMark, TypeOK, RowState
  <2> QED
    BY <2>1, <2>2, StatusWritten
<1>5. ASSUME NEW c \in Canceller, Cancel(c)
      PROVE  RowsSound'
  BY <1>1, <1>4, <1>5 DEF Cancel, CancelRead, CancelUnlock, CancelCache, CancelFault
<1>6. ASSUME NEW w \in Worker, CancelInactive(w) \/ OpenOrder(w)
      PROVE  RowsSound'
  <2> DEFINE o == run[w].job[1]
  <2>1. o \in Order
    BY <1>6, RunningOrder DEF CancelInactive, OpenOrder
  <2>2. CASE CancelInactive(w)
    <3>1. /\ \A p \in Order : p # o => row'[p] = row[p]
          /\ row'[o].filled = row[o].filled /\ row'[o].status = "CANCELLED"
      BY <2>1, <2>2 DEF CancelInactive, TypeOK, RowState
    <3> QED
      BY <2>1, <3>1, StatusWritten
  <2>3. CASE OpenOrder(w)
    <3>1. /\ \A p \in Order : p # o => row'[p] = row[p]
          /\ row'[o].filled = row[o].filled /\ row'[o].status = "OPEN"
      BY <2>1, <2>3 DEF OpenOrder, TypeOK, RowState
    <3> QED
      BY <2>1, <3>1, StatusWritten
  <2> QED
    BY <1>6, <2>2, <2>3
<1>7. ASSUME NEW w \in Worker, FinishMatching(w)
      PROVE  RowsSound'
  <2> DEFINE o == run[w].job[1]
  <2>1. o \in Order
    BY <1>7, RunningOrder DEF FinishMatching
  <2>2. Quantity[o] - run[w].remaining <= traded[o] /\ traded' = traded
    BY <1>7 DEF FinishMatching, RunsSound, RunSound, RemainingSound, book
  <2>3. CASE run[w].remaining = 0
    <3>1. row' = row \/ row' = [row EXCEPT ![o].status = "FILLED"]
      BY <1>7, <2>3 DEF FinishMatching
    <3>2. Quantity[o] <= traded'[o]
      BY <2>1, <2>2, <2>3, OrderAssumption
    <3>3. ASSUME row' = [row EXCEPT ![o].status = "FILLED"]
          PROVE  /\ \A p \in Order : p # o => row'[p] = row[p]
                 /\ row'[o].filled = row[o].filled
      BY <2>1, <3>3 DEF TypeOK, RowState
    <3> QED
      BY <1>1, <2>1, <3>1, <3>2, <3>3, StatusWritten
  <2>4. CASE run[w].remaining # 0
    <3>1. row' = row \/ row' = [row EXCEPT ![o].status = "PARTIAL"]
      BY <1>7, <2>4 DEF FinishMatching
    <3>2. ASSUME row' = [row EXCEPT ![o].status = "PARTIAL"]
          PROVE  /\ \A p \in Order : p # o => row'[p] = row[p]
                 /\ row'[o].filled = row[o].filled /\ row'[o].status = "PARTIAL"
      BY <2>1, <3>2 DEF TypeOK, RowState
    <3> QED
      BY <1>1, <2>1, <3>1, <3>2, StatusWritten
  <2> QED
    BY <2>3, <2>4
<1>8. ASSUME NEW w \in Worker, FillBuyer(w) \/ FillSeller(w)
      PROVE  RowsSound'
  <2> DEFINE t == trades[run[w].trade]
  <2>1. run[w].pc \in TradePc /\ traded' = traded
    BY <1>8 DEF FillBuyer, FillSeller, TradePc, book
  <2>2. PICK p \in {t.buyer, t.seller} : Fill(w, p)
    BY <1>8 DEF FillBuyer, FillSeller
  <2>3. /\ p \in Order /\ Filled(w, p) \in Nat
        /\ Filled(w, p) <= Quantity[p] /\ Filled(w, p) <= traded[p]
    BY <2>1, FilledSound
  <2>4. \A x \in Order : x # p => row'[x] = row[x]
    BY <2>2 DEF Fill, TypeOK
  <2> DEFINE st == IF Filled(w, p) = Quantity[p] THEN "FILLED" ELSE "PARTIAL"
  <2>5. row' = [row EXCEPT ![p] = [row[p] EXCEPT !.filled = Filled(w, p), !.status = st]]
    BY <2>2, <2>3 DEF Fill
  <2>6. st = "FILLED" => Filled(w, p) = Quantity[p]
    OBVIOUS
  <2> HIDE DEF st
  <2>7. row'[p].filled = Filled(w, p) /\ row'[p].status = st
    BY <2>3, <2>5 DEF TypeOK, RowState
  <2> QED
    BY <2>1, <2>3, <2>4, <2>6, <2>7, RowKept DEF RowsSound
<1>9. ASSUME NEW w \in Worker, Work(w)
      PROVE  RowsSound'
  BY <1>1, <1>6, <1>7, <1>8, <1>9 DEF Work, TakeJob, LoadOrder, FetchOpposing, NextOpposing, InsertTrade,
     ReadAvailable, ReadLocked, FillCache, WriteBalance, CacheBalance, EnqueueSettlement,
     TradeExecuted, ScheduleOpposing
<1>10. ASSUME NEW w \in Worker,
              InsertFault(w) \/ TradeFault(w) \/ AttemptFault(w) \/ Crash(w)
       PROVE  RowsSound'
  BY <1>1, <1>10 DEF InsertFault, TradeFault, AttemptFault, Crash
<1>11. CASE DeactivatePair
  BY <1>1, <1>11 DEF DeactivatePair
<1> QED
  BY <1>3, <1>5, <1>9, <1>10, <1>11 DEF Next

\* TradesSound, for the trades there were.
LEMMA OldTradesSound ==
  ASSUME TypeOK, TypeOK', TradesSound, Forward, NEW i \in 1..Len(trades)
  PROVE  LET t == trades'[i]
         IN  /\ Side[t.buyer] = "BUY" /\ Side[t.seller] = "SELL"
             /\ row'[t.buyer].status \notin {"none", "PENDING_MATCH"}
             /\ row'[t.seller].status \notin {"none", "PENDING_MATCH"}
             /\ Type[t.buyer] # "MARKET" => t.price <= Price[t.buyer]
             /\ Type[t.seller] # "MARKET" => t.price >= Price[t.seller]
<1> DEFINE t == trades[i]
<1>1. t.buyer \in Order /\ t.seller \in Order
  <2>1. t \in TradeState
    BY ElementOfSeq DEF TypeOK
  <2> QED
    BY <2>1 DEF TradeState
<1>2. /\ trades'[i].buyer = t.buyer /\ trades'[i].seller = t.seller
      /\ trades'[i].price = t.price
  BY DEF Forward
<1>3. /\ Side[t.buyer] = "BUY" /\ Side[t.seller] = "SELL"
      /\ row[t.buyer].status \notin {"none", "PENDING_MATCH"}
      /\ row[t.seller].status \notin {"none", "PENDING_MATCH"}
      /\ Type[t.buyer] # "MARKET" => t.price <= Price[t.buyer]
      /\ Type[t.seller] # "MARKET" => t.price >= Price[t.seller]
  BY DEF TradesSound
<1>4. /\ row'[t.buyer].status \in Past /\ row'[t.seller].status \in Past
  BY <1>1, <1>3, StatusIsPast DEF Forward
<1> HIDE DEF t
<1> QED
  BY <1>2, <1>3, <1>4 DEF Past

\* The trade a turn of the loop inserts, when it inserts one.
LEMMA TradeInserted ==
  ASSUME TypeOK, RunsSound, NEW w \in Worker, InsertTrade(w), trades' # trades
  PROVE  \E s \in run[w].todo :
           LET o == run[w].job[1]
               qty == Least(run[w].remaining, Quantity[s.order] - s.filled)
           IN  /\ o \in Order /\ s.order \in Order /\ s.filled \in Nat
               /\ SnapshotSound(o, s)
               /\ CanMatch(o, s.order) /\ Price[s.order] # 0
               /\ qty \in Nat /\ qty <= run[w].remaining
               /\ qty <= Quantity[s.order] - s.filled
               /\ trades' = Append(trades, TradeOf(o, s.order, qty))
               /\ Len(trades') = Len(trades) + 1
               /\ trades'[Len(trades) + 1] = TradeOf(o, s.order, qty)
               /\ \A i \in 1..Len(trades) : trades'[i] = trades[i]
               /\ traded' = [p \in Order |-> IF p \in {o, s.order}
                                THEN traded[p] + qty ELSE traded[p]]
               /\ run' = [run EXCEPT ![w] = [run[w] EXCEPT
                            !.pc = "available", !.leg = 1,
                            !.todo = @ \ {s}, !.makerFilled = s.filled,
                            !.trade = Len(trades) + 1]]
<1> DEFINE r == run[w]
           o == r.job[1]
<1>1. r.pc = "insert" /\ r \in RunState
  BY DEF InsertTrade, TypeOK
<1>2. o \in Order /\ r.todo \subseteq Snapshot
  BY <1>1, RunningOrder DEF RunState
<1>3. PICK s \in Best(r.todo) :
        LET qty == Least(r.remaining, Quantity[s.order] - s.filled)
        IN  /\ CanMatch(o, s.order) /\ Price[s.order] # 0 /\ qty # 0
            /\ trades' = Append(trades, TradeOf(o, s.order, qty))
            /\ traded' = [p \in Order |-> IF p \in {o, s.order}
                             THEN traded[p] + qty ELSE traded[p]]
            /\ run' = [run EXCEPT ![w] = [r EXCEPT
                         !.pc = "available", !.leg = 1,
                         !.todo = @ \ {s}, !.makerFilled = s.filled,
                         !.trade = Len(trades) + 1]]
  BY DEF InsertTrade
<1> DEFINE qty == Least(r.remaining, Quantity[s.order] - s.filled)
<1>4. s \in r.todo /\ s.order \in Order /\ s.filled \in Nat
  BY <1>2, <1>3, BestIsLeft DEF Snapshot
<1>5. SnapshotSound(o, s)
  BY <1>1, <1>4 DEF RunsSound, RunSound, ReadSound
<1>6. qty \in Nat /\ qty <= r.remaining /\ qty <= Quantity[s.order] - s.filled
  <2>1. s.filled <= Quantity[s.order]
    BY <1>5 DEF SnapshotSound
  <2>2. Quantity[s.order] - s.filled \in Nat
    BY <1>4, <2>1, OrderAssumption
  <2>3. r.remaining \in Nat
    BY <1>1 DEF RunState
  <2> QED
    BY <2>2, <2>3, MatchQuantity
<1>7. TradeOf(o, s.order, qty) \in TradeState
  BY <1>2, <1>4, <1>6, TradeOfType
<1>8. trades' = Append(trades, TradeOf(o, s.order, qty))
  BY <1>3
<1> HIDE DEF qty
<1>9. /\ Len(trades') = Len(trades) + 1
      /\ trades'[Len(trades) + 1] = TradeOf(o, s.order, qty)
      /\ \A i \in 1..Len(trades) : trades'[i] = trades[i]
  BY <1>7, <1>8, AppendProperties DEF TypeOK
<1> QED
  BY <1>2, <1>3, <1>4, <1>5, <1>6, <1>9 DEF qty

\* TradesSound, for a turn of the loop.
LEMMA MatchTrades ==
  ASSUME TypeOK, TypeOK', RunsSound, TradesSound, Forward, NEW w \in Worker, InsertTrade(w)
  PROVE  TradesSound'
<1>1. CASE trades' = trades
  BY <1>1, OldTradesSound DEF TradesSound
<1>2. CASE trades' # trades
  <2> DEFINE o == run[w].job[1]
  <2>1. PICK s \in run[w].todo :
          LET q == Least(run[w].remaining, Quantity[s.order] - s.filled)
          IN  /\ o \in Order /\ s.order \in Order
              /\ SnapshotSound(o, s)
              /\ CanMatch(o, s.order) /\ Price[s.order] # 0
              /\ Len(trades') = Len(trades) + 1
              /\ trades'[Len(trades) + 1] = TradeOf(o, s.order, q)
    BY <1>2, TradeInserted
  <2> DEFINE q == Least(run[w].remaining, Quantity[s.order] - s.filled)
  <2> DEFINE t == TradeOf(o, s.order, q)
  <2>2. row' = row /\ row[o].status \in Past
    <3>1. run[w].pc = "insert" /\ row' = row
      BY DEF InsertTrade
    <3> QED
      BY <2>1, <3>1, StatusIsPast DEF RunsSound, RunSound, ReadSound, MatchedPc
  <2>3. row[s.order].status \in Past /\ Side[s.order] # Side[o]
    BY <2>1, StatusIsPast DEF SnapshotSound
  <2>4. /\ Side[o] \in {"BUY", "SELL"} /\ Side[s.order] \in {"BUY", "SELL"}
        /\ Price[o] \in Nat /\ Price[s.order] \in Nat
    BY <2>1, OrderAssumption
  <2>5. t.price = Price[s.order]
        /\ t.buyer = (IF Side[o] = "BUY" THEN o ELSE s.order)
        /\ t.seller = (IF Side[o] = "SELL" THEN o ELSE s.order)
    BY DEF TradeOf
  <2> HIDE DEF t, o
  <2>6. /\ Side[t.buyer] = "BUY" /\ Side[t.seller] = "SELL"
        /\ row'[t.buyer].status \notin {"none", "PENDING_MATCH"}
        /\ row'[t.seller].status \notin {"none", "PENDING_MATCH"}
    BY <2>2, <2>3, <2>4, <2>5 DEF Past
  <2>7. /\ Type[t.buyer] # "MARKET" => t.price <= Price[t.buyer]
        /\ Type[t.seller] # "MARKET" => t.price >= Price[t.seller]
    BY <2>1, <2>3, <2>4, <2>5 DEF CanMatch
  <2>8. \A i \in 1..Len(trades') : i \in 1..Len(trades) \/ i = Len(trades) + 1
    <3>1. Len(trades) \in Nat
      BY LenProperties DEF TypeOK
    <3> QED
      BY <2>1, <3>1
  <2>9. trades'[Len(trades) + 1] = t
    BY <2>1 DEF t
  <2> QED
    BY <2>6, <2>7, <2>8, <2>9, OldTradesSound DEF TradesSound
<1> QED
  BY <1>1, <1>2

\* TradesSound, when the step inserts no trade.
LEMMA TradesKept ==
  ASSUME TypeOK, TypeOK', TradesSound, Forward, Len(trades') = Len(trades)
  PROVE  TradesSound'
BY OldTradesSound DEF TradesSound

-----------------------------------------------------------------------------
(* What the trades of an order take off its lock *)

\* Rounding down twice gives no more than rounding down once.
LEMMA QuotientsAdd ==
  ASSUME NEW x \in Nat, NEW y \in Nat, NEW n \in Nat \ {0}
  PROVE  /\ (x \div n) + (y \div n) <= (x + y) \div n
         /\ x <= y => x \div n <= y \div n
<1>1. \A a \in Nat : /\ a \div n \in Nat /\ a % n \in Nat /\ a % n < n
                     /\ a = n * (a \div n) + (a % n)
  OBVIOUS
<1>2. ASSUME NEW a \in Nat, NEW b \in Nat, NEW c \in Nat, c < n,
             n * a <= n * b + c
      PROVE  a <= b
  <2>1. SUFFICES ASSUME b + 1 <= a PROVE FALSE
    BY <1>2
  <2>2. n * (b + 1) <= n * a
    BY <2>1
  <2>3. n * (b + 1) = n * b + n /\ n * b \in Nat
    OBVIOUS
  <2>. QED  BY <1>2, <2>2, <2>3
<1>3. PICK a \in Nat, b \in Nat, c \in Nat, i \in Nat, j \in Nat, k \in Nat :
        /\ a = x \div n /\ b = y \div n /\ c = (x + y) \div n
        /\ i = x % n /\ j = y % n /\ k = (x + y) % n
  <2>1. /\ x \div n \in Nat /\ y \div n \in Nat
        /\ x % n \in Nat /\ y % n \in Nat
    BY <1>1
  <2>2. (x + y) \div n \in Nat /\ (x + y) % n \in Nat
    <3>1. x + y \in Nat
      OBVIOUS
    <3>. QED  BY <1>1, <3>1
  <2>. QED  BY <2>1, <2>2, Zenon
<1>4. /\ x = n * a + i /\ y = n * b + j /\ x + y = n * c + k
      /\ i < n /\ j < n /\ k < n
  BY <1>1, <1>3
<1>5. n * (a + b) = n * a + n * b /\ n * a \in Nat /\ n * b \in Nat /\ n * c \in Nat
  OBVIOUS
<1>6. n * (a + b) <= n * c + k
  BY <1>4, <1>5
<1>7. x <= y => n * a <= n * b + j
  BY <1>4, <1>5
<1>8. a + b <= c /\ (x <= y => a <= b)
  BY <1>2, <1>4, <1>6, <1>7
<1>. QED  BY <1>3, <1>8

\* A quote rounded for each of two trades is no more than one for both, and a
\* lower price gives no higher quote.
LEMMA QuotesAdd ==
  ASSUME NEW q \in Nat, NEW r \in Nat, NEW p \in Nat, NEW m \in Nat
  PROVE  /\ QuoteAmount(q, p) + QuoteAmount(r, p) <= QuoteAmount(q + r, p)
         /\ p <= m => QuoteAmount(q, p) <= QuoteAmount(q, m)
<1>1. /\ q * p \in Nat /\ r * p \in Nat /\ q * m \in Nat
      /\ (q + r) * p = q * p + r * p
  OBVIOUS
<1>2. p <= m => q * p <= q * m
  <2>1. SUFFICES ASSUME p <= m PROVE q * p <= q * m
    OBVIOUS
  <2>2. PICK d \in Nat : m = p + d
    <3>1. m - p \in Nat /\ m = p + (m - p)
      BY <2>1
    <3>. QED  BY <3>1
  <2>3. q * m = q * p + q * d /\ q * d \in Nat
    BY <2>2
  <2>. QED  BY <1>1, <2>3
<1>. QED  BY <1>1, <1>2, QuotientsAdd, NumberAssumption DEF QuoteAmount

\* So locks for two quantities come to no more than one for both, and more of
\* an order never locks less.
LEMMA LocksAdd ==
  ASSUME NEW o \in Order, NEW q \in Nat, NEW r \in Nat
  PROVE  /\ LockAmount(o, q) + LockAmount(o, r) <= LockAmount(o, q + r)
         /\ LockAmount(o, q) <= LockAmount(o, q + r)
<1>1. Price[o] \in Nat /\ q + r \in Nat
  BY OrderAssumption
<1>2. QuoteAmount(q, Price[o]) \in Nat /\ QuoteAmount(r, Price[o]) \in Nat
      /\ QuoteAmount(q + r, Price[o]) \in Nat
  BY <1>1, AmountsAreNatural
<1>3. QuoteAmount(q, Price[o]) + QuoteAmount(r, Price[o])
        <= QuoteAmount(q + r, Price[o])
  BY <1>1, QuotesAdd
<1>. QED  BY <1>2, <1>3 DEF LockAmount

\* TakenOff(o) for any sequence of trades.
LockLeg(o) == IF Side[o] = "BUY" THEN 3 ELSE 1
Took(o, ts) == [i \in 1..Len(ts) |-> -Leg(LockLeg(o), ts[i]).locked]
TradesOf(o, ts) == {i \in 1..Len(ts) : o \in {ts[i].buyer, ts[i].seller}}
TakenFrom(o, ts) == SumFunctionOnSet(Took(o, ts), TradesOf(o, ts))

\* What one trade takes off the lock of an order in it.
LEMMA TookOne ==
  ASSUME NEW o \in Order, NEW ts \in Seq(TradeState), NEW i \in 1..Len(ts)
  PROVE  /\ Took(o, ts)[i] \in Int
         /\ Took(o, ts)[i] = IF Side[o] = "BUY"
                             THEN QuoteAmount(ts[i].quantity, ts[i].price)
                             ELSE ts[i].quantity
<1>1. ts[i] \in TradeState
  BY ElementOfSeq
<1>2. ts[i].quantity \in Nat /\ ts[i].price \in Nat
  BY <1>1 DEF TradeState
<1>3. QuoteAmount(ts[i].quantity, ts[i].price) \in Nat
  BY <1>2, AmountsAreNatural
<1>4. /\ Leg(1, ts[i]).locked = -ts[i].quantity
      /\ Leg(3, ts[i]).locked = -QuoteAmount(ts[i].quantity, ts[i].price)
  BY DEF Leg
<1>5. Took(o, ts)[i] = -Leg(LockLeg(o), ts[i]).locked
  BY DEF Took
<1>6. CASE Side[o] = "BUY"
  <2>1. Took(o, ts)[i] = -(-QuoteAmount(ts[i].quantity, ts[i].price))
    BY <1>4, <1>5, <1>6 DEF LockLeg
  <2>. QED  BY <1>3, <1>6, <2>1
<1>7. CASE Side[o] # "BUY"
  <2>1. Took(o, ts)[i] = -(-ts[i].quantity)
    BY <1>4, <1>5, <1>7 DEF LockLeg
  <2>. QED  BY <1>2, <1>7, <2>1
<1>. QED  BY <1>6, <1>7

\* The trades of an order are finitely many, and their sum is an integer.
LEMMA TakenType ==
  ASSUME NEW o \in Order, NEW ts \in Seq(TradeState)
  PROVE  /\ IsFiniteSet(TradesOf(o, ts)) /\ TradesOf(o, ts) \subseteq 1..Len(ts)
         /\ TakenFrom(o, ts) \in Int
<1>1. Len(ts) \in Nat /\ TradesOf(o, ts) \subseteq 1..Len(ts)
  BY LenProperties DEF TradesOf
<1>2. IsFiniteSet(TradesOf(o, ts))
  <2>1. IsFiniteSet(1..Len(ts))
    BY <1>1, FS_Interval
  <2>. QED  BY <1>1, <2>1, FS_Subset
<1>3. \A i \in TradesOf(o, ts) : Took(o, ts)[i] \in Int
  BY <1>1, TookOne
<1>. QED  BY <1>1, <1>2, <1>3, SumType DEF TakenFrom

\* Trades that keep their orders, prices and quantities take the same off.
LEMMA TakenFromSame ==
  ASSUME NEW o \in Order, NEW ts \in Seq(TradeState), NEW us \in Seq(TradeState),
         Len(us) = Len(ts),
         \A i \in 1..Len(ts) :
           /\ us[i].buyer = ts[i].buyer /\ us[i].seller = ts[i].seller
           /\ us[i].price = ts[i].price /\ us[i].quantity = ts[i].quantity
  PROVE  TakenFrom(o, us) = TakenFrom(o, ts)
<1>1. TradesOf(o, us) = TradesOf(o, ts)
  BY DEF TradesOf
<1>2. IsFiniteSet(TradesOf(o, ts)) /\ TradesOf(o, ts) \subseteq 1..Len(ts)
  BY TakenType
<1>3. \A i \in TradesOf(o, ts) :
        Took(o, ts)[i] \in Int /\ Took(o, us)[i] = Took(o, ts)[i]
  BY <1>2, TookOne
<1>. QED  BY <1>1, <1>2, <1>3, SumOfSame DEF TakenFrom

\* One more trade takes its own amount off the locks of its two orders.
LEMMA TakenFromMore ==
  ASSUME NEW o \in Order, NEW ts \in Seq(TradeState), NEW us \in Seq(TradeState),
         Len(us) = Len(ts) + 1, \A i \in 1..Len(ts) : us[i] = ts[i]
  PROVE  LET n == Len(ts) + 1
         IN  TakenFrom(o, us) =
               IF o \in {us[n].buyer, us[n].seller}
               THEN Took(o, us)[n] + TakenFrom(o, ts) ELSE TakenFrom(o, ts)
<1> DEFINE n == Len(ts) + 1
<1>1. n \in 1..Len(us) /\ 1..Len(us) = 1..Len(ts) \cup {n} /\ n \notin 1..Len(ts)
  BY LenProperties
<1>2. /\ IsFiniteSet(TradesOf(o, ts)) /\ TradesOf(o, ts) \subseteq 1..Len(ts)
      /\ IsFiniteSet(TradesOf(o, us)) /\ TradesOf(o, us) \subseteq 1..Len(us)
  BY TakenType
<1>3. TradesOf(o, us) \ {n} = TradesOf(o, ts)
      /\ (n \in TradesOf(o, us) <=> o \in {us[n].buyer, us[n].seller})
  BY <1>1 DEF TradesOf
<1>4. \A i \in TradesOf(o, us) : Took(o, us)[i] \in Int
  BY <1>2, TookOne
<1>5. \A i \in TradesOf(o, ts) :
        Took(o, ts)[i] \in Int /\ Took(o, us)[i] = Took(o, ts)[i]
  BY <1>1, <1>2, TookOne
<1>6. SumFunctionOnSet(Took(o, us), TradesOf(o, ts)) = TakenFrom(o, ts)
  BY <1>2, <1>5, SumOfSame DEF TakenFrom
<1>7. n \in TradesOf(o, us) =>
        TakenFrom(o, us) = Took(o, us)[n] + TakenFrom(o, ts)
  <2> HIDE DEF n
  <2>1. SUFFICES ASSUME n \in TradesOf(o, us)
                 PROVE  TakenFrom(o, us) = Took(o, us)[n] + TakenFrom(o, ts)
    OBVIOUS
  <2>2. TakenFrom(o, us) = Took(o, us)[n]
          + SumFunctionOnSet(Took(o, us), TradesOf(o, us) \ {n})
    BY <1>2, <1>4, <2>1, SumWithout DEF TakenFrom
  <2>. QED  BY <1>3, <1>6, <2>2
<1>8. n \notin TradesOf(o, us) => TakenFrom(o, us) = TakenFrom(o, ts)
  <2>1. n \notin TradesOf(o, us) => TradesOf(o, us) = TradesOf(o, ts)
    BY <1>3
  <2>. QED  BY <1>6, <2>1 DEF TakenFrom
<1>. QED  BY <1>3, <1>7, <1>8

\* Before and after a step.
LEMMA TakenOffFrom ==
  ASSUME NEW o \in Order
  PROVE  TakenOff(o) = TakenFrom(o, trades) /\ TakenOff(o)' = TakenFrom(o, trades')
BY DEF TakenOff, TakenFrom, Took, TradesOf, LockLeg

\* A step that inserts no trade keeps the locks sufficient.
LEMMA LocksKept ==
  ASSUME TypeOK, TypeOK', Forward, LocksCover, Len(trades') = Len(trades)
  PROVE  LocksCover'
<1> SUFFICES ASSUME NEW o \in Order, Limited(o)
             PROVE  TakenOff(o)' <= LockAmount(o, traded'[o])
  BY DEF LocksCover, Limited
<1>1. trades \in Seq(TradeState) /\ trades' \in Seq(TradeState)
  BY DEF TypeOK
<1>2. TakenFrom(o, trades') = TakenFrom(o, trades)
  BY <1>1, TakenFromSame DEF Forward
<1>3. traded[o] \in Nat /\ traded'[o] \in Nat /\ traded[o] <= traded'[o]
  BY DEF TypeOK, Forward
<1>4. PICK d \in Nat : traded'[o] = traded[o] + d
  <2>1. traded'[o] - traded[o] \in Nat
        /\ traded'[o] = traded[o] + (traded'[o] - traded[o])
    BY <1>3
  <2>. QED  BY <2>1
<1>5. LockAmount(o, traded[o]) <= LockAmount(o, traded'[o])
  BY <1>3, <1>4, LocksAdd
<1>6. TakenFrom(o, trades) <= LockAmount(o, traded[o])
  BY TakenOffFrom DEF LocksCover
<1>7. /\ LockAmount(o, traded[o]) \in Nat /\ LockAmount(o, traded'[o]) \in Nat
      /\ TakenFrom(o, trades) \in Int
  BY <1>1, <1>3, LockIsNatural, TakenType
<1>. QED  BY <1>2, <1>5, <1>6, <1>7, TakenOffFrom

\* A trade takes no more off a lock than what the order locked for its quantity:
\* its price is within the limit of the buyer.
LEMMA TradeCovered ==
  ASSUME NEW ts \in Seq(TradeState), NEW i \in 1..Len(ts), NEW o \in Order,
         Limited(o), o \in {ts[i].buyer, ts[i].seller},
         Side[ts[i].buyer] = "BUY", Side[ts[i].seller] = "SELL",
         Type[ts[i].buyer] # "MARKET" => ts[i].price <= Price[ts[i].buyer]
  PROVE  Took(o, ts)[i] <= LockAmount(o, ts[i].quantity)
<1> DEFINE t == ts[i]
<1>1. t \in TradeState
  BY ElementOfSeq
<1>2. /\ t.price \in Nat /\ t.quantity \in Nat
      /\ Price[o] \in Nat /\ Side[o] \in {"BUY", "SELL"}
  BY <1>1, OrderAssumption DEF TradeState
<1>3. CASE Side[o] = "BUY"
  <2>1. o = t.buyer /\ t.price <= Price[o]
    BY <1>3 DEF Limited
  <2>2. QuoteAmount(t.quantity, t.price) <= QuoteAmount(t.quantity, Price[o])
    BY <1>2, <2>1, QuotesAdd
  <2>. QED  BY <1>3, <2>2, TookOne DEF LockAmount
<1>4. CASE Side[o] = "SELL"
  <2>1. Took(o, ts)[i] = t.quantity /\ LockAmount(o, t.quantity) = t.quantity
    BY <1>4, TookOne DEF LockAmount
  <2>. QED  BY <1>2, <2>1
<1>. QED  BY <1>2, <1>3, <1>4

\* So does a turn of the loop, which counts the quantity of its trade for both
\* orders of it.
LEMMA LocksMatched ==
  ASSUME TypeOK, TypeOK', RunsSound, TradesSound', Forward, LocksCover,
         NEW w \in Worker, InsertTrade(w)
  PROVE  LocksCover'
<1>1. CASE trades' = trades
  BY <1>1, LocksKept
<1>2. CASE trades' # trades
  <2> DEFINE n == Len(trades) + 1
  <2>1. PICK s \in run[w].todo, q \in Nat :
          /\ run[w].job[1] \in Order /\ s.order \in Order
          /\ Len(trades') = n
          /\ trades'[n] = TradeOf(run[w].job[1], s.order, q)
          /\ \A i \in 1..Len(trades) : trades'[i] = trades[i]
          /\ traded' = [p \in Order |-> IF p \in {run[w].job[1], s.order}
                           THEN traded[p] + q ELSE traded[p]]
    <3>1. PICK s \in run[w].todo :
            LET qty == Least(run[w].remaining, Quantity[s.order] - s.filled)
            IN  /\ run[w].job[1] \in Order /\ s.order \in Order /\ qty \in Nat
                /\ Len(trades') = n
                /\ trades'[n] = TradeOf(run[w].job[1], s.order, qty)
                /\ \A i \in 1..Len(trades) : trades'[i] = trades[i]
                /\ traded' = [p \in Order |-> IF p \in {run[w].job[1], s.order}
                                 THEN traded[p] + qty ELSE traded[p]]
      BY <1>2, TradeInserted
    <3>2. PICK q \in Nat :
            q = Least(run[w].remaining, Quantity[s.order] - s.filled)
      BY <3>1
    <3>. QED  BY <3>1, <3>2
  <2> SUFFICES ASSUME NEW o \in Order, Limited(o)
               PROVE  TakenOff(o)' <= LockAmount(o, traded'[o])
    BY DEF LocksCover, Limited
  <2>2. trades \in Seq(TradeState) /\ trades' \in Seq(TradeState)
        /\ traded[o] \in Nat
    BY DEF TypeOK
  <2>3. n \in 1..Len(trades')
    BY <2>1, <2>2, LenProperties
  <2>4. /\ trades'[n].quantity = q
        /\ o \in {trades'[n].buyer, trades'[n].seller}
             => o \in {run[w].job[1], s.order}
    BY <2>1 DEF TradeOf
  <2>5. o \in {trades'[n].buyer, trades'[n].seller} =>
          Took(o, trades')[n] <= LockAmount(o, q) /\ Took(o, trades')[n] \in Int
    <3>1. /\ Side[trades'[n].buyer] = "BUY" /\ Side[trades'[n].seller] = "SELL"
          /\ Type[trades'[n].buyer] # "MARKET"
               => trades'[n].price <= Price[trades'[n].buyer]
      BY <2>3 DEF TradesSound
    <3>. QED  BY <2>2, <2>3, <2>4, <3>1, TradeCovered, TookOne
  <2>6. TakenFrom(o, trades) <= LockAmount(o, traded[o])
    BY TakenOffFrom DEF LocksCover
  <2>7. /\ LockAmount(o, traded[o]) \in Nat /\ LockAmount(o, q) \in Nat
        /\ LockAmount(o, traded[o] + q) \in Nat /\ TakenFrom(o, trades) \in Int
        /\ LockAmount(o, traded[o]) + LockAmount(o, q) <= LockAmount(o, traded[o] + q)
        /\ LockAmount(o, traded[o]) <= LockAmount(o, traded[o] + q)
    <3>1. traded[o] + q \in Nat
      BY <2>2
    <3>. QED  BY <2>2, <3>1, LockIsNatural, LocksAdd, TakenType
  <2>8. TakenFrom(o, trades') = IF o \in {trades'[n].buyer, trades'[n].seller}
                                THEN Took(o, trades')[n] + TakenFrom(o, trades)
                                ELSE TakenFrom(o, trades)
    BY <2>1, <2>2, TakenFromMore
  <2>9. traded'[o] = IF o \in {run[w].job[1], s.order}
                     THEN traded[o] + q ELSE traded[o]
    BY <2>1
  <2> HIDE DEF n
  <2>10. CASE o \in {trades'[n].buyer, trades'[n].seller}
    <3>1. TakenOff(o)' = Took(o, trades')[n] + TakenFrom(o, trades)
      BY <2>8, <2>10, TakenOffFrom
    <3>2. traded'[o] = traded[o] + q
      BY <2>4, <2>9, <2>10
    <3>. QED  BY <2>5, <2>6, <2>7, <2>10, <3>1, <3>2
  <2>11. CASE o \notin {trades'[n].buyer, trades'[n].seller}
    <3>1. TakenOff(o)' = TakenFrom(o, trades)
      BY <2>8, <2>11, TakenOffFrom
    <3>2. traded'[o] \in {traded[o], traded[o] + q}
      BY <2>9
    <3>. QED  BY <2>6, <2>7, <3>1, <3>2
  <2>. QED  BY <2>10, <2>11
<1>. QED  BY <1>1, <1>2

-----------------------------------------------------------------------------
(* What the balance updates of trades made of a balance *)

\* Flow, for any sequence of trades ts.
Updates(ts) == (1..Len(ts)) \X (1..4)
Change(ts, x) == Leg(x[2], ts[x[1]])
Net(ts) ==
  [x \in Updates(ts) |-> Change(ts, x).available + Change(ts, x).locked]
Made(u, t, ts) ==
  {x \in Updates(ts) :
     /\ x[2] <= ts[x[1]].legs
     /\ Change(ts, x).user = u /\ Change(ts, x).token = t}
FlowOf(u, t, ts) == SumFunctionOnSet(Net(ts), Made(u, t, ts))

\* Before and after a step.
LEMMA FlowIsFlowOf ==
  ASSUME NEW u \in User, NEW t \in Token
  PROVE  Flow(u, t) = FlowOf(u, t, trades) /\ Flow(u, t)' = FlowOf(u, t, trades')
BY DEF Flow, FlowOf, Net, Made, Updates, Change

\* The updates of trades are finitely many, and each changes a balance by an
\* integer.
LEMMA NetType ==
  ASSUME NEW ts \in Seq(TradeState)
  PROVE  /\ IsFiniteSet(Updates(ts))
         /\ \A x \in Updates(ts) :
              /\ x[1] \in 1..Len(ts) /\ x[2] \in 1..4
              /\ ts[x[1]] \in TradeState
              /\ Net(ts)[x] \in Int
<1>1. IsFiniteSet(Updates(ts))
  <2>1. IsFiniteSet(1..Len(ts)) /\ IsFiniteSet(1..4)
    <3>1. Len(ts) \in Int /\ 1 \in Int /\ 4 \in Int
      BY LenProperties
    <3>. QED  BY <3>1, FS_Interval
  <2>. QED  BY <2>1, FS_Product DEF Updates
<1>2. ASSUME NEW x \in Updates(ts)
      PROVE  /\ x[1] \in 1..Len(ts) /\ x[2] \in 1..4
             /\ ts[x[1]] \in TradeState
             /\ Net(ts)[x] \in Int
  <2>1. x[1] \in 1..Len(ts) /\ x[2] \in 1..4
    BY DEF Updates
  <2>2. ts[x[1]] \in TradeState
    BY <2>1, ElementOfSeq
  <2>3. Change(ts, x).available \in Int /\ Change(ts, x).locked \in Int
    BY <2>1, <2>2, LegType DEF Change
  <2>. QED  BY <2>1, <2>2, <2>3 DEF Net
<1>. QED  BY <1>1, <1>2

\* The updates made to one balance are finitely many, and so is their sum.
LEMMA FlowType ==
  ASSUME NEW u, NEW t, NEW ts \in Seq(TradeState)
  PROVE  /\ IsFiniteSet(Made(u, t, ts)) /\ Made(u, t, ts) \subseteq Updates(ts)
         /\ FlowOf(u, t, ts) \in Int
<1>1. Made(u, t, ts) \subseteq Updates(ts)
  BY DEF Made
<1>2. IsFiniteSet(Made(u, t, ts))
  BY <1>1, NetType, FS_Subset
<1>3. \A x \in Made(u, t, ts) : Net(ts)[x] \in Int
  BY <1>1, NetType
<1>. QED  BY <1>1, <1>2, <1>3, SumType DEF FlowOf

\* Any of them can be taken off their sum.
LEMMA FlowWithout ==
  ASSUME NEW u, NEW t, NEW ts \in Seq(TradeState), NEW x \in Made(u, t, ts)
  PROVE  FlowOf(u, t, ts)
           = Net(ts)[x] + SumFunctionOnSet(Net(ts), Made(u, t, ts) \ {x})
<1>1. /\ IsFiniteSet(Made(u, t, ts))
      /\ \A y \in Made(u, t, ts) : Net(ts)[y] \in Int
  BY FlowType, NetType
<1>. QED  BY <1>1, SumWithout DEF FlowOf

\* The updates of a trade do not depend on how many of them were made.
LEMMA LegSame ==
  ASSUME NEW a, NEW b, NEW i,
         a.buyer = b.buyer, a.seller = b.seller,
         a.price = b.price, a.quantity = b.quantity
  PROVE  Leg(i, a) = Leg(i, b)
BY DEF Leg

\* New trades, of which no update was made yet, change no balance.
LEMMA FlowSame ==
  ASSUME NEW u, NEW t, NEW ts \in Seq(TradeState), NEW us \in Seq(TradeState),
         Len(ts) <= Len(us), \A i \in 1..Len(ts) : us[i] = ts[i],
         \A i \in 1..Len(us) : i \in 1..Len(ts) \/ us[i].legs = 0
  PROVE  FlowOf(u, t, us) = FlowOf(u, t, ts)
<1>1. Updates(ts) \subseteq Updates(us)
  <2>1. 1..Len(ts) \subseteq 1..Len(us)
    BY LenProperties
  <2>. QED  BY <2>1 DEF Updates
<1>2. \A x \in Updates(ts) :
        us[x[1]] = ts[x[1]] /\ Change(us, x) = Change(ts, x)
  BY NetType DEF Change
<1>3. ASSUME NEW x \in Updates(us), x[2] <= us[x[1]].legs
      PROVE  x \in Updates(ts)
  <2>1. x[1] \in 1..Len(us) /\ x[2] \in 1..4
    BY NetType
  <2>2. us[x[1]].legs # 0
    BY <1>3, <2>1
  <2>3. x[1] \in 1..Len(ts)
    BY <2>1, <2>2
  <2>. QED  BY <2>1, <2>3 DEF Updates
<1>4. Made(u, t, us) = Made(u, t, ts)
  BY <1>1, <1>2, <1>3 DEF Made
<1>5. /\ IsFiniteSet(Made(u, t, ts)) /\ Made(u, t, ts) \subseteq Updates(ts)
  BY FlowType
<1>6. \A x \in Made(u, t, ts) : Net(ts)[x] \in Int /\ Net(us)[x] = Net(ts)[x]
  <2>1. \A x \in Updates(ts) : Net(us)[x] = Net(ts)[x]
    BY <1>1, <1>2 DEF Net
  <2>. QED  BY <1>5, <2>1, NetType
<1>. QED  BY <1>4, <1>5, <1>6, SumOfSame DEF FlowOf

\* Between the trades ts and us, update k of trade n was made, and no other.
OneMore(ts, us, n, k) ==
  /\ n \in 1..Len(ts) /\ k \in 1..4 /\ Len(us) = Len(ts)
  /\ ts[n].legs = k - 1 /\ us[n].legs = k
  /\ \A i \in 1..Len(ts) :
       /\ us[i].buyer = ts[i].buyer /\ us[i].seller = ts[i].seller
       /\ us[i].price = ts[i].price /\ us[i].quantity = ts[i].quantity
       /\ i # n => us[i].legs = ts[i].legs

\* It adds to the balance it names, and to no other.
LEMMA FlowMore ==
  ASSUME NEW u, NEW t, NEW ts \in Seq(TradeState), NEW us \in Seq(TradeState),
         NEW n, NEW k, OneMore(ts, us, n, k)
  PROVE  LET leg == Leg(k, ts[n])
         IN  FlowOf(u, t, us) =
               IF leg.user = u /\ leg.token = t
               THEN FlowOf(u, t, ts) + (leg.available + leg.locked)
               ELSE FlowOf(u, t, ts)
<1> DEFINE last == <<n, k>>
           leg == Leg(k, ts[n])
<1> USE DEF OneMore
<1>1. Updates(us) = Updates(ts) /\ last \in Updates(ts)
  BY DEF Updates
<1>2. \A x \in Updates(ts) : Change(us, x) = Change(ts, x)
  BY NetType, LegSame DEF Change
<1>3. Change(ts, last) = leg
  BY DEF Change
<1>4. ASSUME NEW x \in Updates(ts), x # last
      PROVE  x[2] <= us[x[1]].legs <=> x[2] <= ts[x[1]].legs
  <2>1. /\ x[1] \in 1..Len(ts) /\ x[2] \in 1..4 /\ x = <<x[1], x[2]>>
    BY NetType DEF Updates
  <2>2. CASE x[1] # n
    BY <2>1, <2>2
  <2>3. CASE x[1] = n
    <3>1. x[2] # k
      BY <1>4, <2>1, <2>3
    <3>2. x[2] <= k <=> x[2] <= k - 1
      BY <2>1, <3>1
    <3>. QED  BY <2>3, <3>2
  <2>. QED  BY <2>2, <2>3
<1>5. last[2] <= us[last[1]].legs /\ ~(last[2] <= ts[last[1]].legs)
  OBVIOUS
<1>6. Net(us) = Net(ts) /\ Net(ts)[last] = leg.available + leg.locked
  BY <1>1, <1>2, <1>3 DEF Net
<1> HIDE DEF last, leg
<1>7. last \notin Made(u, t, ts)
  BY <1>5 DEF Made
<1>8. Made(u, t, us) \ {last} = Made(u, t, ts)
  <2>1. \A x \in Updates(ts) \ {last} :
          x \in Made(u, t, us) <=> x \in Made(u, t, ts)
    BY <1>1, <1>2, <1>4 DEF Made
  <2>2. Made(u, t, us) \subseteq Updates(ts) /\ Made(u, t, ts) \subseteq Updates(ts)
    BY <1>1 DEF Made
  <2>. QED  BY <1>7, <2>1, <2>2
<1>9. last \in Made(u, t, us) <=> leg.user = u /\ leg.token = t
  BY <1>1, <1>2, <1>3, <1>5 DEF Made
<1>10. CASE leg.user = u /\ leg.token = t
  <2>1. FlowOf(u, t, us)
          = Net(us)[last] + SumFunctionOnSet(Net(us), Made(u, t, us) \ {last})
    BY <1>9, <1>10, FlowWithout
  <2>2. FlowOf(u, t, us) = (leg.available + leg.locked) + FlowOf(u, t, ts)
    BY <1>6, <1>8, <2>1 DEF FlowOf
  <2>3. FlowOf(u, t, ts) \in Int /\ leg.available + leg.locked \in Int
    BY <1>1, <1>6, FlowType, NetType
  <2>4. FlowOf(u, t, us) = FlowOf(u, t, ts) + (leg.available + leg.locked)
    BY <2>2, <2>3
  <2>. QED  BY <1>10, <2>4 DEF leg
<1>11. CASE ~(leg.user = u /\ leg.token = t)
  <2>1. Made(u, t, us) = Made(u, t, ts)
    BY <1>8, <1>9, <1>11
  <2>2. FlowOf(u, t, us) = FlowOf(u, t, ts)
    BY <1>6, <2>1 DEF FlowOf
  <2>. QED  BY <1>11, <2>2 DEF leg
<1>. QED  BY <1>10, <1>11

-----------------------------------------------------------------------------
(* The parts of the invariant about executions *)

\* What an execution knows stays sound while it keeps what it remembers.
LEMMA KnowledgeKept ==
  ASSUME TypeOK, TypeOK', RunsSound, Forward, NEW w \in Worker,
         run[w].pc # "idle",
         run'[w].job = run[w].job, run'[w].filled = run[w].filled,
         run'[w].todo \subseteq run[w].todo,
         run'[w].pc \in MatchedPc => run[w].pc \in MatchedPc
  PROVE  ReadSound(w)'
<1> DEFINE r == run[w]
           o == r.job[1]
<1>1. r.job \in Job /\ o \in Order
  BY RunningOrder
<1>2. /\ row[o].status # "none" /\ r.filled <= Quantity[o] /\ r.filled <= traded[o]
      /\ r.pc \in MatchedPc => row[o].status # "PENDING_MATCH"
      /\ \A s \in r.todo : SnapshotSound(o, s)
  BY DEF RunsSound, RunSound, ReadSound
<1>3. r.filled \in Nat /\ traded[o] \in Nat /\ traded'[o] \in Nat /\ traded[o] <= traded'[o]
  BY <1>1 DEF TypeOK, RunState, Forward
<1>4. r.pc \in MatchedPc => row'[o].status \in Past
  BY <1>1, <1>2, StatusIsPast DEF Forward
<1>5. ASSUME NEW s \in run'[w].todo
      PROVE  SnapshotSound(run[w].job[1], s)'
  <2>1. s \in r.todo /\ s.order \in Order /\ s.filled \in Nat
    BY DEF TypeOK, RunState, Snapshot
  <2>2. SnapshotSound(o, s)
    BY <1>2, <2>1
  <2>3. /\ traded[s.order] \in Nat /\ traded'[s.order] \in Nat
        /\ traded[s.order] <= traded'[s.order]
    BY <2>1 DEF TypeOK, Forward
  <2>4. row'[s.order].status \in Past
    BY <2>1, <2>2, StatusIsPast DEF SnapshotSound, Forward
  <2>5. s.filled <= traded'[s.order]
    BY <2>1, <2>2, <2>3 DEF SnapshotSound
  <2>6. /\ Side[s.order] # Side[run[w].job[1]] /\ s.filled <= Quantity[s.order]
    BY <2>2 DEF SnapshotSound
  <2> QED
    BY <2>4, <2>5, <2>6 DEF SnapshotSound, Past
<1>6. row'[o].status # "none" /\ r.filled <= traded'[o]
  BY <1>1, <1>2, <1>3 DEF Forward
<1>7. (\A s \in run[w].todo : SnapshotSound(run[w].job[1], s))'
  BY <1>5
<1> QED
  BY <1>1, <1>2, <1>4, <1>6, <1>7 DEF ReadSound, Past

\* RemainingSound stays while the execution keeps what is left to match.
LEMMA RemainingKept ==
  ASSUME TypeOK, TypeOK', RunsSound, Forward, NEW w \in Worker,
         run[w].pc \in TradePc \cup {"match", "insert", "schedule"},
         run'[w].job = run[w].job, run'[w].filled = run[w].filled,
         run'[w].remaining = run[w].remaining
  PROVE  RemainingSound(w)'
<1> DEFINE r == run[w]
           o == r.job[1]
<1>1. o \in Order
  BY RunningOrder DEF TradePc
<1>2. /\ r.remaining <= Quantity[o] - r.filled
      /\ Quantity[o] - r.remaining <= traded[o]
  BY DEF RunsSound, RunSound, RemainingSound
<1>3. /\ traded[o] \in Nat /\ traded'[o] \in Nat /\ traded[o] <= traded'[o]
      /\ Quantity[o] \in Nat /\ r.remaining \in Nat
  BY <1>1, OrderAssumption DEF TypeOK, RunState, Forward
<1>4. Quantity[o] - r.remaining <= traded'[o]
  BY <1>2, <1>3
<1> QED
  BY <1>2, <1>4 DEF RemainingSound

\* ExecutionSound stays while the execution keeps its trade.
LEMMA ExecutionKept ==
  ASSUME TypeOK, TypeOK', RunsSound, Forward, NEW w \in Worker,
         run[w].pc \in TradePc, run'[w].pc \in TradePc,
         run'[w].job = run[w].job, run'[w].filled = run[w].filled,
         run'[w].remaining = run[w].remaining,
         run'[w].makerFilled = run[w].makerFilled,
         run'[w].trade = run[w].trade
  PROVE  ExecutionSound(w)'
<1> DEFINE r == run[w]
           o == r.job[1]
           t == trades[r.trade]
           p == Maker(o, t)
<1>1. /\ r.trade \in 1..Len(trades) /\ t \in TradeState
      /\ TradeInProgressSound(r, t)
  BY RunningTrade
<1>2. o \in Order /\ p \in Order /\ t.quantity \in Nat
  BY <1>1, RunningOrder DEF TradePc, Maker, TradeState
<1>3. /\ r.trade \in 1..Len(trades')
      /\ trades'[r.trade].buyer = t.buyer /\ trades'[r.trade].seller = t.seller
      /\ trades'[r.trade].quantity = t.quantity
  BY <1>1 DEF Forward
<1>4. /\ traded[o] \in Nat /\ traded'[o] \in Nat /\ traded[o] <= traded'[o]
      /\ traded[p] \in Nat /\ traded'[p] \in Nat /\ traded[p] <= traded'[p]
      /\ r.filled \in Nat /\ r.makerFilled \in Nat /\ r.remaining \in Nat
      /\ Quantity[o] \in Nat
  BY <1>2, OrderAssumption DEF TypeOK, RunState, Forward
<1>5. /\ o = Taker(o, t) /\ t.quantity <= r.remaining
      /\ r.filled + t.quantity <= traded[o]
      /\ Quantity[o] - r.remaining + t.quantity <= traded[o]
      /\ r.makerFilled + t.quantity <= traded[p]
      /\ r.makerFilled + t.quantity <= Quantity[p]
  BY <1>1 DEF TradeInProgressSound
<1>6. /\ r.filled + t.quantity <= traded'[o]
      /\ Quantity[o] - r.remaining + t.quantity <= traded'[o]
      /\ r.makerFilled + t.quantity <= traded'[p]
  BY <1>2, <1>4, <1>5
<1>7. Taker(o, trades'[r.trade]) = Taker(o, t) /\ Maker(o, trades'[r.trade]) = p
  BY <1>3 DEF Taker, Maker
<1> HIDE DEF t, p
<1>8. TradeInProgressSound(run[w], trades[run[w].trade])'
  BY <1>3, <1>5, <1>6, <1>7 DEF TradeInProgressSound, Taker, Maker
<1> QED
  BY <1>3, <1>8 DEF ExecutionSound

\* An execution that is idle is sound.
LEMMA IdleSound ==
  ASSUME NEW w \in Worker, run'[w] = IdleRun
  PROVE  RunSound(w)'
BY DEF RunSound, ReadSound, RemainingSound, ExecutionSound, LegSound, IdleRun,
       TradePc, MatchedPc

\* An execution the step does not touch stays sound, unless the step writes a
\* balance for its trade.
LEMMA OtherRunKept ==
  ASSUME TypeOK, TypeOK', RunsSound, Forward, NEW w \in Worker, run'[w] = run[w],
         run[w].pc \in TradePc =>
           trades'[run[w].trade].legs = trades[run[w].trade].legs
  PROVE  RunSound(w)'
<1>1. run[w].pc # "idle" => ReadSound(w)'
  BY KnowledgeKept
<1>2. run[w].pc = "idle" => ReadSound(w)'
  BY DEF ReadSound
<1>3. RemainingSound(w)'
  <2>1. CASE run[w].pc \in TradePc \cup {"match", "insert", "schedule"}
    BY <2>1, RemainingKept
  <2>2. CASE run[w].pc \notin TradePc \cup {"match", "insert", "schedule"}
    BY <2>2 DEF RemainingSound
  <2> QED
    BY <2>1, <2>2
<1>4. ExecutionSound(w)'
  <2>1. CASE run[w].pc \in TradePc
    BY <2>1, ExecutionKept
  <2>2. CASE run[w].pc \notin TradePc
    BY <2>2 DEF ExecutionSound, RunsSound, RunSound
  <2> QED
    BY <2>1, <2>2
<1>5. LegSound(w)'
  BY DEF LegSound, RunsSound, RunSound, TradePc
<1> QED
  BY <1>1, <1>2, <1>3, <1>4, <1>5 DEF RunSound

\* When a step touches one execution and no other trade, it is enough that
\* this execution is sound after it.
LEMMA OneRunFollows ==
  ASSUME TypeOK, TypeOK', RunsSound, OneExecution, Forward, NEW w \in Worker,
         \A v \in Worker : v # w => run'[v] = run[v],
         \A i \in 1..Len(trades) : i # run[w].trade => trades'[i] = trades[i],
         RunSound(w)'
  PROVE  RunsSound'
<1> SUFFICES ASSUME NEW v \in Worker, v # w
             PROVE  RunSound(v)'
  BY DEF RunsSound
<1>1. run[v].pc \in TradePc => run[v].trade \in 1..Len(trades)
  BY RunningTrade
<1>2. run[v].pc \in TradePc => run[v].trade # run[w].trade
  <2>1. Len(trades) \in Nat
    BY LenProperties DEF TypeOK
  <2> QED
    BY <1>1, <2>1 DEF OneExecution
<1> QED
  BY <1>1, <1>2, OtherRunKept

\* A step that touches one execution only.
LEMMA OthersUntouched ==
  ASSUME TypeOK, NEW w \in Worker,
         \/ Work(w)
         \/ InsertFault(w) \/ TradeFault(w) \/ AttemptFault(w) \/ Crash(w)
  PROVE  \A v \in Worker : v # w => run'[v] = run[v]
<1>1. \E q : run' = [run EXCEPT ![w] = q]
  BY DEF Work, TakeJob, LoadOrder, CancelInactive, OpenOrder, FetchOpposing, NextOpposing,
     InsertTrade, ReadAvailable, ReadLocked, FillCache, WriteBalance, CacheBalance, FillBuyer,
     FillSeller, EnqueueSettlement, TradeExecuted, FinishMatching,
     ScheduleOpposing, InsertFault, TradeFault, AttemptFault, Crash, TradeFailed
<1> QED
  BY <1>1 DEF TypeOK

\* An execution between two trades, or before the first, executes none.
LEMMA BetweenTrades ==
  ASSUME RunsSound, NEW w \in Worker, run[w].pc \notin TradePc,
         run'[w].pc \notin TradePc, run'[w].trade = run[w].trade
  PROVE  ExecutionSound(w)' /\ LegSound(w)'
BY DEF RunsSound, RunSound, ExecutionSound, LegSound, TradePc

\* Taking a job, reading the order, opening it, reading the book, and going
\* through it.
LEMMA JobStepSound ==
  ASSUME TypeOK, TypeOK', JobsFollowRows, RowsSound, RunsSound, Forward, NEW w \in Worker,
         \/ \E j \in Job : TakeJob(w, j)
         \/ LoadOrder(w) \/ CancelInactive(w) \/ OpenOrder(w)
         \/ FetchOpposing(w) \/ NextOpposing(w) \/ FinishMatching(w)
         \/ ScheduleOpposing(w)
  PROVE  RunSound(w)'
<1> DEFINE r == run[w]
           o == r.job[1]
<1>1. r.pc # "idle" => r.job \in Job /\ o \in Order
  BY RunningOrder
<1>2. r.pc # "idle" => row[o].status # "none"
  BY DEF RunsSound, RunSound, ReadSound
<1>3. ASSUME NEW j \in Job, TakeJob(w, j)
      PROVE  RunSound(w)'
  <2>1. run'[w] = [IdleRun EXCEPT !.pc = "load", !.job = j]
    BY <1>3 DEF TakeJob, TypeOK
  <2>2. /\ run'[w].pc = "load" /\ run'[w].job = j /\ run'[w].filled = 0
        /\ run'[w].todo = {} /\ run'[w].trade = 0
    BY <2>1 DEF IdleRun
  <2>3. j[1] \in Order /\ row[j[1]].status # "none" /\ row' = row
    BY <1>3 DEF TakeJob, JobsFollowRows, Job
  <2>4. 0 <= Quantity[j[1]] /\ 0 <= traded'[j[1]]
    BY <2>3, OrderAssumption DEF TypeOK
  <2> QED
    BY <2>2, <2>3, <2>4 DEF RunSound, ReadSound, RemainingSound, ExecutionSound,
                            LegSound, TradePc, MatchedPc
<1>4. CASE LoadOrder(w)
  <2>1. r.pc = "load" /\ row' = row /\ traded' = traded
    BY <1>4 DEF LoadOrder, book
  <2>2. CASE row[o].status \notin {"PENDING_MATCH", "OPEN", "PARTIAL"}
    <3>1. run'[w] = IdleRun
      BY <1>4, <2>2 DEF LoadOrder, TypeOK
    <3> QED
      BY <3>1, IdleSound
  <2>3. CASE row[o].status \in {"PENDING_MATCH", "OPEN", "PARTIAL"}
    <3> DEFINE next == IF ~pairActive THEN "cancelInactive"
                       ELSE IF row[o].status = "PENDING_MATCH" THEN "open" ELSE "fetch"
    <3>1. /\ next \in {"cancelInactive", "open", "fetch"}
          /\ next = "fetch" => row[o].status # "PENDING_MATCH"
      OBVIOUS
    <3>2. run' = [run EXCEPT ![w].pc = next, ![w].filled = row[o].filled]
      BY <1>4, <2>3 DEF LoadOrder
    <3> HIDE DEF next
    <3>3. /\ run'[w].pc = next /\ run'[w].filled = row[o].filled
          /\ run'[w].job = r.job /\ run'[w].todo = r.todo /\ run'[w].trade = r.trade
      BY <3>2 DEF TypeOK, RunState
    <3>4. ReadSound(w)'
      <4>1. row[o].filled <= Quantity[o] /\ row[o].filled <= traded[o]
        BY <1>1, <2>1 DEF RowsSound
      <4>2. \A s \in r.todo : SnapshotSound(o, s)
        BY <2>1 DEF RunsSound, RunSound, ReadSound
      <4>3. (\A s \in run[w].todo : SnapshotSound(run[w].job[1], s))'
        BY <2>1, <3>3, <4>2 DEF SnapshotSound
      <4>4. next # "idle" /\ (next \in MatchedPc => next = "fetch")
        BY <3>1 DEF MatchedPc, TradePc
      <4> QED
        BY <1>1, <1>2, <2>1, <3>1, <3>3, <4>1, <4>3, <4>4 DEF ReadSound
    <3>5. RemainingSound(w)'
      BY <3>1, <3>3 DEF RemainingSound, TradePc
    <3>6. ExecutionSound(w)' /\ LegSound(w)'
      BY <2>1, <3>1, <3>3, BetweenTrades DEF TradePc
    <3> QED
      BY <3>4, <3>5, <3>6 DEF RunSound
  <2> QED
    BY <2>2, <2>3
<1>5. CASE CancelInactive(w) \/ ScheduleOpposing(w)
  <2>1. run'[w] = IdleRun
    BY <1>5 DEF CancelInactive, ScheduleOpposing, TypeOK
  <2> QED
    BY <2>1, IdleSound
<1>6. CASE OpenOrder(w)
  <2>1. r.pc = "open" /\ traded' = traded
    BY <1>6 DEF OpenOrder, book
  <2>2. row'[o].status = "OPEN"
    BY <1>1, <1>6 DEF OpenOrder, TypeOK, RowState
  <2>3. /\ run'[w].pc = "fetch" /\ run'[w].filled = r.filled
        /\ run'[w].job = r.job /\ run'[w].todo = r.todo /\ run'[w].trade = r.trade
    BY <1>6 DEF OpenOrder, TypeOK, RunState
  <2>4. ReadSound(w)'
    <3>1. r.filled <= Quantity[o] /\ r.filled <= traded[o]
      BY <2>1 DEF RunsSound, RunSound, ReadSound
    <3>2. \A s \in r.todo : SnapshotSound(o, s) /\ s.order \in Order
      <4>1. r.todo \subseteq Snapshot
        BY DEF TypeOK, RunState
      <4>2. \A s \in r.todo : SnapshotSound(o, s)
        BY <2>1 DEF RunsSound, RunSound, ReadSound
      <4> QED
        BY <4>1, <4>2 DEF Snapshot
    <3>3. (\A s \in run[w].todo : SnapshotSound(run[w].job[1], s))'
      BY <2>1, <2>3, <3>2, StatusIsPast DEF SnapshotSound, Forward, Past
    <3> QED
      BY <1>1, <2>1, <2>2, <2>3, <3>1, <3>3 DEF ReadSound
  <2>5. RemainingSound(w)'
    BY <2>3 DEF RemainingSound, TradePc
  <2>6. ExecutionSound(w)' /\ LegSound(w)'
    BY <2>1, <2>3, BetweenTrades DEF TradePc
  <2> QED
    BY <2>4, <2>5, <2>6 DEF RunSound
<1>7. CASE FetchOpposing(w)
  <2>1. r.pc = "fetch" /\ traded' = traded /\ row' = row
    BY <1>7 DEF FetchOpposing, NextOpposing, book
  <2>2. /\ run'[w].pc = "match" /\ run'[w].filled = r.filled
        /\ run'[w].job = r.job /\ run'[w].trade = r.trade
        /\ run'[w].todo = OpenOpposing(o)
        /\ run'[w].remaining = Quantity[o] - r.filled
    BY <1>7 DEF FetchOpposing, NextOpposing, TypeOK, RunState
  <2>3. /\ r.filled <= Quantity[o] /\ r.filled <= traded[o]
        /\ row[o].status # "PENDING_MATCH"
    BY <2>1 DEF RunsSound, RunSound, ReadSound, MatchedPc
  <2>4. ReadSound(w)'
    <3>1. ASSUME NEW s \in OpenOpposing(o)
          PROVE  SnapshotSound(o, s)
      <4>1. PICK p \in Opposing(o) :
              row[p].status \in {"OPEN", "PARTIAL"}
              /\ s = [order |-> p, filled |-> row[p].filled]
        BY DEF OpenOpposing
      <4>2. p \in Order /\ Side[p] # Side[o] /\ s.order = p /\ s.filled = row[p].filled
        BY <4>1 DEF Opposing
      <4> QED
        BY <4>1, <4>2 DEF SnapshotSound, RowsSound
    <3>2. (\A s \in run[w].todo : SnapshotSound(run[w].job[1], s))'
      BY <2>1, <2>2, <3>1 DEF SnapshotSound
    <3> QED
      BY <1>1, <1>2, <2>1, <2>2, <2>3, <3>2 DEF ReadSound
  <2>5. RemainingSound(w)'
    <3>1. Quantity[o] \in Nat /\ r.filled \in Nat
      BY <1>1, <2>1, OrderAssumption DEF TypeOK, RunState
    <3> QED
      BY <2>1, <2>2, <2>3, <3>1 DEF RemainingSound
  <2>6. ExecutionSound(w)' /\ LegSound(w)'
    BY <2>1, <2>2, BetweenTrades DEF TradePc
  <2> QED
    BY <2>4, <2>5, <2>6 DEF RunSound
<1>8. CASE FinishMatching(w)
  <2>1. r.pc = "match" /\ traded' = traded
    BY <1>8 DEF FinishMatching, book
  <2>2. CASE r.remaining = 0
    <3>1. run'[w] = IdleRun
      BY <1>8, <2>2 DEF FinishMatching, TypeOK
    <3> QED
      BY <3>1, IdleSound
  <2>3. CASE r.remaining # 0
    <3>1. /\ run'[w].pc = "schedule" /\ run'[w].filled = r.filled
          /\ run'[w].job = r.job /\ run'[w].trade = r.trade
          /\ run'[w].todo = {} /\ run'[w].remaining = r.remaining
      BY <1>8, <2>3 DEF FinishMatching, TypeOK, RunState
    <3>2. ReadSound(w)'
      BY <2>1, <3>1, KnowledgeKept DEF MatchedPc
    <3>3. RemainingSound(w)'
      BY <2>1, <3>1, RemainingKept
    <3>4. ExecutionSound(w)' /\ LegSound(w)'
      BY <2>1, <3>1, BetweenTrades DEF TradePc
    <3> QED
      BY <3>2, <3>3, <3>4 DEF RunSound
  <2> QED
    BY <2>2, <2>3
<1>9. CASE NextOpposing(w)
  <2>1. \/ run' = [run EXCEPT ![w].pc = "insert"]
        \/ \E s : run' = [run EXCEPT ![w].todo = @ \ {s}]
    BY <1>9 DEF NextOpposing
  <2>2. r.pc = "match"
    BY <1>9 DEF NextOpposing
  <2>3. /\ run'[w].pc \in {"match", "insert"} /\ run'[w].filled = r.filled
        /\ run'[w].job = r.job /\ run'[w].trade = r.trade
        /\ run'[w].todo \subseteq r.todo /\ run'[w].remaining = r.remaining
    <3>1. r \in RunState
      BY DEF TypeOK
    <3>2. CASE run' = [run EXCEPT ![w].pc = "insert"]
      BY <2>2, <3>1, <3>2 DEF TypeOK, RunState
    <3>3. ASSUME NEW s, run' = [run EXCEPT ![w].todo = @ \ {s}]
          PROVE  /\ run'[w].pc \in {"match", "insert"} /\ run'[w].filled = r.filled
                 /\ run'[w].job = r.job /\ run'[w].trade = r.trade
                 /\ run'[w].todo \subseteq r.todo
                 /\ run'[w].remaining = r.remaining
      BY <2>2, <3>1, <3>3 DEF TypeOK, RunState
    <3> QED
      BY <2>1, <3>2, <3>3
  <2>4. ReadSound(w)'
    BY <2>2, <2>3, KnowledgeKept DEF MatchedPc
  <2>5. RemainingSound(w)'
    BY <2>2, <2>3, RemainingKept
  <2>6. ExecutionSound(w)' /\ LegSound(w)'
    BY <2>2, <2>3, BetweenTrades DEF TradePc
  <2> QED
    BY <2>4, <2>5, <2>6 DEF RunSound
<1> QED
  BY <1>3, <1>4, <1>5, <1>6, <1>7, <1>8, <1>9

\* The INSERT of a trade, also one that fails.
LEMMA MatchSound ==
  ASSUME TypeOK, TypeOK', RunsSound, Forward, NEW w \in Worker,
         InsertTrade(w) \/ InsertFault(w)
  PROVE  RunSound(w)'
<1> DEFINE r == run[w]
           o == r.job[1]
<1>1. r.pc \in {"match", "insert"} /\ r \in RunState
  BY DEF InsertTrade, InsertFault, TypeOK
<1>2. o \in Order
  BY <1>1, RunningOrder
<1>3. CASE \E s : run' = [run EXCEPT ![w].pc = "match", ![w].todo = @ \ {s}]
  <2>1. /\ run'[w].pc = "match" /\ run'[w].filled = r.filled
        /\ run'[w].job = r.job /\ run'[w].trade = r.trade
        /\ run'[w].todo \subseteq r.todo /\ run'[w].remaining = r.remaining
    BY <1>1, <1>3 DEF TypeOK, RunState
  <2>2. ReadSound(w)'
    BY <1>1, <2>1, KnowledgeKept DEF MatchedPc
  <2>3. RemainingSound(w)'
    BY <1>1, <2>1, RemainingKept
  <2>4. ExecutionSound(w)' /\ LegSound(w)'
    BY <1>1, <2>1, BetweenTrades DEF TradePc
  <2> QED
    BY <2>2, <2>3, <2>4 DEF RunSound
<1>4. CASE InsertTrade(w) /\ trades' # trades
  <2>1. PICK s \in r.todo :
          LET q == Least(r.remaining, Quantity[s.order] - s.filled)
          IN  /\ s.order \in Order /\ s.filled \in Nat /\ SnapshotSound(o, s)
              /\ q \in Nat /\ q <= r.remaining /\ q <= Quantity[s.order] - s.filled
              /\ Len(trades') = Len(trades) + 1
              /\ trades'[Len(trades) + 1] = TradeOf(o, s.order, q)
              /\ traded' = [p \in Order |-> IF p \in {o, s.order}
                               THEN traded[p] + q ELSE traded[p]]
              /\ run' = [run EXCEPT ![w] = [r EXCEPT
                           !.pc = "available", !.leg = 1,
                           !.todo = @ \ {s}, !.makerFilled = s.filled,
                           !.trade = Len(trades) + 1]]
    BY <1>4, TradeInserted
  <2> DEFINE q == Least(r.remaining, Quantity[s.order] - s.filled)
  <2> DEFINE t == TradeOf(o, s.order, q)
  <2>2. /\ run'[w].pc = "available" /\ run'[w].filled = r.filled
        /\ run'[w].job = r.job /\ run'[w].trade = Len(trades) + 1
        /\ run'[w].todo = r.todo \ {s} /\ run'[w].remaining = r.remaining
        /\ run'[w].makerFilled = s.filled /\ run'[w].leg = 1
    <3>1. run'[w] = [r EXCEPT !.pc = "available", !.leg = 1,
                       !.todo = @ \ {s}, !.makerFilled = s.filled,
                       !.trade = Len(trades) + 1]
      BY <2>1 DEF TypeOK
    <3> QED
      BY <1>1, <3>1 DEF RunState
  <2>3. ReadSound(w)'
    BY <1>1, <2>2, KnowledgeKept DEF MatchedPc
  <2>4. RemainingSound(w)'
    BY <1>1, <2>2, RemainingKept
  <2>5. /\ Side[o] \in {"BUY", "SELL"} /\ Side[s.order] \in {"BUY", "SELL"}
        /\ Side[s.order] # Side[o]
    BY <1>2, <2>1, OrderAssumption DEF SnapshotSound
  <2>6. /\ t.quantity = q /\ t.legs = 0
        /\ t.buyer = (IF Side[o] = "BUY" THEN o ELSE s.order)
        /\ t.seller = (IF Side[o] = "SELL" THEN o ELSE s.order)
    BY DEF TradeOf
  <2> HIDE DEF t
  <2>7. Taker(o, t) = o /\ Maker(o, t) = s.order
    BY <2>5, <2>6 DEF Taker, Maker
  <2>8. traded'[o] = traded[o] + q /\ traded'[s.order] = traded[s.order] + q
    BY <1>2, <2>1 DEF q
  <2>9. /\ traded[o] \in Nat /\ traded[s.order] \in Nat
        /\ r.filled \in Nat /\ r.remaining \in Nat
        /\ Quantity[o] \in Nat /\ Quantity[s.order] \in Nat
    BY <1>1, <1>2, <2>1, OrderAssumption DEF TypeOK, RunState
  <2>10. /\ r.filled <= traded[o] /\ Quantity[o] - r.remaining <= traded[o]
         /\ s.filled <= traded[s.order]
    BY <1>1, <2>1 DEF RunsSound, RunSound, ReadSound, RemainingSound, SnapshotSound
  <2> HIDE DEF q
  <2>11. /\ q <= r.remaining
         /\ r.filled + q <= traded'[o]
         /\ Quantity[o] - r.remaining + q <= traded'[o]
         /\ s.filled + q <= traded'[s.order]
         /\ s.filled + q <= Quantity[s.order]
    <3>1. q \in Nat /\ q <= r.remaining /\ q <= Quantity[s.order] - s.filled
          /\ s.filled \in Nat
      BY <2>1 DEF q
    <3>2. r.filled + q <= traded'[o] /\ Quantity[o] - r.remaining + q <= traded'[o]
      BY <2>8, <2>9, <2>10, <3>1
    <3>3. s.filled + q <= traded'[s.order] /\ s.filled + q <= Quantity[s.order]
      BY <2>8, <2>9, <2>10, <3>1
    <3> QED
      BY <3>1, <3>2, <3>3
  <2>12. Len(trades) \in Nat
    BY LenProperties DEF TypeOK
  <2>13. /\ run'[w].trade \in 1..Len(trades') /\ trades'[run'[w].trade] = t
    BY <2>1, <2>2, <2>12 DEF t, q
  <2>14. TradeInProgressSound(run[w], trades[run[w].trade])'
    BY <2>2, <2>6, <2>7, <2>11, <2>13 DEF TradeInProgressSound, Taker, Maker
  <2>15. ExecutionSound(w)'
    BY <2>2, <2>13, <2>14 DEF ExecutionSound, TradePc
  <2>16. LegSound(w)'
    BY <2>2, <2>6, <2>13 DEF LegSound
  <2> QED
    BY <2>3, <2>4, <2>15, <2>16 DEF RunSound
<1>5. InsertTrade(w) /\ trades' = trades =>
        \E s : run' = [run EXCEPT ![w].pc = "match", ![w].todo = @ \ {s}]
  <2>1. \A t : trades # Append(trades, t)
    <3>1. ASSUME NEW t
          PROVE  trades # Append(trades, t)
      <4>1. trades \in Seq(TradeState \cup {t}) /\ Len(trades) \in Nat
        BY LenProperties DEF TypeOK
      <4>2. Len(Append(trades, t)) = Len(trades) + 1
        BY <4>1, AppendProperties
      <4> QED
        BY <4>1, <4>2
    <3> QED
      BY <3>1
  <2> QED
    BY <2>1 DEF InsertTrade
<1>6. InsertFault(w) =>
        \E s : run' = [run EXCEPT ![w].pc = "match", ![w].todo = @ \ {s}]
  BY DEF InsertFault
<1> QED
  BY <1>3, <1>4, <1>5, <1>6

\* What TradeFailed forgets, and what it keeps.
LEMMA TradeFailedFields ==
  ASSUME NEW r \in RunState
  PROVE  /\ TradeFailed(r).pc = "match" /\ TradeFailed(r).trade = 0
         /\ TradeFailed(r).job = r.job /\ TradeFailed(r).filled = r.filled
         /\ TradeFailed(r).todo = r.todo /\ TradeFailed(r).remaining = r.remaining
<1>1. TradeFailed(r).pc = "match" /\ TradeFailed(r).trade = 0
  BY DEF TradeFailed, RunState
<1>2. /\ TradeFailed(r).job = r.job /\ TradeFailed(r).filled = r.filled
      /\ TradeFailed(r).todo = r.todo /\ TradeFailed(r).remaining = r.remaining
  BY DEF TradeFailed, RunState
<1> QED
  BY <1>1, <1>2

\* Leaving the execution of a trade keeps what the execution knows.
LEMMA TradeLeft ==
  ASSUME TypeOK, TypeOK', RunsSound, Forward, NEW w \in Worker, run[w].pc \in TradePc,
         run' = [run EXCEPT ![w] = TradeFailed(run[w])]
  PROVE  RunSound(w)'
<1>1. run[w] \in RunState /\ run'[w] = TradeFailed(run[w])
  BY DEF TypeOK
<1>2. /\ run'[w].pc = "match" /\ run'[w].trade = 0
      /\ run'[w].job = run[w].job /\ run'[w].filled = run[w].filled
      /\ run'[w].todo = run[w].todo /\ run'[w].remaining = run[w].remaining
  BY <1>1, TradeFailedFields
<1>3. ReadSound(w)'
  BY <1>2, KnowledgeKept DEF TradePc, MatchedPc
<1>4. RemainingSound(w)'
  BY <1>2, RemainingKept
<1>5. ExecutionSound(w)' /\ LegSound(w)'
  BY <1>2 DEF ExecutionSound, LegSound, TradePc
<1> QED
  BY <1>3, <1>4, <1>5 DEF RunSound

\* A step inside executeTrade keeps what the execution knows and its trade.
LEMMA InsideTrade ==
  ASSUME TypeOK, TypeOK', RunsSound, Forward, NEW w \in Worker,
         run[w].pc \in TradePc, run'[w].pc \in TradePc,
         run'[w].job = run[w].job, run'[w].filled = run[w].filled,
         run'[w].todo = run[w].todo, run'[w].remaining = run[w].remaining,
         run'[w].makerFilled = run[w].makerFilled, run'[w].trade = run[w].trade,
         LegSound(w)'
  PROVE  RunSound(w)'
<1>1. ReadSound(w)'
  BY KnowledgeKept DEF TradePc, MatchedPc
<1>2. RemainingSound(w)'
  BY RemainingKept
<1>3. ExecutionSound(w)'
  BY ExecutionKept
<1> QED
  BY <1>1, <1>2, <1>3 DEF RunSound

\* The steps of executeTrade, and its failure.
LEMMA TradeStepSound ==
  ASSUME TypeOK, TypeOK', RunsSound, Forward, NEW w \in Worker,
         \/ ReadAvailable(w) \/ ReadLocked(w) \/ FillCache(w) \/ WriteBalance(w)
         \/ CacheBalance(w) \/ FillBuyer(w) \/ FillSeller(w) \/ EnqueueSettlement(w)
         \/ TradeExecuted(w)
         \/ TradeFault(w)
  PROVE  RunSound(w)'
<1> DEFINE r == run[w]
<1>1. r \in RunState
  BY DEF TypeOK
<1>2. r.pc \in TradePc
  BY DEF ReadAvailable, ReadLocked, FillCache, WriteBalance, CacheBalance, FillBuyer,
         FillSeller, EnqueueSettlement, TradeExecuted, TradeFault, TradePc
<1>3. r.trade \in 1..Len(trades) /\ TradeInProgressSound(r, trades[r.trade])
      /\ trades[r.trade] \in TradeState
  BY <1>2, RunningTrade
<1>4. LegSound(w)
  BY DEF RunsSound, RunSound
<1>5. CASE ReadAvailable(w) \/ ReadLocked(w) \/ FillCache(w)
  <2>1. r.pc \in {"available", "availableFill", "locked", "lockedFill"}
        /\ trades' = trades
    BY <1>5 DEF ReadAvailable, ReadLocked, FillCache, book
  <2>2. /\ run'[w].pc \in {"availableFill", "locked", "lockedFill", "write"}
        /\ run'[w].job = r.job /\ run'[w].filled = r.filled
        /\ run'[w].todo = r.todo /\ run'[w].remaining = r.remaining
        /\ run'[w].makerFilled = r.makerFilled /\ run'[w].trade = r.trade
        /\ run'[w].leg = r.leg
    <3>1. CASE ReadAvailable(w)
      BY <1>1, <3>1 DEF ReadAvailable, TypeOK, RunState
    <3>2. CASE ReadLocked(w)
      BY <1>1, <3>2 DEF ReadLocked, TypeOK, RunState
    <3>3. CASE FillCache(w)
      <4>1. \E a \in {"locked", "write"} :
              run'[w] = [r EXCEPT !.pc = a, !.fetched = Zero]
        BY <3>3 DEF FillCache, TypeOK
      <4> QED
        BY <1>1, <4>1 DEF RunState
    <3> QED
      BY <1>5, <3>1, <3>2, <3>3
  <2>3. LegSound(w)'
    BY <1>4, <2>1, <2>2 DEF LegSound
  <2> QED
    BY <1>2, <2>2, <2>3, InsideTrade DEF TradePc
<1>6. CASE WriteBalance(w)
  <2>1. r.pc = "write"
    BY <1>6 DEF WriteBalance
  <2>2. CASE run' = [run EXCEPT ![w] = TradeFailed(r)]
    BY <1>2, <2>2, TradeLeft
  <2>3. CASE run' # [run EXCEPT ![w] = TradeFailed(r)]
    <3>1. /\ trades' = [trades EXCEPT ![r.trade].legs = r.leg]
          /\ \E b : run' = [run EXCEPT ![w].pc = "cache", ![w].entry = b]
      BY <1>6, <2>3 DEF WriteBalance
    <3>2. /\ run'[w].pc = "cache"
          /\ run'[w].job = r.job /\ run'[w].filled = r.filled
          /\ run'[w].todo = r.todo /\ run'[w].remaining = r.remaining
          /\ run'[w].makerFilled = r.makerFilled /\ run'[w].trade = r.trade
          /\ run'[w].leg = r.leg
      BY <1>1, <3>1 DEF TypeOK, RunState
    <3>3. r.leg \in 1..4 /\ r.leg \in 0..4
      BY <1>4, <2>1 DEF LegSound
    <3>4. trades'[r.trade].legs = r.leg
      BY <1>3, <3>1, <3>3, LegsWritten
    <3>5. LegSound(w)'
      BY <3>2, <3>3, <3>4 DEF LegSound
    <3> QED
      BY <1>2, <3>2, <3>5, InsideTrade DEF TradePc
  <2> QED
    BY <2>2, <2>3
<1>7. CASE CacheBalance(w)
  <2>1. /\ r.pc = "cache" /\ trades' = trades
        /\ r.leg \in 1..4 /\ trades[r.trade].legs = r.leg
    BY <1>4, <1>7 DEF CacheBalance, LegSound, book
  <2>2. CASE r.leg < 4
    <3>1. run'[w] = [r EXCEPT !.pc = "available", !.leg = r.leg + 1, !.entry = Zero]
      BY <1>7, <2>2 DEF CacheBalance, TypeOK
    <3>2. /\ run'[w].pc = "available" /\ run'[w].leg = r.leg + 1
          /\ run'[w].job = r.job /\ run'[w].filled = r.filled
          /\ run'[w].todo = r.todo /\ run'[w].remaining = r.remaining
          /\ run'[w].makerFilled = r.makerFilled /\ run'[w].trade = r.trade
      BY <1>1, <3>1 DEF RunState
    <3>3. LegSound(w)'
      BY <2>1, <2>2, <3>2 DEF LegSound
    <3> QED
      BY <1>2, <3>2, <3>3, InsideTrade DEF TradePc
  <2>3. CASE ~(r.leg < 4)
    <3>1. run'[w] = [r EXCEPT !.pc = "fillBuyer", !.leg = 0, !.entry = Zero]
      BY <1>7, <2>3 DEF CacheBalance, TypeOK
    <3>2. /\ run'[w].pc = "fillBuyer"
          /\ run'[w].job = r.job /\ run'[w].filled = r.filled
          /\ run'[w].todo = r.todo /\ run'[w].remaining = r.remaining
          /\ run'[w].makerFilled = r.makerFilled /\ run'[w].trade = r.trade
      BY <1>1, <3>1 DEF RunState
    <3>3. LegSound(w)'
      BY <2>1, <2>3, <3>2 DEF LegSound
    <3> QED
      BY <1>2, <3>2, <3>3, InsideTrade DEF TradePc
  <2> QED
    BY <2>2, <2>3
<1>8. CASE FillBuyer(w) \/ FillSeller(w) \/ EnqueueSettlement(w)
  <2>1. r.pc \in {"fillBuyer", "fillSeller", "settle"} /\ trades' = trades
    BY <1>8 DEF FillBuyer, FillSeller, EnqueueSettlement, book
  <2>2. /\ run'[w].pc \in {"fillSeller", "settle", "notify"}
        /\ run'[w].job = r.job /\ run'[w].filled = r.filled
        /\ run'[w].todo = r.todo /\ run'[w].remaining = r.remaining
        /\ run'[w].makerFilled = r.makerFilled /\ run'[w].trade = r.trade
    BY <1>1, <1>8 DEF FillBuyer, FillSeller, EnqueueSettlement, TypeOK, RunState
  <2>3. LegSound(w)'
    BY <1>4, <2>1, <2>2 DEF LegSound
  <2> QED
    BY <1>2, <2>2, <2>3, InsideTrade DEF TradePc
<1>9. CASE TradeExecuted(w)
  <2> DEFINE o == r.job[1]
             q == trades[r.trade].quantity
  <2>1. run'[w] = [TradeFailed(r) EXCEPT !.remaining = r.remaining - q]
        /\ traded' = traded
    BY <1>9 DEF TradeExecuted, TradeFailed, TypeOK, book
  <2>2. /\ run'[w].pc = "match" /\ run'[w].trade = 0
        /\ run'[w].job = r.job /\ run'[w].filled = r.filled
        /\ run'[w].todo = r.todo /\ run'[w].remaining = r.remaining - q
    BY <1>1, <2>1 DEF TradeFailed, RunState
  <2>3. ReadSound(w)'
    BY <1>2, <2>2, KnowledgeKept DEF TradePc, MatchedPc
  <2>4. RemainingSound(w)'
    <3>1. o \in Order
      BY <1>2, RunningOrder DEF TradePc
    <3>2. /\ Quantity[o] \in Nat /\ q \in Nat /\ r.remaining \in Nat
          /\ r.filled \in Nat /\ traded[o] \in Nat
      BY <1>1, <1>3, <3>1, OrderAssumption DEF RunState, TradeState, TypeOK
    <3>3. r.remaining <= Quantity[o] - r.filled
          /\ Quantity[o] - r.remaining + q <= traded[o]
      BY <1>2, <1>3 DEF RunsSound, RunSound, RemainingSound, TradeInProgressSound
    <3>4. /\ r.remaining - q <= Quantity[o] - r.filled
          /\ Quantity[o] - (r.remaining - q) <= traded[o]
      BY <3>2, <3>3
    <3> QED
      BY <2>1, <2>2, <3>4 DEF RemainingSound
  <2>5. ExecutionSound(w)' /\ LegSound(w)'
    BY <2>2 DEF ExecutionSound, LegSound, TradePc
  <2> QED
    BY <2>3, <2>4, <2>5 DEF RunSound
<1>10. CASE TradeFault(w)
  <2>1. run' = [run EXCEPT ![w] = TradeFailed(r)]
    BY <1>10 DEF TradeFault
  <2> QED
    BY <1>2, <2>1, TradeLeft
<1> QED
  BY <1>5, <1>6, <1>7, <1>8, <1>9, <1>10

\* The trades a step of a worker does not execute are left as they are.
LEMMA OtherTradesUntouched ==
  ASSUME TypeOK, RunsSound, NEW w \in Worker,
         \/ Work(w)
         \/ InsertFault(w) \/ TradeFault(w) \/ AttemptFault(w) \/ Crash(w)
  PROVE  /\ \A i \in 1..Len(trades) : i # run[w].trade => trades'[i] = trades[i]
         /\ InsertTrade(w) \/ Len(trades') = Len(trades)
<1>1. CASE InsertTrade(w)
  <2>1. trades' = trades \/ \A i \in 1..Len(trades) : trades'[i] = trades[i]
    BY <1>1, TradeInserted
  <2> QED
    BY <1>1, <2>1
<1>2. CASE WriteBalance(w)
  <2>1. trades' = trades \/ trades' = [trades EXCEPT ![run[w].trade].legs = run[w].leg]
    BY <1>2 DEF WriteBalance
  <2>2. run[w].trade \in 1..Len(trades) /\ run[w].leg \in 0..4
    BY <1>2, RunningTrade DEF WriteBalance, TradePc, TypeOK, RunState
  <2> QED
    BY <2>1, <2>2, LegsWritten
<1>3. CASE ~InsertTrade(w) /\ ~WriteBalance(w)
  <2>1. trades' = trades
    BY <1>3 DEF Work, TakeJob, LoadOrder, CancelInactive, OpenOrder, FetchOpposing, NextOpposing,
       ReadAvailable, ReadLocked, FillCache, CacheBalance, FillBuyer, FillSeller,
       EnqueueSettlement, TradeExecuted, FinishMatching, ScheduleOpposing,
       InsertFault, TradeFault, AttemptFault, Crash, book
  <2> QED
    BY <2>1
<1> QED
  BY <1>1, <1>2, <1>3

\* RunsSound, for the worker and its failures.
LEMMA RunsFollow ==
  ASSUME TypeOK, TypeOK', JobsFollowRows, RowsSound, RunsSound, OneExecution, Forward,
         NEW w \in Worker,
         \/ Work(w)
         \/ InsertFault(w) \/ TradeFault(w) \/ AttemptFault(w) \/ Crash(w)
  PROVE  RunsSound'
<1>1. CASE AttemptFault(w) \/ Crash(w)
  <2>1. run'[w] = IdleRun
    BY <1>1 DEF AttemptFault, Crash, TypeOK
  <2> QED
    BY <2>1, IdleSound, OthersUntouched, OtherTradesUntouched, OneRunFollows
<1>2. CASE Work(w) \/ InsertFault(w) \/ TradeFault(w)
  <2>1. RunSound(w)'
    BY <1>2, JobStepSound, MatchSound, TradeStepSound DEF Work
  <2> QED
    BY <2>1, OthersUntouched, OtherTradesUntouched, OneRunFollows
<1> QED
  BY <1>1, <1>2

\* RunsSound, when no execution is touched.
LEMMA RunsKept ==
  ASSUME TypeOK, TypeOK', RunsSound, Forward, UNCHANGED <<run, trades>>
  PROVE  RunsSound'
BY OtherRunKept DEF RunsSound

\* OneExecution: a trade is executed by the worker that inserted it.
LEMMA OneExecutionFollows ==
  ASSUME TypeOK, TypeOK', RunsSound, OneExecution, NEW w \in Worker,
         \/ Work(w)
         \/ InsertFault(w) \/ TradeFault(w) \/ AttemptFault(w) \/ Crash(w)
  PROVE  OneExecution'
<1>1. \A v \in Worker : v # w => run'[v] = run[v]
  BY OthersUntouched
<1>2. Len(trades) \in Nat
  BY LenProperties DEF TypeOK
<1>3. \A v \in Worker : run[v].trade = 0 \/ run[v].trade \in 1..Len(trades)
  BY DEF RunsSound, RunSound, ExecutionSound
<1>4. run'[w].trade \in {0, run[w].trade, Len(trades) + 1}
  <2>1. run[w] \in RunState
    BY DEF TypeOK
  <2>2. ASSUME NEW j \in Job, TakeJob(w, j)
        PROVE  run'[w].trade = 0
    BY <2>2 DEF TakeJob, IdleRun, TypeOK
  <2>3. CASE InsertTrade(w)
    <3>1. \/ \E s : run' = [run EXCEPT ![w].pc = "match", ![w].todo = @ \ {s}]
          \/ \E s : run' = [run EXCEPT ![w] = [run[w] EXCEPT
                              !.pc = "available", !.leg = 1,
                              !.todo = @ \ {s}, !.makerFilled = s.filled,
                              !.trade = Len(trades) + 1]]
      BY <2>3 DEF InsertTrade
    <3>2. ASSUME NEW s, run' = [run EXCEPT ![w].pc = "match", ![w].todo = @ \ {s}]
          PROVE  run'[w].trade = run[w].trade
      BY <2>1, <3>2 DEF TypeOK, RunState
    <3>3. ASSUME NEW s, run' = [run EXCEPT ![w] = [run[w] EXCEPT
                              !.pc = "available", !.leg = 1,
                              !.todo = @ \ {s}, !.makerFilled = s.filled,
                              !.trade = Len(trades) + 1]]
          PROVE  run'[w].trade = Len(trades) + 1
      <4>1. run'[w] = [run[w] EXCEPT !.pc = "available", !.leg = 1,
                              !.todo = @ \ {s}, !.makerFilled = s.filled,
                              !.trade = Len(trades) + 1]
        BY <3>3 DEF TypeOK
      <4> QED
        BY <2>1, <4>1 DEF RunState
    <3> QED
      BY <3>1, <3>2, <3>3
  <2>4. CASE CancelInactive(w) \/ ScheduleOpposing(w) \/ AttemptFault(w) \/ Crash(w)
    <3>1. run'[w] = IdleRun
      BY <2>4 DEF CancelInactive, ScheduleOpposing, AttemptFault, Crash, TypeOK
    <3> QED
      BY <3>1 DEF IdleRun
  <2>5. CASE LoadOrder(w) \/ FinishMatching(w)
    <3>1. \/ run' = [run EXCEPT ![w] = IdleRun]
          \/ \E a, b : run' = [run EXCEPT ![w].pc = a, ![w].filled = b]
          \/ \E a, b : run' = [run EXCEPT ![w].pc = a, ![w].todo = b]
      BY <2>5 DEF LoadOrder, FinishMatching
    <3>2. CASE run' = [run EXCEPT ![w] = IdleRun]
      BY <3>2 DEF TypeOK, IdleRun
    <3>3. ASSUME NEW a, NEW b, run' = [run EXCEPT ![w].pc = a, ![w].filled = b]
          PROVE  run'[w].trade = run[w].trade
      BY <2>1, <3>3 DEF TypeOK, RunState
    <3>4. ASSUME NEW a, NEW b, run' = [run EXCEPT ![w].pc = a, ![w].todo = b]
          PROVE  run'[w].trade = run[w].trade
      BY <2>1, <3>4 DEF TypeOK, RunState
    <3> QED
      BY <3>1, <3>2, <3>3, <3>4
  <2>6. CASE OpenOrder(w) \/ FillBuyer(w) \/ FillSeller(w) \/ EnqueueSettlement(w)
    <3>1. \E a : run' = [run EXCEPT ![w].pc = a]
      BY <2>6 DEF OpenOrder, FillBuyer, FillSeller, EnqueueSettlement
    <3> QED
      BY <2>1, <3>1 DEF TypeOK, RunState
  <2>11. CASE FetchOpposing(w)
    BY <2>1, <2>11 DEF FetchOpposing, NextOpposing, TypeOK, RunState
  <2>12. CASE ReadAvailable(w)
    BY <2>1, <2>12 DEF ReadAvailable, TypeOK, RunState
  <2>13. CASE ReadLocked(w)
    BY <2>1, <2>13 DEF ReadLocked, FillCache, TypeOK, RunState
  <2>14. CASE NextOpposing(w)
    BY <2>1, <2>14 DEF NextOpposing, TypeOK, RunState
  <2>15. CASE FillCache(w)
    <3>1. \E a : run'[w] = [run[w] EXCEPT !.pc = a, !.fetched = Zero]
      BY <2>15 DEF FillCache, TypeOK
    <3> QED
      BY <2>1, <3>1 DEF RunState
  <2>7. CASE CacheBalance(w)
    <3>1. \E a, b : run'[w] = [run[w] EXCEPT !.pc = a, !.leg = b, !.entry = Zero]
      BY <2>7 DEF CacheBalance, TypeOK
    <3> QED
      BY <2>1, <3>1 DEF RunState
  <2>8. CASE WriteBalance(w) \/ TradeFault(w)
    <3>1. \/ \E b : run' = [run EXCEPT ![w].pc = "cache", ![w].entry = b]
          \/ run' = [run EXCEPT ![w] = TradeFailed(run[w])]
      BY <2>8 DEF WriteBalance, TradeFault
    <3>2. TradeFailed(run[w]).trade = 0
      BY <2>1 DEF TradeFailed, RunState
    <3> QED
      BY <2>1, <3>1, <3>2 DEF TypeOK, RunState
  <2>9. CASE TradeExecuted(w)
    <3>1. \E n : run'[w] = [TradeFailed(run[w]) EXCEPT !.remaining = n]
      BY <2>9 DEF TradeExecuted, TypeOK
    <3> QED
      BY <2>1, <3>1 DEF TradeFailed, RunState
  <2>10. CASE InsertFault(w)
    <3>1. PICK s : run' = [run EXCEPT ![w].pc = "match", ![w].todo = @ \ {s}]
      BY <2>10 DEF InsertFault
    <3> QED
      BY <2>1, <3>1 DEF TypeOK, RunState
  <2> QED
    BY <2>2, <2>3, <2>4, <2>5, <2>6, <2>7, <2>8, <2>9, <2>10, <2>11, <2>12, <2>13,
       <2>14, <2>15 DEF Work
<1>5. ASSUME NEW v \in Worker, v # w, run'[v].trade = run'[w].trade
      PROVE  run'[v].trade = 0
  BY <1>1, <1>2, <1>3, <1>4, <1>5 DEF OneExecution
<1> QED
  BY <1>1, <1>5 DEF OneExecution

\* SettlementFollowsLedger: a trade gets its settlement job after its last
\* balance update, and no update is made after it.
LEMMA SettlementFollows ==
  ASSUME TypeOK, TypeOK', RunsSound, SettlementFollowsLedger, NEW w \in Worker,
         \/ Work(w)
         \/ InsertFault(w) \/ TradeFault(w) \/ AttemptFault(w) \/ Crash(w)
  PROVE  SettlementFollowsLedger'
<1>1. LegSound(w)
  BY DEF RunsSound, RunSound
<1>2. \A i \in settling : i \in 1..Len(trades) /\ trades[i].legs = 4
  BY DEF SettlementFollowsLedger, TypeOK
<1>3. CASE EnqueueSettlement(w)
  <2>1. /\ settling' = settling \cup {run[w].trade} /\ trades' = trades
        /\ trades[run[w].trade].legs = 4
    BY <1>1, <1>3 DEF EnqueueSettlement, LegSound
  <2> QED
    BY <1>2, <2>1 DEF SettlementFollowsLedger
<1>4. CASE WriteBalance(w)
  <2>1. run[w].leg \in 1..4 /\ trades[run[w].trade].legs = run[w].leg - 1
    BY <1>1, <1>4 DEF WriteBalance, LegSound
  <2>2. run[w].trade \notin settling
    BY <1>2, <2>1
  <2>3. settling' = settling
    BY <1>4 DEF WriteBalance
  <2> QED
    BY <1>2, <1>4, <2>2, <2>3, OtherTradesUntouched DEF SettlementFollowsLedger
<1>5. CASE InsertTrade(w)
  <2>1. settling' = settling
    BY <1>5 DEF InsertTrade
  <2>2. trades' = trades \/ \A i \in 1..Len(trades) : trades'[i] = trades[i]
    BY <1>5, TradeInserted
  <2> QED
    BY <1>2, <2>1, <2>2 DEF SettlementFollowsLedger
<1>6. CASE ~EnqueueSettlement(w) /\ ~WriteBalance(w) /\ ~InsertTrade(w)
  <2>1. UNCHANGED <<trades, settling>>
    BY <1>6 DEF Work, TakeJob, LoadOrder, CancelInactive, OpenOrder, FetchOpposing, NextOpposing,
       ReadAvailable, ReadLocked, FillCache, CacheBalance, FillBuyer, FillSeller,
       TradeExecuted, FinishMatching, ScheduleOpposing,
       InsertFault, TradeFault, AttemptFault, Crash, book
  <2> QED
    BY <2>1 DEF SettlementFollowsLedger
<1> QED
  BY <1>3, <1>4, <1>5, <1>6

-----------------------------------------------------------------------------
(* The invariant is inductive *)

\* The initial state satisfies the invariant.
LEMMA InitIInv == Init => IInv
<1> SUFFICES ASSUME Init
             PROVE  IInv
  OBVIOUS
<1>1. TypeOK
  <2>1. row \in [Order -> RowState]
    BY DEF Init, RowState
  <2>2. bal \in [User -> [Token -> Balance]]
    BY NumberAssumption DEF Init, Balance
  <2>3. cache \in [User -> [Token -> Balance \cup {NoEntry}]]
    BY DEF Init
  <2>4. trades \in Seq(TradeState) /\ settling \subseteq 1..Len(trades)
    BY EmptySeq DEF Init
  <2>5. jobs \in [Job -> JobRecord]
    BY DEF Init, JobRecord, JobState
  <2>6. /\ sub \in [Order -> SubmitState]
        /\ can \in [Canceller -> CancelState]
        /\ run \in [Worker -> RunState]
    BY IdleTypes DEF Init
  <2>7. /\ pairActive \in BOOLEAN /\ faults \in 0..MaxFaults
        /\ traded \in [Order -> Nat] /\ overlapped \in SUBSET (User \X Token)
    BY NumberAssumption DEF Init
  <2> QED
    BY <2>1, <2>2, <2>3, <2>4, <2>5, <2>6, <2>7 DEF TypeOK
<1>2. RowsFollowSubmissions /\ JobsFollowRows
  BY DEF Init, RowsFollowSubmissions, JobsFollowRows, NewSubmission
<1>3. CancelsSound
  BY DEF Init, CancelsSound, IdleCancel
<1>4. RowsSound
  BY OrderAssumption DEF Init, RowsSound
<1>5. TradesSound /\ SettlementFollowsLedger
  BY EmptySeq DEF Init, TradesSound, SettlementFollowsLedger
<1>8. LocksCover
  <2> SUFFICES ASSUME NEW o \in Order PROVE TakenOff(o) <= LockAmount(o, traded[o])
    BY DEF LocksCover
  <2>1. trades = <<>> /\ traded[o] = 0 /\ TradesOf(o, trades) = {}
    BY EmptySeq DEF Init, TradesOf
  <2>2. TakenOff(o) = 0
    BY <2>1, TakenOffFrom, SumOfNone DEF TakenFrom
  <2>. QED  BY <2>1, <2>2, LockIsNatural
<1>6. RunsSound
  BY DEF Init, RunsSound, RunSound, ReadSound, RemainingSound, ExecutionSound, LegSound,
         IdleRun, TradePc, MatchedPc
<1>7. OneExecution
  BY DEF Init, OneExecution, IdleRun
<1> QED
  BY <1>1, <1>2, <1>3, <1>4, <1>5, <1>6, <1>7, <1>8 DEF IInv

\* Every step keeps the invariant: one case for each process.
LEMMA NextIInv == IInv /\ Next => IInv'
<1> SUFFICES ASSUME IInv, Next
             PROVE  IInv'
  OBVIOUS
<1>1. /\ TypeOK /\ RowsFollowSubmissions /\ JobsFollowRows /\ CancelsSound
      /\ RowsSound /\ TradesSound /\ LocksCover /\ RunsSound /\ OneExecution
      /\ SettlementFollowsLedger
  BY DEF IInv
<1>2. TypeOK'
  BY <1>1, NextTypes
<1>3. ASSUME NEW o \in Order, Submit(o)
      PROVE  IInv'
  <2>1. Forward
    BY <1>1, <1>3, SubmitForward
  <2>2. UNCHANGED <<can, run, trades, settling>>
    BY <1>3 DEF Submit, SubmitRefused, SubmitLock, SubmitCache, SubmitCreate,
                SubmitEnqueue, SubmitFault, book
  <2>3. RowsFollowSubmissions'
    BY <1>1, <1>3, SubmissionsFollow
  <2>4. JobsFollowRows'
    BY <1>1, <1>2, <1>3, <2>1, SubmitJobs
  <2>5. CancelsSound'
    BY <1>1, <1>2, <2>1, <2>2, CancelsKept
  <2>6. RowsSound'
    BY <1>1, <1>2, <2>1, RowsFollow
  <2>7. TradesSound' /\ LocksCover'
    BY <1>1, <1>2, <2>1, <2>2, TradesKept, LocksKept
  <2>8. RunsSound'
    BY <1>1, <1>2, <2>1, <2>2, RunsKept
  <2>9. OneExecution' /\ SettlementFollowsLedger'
    BY <1>1, <2>2 DEF OneExecution, SettlementFollowsLedger
  <2> QED
    BY <1>2, <2>3, <2>4, <2>5, <2>6, <2>7, <2>8, <2>9 DEF IInv
<1>4. ASSUME NEW c \in Canceller, Cancel(c)
      PROVE  IInv'
  <2>1. Forward /\ NoNewRow
    BY <1>1, <1>4, CancelForward
  <2>2. UNCHANGED <<sub, jobs, run, trades, settling>>
    BY <1>4 DEF Cancel, CancelRead, CancelUnlock, CancelCache, CancelMark, CancelFault, book
  <2>3. RowsFollowSubmissions'
    BY <1>1, <2>1, <2>2, SubmissionsKept
  <2>4. JobsFollowRows'
    BY <1>1, <1>2, <2>1, <2>2, JobRowsKept
  <2>5. CancelsSound'
    BY <1>1, <1>2, <1>4, <2>1, CancelsFollow
  <2>6. RowsSound'
    BY <1>1, <1>2, <2>1, RowsFollow
  <2>7. TradesSound' /\ LocksCover'
    BY <1>1, <1>2, <2>1, <2>2, TradesKept, LocksKept
  <2>8. RunsSound'
    BY <1>1, <1>2, <2>1, <2>2, RunsKept
  <2>9. OneExecution' /\ SettlementFollowsLedger'
    BY <1>1, <2>2 DEF OneExecution, SettlementFollowsLedger
  <2> QED
    BY <1>2, <2>3, <2>4, <2>5, <2>6, <2>7, <2>8, <2>9 DEF IInv
<1>5. ASSUME NEW w \in Worker,
             \/ Work(w)
             \/ InsertFault(w) \/ TradeFault(w) \/ AttemptFault(w) \/ Crash(w)
      PROVE  IInv'
  <2>1. Forward /\ NoNewRow
    BY <1>1, <1>5, WorkForward
  <2>2. UNCHANGED <<sub, can>>
    BY <1>5 DEF Work, TakeJob, LoadOrder, CancelInactive, OpenOrder, FetchOpposing, NextOpposing,
       InsertTrade, ReadAvailable, ReadLocked, FillCache, WriteBalance, CacheBalance, FillBuyer,
       FillSeller, EnqueueSettlement, TradeExecuted, FinishMatching,
       ScheduleOpposing, InsertFault, TradeFault, AttemptFault, Crash
  <2>3. RowsFollowSubmissions'
    BY <1>1, <2>1, <2>2, SubmissionsKept
  <2>4. JobsFollowRows'
    BY <1>1, <1>2, <1>5, <2>1, WorkJobs
  <2>5. CancelsSound'
    BY <1>1, <1>2, <2>1, <2>2, CancelsKept
  <2>6. RowsSound'
    BY <1>1, <1>2, <2>1, RowsFollow
  <2>7. TradesSound'
    BY <1>1, <1>2, <1>5, <2>1, MatchTrades, OtherTradesUntouched, TradesKept
  <2>10. LocksCover'
    BY <1>1, <1>2, <1>5, <2>1, <2>7, LocksMatched, OtherTradesUntouched, LocksKept
  <2>8. RunsSound'
    BY <1>1, <1>2, <1>5, <2>1, RunsFollow
  <2>9. OneExecution' /\ SettlementFollowsLedger'
    BY <1>1, <1>2, <1>5, OneExecutionFollows, SettlementFollows
  <2> QED
    BY <1>2, <2>3, <2>4, <2>5, <2>6, <2>7, <2>8, <2>9, <2>10 DEF IInv
<1>6. CASE DeactivatePair
  <2>1. UNCHANGED <<row, trades, traded, settling, jobs, sub, can, run>>
    BY <1>6 DEF DeactivatePair, book
  <2>2. Forward /\ NoNewRow
    BY <1>1, <2>1, StoresKept
  <2>3. RowsFollowSubmissions' /\ JobsFollowRows' /\ CancelsSound'
    BY <1>1, <1>2, <2>1, <2>2, SubmissionsKept, JobRowsKept, CancelsKept
  <2>4. RowsSound' /\ TradesSound' /\ LocksCover' /\ RunsSound'
    BY <1>1, <1>2, <2>1, <2>2, RowsFollow, TradesKept, LocksKept, RunsKept
  <2>5. OneExecution' /\ SettlementFollowsLedger'
    BY <1>1, <2>1 DEF OneExecution, SettlementFollowsLedger
  <2> QED
    BY <1>2, <2>3, <2>4, <2>5 DEF IInv
<1> QED
  BY <1>3, <1>4, <1>5, <1>6 DEF Next

\* A step that changes no variable keeps the invariant.
LEMMA StutterIInv == IInv /\ UNCHANGED vars => IInv'
<1> SUFFICES ASSUME IInv, UNCHANGED vars
             PROVE  IInv'
  OBVIOUS
<1>1. UNCHANGED <<row, bal, cache, trades, settling, jobs, sub, can, run, pairActive,
                  faults, traded, overlapped>>
  BY DEF vars
<1>2. TypeOK'
  BY <1>1 DEF IInv, TypeOK
<1>3. Forward /\ NoNewRow
  BY <1>1, StoresKept DEF IInv
<1>4. RowsFollowSubmissions' /\ JobsFollowRows' /\ CancelsSound'
  BY <1>1, <1>2, <1>3, SubmissionsKept, JobRowsKept, CancelsKept DEF IInv
<1>5. RowsSound' /\ TradesSound' /\ LocksCover' /\ RunsSound'
  BY <1>1, <1>2, <1>3, TradesKept, LocksKept, RunsKept DEF IInv, RowsSound
<1>6. OneExecution' /\ SettlementFollowsLedger'
  BY <1>1 DEF IInv, OneExecution, SettlementFollowsLedger
<1> QED
  BY <1>2, <1>4, <1>5, <1>6 DEF IInv

-----------------------------------------------------------------------------
(* What users hold follows the trades *)

\* What a user holds of a token is a natural number.
LEMMA TotalType ==
  ASSUME TypeOK, NEW u \in User, NEW t \in Token
  PROVE  /\ bal[u][t] \in Balance
         /\ Total(bal[u][t]) \in Nat
<1>1. bal[u][t] \in Balance
  BY DEF TypeOK
<1>. QED  BY <1>1 DEF Balance, Total

\* Locking and unlocking change the total of no balance.
LEMMA LockingKeepsTotal ==
  ASSUME TypeOK, NEW v \in User, NEW s \in Token, NEW a \in Int,
         bal' = [bal EXCEPT ![v][s] = Locked(bal[v][s], a)],
         NEW u \in User, NEW t \in Token
  PROVE  Total(bal'[u][t]) = Total(bal[u][t])
<1>1. Total(Locked(bal[v][s], a)) = Total(bal[v][s])
  BY TotalType DEF Locked, Total, Balance
<1>2. PICK b : b = Locked(bal[v][s], a)
  OBVIOUS
<1>3. bal \in [User -> [Token -> Balance]]
  BY DEF TypeOK
<1>4. /\ u = v /\ t = s => bal'[u][t] = b
      /\ u # v \/ t # s => bal'[u][t] = bal[u][t]
  BY <1>2, <1>3
<1>. QED  BY <1>1, <1>2, <1>4

\* A step that makes no balance update of a trade keeps the ledger in line.
LEMMA LedgerKept ==
  ASSUME TypeOK, TypeOK', LedgerMatchesTrades, overlapped' = overlapped,
         \A u \in User, t \in Token : Total(bal'[u][t]) = Total(bal[u][t]),
         Len(trades) <= Len(trades'),
         \A i \in 1..Len(trades) : trades'[i] = trades[i],
         \A i \in 1..Len(trades') : i \in 1..Len(trades) \/ trades'[i].legs = 0
  PROVE  LedgerMatchesTrades'
<1> SUFFICES ASSUME NEW u \in User, NEW t \in Token, <<u, t>> \notin overlapped
             PROVE  Total(bal'[u][t]) = InitialBalance[u][t] + Flow(u, t)'
  BY DEF LedgerMatchesTrades
<1>1. trades \in Seq(TradeState) /\ trades' \in Seq(TradeState)
  BY DEF TypeOK
<1>2. FlowOf(u, t, trades') = FlowOf(u, t, trades)
  BY <1>1, FlowSame
<1>. QED  BY <1>2, FlowIsFlowOf DEF LedgerMatchesTrades

\* So does a step that leaves the balances and the trades alone.
LEMMA LedgerUntouched ==
  ASSUME TypeOK, TypeOK', LedgerMatchesTrades, UNCHANGED <<bal, trades, overlapped>>
  PROVE  LedgerMatchesTrades'
<1>1. Len(trades) \in Nat
  BY LenProperties DEF TypeOK
<1>2. Len(trades) <= Len(trades') /\ 1..Len(trades') = 1..Len(trades)
  BY <1>1
<1>. QED  BY <1>2, LedgerKept

\* And a lock or an unlock.
LEMMA LedgerLocked ==
  ASSUME TypeOK, TypeOK', LedgerMatchesTrades, UNCHANGED <<trades, overlapped>>,
         NEW v \in User, NEW s \in Token, NEW a \in Int,
         bal' = [bal EXCEPT ![v][s] = Locked(bal[v][s], a)]
  PROVE  LedgerMatchesTrades'
<1>1. Len(trades) \in Nat
  BY LenProperties DEF TypeOK
<1>2. Len(trades) <= Len(trades') /\ 1..Len(trades') = 1..Len(trades)
  BY <1>1
<1>3. \A u \in User, t \in Token : Total(bal'[u][t]) = Total(bal[u][t])
  BY LockingKeepsTotal
<1>. QED  BY <1>2, <1>3, LedgerKept

\* A balance update of a trade adds to the balance what it adds to the flow,
\* and marks a balance it computed from a total that no longer held.
LEMMA LedgerUpdated ==
  ASSUME TypeOK, TypeOK', RunsSound, LedgerMatchesTrades,
         NEW w \in Worker, WriteBalance(w)
  PROVE  LedgerMatchesTrades'
<1> DEFINE r == run[w]
           leg == CurrentLeg(w)
<1>1. CASE UNCHANGED <<bal, trades, overlapped>>
  BY <1>1, LedgerUntouched
<1>2. CASE ~UNCHANGED <<bal, trades, overlapped>>
  <2>1. PICK b : b = [available |-> r.entry.available + leg.available,
                      locked |-> r.entry.locked + leg.locked]
    OBVIOUS
  <2>2. /\ r.pc = "write"
        /\ bal' = [bal EXCEPT ![leg.user][leg.token] = b]
        /\ trades' = [trades EXCEPT ![r.trade].legs = r.leg]
        /\ overlapped' = IF Total(bal[leg.user][leg.token]) = Total(r.entry)
                         THEN overlapped
                         ELSE overlapped \cup {<<leg.user, leg.token>>}
    BY <1>2, <2>1 DEF WriteBalance
  <2>3. /\ r.leg \in 1..4 /\ leg.user \in User /\ leg.token \in Token
        /\ leg.available \in Int /\ leg.locked \in Int
    BY <2>2, CurrentLegType
  <2>4. r.trade \in 1..Len(trades) /\ trades[r.trade].legs = r.leg - 1
    BY <2>2, RunningTrade DEF RunsSound, RunSound, LegSound, TradePc
  <2>5. leg = Leg(r.leg, trades[r.trade])
    BY DEF CurrentLeg
  <2>6. r.entry.available \in Int /\ r.entry.locked \in Int
    <3>1. r.entry \in Balance
      BY DEF TypeOK, RunState
    <3>. QED  BY <3>1 DEF Balance
  <2> HIDE DEF r, leg
  <2>7. PICK d \in Int : d = leg.available + leg.locked
    BY <2>3
  <2>8. Total(b) = Total(r.entry) + d
    BY <2>1, <2>3, <2>6, <2>7 DEF Total
  <2>9. OneMore(trades, trades', r.trade, r.leg)
    <3>1. r.leg \in 0..4
      BY <2>3
    <3>. QED  BY <2>2, <2>3, <2>4, <3>1, LegsWritten DEF OneMore
  <2>10. \A u \in User, t \in Token :
           FlowOf(u, t, trades') = IF leg.user = u /\ leg.token = t
                                   THEN FlowOf(u, t, trades) + d
                                   ELSE FlowOf(u, t, trades)
    <3>1. trades \in Seq(TradeState) /\ trades' \in Seq(TradeState)
      BY DEF TypeOK
    <3>. QED  BY <2>5, <2>7, <2>9, <3>1, FlowMore
  <2> SUFFICES ASSUME NEW u \in User, NEW t \in Token, <<u, t>> \notin overlapped'
               PROVE  Total(bal'[u][t]) = InitialBalance[u][t] + Flow(u, t)'
    BY DEF LedgerMatchesTrades
  <2>11. Total(bal[u][t]) = InitialBalance[u][t] + FlowOf(u, t, trades)
    <3>1. <<u, t>> \notin overlapped
      BY <2>2
    <3>. QED  BY <3>1, FlowIsFlowOf DEF LedgerMatchesTrades
  <2>12. bal'[u][t] = IF leg.user = u /\ leg.token = t THEN b ELSE bal[u][t]
    <3>1. bal \in [User -> [Token -> Balance]]
      BY DEF TypeOK
    <3>. QED  BY <2>2, <2>3, <3>1
  <2>13. CASE leg.user = u /\ leg.token = t
    <3>1. Total(bal[u][t]) = Total(r.entry)
      BY <2>2, <2>13
    <3>2. Total(bal'[u][t]) = Total(r.entry) + d
      BY <2>8, <2>12, <2>13
    <3>3. InitialBalance[u][t] \in Int /\ FlowOf(u, t, trades) \in Int
      BY NumberAssumption, FlowType DEF TypeOK
    <3>4. (InitialBalance[u][t] + FlowOf(u, t, trades)) + d
            = InitialBalance[u][t] + (FlowOf(u, t, trades) + d)
      BY <3>3
    <3>. QED  BY <2>10, <2>11, <2>13, <3>1, <3>2, <3>4, FlowIsFlowOf
  <2>14. CASE ~(leg.user = u /\ leg.token = t)
    BY <2>10, <2>11, <2>12, <2>14, FlowIsFlowOf
  <2>. QED  BY <2>13, <2>14
<1>. QED  BY <1>1, <1>2

\* A turn of the loop adds a trade without balance updates.
LEMMA LedgerMatched ==
  ASSUME TypeOK, TypeOK', RunsSound, LedgerMatchesTrades,
         NEW w \in Worker, InsertTrade(w)
  PROVE  LedgerMatchesTrades'
<1>1. UNCHANGED <<bal, overlapped>>
  BY DEF InsertTrade, ledger
<1>2. CASE trades' = trades
  BY <1>1, <1>2, LedgerUntouched
<1>3. CASE trades' # trades
  <2>1. /\ Len(trades') = Len(trades) + 1
        /\ trades'[Len(trades) + 1].legs = 0
        /\ \A i \in 1..Len(trades) : trades'[i] = trades[i]
    <3>1. \E o, p, q : /\ Len(trades') = Len(trades) + 1
                       /\ trades'[Len(trades) + 1] = TradeOf(o, p, q)
                       /\ \A i \in 1..Len(trades) : trades'[i] = trades[i]
      <4>1. PICK x \in run[w].todo :
              LET o == run[w].job[1]
                  qty == Least(run[w].remaining, Quantity[x.order] - x.filled)
              IN  /\ Len(trades') = Len(trades) + 1
                  /\ trades'[Len(trades) + 1] = TradeOf(o, x.order, qty)
                  /\ \A i \in 1..Len(trades) : trades'[i] = trades[i]
        BY <1>3, TradeInserted
      <4>. QED  BY <4>1
    <3>2. \A o, p, q : TradeOf(o, p, q).legs = 0
      BY DEF TradeOf
    <3>. QED  BY <3>1, <3>2
  <2>2. Len(trades) \in Nat
    BY LenProperties DEF TypeOK
  <2>3. \A i \in 1..Len(trades') : i \in 1..Len(trades) \/ i = Len(trades) + 1
    BY <2>1, <2>2
  <2>. QED  BY <1>1, <2>1, <2>2, <2>3, LedgerKept
<1>. QED  BY <1>2, <1>3

\* Every step keeps the ledger in line with the trades.
LEMMA LedgerFollows ==
  ASSUME IInv, TypeOK', LedgerMatchesTrades, [Next]_vars
  PROVE  LedgerMatchesTrades'
<1>1. TypeOK /\ CancelsSound /\ RunsSound
  BY DEF IInv
<1>2. ASSUME NEW o \in Order, Submit(o)
      PROVE  LedgerMatchesTrades'
  <2>1. CASE SubmitLock(o)
    <3>1. /\ Owner[o] \in User /\ LockToken(o) \in Token
          /\ LockAmount(o, Quantity[o]) \in Int
      BY LockIsNatural, OrderAssumption
    <3>2. /\ UNCHANGED <<trades, overlapped>>
          /\ bal' = [bal EXCEPT ![Owner[o]][LockToken(o)] =
                       Locked(bal[Owner[o]][LockToken(o)],
                              LockAmount(o, Quantity[o]))]
      BY <2>1 DEF SubmitLock, book
    <3>. QED  BY <1>1, <3>1, <3>2, LedgerLocked
  <2>2. CASE ~SubmitLock(o)
    <3>1. UNCHANGED <<bal, trades, overlapped>>
      BY <1>2, <2>2 DEF Submit, SubmitRefused, SubmitCache, SubmitCreate,
                        SubmitEnqueue, SubmitFault, ledger, book
    <3>. QED  BY <1>1, <3>1, LedgerUntouched
  <2>. QED  BY <2>1, <2>2
<1>3. ASSUME NEW c \in Canceller, Cancel(c)
      PROVE  LedgerMatchesTrades'
  <2>1. CASE CancelUnlock(c) /\ bal' # bal
    <3> DEFINE o == can[c].order
               a == LockAmount(o, Quantity[o] - can[c].filled)
    <3>1. /\ o \in Order /\ can[c].filled \in Nat
          /\ can[c].filled <= Quantity[o]
      BY <1>1, <2>1 DEF CancelUnlock, CancelsSound, CancelState, TypeOK
    <3>2. Quantity[o] - can[c].filled \in Nat
      BY <3>1, OrderAssumption
    <3>3. Owner[o] \in User /\ LockToken(o) \in Token /\ a \in Nat
      BY <3>1, <3>2, LockIsNatural
    <3>4. /\ UNCHANGED <<trades, overlapped>>
          /\ bal' = [bal EXCEPT ![Owner[o]][LockToken(o)] =
                       Locked(bal[Owner[o]][LockToken(o)], -a)]
      BY <2>1 DEF CancelUnlock, Unlocked, book
    <3> HIDE DEF a
    <3>5. -a \in Int
      BY <3>3
    <3>. QED  BY <1>1, <3>3, <3>4, <3>5, LedgerLocked
  <2>2. CASE CancelUnlock(c) /\ bal' = bal
    BY <1>1, <2>2, LedgerUntouched DEF CancelUnlock, book
  <2>3. CASE ~CancelUnlock(c)
    <3>1. UNCHANGED <<bal, trades, overlapped>>
      BY <1>3, <2>3 DEF Cancel, CancelRead, CancelCache, CancelMark, CancelFault,
                        ledger, book
    <3>. QED  BY <1>1, <3>1, LedgerUntouched
  <2>. QED  BY <2>1, <2>2, <2>3
<1>4. ASSUME NEW w \in Worker,
             \/ Work(w)
             \/ InsertFault(w) \/ TradeFault(w) \/ AttemptFault(w) \/ Crash(w)
      PROVE  LedgerMatchesTrades'
  <2>1. CASE InsertTrade(w)
    BY <1>1, <2>1, LedgerMatched
  <2>2. CASE WriteBalance(w)
    BY <1>1, <2>2, LedgerUpdated
  <2>3. CASE ~InsertTrade(w) /\ ~WriteBalance(w)
    <3>1. UNCHANGED <<trades, overlapped>>
      BY <1>4, <2>3 DEF Work, TakeJob, LoadOrder, CancelInactive, OpenOrder,
         FetchOpposing, NextOpposing, ReadAvailable, ReadLocked, FillCache, CacheBalance, FillBuyer,
         FillSeller, EnqueueSettlement, TradeExecuted, FinishMatching,
         ScheduleOpposing, InsertFault, TradeFault, AttemptFault, Crash, book
    <3>2. UNCHANGED bal
      BY <1>4, <2>3 DEF Work, TakeJob, LoadOrder, CancelInactive, OpenOrder,
         FetchOpposing, NextOpposing, ReadAvailable, ReadLocked, FillCache, CacheBalance, FillBuyer,
         FillSeller, EnqueueSettlement, TradeExecuted, FinishMatching,
         ScheduleOpposing, InsertFault, TradeFault, AttemptFault, Crash, ledger
    <3>. QED  BY <1>1, <3>1, <3>2, LedgerUntouched
  <2>. QED  BY <2>1, <2>2, <2>3
<1>5. CASE DeactivatePair \/ UNCHANGED vars
  <2>1. UNCHANGED <<bal, trades, overlapped>>
    BY <1>5 DEF DeactivatePair, vars, ledger, book
  <2>. QED  BY <1>1, <2>1, LedgerUntouched
<1>. QED  BY <1>2, <1>3, <1>4, <1>5 DEF Next

\* Nothing was traded yet: users hold what they started with.
LEMMA InitLedger == Init => LedgerMatchesTrades
<1> SUFFICES ASSUME Init, NEW u \in User, NEW t \in Token
             PROVE  Total(bal[u][t]) = InitialBalance[u][t] + Flow(u, t)
  BY DEF LedgerMatchesTrades
<1>1. trades = <<>> /\ bal[u][t] = [available |-> InitialBalance[u][t], locked |-> 0]
  BY DEF Init
<1>2. Made(u, t, trades) = {}
  BY <1>1, EmptySeq DEF Made, Updates
<1>3. Flow(u, t) = 0
  BY <1>2, FlowIsFlowOf, SumOfNone DEF FlowOf
<1>4. InitialBalance[u][t] \in Nat
  BY NumberAssumption
<1>. QED  BY <1>1, <1>3, <1>4 DEF Total

-----------------------------------------------------------------------------
(* The theorems *)

\* The inductive invariant holds in every reachable state.
THEOREM InductiveInvariant == Spec => []IInv
BY InitIInv, NextIInv, StutterIInv, PTL DEF Spec

\* Type correctness: among it, no balance ever becomes negative.
THEOREM TypeCorrect == Spec => []TypeOK
<1>1. IInv => TypeOK
  BY DEF IInv
<1> QED
  BY <1>1, InductiveInvariant, PTL

\* No phantom fill: filled_quantity never runs ahead of the recorded trades,
\* whatever jobs overlap, fail or are repeated.
THEOREM NoPhantomFill == Spec => []FillsWereTraded
<1>1. IInv => FillsWereTraded
  BY DEF IInv, RowsSound, FillsWereTraded
<1> QED
  BY <1>1, InductiveInvariant, PTL

\* No fill, written or about to be, exceeds the quantity of its order.
THEOREM FillsFit == Spec => []FillsFitTheOrder
<1>1. ASSUME IInv
      PROVE  FillsFitTheOrder
  <2>1. \A o \in Order : row[o].filled <= Quantity[o]
    BY <1>1 DEF IInv, RowsSound
  <2>2. ASSUME NEW w \in Worker, run[w].pc \in {"fillBuyer", "fillSeller"}
        PROVE  /\ Filled(w, trades[run[w].trade].buyer)
                    <= Quantity[trades[run[w].trade].buyer]
               /\ Filled(w, trades[run[w].trade].seller)
                    <= Quantity[trades[run[w].trade].seller]
    BY <1>1, <2>2, FilledSound DEF IInv, TradePc
  <2> QED
    BY <2>1, <2>2 DEF FillsFitTheOrder
<1> QED
  BY <1>1, InductiveInvariant, PTL

\* No trade goes through the limit of either side.
THEOREM LimitsRespected == Spec => []TradesRespectLimits
<1>1. IInv => TradesRespectLimits
  BY DEF IInv, TradesSound, TradesRespectLimits
<1> QED
  BY <1>1, InductiveInvariant, PTL

\* A lock covers its order: however its quotes were rounded, what its trades
\* took off and what a cancellation gives back come to no more than was locked.
THEOREM LocksSuffice == Spec => []LocksCoverTrades
<1>1. ASSUME IInv
      PROVE  LocksCoverTrades
  <2> SUFFICES ASSUME NEW o \in Order, Limited(o), traded[o] <= Quantity[o]
               PROVE  TakenOff(o) + LockAmount(o, Quantity[o] - traded[o])
                        <= LockAmount(o, Quantity[o])
    BY DEF LocksCoverTrades, Limited
  <2>1. trades \in Seq(TradeState) /\ traded[o] \in Nat /\ Quantity[o] \in Nat
    BY <1>1, OrderAssumption DEF IInv, TypeOK
  <2>2. PICK rest \in Nat :
          rest = Quantity[o] - traded[o] /\ traded[o] + rest = Quantity[o]
    BY <2>1
  <2>3. LockAmount(o, traded[o]) + LockAmount(o, rest) <= LockAmount(o, Quantity[o])
    BY <2>1, <2>2, LocksAdd
  <2>4. TakenOff(o) <= LockAmount(o, traded[o]) /\ TakenOff(o) \in Int
    BY <1>1, <2>1, TakenOffFrom, TakenType DEF IInv, LocksCover
  <2>5. /\ LockAmount(o, traded[o]) \in Nat /\ LockAmount(o, rest) \in Nat
        /\ LockAmount(o, Quantity[o]) \in Nat
    BY <2>1, LockIsNatural
  <2>. QED  BY <2>2, <2>3, <2>4, <2>5
<1> QED
  BY <1>1, InductiveInvariant, PTL

\* What a user holds of a token is what the user started with and what the
\* balance updates of trades made of it, each counted once, unless one of them
\* was computed from a total that had changed since it was read.
THEOREM LedgerFollowsTrades == Spec => []LedgerMatchesTrades
<1>1. IInv /\ IInv' /\ LedgerMatchesTrades /\ [Next]_vars => LedgerMatchesTrades'
  <2>1. IInv' => TypeOK'
    BY DEF IInv
  <2>. QED  BY <2>1, LedgerFollows
<1>. QED  BY <1>1, InitLedger, InductiveInvariant, PTL DEF Spec

\* A trade is sent to settlement only with its four balance updates made.
THEOREM OnlyCompleteTradesSettle == Spec => []SettlementFollowsLedger
<1>1. IInv => SettlementFollowsLedger
  BY DEF IInv
<1> QED
  BY <1>1, InductiveInvariant, PTL

\* An accepted order that is still PENDING_MATCH has its matching job queued,
\* running or given up: it is never forgotten.
THEOREM NoOrderForgotten == Spec => []NoStrandedOrder
<1>1. ASSUME IInv
      PROVE  NoStrandedOrder
  <2> SUFFICES ASSUME NEW o \in Order, sub[o].pc = "accepted",
                      row[o].status = "PENDING_MATCH"
               PROVE  jobs[<<o, o>>].state \in {"waiting", "active", "failed"}
    BY DEF NoStrandedOrder
  <2>1. <<o, o>> \in Job /\ <<o, o>>[1] = o
    BY DEF Job
  <2>2. jobs[<<o, o>>].state # "none" /\ jobs[<<o, o>>].state # "completed"
    BY <1>1, <2>1 DEF IInv, RowsFollowSubmissions, JobsFollowRows
  <2>3. jobs[<<o, o>>].state \in JobState
    BY <1>1, <2>1 DEF IInv, TypeOK, JobRecord
  <2> QED
    BY <2>2, <2>3 DEF JobState
<1> QED
  BY <1>1, InductiveInvariant, PTL

=============================================================================
