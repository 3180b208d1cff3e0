---------------------------- MODULE OrderMatching ----------------------------
(***************************************************************************)
(* Spot trading on one trading pair: TradingService.submitOrder and        *)
(* cancelOrder (the HTTP handlers), the user_balances ledger with its      *)
(* Redis cache (TokenService, tokenRepository), and the matching worker of *)
(* the BullMQ queue 'order-matching' (MatchingWorker), which trades one    *)
(* order against the opposing side of the book.                            *)
(*                                                                         *)
(* An action ends where the code awaits a store whose content another      *)
(* handler can change.  executeTrade opens a transaction on one pooled     *)
(* connection, but every statement inside goes through getDatabasePool()   *)
(* and so commits by itself: BEGIN, COMMIT and ROLLBACK enclose nothing,   *)
(* and each statement is an action of its own.  The connection is held     *)
(* until the trade is over, while each of those statements takes another   *)
(* of the pool: with as many trades in progress as the pool has            *)
(* connections, every statement of the service waits, for no time limit is *)
(* set (PoolFree).                                                         *)
(*                                                                         *)
(* The Redis order book of the worker never holds an entry: mapOrderRow    *)
(* gives orderNumber as a BigInt, JSON.stringify(order) throws on it, and  *)
(* addOrderToOrderBook, cacheOrdersInRedis and removeOrderFromOrderBook    *)
(* swallow that error.  getOpposingOrders is therefore its fallback, the   *)
(* query of the orders table.                                              *)
(***************************************************************************)
EXTENDS Integers, Sequences, FiniteSets, FiniteSetsExt

CONSTANTS
  User,              \* users with balances
  Order,             \* orders users submit
  Worker,            \* concurrent executions of the matching worker (10)
  Canceller,         \* DELETE /trading/orders/:orderId requests
  Owner, Side, Type, \* [Order -> User], [Order -> {"BUY","SELL"}], type
  Price, Quantity,   \* [Order -> Nat]; a price of 0 is SQL NULL
  Scale,             \* units of a price, 10^18
  FeeRate,           \* 25
  FeeDivisor,        \* 10000
  InitialBalance,    \* available balance each user starts with
  OrderStatusCheck,  \* values the CHECK of orders.status accepts
  Attempts,          \* attempts of a matching job (5)
  MaxStalls,         \* BullMQ's maxStalledCount
  PoolMax,           \* connections of the database pool (10)
  MaxFaults,         \* bound: failed calls and crashes in a behaviour
  NoEntry            \* no balance cached

Token == {"base", "quote"}
OrderType == {"LIMIT", "MARKET", "STOP_LIMIT"}
OrderStatus ==
  {"PENDING_MATCH", "OPEN", "PARTIAL", "FILLED", "CANCELLED", "REJECTED"}
Balance == [available : Nat, locked : Nat]

\* An order that reaches the ledger carries a price, unless it is a MARKET
\* sell: a LIMIT without one is refused, and so is a MARKET buy, whose quote
\* amount cannot be computed.
ASSUME OrderAssumption ==
  /\ IsFiniteSet(Order)
  /\ Owner \in [Order -> User]
  /\ Side \in [Order -> {"BUY", "SELL"}]
  /\ Type \in [Order -> OrderType]
  /\ Price \in [Order -> Nat]
  /\ Quantity \in [Order -> Nat \ {0}]
  /\ \A o \in Order : Price[o] = 0 => Type[o] = "MARKET" /\ Side[o] = "SELL"

ASSUME NumberAssumption ==
  /\ Scale \in Nat \ {0} /\ FeeRate \in Nat /\ FeeDivisor \in Nat \ {0}
  /\ Attempts \in Nat \ {0} /\ MaxStalls \in Nat /\ MaxFaults \in Nat
  /\ PoolMax \in Nat \ {0}
  /\ InitialBalance \in [User -> [Token -> Nat]]
  /\ OrderStatusCheck \subseteq OrderStatus

VARIABLES
  row,        \* orders: [status, filled, at]; status "none" before the INSERT
  bal,        \* user_balances
  cache,      \* token:balance:<user>:<token> in Redis
  trades,     \* the trades table, in insertion order
  settling,   \* trades whose settlement job was enqueued
  jobs,       \* BullMQ 'order-matching': state of each job id
  sub,        \* where the submitOrder call of each order is
  can,        \* where each cancelOrder call is
  run,        \* where each execution of the worker is
  pairActive, \* trading_pairs.is_active
  faults,     \* failed calls and crashes so far
  traded,     \* history: quantity of the trades rows of each order
  overlapped  \* history: balances written from values that no longer held

vars == <<row, bal, cache, trades, settling, jobs, sub, can, run, pairActive,
          faults, traded, overlapped>>

-----------------------------------------------------------------------------
(* Amounts *)

QuoteAmount(quantity, price) == (quantity * price) \div Scale

Fee(quantity, price) ==
  (QuoteAmount(quantity, price) * FeeRate) \div FeeDivisor

LockToken(o) == IF Side[o] = "BUY" THEN "quote" ELSE "base"

\* Mutant: the price is left out of what a buyer locks.
LockQuantity(o, quantity) == quantity

\* amountToLock and amountToUnlock.
LockAmount(o, quantity) ==
  IF Side[o] = "BUY" THEN QuoteAmount(quantity, Price[o]) ELSE quantity

\* The four balance updates of a trade, in the order executeTrade makes them.
\* The buyer's fee, an amount of quote token, is taken from the base token.
Leg(i, t) ==
  LET value == QuoteAmount(t.quantity, t.price)
      fee   == Fee(t.quantity, t.price)
  IN  CASE i = 1 -> [user |-> Owner[t.seller], token |-> "base",
                     available |-> 0, locked |-> -t.quantity]
        [] i = 2 -> [user |-> Owner[t.seller], token |-> "quote",
                     available |-> value - fee, locked |-> 0]
        [] i = 3 -> [user |-> Owner[t.buyer], token |-> "quote",
                     available |-> 0, locked |-> -value]
        [] i = 4 -> [user |-> Owner[t.buyer], token |-> "base",
                     available |-> t.quantity - fee, locked |-> 0]

\* canMatch(order, opposingOrder)
CanMatch(o, p) ==
  \/ Type[o] = "MARKET"
  \/ /\ Price[o] # 0 /\ Price[p] # 0
     /\ IF Side[o] = "BUY" THEN Price[o] >= Price[p] ELSE Price[o] <= Price[p]

-----------------------------------------------------------------------------
(* Matching jobs: match-<o> is <<o, o>>, match-<o>-trigger-<p> is <<o, p>>. *)

Job == Order \X Order
JobState == {"none", "waiting", "active", "completed", "failed"}

\* Queue.add is a no-op while a job of that id is kept (the last 1000
\* completed ones and every failed one are).
Add(js, ids) ==
  [j \in Job |-> IF j \in ids /\ js[j].state = "none"
                 THEN [js[j] EXCEPT !.state = "waiting"] ELSE js[j]]

\* Mutant: the processor swallows the error instead of rethrowing it.
AttemptSwallowed(js, j) == [js EXCEPT ![j].state = "completed"]

\* The processor threw: BullMQ counts the attempt and retries or gives up.
AttemptFailed(js, j) ==
  [js EXCEPT ![j].attempts = @ + 1,
             ![j].state = IF js[j].attempts + 1 < Attempts
                          THEN "waiting" ELSE "failed"]

\* Mutant: nothing looks for stalled jobs.
StalledForever(js, j) == [js EXCEPT ![j].stalls = @ + 1]

\* The process died: the job stalls and is given to another worker.
Stalled(js, j) ==
  [js EXCEPT ![j].stalls = @ + 1,
             ![j].state = IF js[j].stalls < MaxStalls THEN "waiting" ELSE "failed"]

Completed(js, j) == [js EXCEPT ![j].state = "completed"]

\* What a handler remembers between awaits.  A submission and a cancellation
\* keep the balance row their UPDATE returned, a cancellation the order's
\* filled_quantity as it read it.  An execution of the worker keeps its job,
\* the order's filled_quantity as read, what is left to match, the opposing
\* orders as read, the trade and balance update in progress, and a balance row
\* fetched but not cached yet.
NoJob == <<>>
Zero == [available |-> 0, locked |-> 0]
NewSubmission == [pc |-> "submit", entry |-> Zero]
IdleCancel == [pc |-> "idle", order |-> NoJob, filled |-> 0, entry |-> Zero]
IdleRun == [pc |-> "idle", job |-> NoJob, filled |-> 0, remaining |-> 0,
            todo |-> {}, makerFilled |-> 0, trade |-> 0, leg |-> 0,
            entry |-> Zero, fetched |-> Zero]

Init ==
  /\ row = [o \in Order |-> [status |-> "none", filled |-> 0, at |-> 0]]
  /\ bal = [u \in User |-> [t \in Token |->
              [available |-> InitialBalance[u][t], locked |-> 0]]]
  /\ cache = [u \in User |-> [t \in Token |-> NoEntry]]
  /\ trades = <<>>
  /\ settling = {}
  /\ jobs = [j \in Job |-> [state |-> "none", attempts |-> 0, stalls |-> 0]]
  /\ sub = [o \in Order |-> NewSubmission]
  /\ can = [c \in Canceller |-> IdleCancel]
  /\ run = [w \in Worker |-> IdleRun]
  /\ pairActive = TRUE
  /\ faults = 0
  /\ traded = [o \in Order |-> 0]
  /\ overlapped = {}

ledger == <<bal, cache>>
book == <<trades, settling, traded, overlapped>>

\* executeTrade's client: connected before anything else, released in the
\* finally block.
Clients ==
  {w \in Worker : run[w].pc \in
     {"insert", "available", "availableFill", "locked", "lockedFill", "write",
      "cache", "fillBuyer", "fillSeller", "settle", "notify"}}

\* pool.connect() and pool.query() wait until a connection is free.  Every
\* statement has this guard; a lookup in Redis or an enqueued job has not.
PoolFree == Cardinality(Clients) < PoolMax

\* Mutant: what is locked stays available.
LockedStays(b, amount) ==
  [available |-> b.available, locked |-> b.locked + amount]

\* lockBalance and unlockBalance: one UPDATE with its condition in WHERE.
Locked(b, amount) ==
  [available |-> b.available - amount, locked |-> b.locked + amount]

Unlocked(b, amount) == Locked(b, -amount)

-----------------------------------------------------------------------------
(* submitOrder *)

\* Signature, nonce, pair, compliance, size or price refused: nothing locked.
SubmitRefused(o) ==
  /\ sub[o].pc = "submit"
  /\ sub' = [sub EXCEPT ![o].pc = "refused"]
  /\ UNCHANGED <<row, ledger, book, jobs, can, run, pairActive, faults>>

\* lockBalance, which throws when the available balance does not suffice.
SubmitLock(o) ==
  LET u == Owner[o]
      t == LockToken(o)
      b == Locked(bal[u][t], LockAmount(o, Quantity[o]))
  IN  /\ sub[o].pc = "submit"
      /\ PoolFree
      /\ pairActive
      /\ b.available >= 0
      /\ bal' = [bal EXCEPT ![u][t] = b]
      /\ sub' = [sub EXCEPT ![o] = [pc |-> "cache", entry |-> b]]
      /\ UNCHANGED <<row, cache, book, jobs, can, run, pairActive, faults>>

\* cacheBalance(balance), with the row the UPDATE returned.
SubmitCache(o) ==
  /\ sub[o].pc = "cache"
  /\ cache' = [cache EXCEPT ![Owner[o]][LockToken(o)] = sub[o].entry]
  /\ sub' = [sub EXCEPT ![o] = [pc |-> "create", entry |-> Zero]]
  /\ UNCHANGED <<row, bal, book, jobs, can, run, pairActive, faults>>

\* createOrder with status PENDING_MATCH.  Nothing catches an INSERT that the
\* table's CHECK refuses: the call ends, and what it locked stays locked.
SubmitCreate(o) ==
  /\ sub[o].pc = "create"
  /\ PoolFree
  /\ IF "PENDING_MATCH" \in OrderStatusCheck
     THEN /\ row' = [row EXCEPT ![o] =
               [status |-> "PENDING_MATCH", filled |-> 0,
                at |-> Cardinality({p \in Order : row[p].status # "none"})]]
          /\ sub' = [sub EXCEPT ![o].pc = "enqueue"]
     ELSE /\ sub' = [sub EXCEPT ![o].pc = "failed"]
          /\ row' = row
  /\ UNCHANGED <<ledger, book, jobs, can, run, pairActive, faults>>

\* Audit log, open-orders list, event, and matchingQueue.add.
SubmitEnqueue(o) ==
  /\ sub[o].pc = "enqueue"
  /\ PoolFree
  /\ jobs' = Add(jobs, {<<o, o>>})
  /\ sub' = [sub EXCEPT ![o].pc = "accepted"]
  /\ UNCHANGED <<row, ledger, book, can, run, pairActive, faults>>

\* An awaited call of the handler fails, or its process dies: there is no
\* catch, so nothing is undone.
SubmitFault(o) ==
  /\ sub[o].pc \in {"cache", "create", "enqueue"}
  /\ faults < MaxFaults
  /\ faults' = faults + 1
  /\ sub' = [sub EXCEPT ![o] = [pc |-> "failed", entry |-> Zero]]
  /\ UNCHANGED <<row, ledger, book, jobs, can, run, pairActive>>

-----------------------------------------------------------------------------
(* cancelOrder *)

\* findOrderById and the checks; the amount to unlock follows from this read.
CancelRead(c, o) ==
  /\ can[c].pc = "idle"
  /\ PoolFree
  /\ row[o].status \in {"OPEN", "PARTIAL"}
  /\ can' = [can EXCEPT ![c] = [pc |-> "unlock", order |-> o,
                                filled |-> row[o].filled, entry |-> Zero]]
  /\ UNCHANGED <<row, ledger, book, jobs, sub, run, pairActive, faults>>

\* unlockBalance, which throws when less than the amount is locked.
CancelUnlock(c) ==
  LET o == can[c].order
      u == Owner[o]
      t == LockToken(o)
      b == Unlocked(bal[u][t], LockAmount(o, Quantity[o] - can[c].filled))
  IN  /\ can[c].pc = "unlock"
      /\ PoolFree
      /\ IF b.locked >= 0
         THEN /\ bal' = [bal EXCEPT ![u][t] = b]
              /\ can' = [can EXCEPT ![c].pc = "cache", ![c].entry = b]
         ELSE /\ can' = [can EXCEPT ![c].pc = "failed"]
              /\ bal' = bal
      /\ UNCHANGED <<row, cache, book, jobs, sub, run, pairActive, faults>>

CancelCache(c) ==
  /\ can[c].pc = "cache"
  /\ cache' = [cache EXCEPT
       ![Owner[can[c].order]][LockToken(can[c].order)] = can[c].entry]
  /\ can' = [can EXCEPT ![c].pc = "mark", ![c].entry = Zero]
  /\ UNCHANGED <<row, bal, book, jobs, sub, run, pairActive, faults>>

\* updateOrderStatus(CANCELLED), whatever the status is by now.  Then
\* removeOrderFromOrderBook throws (it serialises a BigInt): the call ends
\* here with an error, before its audit log and its event.
CancelMark(c) ==
  /\ can[c].pc = "mark"
  /\ PoolFree
  /\ row' = [row EXCEPT ![can[c].order].status = "CANCELLED"]
  /\ can' = [can EXCEPT ![c].pc = "failed"]
  /\ UNCHANGED <<ledger, book, jobs, sub, run, pairActive, faults>>

CancelFault(c) ==
  /\ can[c].pc \in {"unlock", "cache", "mark"}
  /\ faults < MaxFaults
  /\ faults' = faults + 1
  /\ can' = [can EXCEPT ![c].pc = "failed", ![c].entry = Zero]
  /\ UNCHANGED <<row, ledger, book, jobs, sub, run, pairActive>>

-----------------------------------------------------------------------------
(* MatchingWorker: the job, processMatchingJob *)

Opposing(o) == {p \in Order : Side[p] # Side[o]}

\* getOpenOrdersForPair: the rows of the opposing side an order can meet.
OpenOpposing(o) ==
  {[order |-> p, filled |-> row[p].filled] :
     p \in {q \in Opposing(o) : row[q].status \in {"OPEN", "PARTIAL"}}}

\* ORDER BY price (best first, NULL after every ask), created_at.
Before(p, q) ==
  LET better == IF Side[p] = "BUY" THEN Price[p] > Price[q]
                ELSE Price[p] # 0 /\ (Price[q] = 0 \/ Price[p] < Price[q])
  IN  better \/ (Price[p] = Price[q] /\ row[p].at < row[q].at)

TakeJob(w, j) ==
  /\ run[w].pc = "idle"
  /\ jobs[j].state = "waiting"
  /\ jobs' = [jobs EXCEPT ![j].state = "active"]
  /\ run' = [run EXCEPT ![w] = [IdleRun EXCEPT !.pc = "load", !.job = j]]
  /\ UNCHANGED <<row, ledger, book, sub, can, pairActive, faults>>

\* findOrderById, the status check, the trading pair.  An order that cannot
\* match any more completes the job.
LoadOrder(w) ==
  LET o == run[w].job[1]
      matchable == row[o].status \in {"PENDING_MATCH", "OPEN", "PARTIAL"}
      next == IF ~pairActive THEN "cancelInactive"
              ELSE IF row[o].status = "PENDING_MATCH" THEN "open" ELSE "fetch"
  IN  /\ run[w].pc = "load"
      /\ PoolFree
      /\ IF matchable
         THEN /\ run' = [run EXCEPT ![w].pc = next, ![w].filled = row[o].filled]
              /\ jobs' = jobs
         ELSE /\ run' = [run EXCEPT ![w] = IdleRun]
              /\ jobs' = Completed(jobs, run[w].job)
      /\ UNCHANGED <<row, ledger, book, sub, can, pairActive, faults>>

\* The pair was deactivated: the order is cancelled, its lock is kept.
CancelInactive(w) ==
  /\ run[w].pc = "cancelInactive"
  /\ PoolFree
  /\ row' = [row EXCEPT ![run[w].job[1]].status = "CANCELLED"]
  /\ jobs' = Completed(jobs, run[w].job)
  /\ run' = [run EXCEPT ![w] = IdleRun]
  /\ UNCHANGED <<ledger, book, sub, can, pairActive, faults>>

OpenOrder(w) ==
  /\ run[w].pc = "open"
  /\ PoolFree
  /\ row' = [row EXCEPT ![run[w].job[1]].status = "OPEN"]
  /\ run' = [run EXCEPT ![w].pc = "fetch"]
  /\ UNCHANGED <<ledger, book, jobs, sub, can, pairActive, faults>>

\* getOpposingOrders at the start of executeMatching.
FetchOpposing(w) ==
  LET o == run[w].job[1]
  IN  /\ run[w].pc = "fetch"
      /\ PoolFree
      /\ run' = [run EXCEPT ![w].pc = "match",
                            ![w].todo = OpenOpposing(o),
                            ![w].remaining = Quantity[o] - run[w].filled]
      /\ UNCHANGED <<row, ledger, book, jobs, sub, can, pairActive, faults>>

-----------------------------------------------------------------------------
(* MatchingWorker: the loop of executeMatching and executeTrade *)

Least(a, b) == IF a < b THEN a ELSE b

Best(todo) ==
  {s \in todo : \A x \in todo \ {s} : ~Before(x.order, s.order)}

TradeOf(o, p, quantity) ==
  [buyer  |-> IF Side[o] = "BUY" THEN o ELSE p,
   seller |-> IF Side[o] = "SELL" THEN o ELSE p,
   price  |-> Price[p], quantity |-> quantity, legs |-> 0]

\* One turn of the loop with the best opposing order left: it cannot match and
\* is passed over, or executeTrade connects.
NextOpposing(w) ==
  /\ run[w].pc = "match"
  /\ run[w].remaining # 0
  /\ \E s \in Best(run[w].todo) :
       IF CanMatch(run[w].job[1], s.order)
       THEN PoolFree /\ run' = [run EXCEPT ![w].pc = "insert"]
       ELSE run' = [run EXCEPT ![w].todo = @ \ {s}]
  /\ UNCHANGED <<row, ledger, book, jobs, sub, can, pairActive, faults>>

\* createTrade, at the maker's price.  It throws when there is none, or when
\* the CHECK of trades refuses a quantity of zero: caught by the loop.
InsertTrade(w) ==
  LET r == run[w]
      o == r.job[1]
  IN  /\ r.pc = "insert"
      /\ \E s \in Best(r.todo) :
           LET qty == Least(r.remaining, Quantity[s.order] - s.filled)
           IN /\ CanMatch(o, s.order)
              /\ Price[s.order] # 0 => PoolFree
              /\ IF Price[s.order] # 0 /\ qty # 0
                 THEN /\ trades' = Append(trades, TradeOf(o, s.order, qty))
                      /\ traded' = [p \in Order |-> IF p \in {o, s.order}
                                      THEN traded[p] + qty ELSE traded[p]]
                      /\ run' = [run EXCEPT ![w] = [r EXCEPT
                                   !.pc = "available", !.leg = 1,
                                   !.todo = @ \ {s}, !.makerFilled = s.filled,
                                   !.trade = Len(trades) + 1]]
                 ELSE /\ run' = [run EXCEPT ![w].pc = "match",
                                            ![w].todo = @ \ {s}]
                      /\ UNCHANGED <<trades, traded>>
  /\ UNCHANGED <<row, ledger, settling, overlapped, jobs, sub, can, pairActive,
                 faults>>

CurrentLeg(w) == Leg(run[w].leg, trades[run[w].trade])

\* tokenService.getUserBalance for getAvailableBalance, then for
\* getLockedBalance: the cached row, or, when the entry was never written or
\* has expired, the table's, which is then cached.
ReadAvailable(w) ==
  LET leg == CurrentLeg(w)
      entry == cache[leg.user][leg.token]
      b == bal[leg.user][leg.token]
  IN  /\ run[w].pc = "available"
      /\ \/ /\ entry # NoEntry
            /\ run' = [run EXCEPT ![w].pc = "locked",
                                  ![w].entry.available = entry.available]
         \/ /\ PoolFree
            /\ run' = [run EXCEPT ![w].pc = "availableFill",
                                  ![w].entry.available = b.available,
                                  ![w].fetched = b]
      /\ UNCHANGED <<row, ledger, book, jobs, sub, can, pairActive, faults>>

ReadLocked(w) ==
  LET leg == CurrentLeg(w)
      entry == cache[leg.user][leg.token]
      b == bal[leg.user][leg.token]
  IN  /\ run[w].pc = "locked"
      /\ \/ /\ entry # NoEntry
            /\ run' = [run EXCEPT ![w].pc = "write",
                                  ![w].entry.locked = entry.locked]
         \/ /\ PoolFree
            /\ run' = [run EXCEPT ![w].pc = "lockedFill",
                                  ![w].entry.locked = b.locked,
                                  ![w].fetched = b]
      /\ UNCHANGED <<row, ledger, book, jobs, sub, can, pairActive, faults>>

\* cacheBalance of the row fetched, whatever was written and cached since.
FillCache(w) ==
  LET r == run[w]
      leg == CurrentLeg(w)
  IN  /\ r.pc \in {"availableFill", "lockedFill"}
      /\ cache' = [cache EXCEPT ![leg.user][leg.token] = r.fetched]
      /\ run' = [run EXCEPT ![w] = [r EXCEPT
                   !.pc = IF r.pc = "availableFill" THEN "locked" ELSE "write",
                   !.fetched = Zero]]
      /\ UNCHANGED <<row, bal, book, jobs, sub, can, pairActive, faults>>

\* Mutant: the settlement job is enqueued in a finally block.
SettledFinally(r) ==
  [r EXCEPT !.pc = "settle", !.leg = 0, !.entry = Zero, !.fetched = Zero]

\* The catch of executeTrade and of the loop: the ROLLBACK undoes nothing,
\* the remaining quantity is unchanged, the loop goes on.
TradeFailed(r) ==
  [r EXCEPT !.pc = "match", !.trade = 0, !.leg = 0, !.makerFilled = 0,
            !.entry = Zero, !.fetched = Zero]

\* Mutant: only the available balance is checked.
PositiveAvailable(b) == b.available >= 0

\* The CHECK positive_balance of user_balances.
PositiveBalance(b) == b.available >= 0 /\ b.locked >= 0

Total(b) == b.available + b.locked

\* updateBalance writes both columns from the values read.  Values the CHECK
\* refuses fail the trade.
WriteBalance(w) ==
  LET r == run[w]
      leg == CurrentLeg(w)
      b == [available |-> r.entry.available + leg.available,
            locked |-> r.entry.locked + leg.locked]
  IN  /\ r.pc = "write"
      /\ PoolFree
      /\ IF PositiveBalance(b)
         THEN /\ bal' = [bal EXCEPT ![leg.user][leg.token] = b]
              /\ trades' = [trades EXCEPT ![r.trade].legs = r.leg]
              /\ run' = [run EXCEPT ![w].pc = "cache", ![w].entry = b]
              /\ overlapped' =
                   IF Total(bal[leg.user][leg.token]) = Total(r.entry)
                   THEN overlapped
                   ELSE overlapped \cup {<<leg.user, leg.token>>}
         ELSE /\ run' = [run EXCEPT ![w] = TradeFailed(r)]
              /\ UNCHANGED <<bal, trades, overlapped>>
      /\ UNCHANGED <<row, cache, settling, traded, jobs, sub, can, pairActive,
                     faults>>

\* cacheBalance of the row written, then the next of the four updates.
CacheBalance(w) ==
  LET r == run[w]
      leg == CurrentLeg(w)
  IN  /\ r.pc = "cache"
      /\ cache' = [cache EXCEPT ![leg.user][leg.token] = r.entry]
      /\ run' = [run EXCEPT ![w] = [r EXCEPT
                   !.pc = IF r.leg < 4 THEN "available" ELSE "fillBuyer",
                   !.leg = IF r.leg < 4 THEN r.leg + 1 ELSE 0,
                   !.entry = Zero]]
      /\ UNCHANGED <<row, bal, book, jobs, sub, can, pairActive, faults>>

\* Mutants: filled_quantity incremented in SQL, and the quantity left to match
\* written in the place of the trade's.
FilledIncrement(w, o) == row[o].filled + trades[run[w].trade].quantity

FilledRemaining(w, o) ==
  (IF o = run[w].job[1] THEN run[w].filled ELSE run[w].makerFilled)
    + run[w].remaining

\* filled_quantity becomes the quantity filled when the order was read, plus
\* this trade's; the worker's own copy of the order is not updated.
Filled(w, o) ==
  (IF o = run[w].job[1] THEN run[w].filled ELSE run[w].makerFilled)
    + trades[run[w].trade].quantity

Fill(w, o) ==
  row' = [row EXCEPT ![o] = [@ EXCEPT
    !.filled = Filled(w, o),
    !.status = IF Filled(w, o) = Quantity[o] THEN "FILLED" ELSE "PARTIAL"]]

FillBuyer(w) ==
  /\ run[w].pc = "fillBuyer"
  /\ PoolFree
  /\ Fill(w, trades[run[w].trade].buyer)
  /\ run' = [run EXCEPT ![w].pc = "fillSeller"]
  /\ UNCHANGED <<ledger, book, jobs, sub, can, pairActive, faults>>

FillSeller(w) ==
  /\ run[w].pc = "fillSeller"
  /\ PoolFree
  /\ Fill(w, trades[run[w].trade].seller)
  /\ run' = [run EXCEPT ![w].pc = "settle"]
  /\ UNCHANGED <<ledger, book, jobs, sub, can, pairActive, faults>>

\* Audit logs, COMMIT, depth cache, events, and the settlement job.
EnqueueSettlement(w) ==
  /\ run[w].pc = "settle"
  /\ PoolFree
  /\ settling' = settling \cup {run[w].trade}
  /\ run' = [run EXCEPT ![w].pc = "notify"]
  /\ UNCHANGED <<row, ledger, trades, traded, overlapped, jobs, sub, can,
                 pairActive, faults>>

\* Notification and analytics jobs: executeTrade returns, and only now is the
\* quantity taken off what remains.
TradeExecuted(w) ==
  LET r == run[w]
  IN  /\ r.pc = "notify"
      /\ run' = [run EXCEPT ![w] = [TradeFailed(r) EXCEPT
                   !.remaining = @ - trades[r.trade].quantity]]
      /\ UNCHANGED <<row, ledger, book, jobs, sub, can, pairActive, faults>>

\* The status an execution ends with: written whatever the row holds by now,
\* but not written for an order of which nothing was ever filled.
FinishMatching(w) ==
  LET r == run[w]
      o == r.job[1]
      status == IF r.remaining = 0 THEN "FILLED" ELSE "PARTIAL"
  IN  /\ r.pc = "match"
      /\ r.remaining = 0 \/ r.todo = {}
      /\ r.remaining < Quantity[o] => PoolFree
      /\ IF r.remaining < Quantity[o]
         THEN row' = [row EXCEPT ![o].status = status]
         ELSE row' = row
      /\ IF r.remaining = 0
         THEN /\ jobs' = Completed(jobs, r.job)
              /\ run' = [run EXCEPT ![w] = IdleRun]
         ELSE /\ run' = [run EXCEPT ![w].pc = "schedule", ![w].todo = {}]
              /\ jobs' = jobs
      /\ UNCHANGED <<ledger, book, sub, can, pairActive, faults>>

\* scheduleOpposingMatches: a job for each opposing order that could take
\* this one (the ten best; the instances have fewer).
ScheduleOpposing(w) ==
  LET o == run[w].job[1]
      matchable == {s.order : s \in OpenOpposing(o)}
      ids == {<<p, o>> : p \in {q \in matchable : CanMatch(q, o)}}
  IN  /\ run[w].pc = "schedule"
      /\ PoolFree
      /\ jobs' = Completed(Add(jobs, ids), run[w].job)
      /\ run' = [run EXCEPT ![w] = IdleRun]
      /\ UNCHANGED <<row, ledger, book, sub, can, pairActive, faults>>

-----------------------------------------------------------------------------
(* Failures *)

\* The connect, the BEGIN or the INSERT of the trade fails: caught by the loop,
\* which goes on.
InsertFault(w) ==
  /\ run[w].pc \in {"match", "insert"}
  /\ run[w].remaining # 0
  /\ faults < MaxFaults
  /\ faults' = faults + 1
  /\ \E s \in Best(run[w].todo) :
       /\ CanMatch(run[w].job[1], s.order)
       /\ run' = [run EXCEPT ![w].pc = "match", ![w].todo = @ \ {s}]
  /\ UNCHANGED <<row, ledger, book, jobs, sub, can, pairActive>>

\* A later call of executeTrade fails: caught by the loop as well.
TradeFault(w) ==
  /\ run[w].pc \in {"available", "availableFill", "locked", "lockedFill",
                    "write", "cache", "fillBuyer", "fillSeller", "settle",
                    "notify"}
  /\ faults < MaxFaults
  /\ faults' = faults + 1
  /\ run' = [run EXCEPT ![w] = TradeFailed(run[w])]
  /\ UNCHANGED <<row, ledger, book, jobs, sub, can, pairActive>>

\* A call of processMatchingJob fails: the attempt fails.
AttemptFault(w) ==
  /\ \/ run[w].pc \in {"load", "cancelInactive", "open", "fetch", "schedule"}
     \/ /\ run[w].pc = "match"
        /\ run[w].remaining = 0 \/ run[w].todo = {}
        /\ run[w].remaining < Quantity[run[w].job[1]]
  /\ faults < MaxFaults
  /\ faults' = faults + 1
  /\ jobs' = AttemptFailed(jobs, run[w].job)
  /\ run' = [run EXCEPT ![w] = IdleRun]
  /\ UNCHANGED <<row, ledger, book, sub, can, pairActive>>

\* The worker's process dies at an await; BullMQ finds the job stalled.
Crash(w) ==
  /\ run[w].pc # "idle"
  /\ faults < MaxFaults
  /\ faults' = faults + 1
  /\ jobs' = Stalled(jobs, run[w].job)
  /\ run' = [run EXCEPT ![w] = IdleRun]
  /\ UNCHANGED <<row, ledger, book, sub, can, pairActive>>

\* No code of the service clears is_active: an operator does.
DeactivatePair ==
  /\ pairActive
  /\ pairActive' = FALSE
  /\ UNCHANGED <<row, ledger, book, jobs, sub, can, run, faults>>

-----------------------------------------------------------------------------
Submit(o) ==
  \/ SubmitRefused(o) \/ SubmitLock(o) \/ SubmitCache(o) \/ SubmitCreate(o)
  \/ SubmitEnqueue(o) \/ SubmitFault(o)

Cancel(c) ==
  \/ \E o \in Order : CancelRead(c, o)
  \/ CancelUnlock(c) \/ CancelCache(c) \/ CancelMark(c) \/ CancelFault(c)

\* The steps the worker takes by itself.
Work(w) ==
  \/ \E j \in Job : TakeJob(w, j)
  \/ LoadOrder(w) \/ CancelInactive(w) \/ OpenOrder(w) \/ FetchOpposing(w)
  \/ NextOpposing(w) \/ InsertTrade(w) \/ ReadAvailable(w) \/ ReadLocked(w)
  \/ FillCache(w) \/ WriteBalance(w) \/ CacheBalance(w) \/ FillBuyer(w)
  \/ FillSeller(w) \/ EnqueueSettlement(w) \/ TradeExecuted(w)
  \/ FinishMatching(w) \/ ScheduleOpposing(w)

Next ==
  \/ \E o \in Order : Submit(o)
  \/ \E c \in Canceller : Cancel(c)
  \/ \E w \in Worker :
       Work(w) \/ InsertFault(w) \/ TradeFault(w) \/ AttemptFault(w) \/ Crash(w)
  \/ DeactivatePair

Spec == Init /\ [][Next]_vars

\* A worker that runs keeps going as long as a connection is free: Node.js
\* schedules every awaited call, and BullMQ hands waiting jobs to idle workers.
\* Without a free connection a statement is disabled, and nothing is promised.
\* Users owe nothing.
FairSpec == Spec /\ \A w \in Worker : WF_vars(Work(w))

\* A cancellation, once it was called, goes on likewise.
CancelNext(c) == CancelUnlock(c) \/ CancelCache(c) \/ CancelMark(c)

FairApiSpec == FairSpec /\ \A c \in Canceller : WF_vars(CancelNext(c))

-----------------------------------------------------------------------------
(* Properties *)

RunPc == {"idle", "load", "cancelInactive", "open", "fetch", "match",
          "insert", "available", "availableFill", "locked", "lockedFill",
          "write", "cache", "fillBuyer", "fillSeller", "settle", "notify",
          "schedule"}

Snapshot == [order : Order, filled : Nat]
RowState == [status : OrderStatus \cup {"none"}, filled : Nat, at : Nat]
TradeState ==
  [buyer : Order, seller : Order, price : Nat, quantity : Nat, legs : 0..4]
JobRecord == [state : JobState, attempts : Nat, stalls : Nat]
SubmitState ==
  [pc : {"submit", "refused", "cache", "create", "enqueue", "accepted", "failed"},
   entry : Balance]
CancelState ==
  [pc : {"idle", "unlock", "cache", "mark", "failed"},
   order : Order \cup {NoJob}, filled : Nat, entry : Balance]
RunState ==
  [pc : RunPc, job : Job \cup {NoJob}, filled : Nat, remaining : Nat,
   todo : SUBSET Snapshot, makerFilled : Nat, trade : Nat, leg : 0..4,
   entry : Balance, fetched : Balance]

\* Every variable keeps its type; balances stay non-negative, as the CHECK
\* positive_balance of user_balances demands.
TypeOK ==
  /\ row \in [Order -> RowState]
  /\ bal \in [User -> [Token -> Balance]]
  /\ cache \in [User -> [Token -> Balance \cup {NoEntry}]]
  /\ trades \in Seq(TradeState)
  /\ settling \subseteq 1..Len(trades)
  /\ jobs \in [Job -> JobRecord]
  /\ sub \in [Order -> SubmitState]
  /\ can \in [Canceller -> CancelState]
  /\ run \in [Worker -> RunState]
  /\ pairActive \in BOOLEAN
  /\ faults \in 0..MaxFaults
  /\ traded \in [Order -> Nat]
  /\ overlapped \in SUBSET (User \X Token)

\* No phantom fill: whatever jobs overlap, fail or are repeated, an order's
\* filled_quantity never runs ahead of the trades recorded for it, and an
\* order marked FILLED has trades for its whole quantity.
FillsWereTraded ==
  \A o \in Order :
    /\ row[o].filled <= traded[o]
    /\ row[o].status = "FILLED" => Quantity[o] <= traded[o]

\* The CHECK valid_quantities of orders never refuses what executeTrade
\* writes: no fill computed from what was read exceeds the quantity.
FillsFitTheOrder ==
  /\ \A o \in Order : row[o].filled <= Quantity[o]
  /\ \A w \in Worker : run[w].pc \in {"fillBuyer", "fillSeller"} =>
       LET t == trades[run[w].trade]
       IN  Filled(w, t.buyer) <= Quantity[t.buyer]
           /\ Filled(w, t.seller) <= Quantity[t.seller]

\* No trade through a limit: a buyer with a limit never pays more and a
\* seller with a limit never gets less, whichever of the two came first.
TradesRespectLimits ==
  \A i \in 1..Len(trades) :
    LET t == trades[i]
    IN  /\ Type[t.buyer] # "MARKET" => t.price <= Price[t.buyer]
        /\ Type[t.seller] # "MARKET" => t.price >= Price[t.seller]

\* What the trades of order o take off its lock, each with its quote rounded
\* down by itself: the third balance update of a purchase, the first of a sale.
TakenOff(o) ==
  LET leg == IF Side[o] = "BUY" THEN 3 ELSE 1
  IN  SumFunctionOnSet(
        [i \in 1..Len(trades) |-> -Leg(leg, trades[i]).locked],
        {i \in 1..Len(trades) : o \in {trades[i].buyer, trades[i].seller}})

\* A lock covers its order: what the trades of an order take off it, and what
\* a cancellation gives back for the rest, come to no more than submitOrder
\* locked, whatever the prices and however often quotes were rounded.  Market
\* buys pay any price, and overlapping executions may trade an order twice.
LocksCoverTrades ==
  \A o \in Order :
    (Side[o] = "BUY" => Type[o] # "MARKET") /\ traded[o] <= Quantity[o] =>
      TakenOff(o) + LockAmount(o, Quantity[o] - traded[o])
        <= LockAmount(o, Quantity[o])

\* What the balance updates made so far put on, and took off, the balance of
\* user u in token t, those of trades that failed halfway included.
Flow(u, t) ==
  LET updates == (1..Len(trades)) \X (1..4)
      change(x) == Leg(x[2], trades[x[1]])
  IN  SumFunctionOnSet(
        [x \in updates |-> change(x).available + change(x).locked],
        {x \in updates :
           /\ x[2] <= trades[x[1]].legs
           /\ change(x).user = u /\ change(x).token = t})

\* Locks, cancellations, failures halfway and repeated jobs never change what a
\* user holds of a token: it is what the user started with and what the balance
\* updates of trades made of it, each counted once.  Only an update computed
\* from a balance that had changed since it was read can falsify it.
LedgerMatchesTrades ==
  \A u \in User, t \in Token : <<u, t>> \notin overlapped =>
    Total(bal[u][t]) = InitialBalance[u][t] + Flow(u, t)

\* Only complete trades go on chain: a trade whose settlement job is queued
\* has all four balance updates behind it, whatever failed around it.
SettlementFollowsLedger ==
  \A i \in settling : trades[i].legs = 4

\* No order is stranded: an accepted order that still is PENDING_MATCH has
\* its own matching job queued or running, unless that job used up its
\* attempts or its stalls.
NoStrandedOrder ==
  \A o \in Order :
    sub[o].pc = "accepted" /\ row[o].status = "PENDING_MATCH" =>
      jobs[<<o, o>>].state \in {"waiting", "active", "failed"}

\* Every matching job that waits is eventually done with, completed or given
\* up, though jobs enqueue one another.  It takes more connections than there
\* are executions at once: with as many, trades wait for one another for ever.
JobsEnd ==
  \A j \in Job :
    jobs[j].state = "waiting" ~> jobs[j].state \in {"completed", "failed"}

-----------------------------------------------------------------------------
(* What the documents say, and the code does not do *)

\* ARCHITECTURE.md:521: submitting an order locks its funds, then creates it
\* with status PENDING_MATCH.  No submission fails after the lock when
\* nothing it calls is down.
SubmissionsCreateOrders ==
  faults = 0 => \A o \in Order : sub[o].pc # "failed"

\* TRADING_SYSTEM_IMPLEMENTATION.md:638: all balance updates are atomic.
\* While no worker runs, users do not hold more of a token than they started
\* with.
SupplyNeverGrows ==
  (\A w \in Worker : run[w].pc = "idle") =>
    \A t \in Token :
      MapThenSumSet(LAMBDA u : bal[u][t].available + bal[u][t].locked, User)
        <= MapThenSumSet(LAMBDA u : InitialBalance[u][t], User)

\* matchingWorkerHandler.ts:40: orders are matched asynchronously to prevent
\* blocking the API, by up to ten jobs at once (:55).  A cancellation that was
\* accepted is answered, be it with an error, when nothing it calls is down.
CancellationsAnswered ==
  \A c \in Canceller : can[c].pc = "unlock" ~> can[c].pc = "failed"

=============================================================================
