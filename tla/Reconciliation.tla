---------------------------- MODULE Reconciliation ----------------------------
(***************************************************************************)
(* BlockchainReconciliationService: every 15 minutes one job, run by a     *)
(* worker with concurrency 1, compares the rows of user_balances with the  *)
(* balances on Sapphire and overwrites the rows that differ, while orders  *)
(* lock and unlock the same rows, trades and swaps write both columns from *)
(* what they read of them earlier, and the chain follows.                  *)
(* The comparison of total supplies only logs, and so does the review of   *)
(* pending settlements: it would settle a PENDING trade that has a hash,   *)
(* but updateTradeSettlement writes the hash with the status SETTLED.      *)
(***************************************************************************)
EXTENDS Integers, FiniteSets, Functions

CONSTANTS
  User,      \* users, who are also addresses on the chain
  Token,     \* active tokens with a contract address
  Order,     \* orders and swaps that may lock an amount; an order filled in
             \* parts stands here as one order for each part
  OrderOf,   \* [Order -> User \X Token]: the row the order locks
  Amount,    \* [Order -> Nat]
  Deposit,   \* [User \X Token -> Nat]
  MaxAmount, \* bound: what trades, swaps and transfers make of a balance
  MaxMoves,  \* bound: such changes in a behaviour
  MaxFaults, \* bound: failed calls and crashes in a behaviour
  None       \* no row

Row == User \X Token

ASSUME ReconciliationAssumption ==
  /\ IsFiniteSet(Order) /\ None \notin Row
  /\ OrderOf \in [Order -> Row]
  /\ Amount \in [Order -> Nat \ {0}]
  /\ Deposit \in [Row -> Nat]
  /\ MaxAmount \in Nat /\ MaxMoves \in Nat /\ MaxFaults \in Nat

VARIABLES
  bal,      \* user_balances
  chain,    \* Sapphire: the balance of each user in each token
  order,    \* orders: "new", "open" (its amount locked), "traded" (a trade
            \* or a settlement took what was locked) or "closed"
  past,     \* history: for each row, the amounts locked it has held, which
            \* a read or the cached row may still show
  stale,    \* history: rows written with a locked amount read before it went
            \* down, and not overwritten by a round since
  recon,    \* the round: tokens and rows to do, the row at hand, what the
            \* chain said of it
  moves,    \* changes of balances so far
  faults    \* failed calls and crashes so far

vars == <<bal, chain, order, past, stale, recon, moves, faults>>

Idle == [pc |-> "idle", tokens |-> {}, rows |-> {}, row |-> None, onChain |-> 0]

Init ==
  /\ bal = [r \in Row |-> [available |-> Deposit[r], locked |-> 0]]
  /\ chain = Deposit
  /\ order = [o \in Order |-> "new"]
  /\ past = [r \in Row |-> {0}]
  /\ stale = {}
  /\ recon = Idle
  /\ moves = 0
  /\ faults = 0

Sum(b) == b.available + b.locked

-----------------------------------------------------------------------------
(* What goes on at the same time *)

\* A row is written.
Write(r, b) ==
  /\ bal' = [bal EXCEPT ![r] = b]
  /\ past' = [past EXCEPT ![r] = @ \cup {b.locked}]

\* Mutant: the UPDATE of lockBalance has no condition.
OpenUnchecked(o) ==
  LET r == OrderOf[o]
  IN  /\ order[o] = "new"
      /\ Write(r, [available |-> bal[r].available - Amount[o],
                   locked |-> bal[r].locked + Amount[o]])
      /\ order' = [order EXCEPT ![o] = "open"]
      /\ UNCHANGED <<chain, stale, recon, moves, faults>>

\* lockBalance: an order opens.
OpenOrder(o) ==
  LET r == OrderOf[o]
  IN  /\ order[o] = "new"
      /\ bal[r].available >= Amount[o]
      /\ Write(r, [available |-> bal[r].available - Amount[o],
                   locked |-> bal[r].locked + Amount[o]])
      /\ order' = [order EXCEPT ![o] = "open"]
      /\ UNCHANGED <<chain, stale, recon, moves, faults>>

\* unlockBalance: an order is cancelled, or a swap refunded, possibly while a
\* trade that already wrote the row has not yet written the order's status.
\* It throws when less than the amount is locked, and the order stays as it is.
CloseOrder(o) ==
  LET r == OrderOf[o]
  IN  /\ order[o] \in {"open", "traded"}
      /\ bal[r].locked >= Amount[o]
      /\ Write(r, [available |-> bal[r].available + Amount[o],
                   locked |-> bal[r].locked - Amount[o]])
      /\ order' = [order EXCEPT ![o] = "closed"]
      /\ UNCHANGED <<chain, stale, recon, moves, faults>>

\* A locked amount l was read earlier, from the row or from its cached copy;
\* the row is written with it, or with it less a part.
FromRead(r, l) ==
  /\ l \in past[r]
  /\ stale' = IF l > bal[r].locked THEN stale \cup {r} ELSE stale
  /\ moves < MaxMoves
  /\ moves' = moves + 1

\* updateBalanceInternal, what a trade or a swap pays into a row: both columns
\* are written, the locked one as it was read.
Credit(r, amount, l) ==
  /\ FromRead(r, l)
  /\ Write(r, [available |-> amount, locked |-> l])
  /\ UNCHANGED <<chain, order, recon, faults>>

\* updateBalanceInternal, what a trade or a swap takes out of a row: what the
\* order locked goes from the locked amount that was read.  The order may have
\* been cancelled, or traded, since it was loaded.
Trade(o, amount, l) ==
  /\ order[o] # "new" /\ l >= Amount[o]
  /\ FromRead(OrderOf[o], l)
  /\ Write(OrderOf[o], [available |-> amount, locked |-> l - Amount[o]])
  /\ order' = [order EXCEPT ![o] = IF @ = "open" THEN "traded" ELSE @]
  /\ UNCHANGED <<chain, recon, faults>>

\* A settlement or a transfer arrives on the chain.
ChainMoves(r, amount) ==
  /\ moves < MaxMoves
  /\ moves' = moves + 1
  /\ chain' = [chain EXCEPT ![r] = amount]
  /\ UNCHANGED <<bal, order, past, stale, recon, faults>>

-----------------------------------------------------------------------------
(* performReconciliation *)

world == <<chain, order, moves, faults>>
ledger == <<bal, past, stale>>

\* The repeatable job is due; listActiveTokens.
StartRound ==
  /\ recon.pc = "idle"
  /\ recon' = [recon EXCEPT !.pc = "token", !.tokens = Token]
  /\ UNCHANGED <<ledger, world>>

\* getOnChainTotalSupply answers.  Rows that hold nothing are not listed.
ListRows(t) ==
  /\ recon.pc = "token" /\ t \in recon.tokens
  /\ recon' = [recon EXCEPT
       !.pc = "row", !.tokens = @ \ {t},
       !.rows = {r \in Row : r[2] = t /\ Sum(bal[r]) > 0}]
  /\ UNCHANGED <<ledger, world>>

\* getOnChainBalance answers.
AskChain(r) ==
  /\ recon.pc = "row" /\ r \in recon.rows
  /\ recon' = [recon EXCEPT !.pc = "compare", !.rows = @ \ {r},
                            !.row = r, !.onChain = chain[r]]
  /\ UNCHANGED <<ledger, world>>

\* The row is read after the chain was asked.
Compare ==
  /\ recon.pc = "compare"
  /\ recon' = IF Sum(bal[recon.row]) = recon.onChain
              THEN [recon EXCEPT !.pc = "row", !.row = None, !.onChain = 0]
              ELSE [recon EXCEPT !.pc = "overwrite"]
  /\ UNCHANGED <<ledger, world>>

\* Mutant: what is locked is left alone.
OverwriteAvailable ==
  /\ recon.pc = "overwrite"
  /\ Write(recon.row, [bal[recon.row] EXCEPT !.available = recon.onChain])
  /\ stale' = stale \ {recon.row}
  /\ recon' = [recon EXCEPT !.pc = "row", !.row = None, !.onChain = 0]
  /\ UNCHANGED world

\* Mutant: the two columns swapped.
OverwriteLocked ==
  /\ recon.pc = "overwrite"
  /\ Write(recon.row, [available |-> 0, locked |-> recon.onChain])
  /\ stale' = stale \ {recon.row}
  /\ recon' = [recon EXCEPT !.pc = "row", !.row = None, !.onChain = 0]
  /\ UNCHANGED world

\* The UPDATE, whatever the row holds by now: all of it becomes available, the
\* amounts locked by open orders included.  The cached row stays.
Overwrite ==
  /\ recon.pc = "overwrite"
  /\ Write(recon.row, [available |-> recon.onChain, locked |-> 0])
  /\ stale' = stale \ {recon.row}
  /\ recon' = [recon EXCEPT !.pc = "row", !.row = None, !.onChain = 0]
  /\ UNCHANGED world

NextToken ==
  /\ recon.pc = "row" /\ recon.rows = {}
  /\ recon' = [recon EXCEPT !.pc = "token"]
  /\ UNCHANGED <<ledger, world>>

EndRound ==
  /\ recon.pc = "token" /\ recon.tokens = {}
  /\ recon' = Idle
  /\ UNCHANGED <<ledger, world>>

\* A call for a token or for a row fails: it is skipped.
SkipToken(t) ==
  /\ recon.pc = "token" /\ t \in recon.tokens
  /\ faults < MaxFaults
  /\ faults' = faults + 1
  /\ recon' = [recon EXCEPT !.tokens = @ \ {t}]
  /\ UNCHANGED <<ledger, chain, order, moves>>

SkipRow(r) ==
  /\ \/ recon.pc = "row" /\ r \in recon.rows
     \/ recon.pc \in {"compare", "overwrite"} /\ r = recon.row
  /\ faults < MaxFaults
  /\ faults' = faults + 1
  /\ recon' = [recon EXCEPT !.pc = "row", !.rows = @ \ {r},
                            !.row = None, !.onChain = 0]
  /\ UNCHANGED <<ledger, chain, order, moves>>

\* A query of the round fails, or its process dies: the rest of the round is
\* left to the next one.
AbortRound ==
  /\ recon.pc # "idle"
  /\ faults < MaxFaults
  /\ faults' = faults + 1
  /\ recon' = Idle
  /\ UNCHANGED <<ledger, chain, order, moves>>

-----------------------------------------------------------------------------
Round ==
  \/ StartRound \/ Compare \/ Overwrite \/ NextToken \/ EndRound
  \/ \E t \in Token : ListRows(t)
  \/ \E r \in Row : AskChain(r)

Next ==
  \/ Round \/ AbortRound
  \/ \E t \in Token : SkipToken(t)
  \/ \E r \in Row : SkipRow(r)
  \/ \E o \in Order : OpenOrder(o) \/ CloseOrder(o)
  \/ \E r \in Row, amount \in 0..MaxAmount : ChainMoves(r, amount)
  \/ \E r \in Row, amount \in 0..MaxAmount : \E l \in past[r] :
       Credit(r, amount, l)
  \/ \E o \in Order, amount \in 0..MaxAmount : \E l \in past[OrderOf[o]] :
       Trade(o, amount, l)

Spec == Init /\ [][Next]_vars

\* The repeatable job comes again and again, and its worker runs it.
FairSpec == Spec /\ WF_vars(Round)

-----------------------------------------------------------------------------
(* Properties *)

\* Every variable keeps its type; no balance is negative.
TypeOK ==
  /\ bal \in [Row -> [available : Nat, locked : Nat]]
  /\ chain \in [Row -> Nat]
  /\ order \in [Order -> {"new", "open", "traded", "closed"}]
  /\ past \in [Row -> SUBSET Nat] /\ stale \in SUBSET Row
  /\ recon \in [pc : {"idle", "token", "row", "compare", "overwrite"},
                tokens : SUBSET Token, rows : SUBSET Row,
                row : Row \cup {None}, onChain : Nat]
  /\ moves \in 0..MaxMoves /\ faults \in 0..MaxFaults

\* The orders that hold an amount in row r, and those that ever locked one.
Holders(r) == {o \in Order : OrderOf[o] = r /\ order[o] = "open"}
Lockers(r) == {o \in Order : OrderOf[o] = r /\ order[o] # "new"}

\* However rounds, orders, trades and swaps interleave, a row never has more
\* locked than its open orders hold: a round may free what an order locked,
\* but what it writes is never locked for nobody.  The exception is the code's
\* own: a trade or a swap that read the locked amount before an order was
\* closed, or a round freed it, writes the old amount back, and it stays locked
\* until a round overwrites the row.  Even then no more is locked than orders
\* of the row once locked.
LockedIsHeld ==
  \A r \in Row : bal[r].locked <=
    SumFunctionOnSet(Amount, IF r \in stale THEN Lockers(r) ELSE Holders(r))

\* Once balances and the chain have come to rest, rounds bring every row to
\* what the chain says, although each of them works with answers that may be
\* stale.  Rows that hold nothing are left out: no round looks at them.
LedgerConverges ==
  <>[](\A r \in Row : Sum(bal[r]) \in {0, chain[r]})

=============================================================================
