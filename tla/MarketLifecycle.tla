--------------------------- MODULE MarketLifecycle ---------------------------
(***************************************************************************)
(* The life of a real-world-asset market: the HTTP handlers of             *)
(* marketController and the webhook of Entity Permissions Core             *)
(* (MarketService, webhookController), the poller (MarketEventListener),   *)
(* and the deployment worker of the BullMQ queue 'deploy-token'            *)
(* (handleTokenDeployment), which deploys the market's token on Sapphire   *)
(* and creates its token and trading-pair rows.                            *)
(*                                                                         *)
(* No handler holds a lock or a transaction: the status of a market is     *)
(* read, checked, and written later by an UPDATE without a condition, and  *)
(* each of those statements is an action of its own.                       *)
(***************************************************************************)
EXTENDS Integers, FiniteSets

CONSTANTS
  Market,        \* markets that may be registered
  Call,          \* requests in flight: admin calls and webhook deliveries
  Event,         \* decisions of Entity Permissions Core, by event_id
  About,         \* [Event -> Market]
  Decision,      \* [Event -> {"approve", "reject"}]
  Worker,        \* concurrent executions of the deployment worker (2)
  Symbol,        \* [Market -> token symbols]: any, also Usdc; 'RWA' when none
                 \* was given
  Usdc,          \* the symbol of the quote token
  Polled,        \* events the poller is served; none without a baseUrl
  Attempts,      \* attempts of a deployment job (5)
  MaxStalls,     \* BullMQ's maxStalledCount (1)
  Failures,      \* what goes wrong: "api", a handler or the poller fails or
                 \* dies; "call", a call of the worker fails; "crash", its
                 \* process dies
  None           \* no event, no market

Status == {"draft", "pending_approval", "approved", "rejected", "activating",
           "active", "paused", "archived"}
TokenSymbol == {Symbol[m] : m \in Market} \cup {Usdc}

\* A contract address: the n-th deployment made for a market.  <<>> is NULL.
NoContract == <<>>
Contract == (Market \X (Nat \ {0})) \cup {NoContract}

ASSUME EventAssumption ==
  /\ About \in [Event -> Market]
  /\ Decision \in [Event -> {"approve", "reject"}]
  /\ Polled \subseteq Event
  /\ None \notin Event /\ None \notin Market

ASSUME NumberAssumption ==
  /\ Attempts \in Nat \ {0} /\ MaxStalls \in Nat
  /\ Failures \subseteq {"api", "call", "crash"}

VARIABLES
  market,    \* markets: status, approved_by set, rejected_reason set, contract
  deployed,  \* Sapphire: how many contracts were deployed for each market
  token,     \* tokens by symbol: [exists, contract]
  pairs,     \* markets that have a row in trading_pairs
  job,       \* BullMQ 'deploy-token': the job deploy-<market>
  processed, \* processed_events.processing_status of each event
  call,      \* where each request in flight is
  poll,      \* the poller: the event it is handling
  run        \* where each execution of the worker is

vars == <<market, deployed, token, pairs, job, processed, call, poll, run>>

IdleCall == [pc |-> "idle", market |-> None, event |-> None,
             decision |-> "approve"]
IdleRun == [pc |-> "idle", market |-> None, contract |-> NoContract]
NoRow == [exists |-> FALSE, contract |-> NoContract]

Init ==
  /\ market = [m \in Market |-> [status |-> "none", approved |-> FALSE,
                 rejected |-> FALSE, contract |-> NoContract]]
  /\ deployed = [m \in Market |-> 0]
  /\ token = [s \in TokenSymbol |-> NoRow]
  /\ pairs = {}
  /\ job = [m \in Market |-> [state |-> "none", attempts |-> 0, stalls |-> 0]]
  /\ processed = [e \in Event |-> "none"]
  /\ call = [c \in Call |-> IdleCall]
  /\ poll = None
  /\ run = [w \in Worker |-> IdleRun]

rows == <<token, pairs>>

\* The UPDATEs of the market's row: none has a condition on what it finds.
WithStatus(m, status) == [market EXCEPT ![m].status = status]

WithApproval(m) ==
  [market EXCEPT ![m].status = "approved", ![m].approved = TRUE]

WithRejection(m) ==
  [market EXCEPT ![m].status = "rejected", ![m].rejected = TRUE]

-----------------------------------------------------------------------------
(* Registration *)

\* registerMarket after its authorisation: createMarket with status draft.
\* The asset row and the registration event follow.
RegisterMarket(c, m) ==
  /\ call[c].pc = "idle"
  /\ market[m].status = "none"
  /\ market' = [market EXCEPT ![m].status = "draft"]
  /\ call' = [call EXCEPT ![c] = [IdleCall EXCEPT
                !.pc = "request", !.market = m]]
  /\ UNCHANGED <<deployed, rows, job, processed, poll, run>>

\* requestApproval: the status is written whatever it is by now.
RequestApproval(c) ==
  /\ call[c].pc = "request"
  /\ market' = WithStatus(call[c].market, "pending_approval")
  /\ call' = [call EXCEPT ![c] = IdleCall]
  /\ UNCHANGED <<deployed, rows, job, processed, poll, run>>

-----------------------------------------------------------------------------
(* Decisions: the webhook and the admin endpoint *)

\* The end of processApprovalDecision and of activateMarket: an admin call
\* answers, a webhook records what became of its event.
Succeeded(r) ==
  IF r.event = None THEN IdleCall ELSE [r EXCEPT !.pc = "recordSuccess"]

\* Mutant: the webhook's catch does not tell failures from successes.
RefusedAsSuccess(r) ==
  IF r.event = None THEN IdleCall ELSE [r EXCEPT !.pc = "recordSuccess"]

Refused(r) ==
  IF r.event = None THEN IdleCall ELSE [r EXCEPT !.pc = "recordFailure"]

\* What handleMarketApprovalDecision makes of a payload: the request of
\* processApprovalDecision it is about to make.
Delivered(e) == [pc |-> "check", market |-> About[e], event |-> e,
                 decision |-> Decision[e]]

\* A delivery of event e, the first or a repeated one: isEventProcessed.  An
\* event that has been processed is answered with already_processed.  Entity
\* Permissions Core decides on markets that requested approval.
ReceiveEvent(c, e) ==
  /\ call[c].pc = "idle"
  /\ market[About[e]].status \notin {"none", "draft"}
  /\ processed[e] = "none"
  /\ call' = [call EXCEPT ![c] = Delivered(e)]
  /\ UNCHANGED <<market, deployed, rows, job, processed, poll, run>>

\* POST /markets/:id/approve.
AdminDecision(c, m, d) ==
  /\ call[c].pc = "idle"
  /\ market[m].status # "none"
  /\ call' = [call EXCEPT ![c] = [IdleCall EXCEPT
                !.pc = "check", !.market = m, !.decision = d]]
  /\ UNCHANGED <<market, deployed, rows, job, processed, poll, run>>

\* processApprovalDecision reads the market: it must be pending approval.
CheckPending(c) ==
  /\ call[c].pc = "check"
  /\ call' = [call EXCEPT ![c] =
       IF market[@.market].status = "pending_approval"
       THEN [@ EXCEPT !.pc = "decide"] ELSE Refused(@)]
  /\ UNCHANGED <<market, deployed, rows, job, processed, poll, run>>

\* assertAuthorization says no.
NotAuthorized(c) ==
  /\ call[c].pc = "decide"
  /\ call' = [call EXCEPT ![c] = Refused(@)]
  /\ UNCHANGED <<market, deployed, rows, job, processed, poll, run>>

\* approveMarket or rejectMarket, whatever the status is by now.
WriteDecision(c) ==
  LET r == call[c]
      m == r.market
  IN  /\ r.pc = "decide"
      /\ \/ /\ r.decision = "approve"
            /\ market' = WithApproval(m)
            /\ call' = [call EXCEPT ![c].pc = "activate"]
         \/ /\ r.decision = "reject"
            /\ market' = WithRejection(m)
            /\ call' = [call EXCEPT ![c] = Succeeded(r)]
      /\ UNCHANGED <<deployed, rows, job, processed, poll, run>>

\* recordProcessedEvent, an upsert.
RecordEvent(c) ==
  LET r == call[c]
  IN  /\ \/ /\ r.pc = "recordSuccess"
            /\ processed' = [processed EXCEPT ![r.event] = "success"]
         \/ /\ r.pc = "recordFailure"
            /\ processed' = [processed EXCEPT ![r.event] = "failed"]
      /\ call' = [call EXCEPT ![c] = IdleCall]
      /\ UNCHANGED <<market, deployed, rows, job, poll, run>>

-----------------------------------------------------------------------------
(* Activation, pause and archive *)

\* POST /markets/:id/activate.
AdminActivation(c, m) ==
  /\ call[c].pc = "idle"
  /\ market[m].status # "none"
  /\ call' = [call EXCEPT ![c] = [IdleCall EXCEPT
                !.pc = "activate", !.market = m]]
  /\ UNCHANGED <<market, deployed, rows, job, processed, poll, run>>

\* Mutant: a market that waits for its decision is let through.
ApprovedOrPending(m) == market[m].status \in {"pending_approval", "approved"}

Approved(m) == market[m].status = "approved"

\* activateMarket reads the market: it must be approved.
CheckApproved(c) ==
  /\ call[c].pc = "activate"
  /\ call' = [call EXCEPT ![c] =
       IF Approved(@.market)
       THEN [@ EXCEPT !.pc = "start"] ELSE Refused(@)]
  /\ UNCHANGED <<market, deployed, rows, job, processed, poll, run>>

StartActivation(c) ==
  /\ call[c].pc = "start"
  /\ market' = WithStatus(call[c].market, "activating")
  /\ call' = [call EXCEPT ![c].pc = "enqueue"]
  /\ UNCHANGED <<deployed, rows, job, processed, poll, run>>

\* Queue.add is a no-op while a job of that id is kept, and removeOnComplete
\* and removeOnFail are false: it is kept for good.
Add(j) == IF j.state = "none" THEN [j EXCEPT !.state = "waiting"] ELSE j

EnqueueDeployment(c) ==
  /\ call[c].pc = "enqueue"
  /\ job' = [job EXCEPT ![call[c].market] = Add(@)]
  /\ call' = [call EXCEPT ![c] = Succeeded(@)]
  /\ UNCHANGED <<market, deployed, rows, processed, poll, run>>

\* pauseMarket and archiveMarket: any market, whatever its status.
Shelve(m, status) ==
  /\ market[m].status # "none"
  /\ market' = WithStatus(m, status)
  /\ UNCHANGED <<deployed, rows, job, processed, call, poll, run>>

\* An awaited call of the handler throws, an INSERT of its event included.
\* The webhook's catch records the failure, unless it is that which failed.
CallFault(c) ==
  /\ call[c].pc # "idle"
  /\ "api" \in Failures
  /\ call' = [call EXCEPT ![c] =
       IF @.pc = "recordFailure" THEN IdleCall ELSE Refused(@)]
  /\ UNCHANGED <<market, deployed, rows, job, processed, poll, run>>

\* The API process dies: the call ends where it is, and nothing is recorded.
CallCrash(c) ==
  /\ call[c].pc # "idle"
  /\ "api" \in Failures
  /\ call' = [call EXCEPT ![c] = IdleCall]
  /\ UNCHANGED <<market, deployed, rows, job, processed, poll, run>>

-----------------------------------------------------------------------------
(* The poller: it publishes the decision and records the event, and that is *)
(* all: nothing listens to what it emits.                                   *)

PollEvent(e) ==
  /\ e \in Polled
  /\ poll = None
  /\ processed[e] = "none"
  /\ market[About[e]].status \notin {"none", "draft"}
  /\ poll' = e
  /\ UNCHANGED <<market, deployed, rows, job, processed, call, run>>

RecordPolled ==
  /\ poll # None
  /\ processed' = [processed EXCEPT ![poll] = "success"]
  /\ poll' = None
  /\ UNCHANGED <<market, deployed, rows, job, call, run>>

\* A statement of the poller fails: the event is recorded as failed, unless
\* that fails as well.
PollFault ==
  /\ poll # None
  /\ "api" \in Failures
  /\ processed' \in {processed, [processed EXCEPT ![poll] = "failed"]}
  /\ poll' = None
  /\ UNCHANGED <<market, deployed, rows, job, call, run>>

-----------------------------------------------------------------------------
(* The deployment worker: handleTokenDeployment *)

\* The processor threw: BullMQ counts the attempt and retries or gives up.
AttemptFailed(j) ==
  [j EXCEPT !.attempts = @ + 1,
            !.state = IF j.attempts + 1 < Attempts THEN "waiting" ELSE "failed"]

\* Mutant: a run that stalls is not counted.
StalledUncounted(j) == [j EXCEPT !.state = "waiting"]

\* The process died: the job stalls and is given to another worker.
Stalled(j) ==
  [j EXCEPT !.stalls = @ + 1,
            !.state = IF j.stalls < MaxStalls THEN "waiting" ELSE "failed"]

TakeJob(w, m) ==
  /\ run[w].pc = "idle"
  /\ job[m].state = "waiting"
  /\ job' = [job EXCEPT ![m].state = "active"]
  /\ run' = [run EXCEPT ![w] = [IdleRun EXCEPT !.pc = "load", !.market = m]]
  /\ UNCHANGED <<market, deployed, rows, processed, call, poll>>

\* Mutant: the worker still looks for the status that precedes activating.
AwaitsActivation(m) == market[m].status = "approved"

Deployable(m) == market[m].status = "activating"

\* A market that is not activating is skipped, and the job completes.
LoadMarket(w) ==
  LET m == run[w].market
  IN  /\ run[w].pc = "load"
      /\ IF Deployable(m)
         THEN /\ run' = [run EXCEPT ![w].pc = "deploy"]
              /\ job' = job
         ELSE /\ run' = [run EXCEPT ![w] = IdleRun]
              /\ job' = [job EXCEPT ![m].state = "completed"]
      /\ UNCHANGED <<market, deployed, rows, processed, call, poll>>

\* Mutant: the address of the deployment before.
LastContract(m) == <<m, deployed[m]>>

NewContract(m) == <<m, deployed[m] + 1>>

\* sapphireClient.deployToken: a new contract each time.
DeployToken(w) ==
  LET m == run[w].market
  IN  /\ run[w].pc = "deploy"
      /\ deployed' = [deployed EXCEPT ![m] = @ + 1]
      /\ run' = [run EXCEPT ![w].pc = "activate",
                            ![w].contract = NewContract(m)]
      /\ UNCHANGED <<market, rows, job, processed, call, poll>>

\* activateMarket of the repository, whatever the status is by now.
ActivateMarket(w) ==
  LET m == run[w].market
  IN  /\ run[w].pc = "activate"
      /\ market' = [market EXCEPT ![m].status = "active",
                                  ![m].contract = run[w].contract]
      /\ run' = [run EXCEPT ![w].pc = "findToken"]
      /\ UNCHANGED <<deployed, rows, job, processed, call, poll>>

\* findTokenBySymbol, then createToken if there was no row.  tokens.token_symbol
\* is UNIQUE: an INSERT that comes second throws.  The mutant never creates.
FindNothing(w, symbol, create, next) ==
  /\ run' = [run EXCEPT ![w].pc = next]
  /\ UNCHANGED <<market, deployed, rows, job, processed, call, poll>>

Find(w, symbol, create, next) ==
  /\ run' = [run EXCEPT ![w].pc = IF token[symbol].exists THEN next ELSE create]
  /\ UNCHANGED <<market, deployed, rows, job, processed, call, poll>>

Create(w, symbol, contract, next) ==
  /\ IF token[symbol].exists
     THEN /\ run' = [run EXCEPT ![w].pc = "revert"]
          /\ token' = token
     ELSE /\ run' = [run EXCEPT ![w].pc = next]
          /\ token' = [token EXCEPT ![symbol] =
                         [exists |-> TRUE, contract |-> contract]]
  /\ UNCHANGED <<market, deployed, pairs, job, processed, call, poll>>

FindToken(w) ==
  /\ run[w].pc = "findToken"
  /\ Find(w, Symbol[run[w].market], "createToken", "findUsdc")

CreateToken(w) ==
  /\ run[w].pc = "createToken"
  /\ Create(w, Symbol[run[w].market], run[w].contract, "findUsdc")

\* usdcTokenService.getUsdcTokenId.
FindUsdc(w) ==
  /\ run[w].pc = "findUsdc"
  /\ Find(w, Usdc, "createUsdc", "findPair")

CreateUsdc(w) ==
  /\ run[w].pc = "createUsdc"
  /\ Create(w, Usdc, NoContract, "findPair")

\* findTradingPairByMarketId.
FindPair(w) ==
  /\ run[w].pc = "findPair"
  /\ run' = [run EXCEPT ![w].pc =
       IF run[w].market \in pairs THEN "publish" ELSE "createPair"]
  /\ UNCHANGED <<market, deployed, rows, job, processed, call, poll>>

\* createTradingPair.  The pair of two tokens is UNIQUE, and so is its symbol.
CreatePair(w) ==
  LET m == run[w].market
  IN  /\ run[w].pc = "createPair"
      /\ IF \E n \in pairs : Symbol[n] = Symbol[m]
         THEN /\ run' = [run EXCEPT ![w].pc = "revert"]
              /\ pairs' = pairs
         ELSE /\ run' = [run EXCEPT ![w].pc = "publish"]
              /\ pairs' = pairs \cup {m}
      /\ UNCHANGED <<market, deployed, token, job, processed, call, poll>>

\* The activation event, and the job completes.
PublishActivated(w) ==
  /\ run[w].pc = "publish"
  /\ job' = [job EXCEPT ![run[w].market].state = "completed"]
  /\ run' = [run EXCEPT ![w] = IdleRun]
  /\ UNCHANGED <<market, deployed, rows, processed, call, poll>>

\* The catch: back to approved, whatever the status is by now.  The event
\* market.activation_failed is one the CHECK valid_event_type refuses, so the
\* catch throws as well; either way the attempt has failed.
Revert(w) ==
  LET m == run[w].market
  IN  /\ run[w].pc = "revert"
      /\ market' = WithStatus(m, "approved")
      /\ job' = [job EXCEPT ![m] = AttemptFailed(@)]
      /\ run' = [run EXCEPT ![w] = IdleRun]
      /\ UNCHANGED <<deployed, rows, processed, call, poll>>

InHandler == {"load", "deploy", "activate", "findToken", "createToken",
              "findUsdc", "createUsdc", "findPair", "createPair", "publish"}

\* A call of the handler fails.  A deployment whose confirmation times out
\* may still be mined.
DeployFault(w) ==
  LET m == run[w].market
  IN  /\ run[w].pc \in InHandler
      /\ "call" \in Failures
      /\ run' = [run EXCEPT ![w].pc = "revert"]
      /\ \/ deployed' = deployed
         \/ /\ run[w].pc = "deploy"
            /\ deployed' = [deployed EXCEPT ![m] = @ + 1]
      /\ UNCHANGED <<market, rows, job, processed, call, poll>>

\* The UPDATE of the catch fails: the market keeps its status.
RevertFault(w) ==
  /\ run[w].pc = "revert"
  /\ "call" \in Failures
  /\ job' = [job EXCEPT ![run[w].market] = AttemptFailed(@)]
  /\ run' = [run EXCEPT ![w] = IdleRun]
  /\ UNCHANGED <<market, deployed, rows, processed, call, poll>>

\* The worker's process dies at an await; BullMQ finds the job stalled.
Crash(w) ==
  /\ run[w].pc # "idle"
  /\ "crash" \in Failures
  /\ job' = [job EXCEPT ![run[w].market] = Stalled(@)]
  /\ run' = [run EXCEPT ![w] = IdleRun]
  /\ UNCHANGED <<market, deployed, rows, processed, call, poll>>

-----------------------------------------------------------------------------
Handle(c) ==
  \/ RequestApproval(c) \/ CheckPending(c) \/ NotAuthorized(c)
  \/ WriteDecision(c) \/ RecordEvent(c) \/ CheckApproved(c)
  \/ StartActivation(c) \/ EnqueueDeployment(c)

Receive(c) ==
  \/ \E e \in Event : ReceiveEvent(c, e)
  \/ \E m \in Market :
       \/ RegisterMarket(c, m) \/ AdminActivation(c, m)
       \/ \E d \in {"approve", "reject"} : AdminDecision(c, m, d)

Poll == (\E e \in Event : PollEvent(e)) \/ RecordPolled

\* The steps the worker takes by itself.
Work(w) ==
  \/ \E m \in Market : TakeJob(w, m)
  \/ LoadMarket(w) \/ DeployToken(w) \/ ActivateMarket(w) \/ FindToken(w)
  \/ CreateToken(w) \/ FindUsdc(w) \/ CreateUsdc(w) \/ FindPair(w)
  \/ CreatePair(w) \/ PublishActivated(w) \/ Revert(w)

Next ==
  \/ \E c \in Call : Receive(c) \/ Handle(c) \/ CallFault(c) \/ CallCrash(c)
  \/ \E m \in Market, s \in {"paused", "archived"} : Shelve(m, s)
  \/ Poll \/ PollFault
  \/ \E w \in Worker : Work(w) \/ DeployFault(w) \/ RevertFault(w) \/ Crash(w)

Spec == Init /\ [][Next]_vars

\* Node.js schedules every awaited call of the worker, and BullMQ hands
\* waiting jobs to idle workers.  Nobody has to call the API, and a call may
\* be abandoned.
FairSpec == Spec /\ \A w \in Worker : WF_vars(Work(w))

-----------------------------------------------------------------------------
(* Properties *)

MarketState ==
  [status : Status \cup {"none"}, approved : BOOLEAN, rejected : BOOLEAN,
   contract : Contract]
TokenState == [exists : BOOLEAN, contract : Contract]
JobState ==
  [state : {"none", "waiting", "active", "completed", "failed"},
   attempts : Nat, stalls : Nat]
CallState ==
  [pc : {"idle", "request", "check", "decide", "activate", "start", "enqueue",
         "recordSuccess", "recordFailure"},
   market : Market \cup {None}, event : Event \cup {None},
   decision : {"approve", "reject"}]
RunState ==
  [pc : InHandler \cup {"idle", "revert"}, market : Market \cup {None},
   contract : Contract]

\* Every variable keeps its type.
TypeOK ==
  /\ market \in [Market -> MarketState]
  /\ deployed \in [Market -> Nat]
  /\ token \in [TokenSymbol -> TokenState]
  /\ pairs \in SUBSET Market
  /\ job \in [Market -> JobState]
  /\ processed \in [Event -> {"none", "success", "failed"}]
  /\ call \in [Call -> CallState]
  /\ poll \in Event \cup {None}
  /\ run \in [Worker -> RunState]

\* Nothing unapproved goes on chain: whatever decisions, activations, pauses
\* and retries race, a market that is being activated, is active, or has a
\* contract or a trading pair had an approval written.
DeployedWasApproved ==
  \A m \in Market :
    \/ market[m].status \in {"activating", "active"}
    \/ deployed[m] > 0 \/ m \in pairs
    => market[m].approved

\* Deployments keep what AtLeastOnce promises of an operation whose effect is
\* on the chain: at most one contract per attempt or stall of the market's job,
\* a contract on the market's row only after one was deployed, and neither
\* after that job is over, however often the market is activated again.
Promise == INSTANCE AtLeastOnce WITH
  Item <- Market, Bound <- Attempts + MaxStalls, effects <- deployed,
  recorded <- {m \in Market : market[m].contract # NoContract},
  over <- {m \in Market : job[m].state \in {"completed", "failed"}}

DeploymentsKeepPromise == Promise!Spec

\* No pair without its tokens: both exist, and the contract of the base token
\* is one that was deployed for a market of that symbol.  A market registered
\* with the symbol of the quote token is paired with the row it finds, which
\* may be the quote token's own and has no contract then.
PairsHaveTokens ==
  \A m \in pairs :
    /\ token[Usdc].exists /\ token[Symbol[m]].exists
    /\ \/ Symbol[m] = Usdc /\ token[Usdc].contract = NoContract
       \/ \E n \in Market :
            /\ Symbol[n] = Symbol[m]
            /\ \E i \in 1..deployed[n] : token[Symbol[m]].contract = <<n, i>>

\* No decision is acknowledged and lost: an event the poller is not served
\* and that is recorded as a success, after which every repetition of it is
\* ignored, left its decision on the market's row.
SuccessWasDecided ==
  \A e \in Event \ Polled : processed[e] = "success" =>
    IF Decision[e] = "approve"
    THEN market[About[e]].approved ELSE market[About[e]].rejected

\* An activating market whose job waits is eventually live, handed back, or
\* taken elsewhere, unless its job used up its attempts or stalls.
ActivationSettles ==
  \A m \in Market :
    market[m].status = "activating" /\ job[m].state = "waiting"
      ~> market[m].status # "activating" \/ job[m].state = "failed"

-----------------------------------------------------------------------------
(* What the documents say, and the code does not do *)

\* ARCHITECTURE.md:196: after the final failure a market is back to approved,
\* and activating it again retries its deployment.  While no call is in
\* progress, an activating market has a job that will deploy it.
ActivatingHasJob ==
  (\A c \in Call : call[c].pc = "idle") =>
    \A m \in Market : market[m].status = "activating" =>
      job[m].state \in {"waiting", "active"}

=============================================================================
