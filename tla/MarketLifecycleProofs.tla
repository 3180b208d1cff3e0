------------------------- MODULE MarketLifecycleProofs -------------------------
(***************************************************************************)
(* Proofs about MarketLifecycle, for any number of markets, requests,      *)
(* events, workers, attempts and stalls.  No handler holds a lock: what a  *)
(* call or a run of the worker relies on after an await is what it read    *)
(* before it, and the invariant records, for each place a handler can be   *)
(* at, what is still true of that.                                         *)
(***************************************************************************)
EXTENDS MarketLifecycle, TLAPS

-----------------------------------------------------------------------------
(* The inductive invariant *)

\* What a request in flight knows of the rows: its event and its market agree,
\* what it activates was approved, and a success it records was decided.
Knows(r, row) ==
  r.pc # "idle" =>
    /\ r.market \in Market
    /\ r.event # None =>
         /\ r.event \in Event
         /\ r.market = About[r.event] /\ r.decision = Decision[r.event]
    /\ r.pc \in {"recordSuccess", "recordFailure"} => r.event # None
    /\ r.pc \in {"start", "enqueue"} => row[r.market].approved
    /\ r.pc \in {"activate", "start", "enqueue"} /\ r.event # None =>
         r.decision = "approve" /\ row[r.market].approved
    /\ r.pc = "recordSuccess" =>
         IF r.decision = "approve" THEN row[r.market].approved
         ELSE row[r.market].rejected

CallsSound == \A c \in Call : Knows(call[c], market)

\* Everything that follows an approval has one behind it.
MarketsSound ==
  \A m \in Market :
    \/ market[m].status \in {"approved", "activating", "active"}
    \/ job[m].state # "none"
    => market[m].approved

\* What a run of the worker knows: it has the job of its market, which has an
\* attempt left to deploy with; the contract it carries was deployed, and the
\* rows it found or made are there.
Holds(r) ==
  r.pc # "idle" =>
    /\ r.market \in Market
    /\ job[r.market].state = "active"
    /\ r.pc \in {"load", "deploy"} =>
         deployed[r.market] <= job[r.market].attempts + job[r.market].stalls
    /\ r.pc \in {"activate", "findToken", "createToken"} =>
         \E i \in 1..deployed[r.market] : r.contract = <<r.market, i>>
    /\ r.pc \in {"findUsdc", "createUsdc", "findPair", "createPair"} =>
         token[Symbol[r.market]].exists
    /\ r.pc \in {"findPair", "createPair"} => token[Usdc].exists

RunsSound == \A w \in Worker : Holds(run[w])

\* A job is run by one worker at a time.
OneRun ==
  \A v, w \in Worker :
    run[v].pc # "idle" /\ run[w].pc # "idle" /\ run[v].market = run[w].market
      => v = w

\* A job has paid for each deployment with an attempt or a stall, except for
\* one that it makes while it is active, or with which it completed.
JobBounded(m) ==
  LET used == job[m].attempts + job[m].stalls IN
  /\ job[m].state \in {"none", "waiting", "failed"} => deployed[m] <= used
  /\ job[m].state \in {"active", "completed"} => deployed[m] <= used + 1
  /\ job[m].state # "failed" =>
       job[m].attempts < Attempts /\ job[m].stalls <= MaxStalls
  /\ job[m].state = "failed" => used <= Attempts + MaxStalls
  /\ deployed[m] > 0 => job[m].state # "none"

JobsBounded == \A m \in Market : JobBounded(m)

\* A token's contract was deployed for a market of its symbol; the quote token
\* may have none.
Backed(s) ==
  \/ s = Usdc /\ token[s].contract = NoContract
  \/ \E n \in Market :
       Symbol[n] = s /\ \E i \in 1..deployed[n] : token[s].contract = <<n, i>>

TokensSound == \A s \in TokenSymbol : token[s].exists => Backed(s)

PairsSound ==
  \A m \in pairs :
    /\ token[Usdc].exists /\ token[Symbol[m]].exists
    /\ job[m].state # "none"

MarketInv ==
  /\ TypeOK /\ CallsSound /\ MarketsSound /\ RunsSound /\ OneRun
  /\ JobsBounded /\ TokensSound /\ PairsSound
  /\ poll \in Polled \cup {None}
  /\ SuccessWasDecided

-----------------------------------------------------------------------------
LEMMA InitMarket == Init => MarketInv
<1> SUFFICES ASSUME Init PROVE MarketInv
  OBVIOUS
<1>1. NoContract \in Contract /\ NoRow \in TokenState
  BY DEF Contract, NoRow, TokenState
<1>2. IdleCall \in CallState /\ IdleRun \in RunState
  BY <1>1 DEF IdleCall, IdleRun, CallState, RunState
<1>3. TypeOK
  BY <1>1, <1>2 DEF Init, TypeOK, MarketState, JobState
<1>4. CallsSound /\ RunsSound /\ OneRun
  BY DEF Init, CallsSound, Knows, RunsSound, Holds, OneRun, IdleCall, IdleRun
<1>5. MarketsSound /\ JobsBounded
  BY NumberAssumption DEF Init, MarketsSound, JobsBounded, JobBounded
<1>6. TokensSound /\ PairsSound /\ SuccessWasDecided
  BY DEF Init, TokensSound, PairsSound, SuccessWasDecided, NoRow
<1>. QED
  BY <1>3, <1>4, <1>5, <1>6 DEF Init, MarketInv

-----------------------------------------------------------------------------
(* Steps of the API and the poller *)

\* A row may change, but loses neither its approval nor its rejection, and is
\* not made to look approved without one.
RowMoves(m) ==
  /\ market'[m] \in MarketState
  /\ market[m].approved => market'[m].approved
  /\ market[m].rejected => market'[m].rejected
  /\ market'[m].status \in {"approved", "activating", "active"}
       => market'[m].approved

LEMMA ApiMoves ==
  ASSUME MarketInv, UNCHANGED <<deployed, rows, run>>,
         DOMAIN market' = Market /\ market' = [m \in Market |-> market'[m]],
         \A m \in Market : RowMoves(m),
         call' \in [Call -> CallState],
         \A c \in Call : call'[c] = call[c] \/ Knows(call'[c], market'),
         processed' \in [Event -> {"none", "success", "failed"}],
         poll' \in Polled \cup {None},
         \A e \in Event \ Polled :
           processed'[e] = "success" =>
             processed[e] = "success" \/
             IF Decision[e] = "approve"
             THEN market'[About[e]].approved ELSE market'[About[e]].rejected,
         \/ job' = job
         \/ \E m \in Market : market'[m].approved
                              /\ job' = [job EXCEPT ![m] = Add(@)]
  PROVE  MarketInv'
<1>1. TypeOK /\ job' \in [Market -> JobState]
  BY DEF MarketInv, TypeOK, Add, JobState
<1>2. TypeOK'
  BY <1>1, EventAssumption DEF TypeOK, rows, RowMoves
<1>3. CallsSound'
  BY DEF MarketInv, CallsSound, Knows, RowMoves
<1>4. \A m \in Market :
        \/ job'[m] = job[m]
        \/ /\ market'[m].approved /\ job[m].state = "none"
           /\ job'[m] = [job[m] EXCEPT !.state = "waiting"]
  BY <1>1 DEF Add, TypeOK
<1>5. ASSUME NEW m \in Market
      PROVE  /\ job'[m].attempts = job[m].attempts
             /\ job'[m].stalls = job[m].stalls
             /\ job[m].state # "none" => job'[m].state = job[m].state
             /\ job[m].state = "none" =>
                  \/ job'[m].state = "none"
                  \/ job'[m].state = "waiting" /\ market'[m].approved
  BY <1>1, <1>4 DEF TypeOK, JobState
<1>6. MarketsSound'
  BY <1>5 DEF MarketInv, MarketsSound, RowMoves
<1>7. RunsSound' /\ OneRun'
  BY <1>5 DEF MarketInv, RunsSound, Holds, OneRun, rows
<1>8. JobsBounded'
  BY <1>5 DEF MarketInv, JobsBounded, JobBounded
<1>9. TokensSound' /\ PairsSound'
  <2>1. TokensSound'
    BY DEF MarketInv, TokensSound, Backed, rows
  <2>2. PairsSound'
    BY <1>1, <1>5 DEF MarketInv, PairsSound, rows, TypeOK
  <2>. QED  BY <2>1, <2>2
<1>10. SuccessWasDecided'
  BY EventAssumption DEF MarketInv, SuccessWasDecided, RowMoves
<1>. QED
  BY <1>2, <1>3, <1>6, <1>7, <1>8, <1>9, <1>10 DEF MarketInv

\* A row that stays as it is.
LEMMA RowStays ==
  ASSUME MarketInv, NEW m \in Market, market'[m] = market[m]
  PROVE  RowMoves(m)
BY DEF MarketInv, TypeOK, MarketsSound, RowMoves

\* What a call that goes on knows of rows that move.
LEMMA IdleKnows == IdleCall \in CallState /\ \A row : Knows(IdleCall, row)
BY DEF IdleCall, CallState, Knows

LEMMA RefusedKnows ==
  ASSUME TypeOK, NEW c \in Call, Knows(call[c], market), call[c].pc # "idle"
  PROVE  Refused(call[c]) \in CallState /\ Knows(Refused(call[c]), market)
<1>1. call[c] \in CallState
  BY DEF TypeOK
<1>2. CASE call[c].event = None
  BY <1>2, IdleKnows DEF Refused
<1>3. CASE call[c].event # None
  BY <1>1, <1>3 DEF Refused, CallState, Knows
<1>. QED  BY <1>2, <1>3

\* A step that changes nothing but one call.
LEMMA CallMoves ==
  ASSUME MarketInv, NEW c \in Call, NEW r \in CallState, Knows(r, market),
         call' = [call EXCEPT ![c] = r],
         UNCHANGED <<market, deployed, rows, job, processed, poll, run>>
  PROVE  MarketInv'
<1>1. /\ call' \in [Call -> CallState]
      /\ \A d \in Call : call'[d] = call[d] \/ Knows(call'[d], market')
  BY DEF MarketInv, TypeOK
<1>2. /\ DOMAIN market' = Market /\ market' = [m \in Market |-> market'[m]]
      /\ processed' \in [Event -> {"none", "success", "failed"}]
      /\ poll' \in Polled \cup {None}
  BY DEF MarketInv, TypeOK
<1>3. \A m \in Market : RowMoves(m)
  BY RowStays
<1>. QED  BY <1>1, <1>2, <1>3, ApiMoves

\* A step that changes the row of one market, and maybe one call.
LEMMA RowStep ==
  ASSUME MarketInv, NEW m \in Market, NEW x \in MarketState,
         market' = [market EXCEPT ![m] = x],
         market[m].approved => x.approved, market[m].rejected => x.rejected,
         x.status \in {"approved", "activating", "active"} => x.approved,
         call' \in [Call -> CallState],
         \A c \in Call : call'[c] = call[c] \/ Knows(call'[c], market'),
         UNCHANGED <<deployed, rows, job, processed, poll, run>>
  PROVE  MarketInv'
<1>1. /\ market'[m] = x /\ DOMAIN market' = Market
      /\ market' = [u \in Market |-> market'[u]]
      /\ \A u \in Market \ {m} : market'[u] = market[u]
      /\ processed' \in [Event -> {"none", "success", "failed"}]
      /\ poll' \in Polled \cup {None}
  BY DEF MarketInv, TypeOK
<1>2. \A u \in Market : RowMoves(u)
  BY <1>1, RowStays DEF RowMoves
<1>. QED  BY <1>1, <1>2, ApiMoves

LEMMA ReceiveStep ==
  ASSUME MarketInv, NEW c \in Call, Receive(c)
  PROVE  MarketInv'
<1>1. TypeOK
  BY DEF MarketInv
<1>2. ASSUME NEW e \in Event, ReceiveEvent(c, e) PROVE MarketInv'
  <2>1. PICK r : r = [pc |-> "check", market |-> About[e], event |-> e,
                      decision |-> Decision[e]]
    OBVIOUS
  <2>2. r \in CallState /\ Knows(r, market)
    BY <2>1, EventAssumption DEF CallState, Knows
  <2>. QED  BY <1>2, <2>1, <2>2, CallMoves DEF ReceiveEvent, Delivered
<1>3. ASSUME NEW m \in Market, NEW d \in {"approve", "reject"},
             AdminDecision(c, m, d)
      PROVE  MarketInv'
  <2>1. PICK r : r = [IdleCall EXCEPT !.pc = "check", !.market = m,
                                      !.decision = d]
    OBVIOUS
  <2>2. r \in CallState /\ Knows(r, market)
    BY <2>1 DEF IdleCall, CallState, Knows
  <2>. QED  BY <1>3, <2>1, <2>2, CallMoves DEF AdminDecision
<1>4. ASSUME NEW m \in Market, AdminActivation(c, m) PROVE MarketInv'
  <2>1. PICK r : r = [IdleCall EXCEPT !.pc = "activate", !.market = m]
    OBVIOUS
  <2>2. r \in CallState /\ Knows(r, market)
    BY <2>1 DEF IdleCall, CallState, Knows
  <2>. QED  BY <1>4, <2>1, <2>2, CallMoves DEF AdminActivation
<1>5. ASSUME NEW m \in Market, RegisterMarket(c, m) PROVE MarketInv'
  <2>1. PICK r : r = [IdleCall EXCEPT !.pc = "request", !.market = m]
    OBVIOUS
  <2>2. r \in CallState /\ Knows(r, market')
    BY <2>1 DEF IdleCall, CallState, Knows
  <2>3. PICK x : x = [market[m] EXCEPT !.status = "draft"]
    OBVIOUS
  <2>4. /\ x \in MarketState /\ x.status = "draft"
        /\ x.approved = market[m].approved /\ x.rejected = market[m].rejected
    BY <1>1, <2>3 DEF TypeOK, MarketState, Status
  <2>5. /\ call' = [call EXCEPT ![c] = r] /\ market' = [market EXCEPT ![m] = x]
        /\ UNCHANGED <<deployed, rows, job, processed, poll, run>>
    BY <1>1, <1>5, <2>1, <2>3 DEF RegisterMarket, TypeOK
  <2>6. /\ call' \in [Call -> CallState]
        /\ \A d \in Call : call'[d] = call[d] \/ Knows(call'[d], market')
    BY <1>1, <2>2, <2>5 DEF TypeOK
  <2>. QED  BY <2>4, <2>5, <2>6, RowStep
<1>. QED  BY <1>2, <1>3, <1>4, <1>5 DEF Receive

\* The handlers that read a row and go on, or give up.
LEMMA CheckStep ==
  ASSUME MarketInv, NEW c \in Call,
         \/ CheckPending(c) \/ NotAuthorized(c) \/ CheckApproved(c)
         \/ CallFault(c) \/ CallCrash(c)
  PROVE  MarketInv'
<1>1. /\ call[c] \in CallState /\ Knows(call[c], market)
      /\ call[c].pc # "idle" /\ TypeOK /\ CallsSound
  BY DEF MarketInv, TypeOK, CallsSound, CheckPending, NotAuthorized,
         CheckApproved, CallFault, CallCrash
<1>2. PICK p \in CallState : p = [call[c] EXCEPT !.pc = "decide"]
  BY <1>1 DEF CallState
<1>3. PICK q \in CallState : q = [call[c] EXCEPT !.pc = "start"]
  BY <1>1 DEF CallState
<1>4. call[c].pc = "check" => Knows(p, market)
  BY <1>1, <1>2 DEF CallState, Knows
<1>5. call[c].pc = "activate" /\ Approved(call[c].market) => Knows(q, market)
  <2>1. ASSUME call[c].pc = "activate", Approved(call[c].market)
        PROVE  Knows(q, market)
    <3>1. call[c].market \in Market
      BY <1>1, <2>1 DEF Knows
    <3>2. market[call[c].market].approved
      BY <2>1, <3>1 DEF MarketInv, MarketsSound, Approved
    <3>3. /\ q.pc = "start" /\ q.market = call[c].market
          /\ q.event = call[c].event /\ q.decision = call[c].decision
      BY <1>1, <1>3 DEF CallState
    <3>. QED  BY <1>1, <2>1, <3>1, <3>2, <3>3 DEF Knows
  <2>. QED  BY <2>1
<1>6. PICK r \in {p, q, Refused(call[c]), IdleCall} :
        /\ call' = [call EXCEPT ![c] = r] /\ Knows(r, market)
  <2>1. Knows(Refused(call[c]), market) /\ Knows(IdleCall, market)
    BY <1>1, RefusedKnows, IdleKnows
  <2>2. CASE CheckPending(c)
    BY <1>1, <1>2, <1>4, <2>1, <2>2 DEF CheckPending, TypeOK
  <2>3. CASE CheckApproved(c)
    BY <1>1, <1>3, <1>5, <2>1, <2>3 DEF CheckApproved, TypeOK
  <2>4. CASE NotAuthorized(c) \/ CallFault(c) \/ CallCrash(c)
    BY <1>1, <2>1, <2>4 DEF NotAuthorized, CallFault, CallCrash, TypeOK
  <2>. QED  BY <2>2, <2>3, <2>4
<1>7. r \in CallState
  BY <1>1, <1>2, <1>3, <1>6, RefusedKnows, IdleKnows
<1>8. UNCHANGED <<market, deployed, rows, job, processed, poll, run>>
  BY DEF CheckPending, NotAuthorized, CheckApproved, CallFault, CallCrash
<1>. QED  BY <1>6, <1>7, <1>8, CallMoves

\* The handlers that write a status blindly.
LEMMA WriteStep ==
  ASSUME MarketInv, NEW c \in Call,
         RequestApproval(c) \/ WriteDecision(c) \/ StartActivation(c)
  PROVE  MarketInv'
<1>1. PICK m \in Market :
        /\ m = call[c].market /\ call[c] \in CallState
        /\ Knows(call[c], market) /\ call[c].pc # "idle" /\ TypeOK
        /\ market[m] \in MarketState
  BY DEF MarketInv, TypeOK, CallsSound, Knows, RequestApproval, WriteDecision,
         StartActivation
<1>2. PICK x, r :
        /\ market' = [market EXCEPT ![m] = x] /\ x \in MarketState
        /\ market[m].approved => x.approved
        /\ market[m].rejected => x.rejected
        /\ x.status \in {"approved", "activating", "active"} => x.approved
        /\ call' = [call EXCEPT ![c] = r] /\ r \in CallState
        /\ Knows(r, market')
  <2>1. CASE RequestApproval(c)
    <3>1. PICK x : x = [market[m] EXCEPT !.status = "pending_approval"]
      OBVIOUS
    <3>2. /\ x \in MarketState /\ x.status = "pending_approval"
          /\ x.approved = market[m].approved /\ x.rejected = market[m].rejected
      BY <1>1, <3>1 DEF MarketState, Status
    <3>3. /\ market' = [market EXCEPT ![m] = x]
          /\ call' = [call EXCEPT ![c] = IdleCall]
      BY <1>1, <2>1, <3>1 DEF RequestApproval, WithStatus, TypeOK
    <3>. QED  BY <3>2, <3>3, IdleKnows
  <2>2. CASE StartActivation(c)
    <3>1. PICK x, r : /\ x = [market[m] EXCEPT !.status = "activating"]
                      /\ r = [call[c] EXCEPT !.pc = "enqueue"]
      OBVIOUS
    <3>2. /\ x \in MarketState /\ x.status = "activating" /\ x.approved
          /\ x.approved = market[m].approved /\ x.rejected = market[m].rejected
      BY <1>1, <2>2, <3>1 DEF MarketState, Status, StartActivation, Knows
    <3>3. /\ market' = [market EXCEPT ![m] = x] /\ market'[m] = x
          /\ call' = [call EXCEPT ![c] = r]
      BY <1>1, <2>2, <3>1 DEF StartActivation, WithStatus, TypeOK
    <3>4. /\ r \in CallState /\ r.pc = "enqueue" /\ r.market = m
          /\ r.event = call[c].event /\ r.decision = call[c].decision
      BY <1>1, <3>1 DEF CallState
    <3>5. Knows(r, market')
      BY <1>1, <2>2, <3>2, <3>3, <3>4 DEF Knows, StartActivation
    <3>. QED  BY <3>2, <3>3, <3>4, <3>5
  <2>3. CASE WriteDecision(c) /\ call[c].decision = "approve"
    <3>1. PICK x, r : /\ x = [market[m] EXCEPT !.status = "approved",
                                               !.approved = TRUE]
                      /\ r = [call[c] EXCEPT !.pc = "activate"]
      OBVIOUS
    <3>2. /\ x \in MarketState /\ x.approved
          /\ x.rejected = market[m].rejected
      BY <1>1, <3>1 DEF MarketState, Status
    <3>3. /\ market' = [market EXCEPT ![m] = x] /\ market'[m] = x
          /\ call' = [call EXCEPT ![c] = r]
      BY <1>1, <2>3, <3>1 DEF WriteDecision, WithApproval, TypeOK
    <3>4. /\ r \in CallState /\ r.pc = "activate" /\ r.market = m
          /\ r.event = call[c].event /\ r.decision = "approve"
      BY <1>1, <2>3, <3>1 DEF CallState
    <3>5. Knows(r, market')
      BY <1>1, <2>3, <3>2, <3>3, <3>4 DEF Knows
    <3>. QED  BY <3>2, <3>3, <3>4, <3>5
  <2>4. CASE WriteDecision(c) /\ call[c].decision = "reject"
    <3>1. PICK x : x = [market[m] EXCEPT !.status = "rejected",
                                         !.rejected = TRUE]
      OBVIOUS
    <3>2. /\ x \in MarketState /\ x.rejected /\ x.status = "rejected"
          /\ x.approved = market[m].approved
      BY <1>1, <3>1 DEF MarketState, Status
    <3>3. /\ market' = [market EXCEPT ![m] = x] /\ market'[m] = x
          /\ call' = [call EXCEPT ![c] = Succeeded(call[c])]
      BY <1>1, <2>4, <3>1 DEF WriteDecision, WithRejection, TypeOK
    <3>4. Succeeded(call[c]) \in CallState /\ Knows(Succeeded(call[c]), market')
      <4>1. CASE call[c].event = None
        BY <4>1, IdleKnows DEF Succeeded
      <4>2. CASE call[c].event # None
        <5>1. PICK r : r = [call[c] EXCEPT !.pc = "recordSuccess"]
          OBVIOUS
        <5>2. /\ r \in CallState /\ r.pc = "recordSuccess" /\ r.market = m
              /\ r.event = call[c].event /\ r.decision = "reject"
          BY <1>1, <2>4, <5>1 DEF CallState
        <5>3. market'[m].rejected /\ r.decision # "approve"
          BY <3>2, <3>3, <5>2
        <5>4. /\ r.event \in Event /\ m = About[r.event]
              /\ r.decision = Decision[r.event]
          BY <1>1, <2>4, <4>2, <5>2 DEF Knows
        <5>5. Knows(r, market')
          BY <4>2, <5>2, <5>3, <5>4 DEF Knows
        <5>. QED  BY <4>2, <5>1, <5>2, <5>5 DEF Succeeded
      <4>. QED  BY <4>1, <4>2
    <3>. QED  BY <3>2, <3>3, <3>4
  <2>. QED  BY <2>1, <2>2, <2>3, <2>4 DEF WriteDecision
<1>3. /\ call' \in [Call -> CallState]
      /\ \A d \in Call : call'[d] = call[d] \/ Knows(call'[d], market')
  BY <1>1, <1>2 DEF TypeOK
<1>4. UNCHANGED <<deployed, rows, job, processed, poll, run>>
  BY DEF RequestApproval, WriteDecision, StartActivation
<1>. QED  BY <1>2, <1>3, <1>4, RowStep

\* queue.add, after which the call answers or records its event.
LEMMA EnqueueStep ==
  ASSUME MarketInv, NEW c \in Call, EnqueueDeployment(c)
  PROVE  MarketInv'
<1>1. PICK m \in Market :
        /\ m = call[c].market /\ call[c] \in CallState /\ TypeOK
        /\ Knows(call[c], market) /\ call[c].pc = "enqueue"
        /\ market[m].approved
  BY DEF MarketInv, TypeOK, CallsSound, Knows, EnqueueDeployment
<1>2. Succeeded(call[c]) \in CallState /\ Knows(Succeeded(call[c]), market)
  <2>1. CASE call[c].event = None
    BY <2>1, IdleKnows DEF Succeeded
  <2>2. CASE call[c].event # None
    <3>1. PICK r : r = [call[c] EXCEPT !.pc = "recordSuccess"]
      OBVIOUS
    <3>2. /\ r \in CallState /\ r.pc = "recordSuccess" /\ r.market = m
          /\ r.event = call[c].event /\ r.decision = call[c].decision
      BY <1>1, <3>1 DEF CallState
    <3>3. Knows(r, market)
      BY <1>1, <2>2, <3>2 DEF Knows
    <3>. QED  BY <2>2, <3>1, <3>2, <3>3 DEF Succeeded
  <2>. QED  BY <2>1, <2>2
<1>3. /\ call' = [call EXCEPT ![c] = Succeeded(call[c])]
      /\ job' = [job EXCEPT ![m] = Add(@)]
      /\ UNCHANGED <<market, deployed, rows, processed, poll, run>>
  BY <1>1 DEF EnqueueDeployment, TypeOK
<1>4. /\ call' \in [Call -> CallState]
      /\ \A d \in Call : call'[d] = call[d] \/ Knows(call'[d], market')
      /\ DOMAIN market' = Market /\ market' = [u \in Market |-> market'[u]]
      /\ processed' \in [Event -> {"none", "success", "failed"}]
      /\ poll' \in Polled \cup {None}
  BY <1>1, <1>2, <1>3 DEF MarketInv, TypeOK
<1>5. \A u \in Market : RowMoves(u)
  BY <1>3, RowStays
<1>. QED  BY <1>1, <1>3, <1>4, <1>5, ApiMoves

\* What is recorded of events: by the webhook, and by the poller.
LEMMA RecordStep ==
  ASSUME MarketInv,
         \/ \E c \in Call : RecordEvent(c)
         \/ Poll \/ PollFault
  PROVE  MarketInv'
<1>1. /\ TypeOK /\ poll \in Polled \cup {None}
      /\ UNCHANGED <<market, deployed, rows, job, run>>
  BY DEF MarketInv, RecordEvent, Poll, PollEvent, RecordPolled, PollFault
<1>2. /\ DOMAIN market' = Market /\ market' = [u \in Market |-> market'[u]]
      /\ \A u \in Market : RowMoves(u)
  BY <1>1, RowStays DEF TypeOK
<1>3. ASSUME NEW c \in Call, RecordEvent(c) PROVE MarketInv'
  <2>1. /\ call[c] \in CallState /\ Knows(call[c], market)
        /\ call[c].pc # "idle"
    BY <1>3 DEF MarketInv, TypeOK, CallsSound, RecordEvent
  <2>2. PICK e \in Event :
          /\ e = call[c].event
          /\ call[c].market = About[e] /\ call[c].decision = Decision[e]
    BY <1>3, <2>1 DEF Knows, RecordEvent
  <2>3. /\ call' \in [Call -> CallState]
        /\ \A d \in Call : call'[d] = call[d] \/ Knows(call'[d], market')
    BY <1>1, <1>3, IdleKnows DEF TypeOK, RecordEvent
  <2>4. /\ processed' \in [Event -> {"none", "success", "failed"}]
        /\ poll' \in Polled \cup {None}
    BY <1>1, <1>3, <2>2 DEF TypeOK, RecordEvent
  <2>5. ASSUME NEW f \in Event \ Polled, processed'[f] = "success"
        PROVE  processed[f] = "success" \/
               IF Decision[f] = "approve"
               THEN market'[About[f]].approved ELSE market'[About[f]].rejected
    BY <1>1, <1>3, <2>1, <2>2, <2>5 DEF TypeOK, RecordEvent, Knows
  <2>. QED  BY <1>1, <1>2, <2>3, <2>4, <2>5, ApiMoves
<1>4. CASE Poll \/ PollFault
  <2>1. /\ call' = call /\ call' \in [Call -> CallState]
        /\ processed' \in [Event -> {"none", "success", "failed"}]
        /\ poll' \in Polled \cup {None}
    BY <1>1, <1>4, EventAssumption
    DEF TypeOK, Poll, PollEvent, RecordPolled, PollFault
  <2>2. \A f \in Event \ Polled : processed'[f] = processed[f]
    BY <1>1, <1>4, EventAssumption
    DEF TypeOK, Poll, PollEvent, RecordPolled, PollFault
  <2>. QED  BY <1>1, <1>2, <2>1, <2>2, ApiMoves
<1>. QED  BY <1>3, <1>4

LEMMA ShelveStep ==
  ASSUME MarketInv, NEW m \in Market, NEW s \in {"paused", "archived"},
         Shelve(m, s)
  PROVE  MarketInv'
<1>1. PICK x : x = [market[m] EXCEPT !.status = s]
  OBVIOUS
<1>2. /\ x \in MarketState /\ x.status = s /\ TypeOK
      /\ x.approved = market[m].approved /\ x.rejected = market[m].rejected
  BY <1>1 DEF MarketInv, TypeOK, MarketState, Status
<1>3. /\ market' = [market EXCEPT ![m] = x] /\ call' \in [Call -> CallState]
      /\ UNCHANGED <<deployed, rows, job, processed, call, poll, run>>
  BY <1>1, <1>2 DEF Shelve, WithStatus, TypeOK
<1>. QED  BY <1>2, <1>3, RowStep

-----------------------------------------------------------------------------
(* Steps of the deployment worker *)

\* A step of the run of worker w, which has the job of market m before it or
\* takes it.
LEMMA WorkerMoves ==
  ASSUME MarketInv, TypeOK', NEW w \in Worker, NEW m \in Market,
         UNCHANGED <<processed, call, poll>>,
         \A v \in Worker \ {w} : run'[v] = run[v],
         \A v \in Worker \ {w} : run[v].pc # "idle" => run[v].market # m,
         \A u \in Market \ {m} :
           /\ job'[u] = job[u] /\ deployed'[u] = deployed[u]
           /\ market'[u] = market[u],
         market'[m].approved = market[m].approved,
         market'[m].rejected = market[m].rejected,
         job[m].state # "none", job'[m].state # "none",
         deployed'[m] >= deployed[m], JobBounded(m)',
         run'[w].pc = "idle" \/ (run'[w].market = m /\ Holds(run[w])'),
         \A s \in TokenSymbol : token[s].exists => token'[s] = token[s],
         \A s \in TokenSymbol :
           token'[s].exists => token'[s] = token[s] \/ Backed(s)',
         pairs' = pairs \/
           (/\ pairs' = pairs \cup {m}
            /\ token[Usdc].exists /\ token[Symbol[m]].exists)
  PROVE  MarketInv'
<1>1. /\ TypeOK /\ Usdc \in TokenSymbol
      /\ \A n \in Market : Symbol[n] \in TokenSymbol
  BY DEF MarketInv, TokenSymbol
<1>2. \A u \in Market : deployed'[u] >= deployed[u] /\ deployed[u] \in Nat
                        /\ deployed'[u] \in Nat
  BY <1>1 DEF TypeOK
<1>3. \A u \in Market : market'[u].approved = market[u].approved
                        /\ market'[u].rejected = market[u].rejected
  OBVIOUS
<1>4. CallsSound' /\ SuccessWasDecided'
  <2>1. CallsSound'
    BY <1>3 DEF MarketInv, CallsSound, Knows
  <2>2. SuccessWasDecided'
    BY <1>3, EventAssumption DEF MarketInv, SuccessWasDecided
  <2>. QED  BY <2>1, <2>2
<1>5. MarketsSound'
  BY <1>3 DEF MarketInv, MarketsSound
<1>6. JobsBounded'
  BY DEF MarketInv, JobsBounded, JobBounded
<1>7. RunsSound'
  <2>1. ASSUME NEW v \in Worker \ {w}, run[v].pc # "idle"
        PROVE  Holds(run[v])'
    <3>1. /\ run'[v] = run[v] /\ Holds(run[v])
          /\ run[v].market \in Market \ {m}
      BY <2>1 DEF MarketInv, RunsSound, Holds
    <3>2. Symbol[run[v].market] \in TokenSymbol
      BY <1>1, <3>1
    <3>. QED  BY <1>1, <2>1, <3>1, <3>2 DEF Holds
  <2>. QED  BY <2>1 DEF RunsSound, Holds
<1>8. OneRun'
  BY DEF MarketInv, OneRun
<1>9. TokensSound'
  <2>1. ASSUME NEW s \in TokenSymbol, token'[s].exists, token'[s] = token[s]
        PROVE  Backed(s)'
    <3>1. Backed(s)
      BY <2>1 DEF MarketInv, TokensSound
    <3>2. CASE s = Usdc /\ token[s].contract = NoContract
      BY <2>1, <3>2 DEF Backed
    <3>3. CASE \E n \in Market :
                 /\ Symbol[n] = s
                 /\ \E i \in 1..deployed[n] : token[s].contract = <<n, i>>
      <4>1. PICK n \in Market :
              /\ Symbol[n] = s
              /\ \E i \in 1..deployed[n] : token[s].contract = <<n, i>>
        BY <3>3
      <4>2. \E i \in 1..deployed'[n] : token'[s].contract = <<n, i>>
        BY <1>2, <2>1, <4>1
      <4>. QED  BY <4>1, <4>2 DEF Backed
    <3>. QED  BY <3>1, <3>2, <3>3 DEF Backed
  <2>. QED  BY <2>1 DEF TokensSound
<1>10. PairsSound'
  <2>1. ASSUME NEW u \in pairs' PROVE u \in Market /\ job'[u].state # "none"
    BY <1>1, <2>1 DEF MarketInv, PairsSound, TypeOK
  <2>2. ASSUME NEW u \in pairs'
        PROVE  token[Usdc].exists /\ token[Symbol[u]].exists
    BY DEF MarketInv, PairsSound
  <2>. QED  BY <1>1, <2>1, <2>2 DEF PairsSound
<1>. QED
  BY <1>4, <1>5, <1>6, <1>7, <1>8, <1>9, <1>10 DEF MarketInv

\* What a run that is not idle knows.
LEMMA RunKnows ==
  ASSUME MarketInv, NEW w \in Worker, run[w].pc # "idle"
  PROVE  /\ TypeOK /\ run[w] \in RunState /\ run[w].market \in Market
         /\ run[w].contract \in Contract
         /\ Holds(run[w]) /\ job[run[w].market].state = "active"
         /\ job[run[w].market] \in JobState
         /\ JobBounded(run[w].market) /\ deployed[run[w].market] \in Nat
         /\ \A v \in Worker \ {w} :
              run[v].pc # "idle" => run[v].market # run[w].market
<1>1. /\ TypeOK /\ run[w] \in RunState /\ Holds(run[w])
  BY DEF MarketInv, TypeOK, RunsSound
<1>2. run[w].market \in Market
  BY <1>1 DEF Holds
<1>. QED
  BY <1>1, <1>2
  DEF MarketInv, TypeOK, RunState, Holds, JobsBounded, OneRun

\* A move to another place of the handler; r is the run from then on.
LEMMA RunMoves ==
  ASSUME MarketInv, NEW w \in Worker, run[w].pc # "idle",
         NEW r \in RunState, Holds(r), r.market = run[w].market,
         run' = [run EXCEPT ![w] = r],
         UNCHANGED <<market, deployed, rows, job, processed, call, poll>>
  PROVE  MarketInv'
<1>1. PICK m \in Market :
        /\ m = run[w].market /\ TypeOK /\ JobBounded(m)
        /\ job[m].state = "active" /\ deployed[m] \in Nat
        /\ \A v \in Worker \ {w} : run[v].pc # "idle" => run[v].market # m
  BY RunKnows
<1>2. TypeOK' /\ run'[w] = r /\ \A v \in Worker \ {w} : run'[v] = run[v]
  BY <1>1 DEF TypeOK, rows
<1>3. JobBounded(m)' /\ Holds(run[w])'
  BY <1>1, <1>2 DEF JobBounded, Holds, rows
<1>. QED  BY <1>1, <1>2, <1>3, WorkerMoves DEF rows

\* The run at another place, with the same market and contract.
LEMMA RunAt ==
  ASSUME MarketInv, NEW w \in Worker, NEW p \in InHandler \cup {"revert"}
  PROVE  LET r == [run[w] EXCEPT !.pc = p] IN
         /\ r \in RunState /\ r.pc = p /\ r.market = run[w].market
         /\ r.contract = run[w].contract
         /\ [run EXCEPT ![w].pc = p] = [run EXCEPT ![w] = r]
<1>1. TypeOK /\ run[w] \in RunState
  BY DEF MarketInv, TypeOK
<1>. QED  BY <1>1 DEF TypeOK, RunState

\* The catch, or the last step, can be reached from anywhere.
LEMMA GivesUp ==
  ASSUME MarketInv, NEW w \in Worker, run[w].pc # "idle",
         NEW p \in {"revert", "publish"},
         run' = [run EXCEPT ![w].pc = p],
         UNCHANGED <<market, deployed, rows, job, processed, call, poll>>
  PROVE  MarketInv'
<1>1. PICK r \in RunState : /\ r.pc = p /\ r.market = run[w].market
                            /\ run' = [run EXCEPT ![w] = r]
  BY RunAt DEF InHandler
<1>2. Holds(r)
  BY <1>1, RunKnows DEF Holds
<1>. QED  BY <1>1, <1>2, RunMoves

LEMMA FindStep ==
  ASSUME MarketInv, NEW w \in Worker,
         FindToken(w) \/ FindUsdc(w) \/ FindPair(w)
  PROVE  MarketInv'
<1>1. /\ run[w].pc # "idle"
      /\ UNCHANGED <<market, deployed, rows, job, processed, call, poll>>
  BY DEF FindToken, FindUsdc, FindPair, Find
<1>2. TypeOK /\ Holds(run[w]) /\ run[w].market \in Market
  BY <1>1, RunKnows
<1>3. PICK p \in InHandler :
        /\ run' = [run EXCEPT ![w].pc = p]
        /\ p = "createToken" => run[w].pc = "findToken"
        /\ p \in {"findUsdc", "createUsdc", "findPair", "createPair"} =>
             token[Symbol[run[w].market]].exists
        /\ p \in {"findPair", "createPair"} => token[Usdc].exists
        /\ p \in {"createToken", "findUsdc", "createUsdc", "findPair",
                  "createPair", "publish"}
  <2>1. CASE FindToken(w)
    BY <1>2, <2>1 DEF FindToken, Find, InHandler, Holds
  <2>2. CASE FindUsdc(w)
    BY <1>2, <2>2 DEF FindUsdc, Find, InHandler, Holds
  <2>3. CASE FindPair(w)
    BY <1>2, <2>3 DEF FindPair, InHandler, Holds
  <2>. QED  BY <2>1, <2>2, <2>3
<1>4. PICK r \in RunState :
        /\ r.pc = p /\ r.market = run[w].market
        /\ r.contract = run[w].contract /\ run' = [run EXCEPT ![w] = r]
  BY <1>3, RunAt
<1>5. Holds(r)
  BY <1>1, <1>2, <1>3, <1>4 DEF Holds
<1>. QED  BY <1>1, <1>4, <1>5, RunMoves

\* Contracts, and the types of what the worker writes.
LEMMA ContractTypes ==
  /\ NoContract \in Contract
  /\ \A m \in Market, n \in Nat : <<m, n + 1>> \in Contract
BY DEF NoContract, Contract

LEMMA IdleRunType == IdleRun \in RunState /\ IdleRun.pc = "idle"
BY ContractTypes DEF IdleRun, RunState

LEMMA TakeStep ==
  ASSUME MarketInv, NEW w \in Worker, NEW m \in Market, TakeJob(w, m)
  PROVE  MarketInv'
<1>1. /\ TypeOK /\ job[m] \in JobState /\ job[m].state = "waiting"
      /\ run[w].pc = "idle" /\ JobBounded(m) /\ deployed[m] \in Nat
      /\ UNCHANGED <<market, deployed, token, pairs, processed, call, poll>>
  BY DEF MarketInv, TypeOK, JobsBounded, TakeJob, rows
<1>2. PICK k, r : /\ k = [job[m] EXCEPT !.state = "active"]
                  /\ r = [IdleRun EXCEPT !.pc = "load", !.market = m]
  OBVIOUS
<1>3. /\ k \in JobState /\ k.state = "active"
      /\ k.attempts = job[m].attempts /\ k.stalls = job[m].stalls
      /\ r \in RunState /\ r.pc = "load" /\ r.market = m
  BY <1>1, <1>2, ContractTypes DEF JobState, IdleRun, RunState, InHandler
<1>4. /\ job' = [job EXCEPT ![m] = k] /\ run' = [run EXCEPT ![w] = r]
      /\ job'[m] = k /\ run'[w] = r
      /\ \A u \in Market \ {m} : job'[u] = job[u]
      /\ \A v \in Worker \ {w} : run'[v] = run[v]
  BY <1>1, <1>2 DEF TakeJob, TypeOK
<1>5. TypeOK'
  BY <1>1, <1>3, <1>4 DEF TypeOK
<1>6. /\ job[m].attempts \in Nat /\ job[m].stalls \in Nat
      /\ deployed[m] <= job[m].attempts + job[m].stalls
  BY <1>1 DEF JobState, JobBounded
<1>7. JobBounded(m)'
  <2>1. deployed[m] <= k.attempts + k.stalls + 1
    BY <1>1, <1>3, <1>6
  <2>. QED  BY <1>1, <1>3, <1>4, <2>1 DEF JobBounded
<1>8. Holds(run[w])'
  BY <1>1, <1>3, <1>4, <1>6 DEF Holds
<1>9. \A v \in Worker \ {w} : run[v].pc # "idle" => run[v].market # m
  BY <1>1 DEF MarketInv, RunsSound, Holds
<1>. QED
  BY <1>1, <1>3, <1>4, <1>5, <1>7, <1>8, <1>9, WorkerMoves

\* An activation or a reversion of the row, which keeps its approval.
LEMMA StatusTypes ==
  ASSUME TypeOK, NEW m \in Market, NEW s \in {"active", "approved"},
         NEW a \in Contract,
         market' \in {market, [market EXCEPT ![m].status = s],
                      [market EXCEPT ![m].status = s, ![m].contract = a]}
  PROVE  /\ market' \in [Market -> MarketState]
         /\ market'[m].approved = market[m].approved
         /\ market'[m].rejected = market[m].rejected
         /\ \A u \in Market \ {m} : market'[u] = market[u]
<1>1. market \in [Market -> MarketState] /\ market[m] \in MarketState
  BY DEF TypeOK
<1>2. /\ [market[m] EXCEPT !.status = s] \in MarketState
      /\ [market[m] EXCEPT !.status = s, !.contract = a] \in MarketState
      /\ [market[m] EXCEPT !.status = s].approved = market[m].approved
      /\ [market[m] EXCEPT !.status = s].rejected = market[m].rejected
      /\ [market[m] EXCEPT !.status = s, !.contract = a].approved
           = market[m].approved
      /\ [market[m] EXCEPT !.status = s, !.contract = a].rejected
           = market[m].rejected
  BY <1>1 DEF MarketState, Status
<1>3. /\ [market EXCEPT ![m].status = s]
           = [market EXCEPT ![m] = [market[m] EXCEPT !.status = s]]
      /\ [market EXCEPT ![m].status = s, ![m].contract = a]
           = [market EXCEPT ![m] =
                [market[m] EXCEPT !.status = s, !.contract = a]]
  BY <1>1
<1>. QED  BY <1>1, <1>2, <1>3

\* A job whose run ends: an attempt or a stall pays for a deployment.
LEMMA EndedJob ==
  ASSUME NEW m \in Market, JobBounded(m), job[m] \in JobState,
         job[m].state = "active", deployed[m] \in Nat, deployed' = deployed,
         NEW k \in {[job[m] EXCEPT !.state = "completed"],
                    AttemptFailed(job[m]), Stalled(job[m])},
         job'[m] = k
  PROVE  k \in JobState /\ k.state # "none" /\ JobBounded(m)'
<1>1. /\ job[m].attempts \in Nat /\ job[m].stalls \in Nat
      /\ job[m].attempts < Attempts /\ job[m].stalls <= MaxStalls
      /\ deployed[m] <= job[m].attempts + job[m].stalls + 1
      /\ Attempts \in Nat /\ MaxStalls \in Nat
  BY NumberAssumption DEF JobState, JobBounded
<1>2. CASE k = [job[m] EXCEPT !.state = "completed"]
  <2>1. /\ k \in JobState /\ k.state = "completed"
        /\ k.attempts = job[m].attempts /\ k.stalls = job[m].stalls
    BY <1>2 DEF JobState
  <2>. QED  BY <1>1, <2>1 DEF JobBounded
<1>3. CASE k = AttemptFailed(job[m])
  <2>1. /\ k \in JobState
        /\ k.state = IF job[m].attempts + 1 < Attempts THEN "waiting"
                     ELSE "failed"
        /\ k.attempts = job[m].attempts + 1 /\ k.stalls = job[m].stalls
    <3> DEFINE j == [job[m] EXCEPT !.attempts = @ + 1]
    <3>1. /\ j \in JobState /\ j.attempts = job[m].attempts + 1
          /\ j.stalls = job[m].stalls
      BY <1>1 DEF JobState
    <3>2. k = [j EXCEPT !.state = IF job[m].attempts + 1 < Attempts
                                  THEN "waiting" ELSE "failed"]
      BY <1>3 DEF AttemptFailed
    <3> HIDE DEF j
    <3>. QED  BY <3>1, <3>2 DEF JobState
  <2>2. CASE job[m].attempts + 1 < Attempts
    BY <1>1, <2>1, <2>2 DEF JobBounded
  <2>3. CASE ~(job[m].attempts + 1 < Attempts)
    BY <1>1, <2>1, <2>3 DEF JobBounded
  <2>. QED  BY <2>2, <2>3
<1>4. CASE k = Stalled(job[m])
  <2>1. /\ k \in JobState
        /\ k.state = IF job[m].stalls < MaxStalls THEN "waiting" ELSE "failed"
        /\ k.attempts = job[m].attempts /\ k.stalls = job[m].stalls + 1
    <3> DEFINE j == [job[m] EXCEPT !.stalls = @ + 1]
    <3>1. /\ j \in JobState /\ j.attempts = job[m].attempts
          /\ j.stalls = job[m].stalls + 1
      BY <1>1 DEF JobState
    <3>2. k = [j EXCEPT !.state = IF job[m].stalls < MaxStalls
                                  THEN "waiting" ELSE "failed"]
      BY <1>4 DEF Stalled
    <3> HIDE DEF j
    <3>. QED  BY <3>1, <3>2 DEF JobState
  <2>2. CASE job[m].stalls < MaxStalls
    BY <1>1, <2>1, <2>2 DEF JobBounded
  <2>3. CASE ~(job[m].stalls < MaxStalls)
    BY <1>1, <2>1, <2>3 DEF JobBounded
  <2>. QED  BY <2>2, <2>3
<1>. QED  BY <1>2, <1>3, <1>4

\* The run ends, and maybe the row is written.
LEMMA RunEnds ==
  ASSUME MarketInv, NEW w \in Worker, run[w].pc # "idle",
         NEW m \in Market, m = run[w].market,
         NEW k \in {[job[m] EXCEPT !.state = "completed"],
                    AttemptFailed(job[m]), Stalled(job[m])},
         job' = [job EXCEPT ![m] = k], run' = [run EXCEPT ![w] = IdleRun],
         market' \in {market, [market EXCEPT ![m].status = "approved"]},
         UNCHANGED <<deployed, rows, processed, call, poll>>
  PROVE  MarketInv'
<1>1. /\ TypeOK /\ JobBounded(m) /\ job[m] \in JobState
      /\ job[m].state = "active" /\ deployed[m] \in Nat
      /\ \A v \in Worker \ {w} : run[v].pc # "idle" => run[v].market # m
  BY RunKnows
<1>2. /\ job'[m] = k /\ run'[w].pc = "idle"
      /\ \A u \in Market \ {m} : job'[u] = job[u]
      /\ \A v \in Worker \ {w} : run'[v] = run[v]
  BY <1>1, IdleRunType DEF TypeOK
<1>3. k \in JobState /\ k.state # "none" /\ JobBounded(m)'
  BY <1>1, <1>2, EndedJob
<1>4. /\ market' \in [Market -> MarketState]
      /\ market'[m].approved = market[m].approved
      /\ market'[m].rejected = market[m].rejected
      /\ \A u \in Market \ {m} : market'[u] = market[u]
  BY <1>1, StatusTypes, ContractTypes
<1>5. UNCHANGED <<token, pairs>>
  BY DEF rows
<1>6. TypeOK'
  BY <1>1, <1>3, <1>4, <1>5, IdleRunType DEF TypeOK
<1>. QED
  BY <1>1, <1>2, <1>3, <1>4, <1>5, <1>6, WorkerMoves

LEMMA EndStep ==
  ASSUME MarketInv, NEW w \in Worker,
         PublishActivated(w) \/ Revert(w) \/ RevertFault(w) \/ Crash(w)
  PROVE  MarketInv'
<1>1. run[w].pc # "idle"
  BY DEF PublishActivated, Revert, RevertFault, Crash
<1>2. PICK m \in Market : m = run[w].market /\ TypeOK /\ job[m] \in JobState
  BY <1>1, RunKnows
<1>3. [job EXCEPT ![m].state = "completed"]
        = [job EXCEPT ![m] = [job[m] EXCEPT !.state = "completed"]]
  BY <1>2 DEF TypeOK
<1>4. PICK k \in {[job[m] EXCEPT !.state = "completed"],
                  AttemptFailed(job[m]), Stalled(job[m])} :
        job' = [job EXCEPT ![m] = k]
  BY <1>2, <1>3 DEF PublishActivated, Revert, RevertFault, Crash
<1>5. /\ run' = [run EXCEPT ![w] = IdleRun]
      /\ market' \in {market, [market EXCEPT ![m].status = "approved"]}
      /\ UNCHANGED <<deployed, rows, processed, call, poll>>
  BY <1>2 DEF PublishActivated, Revert, RevertFault, Crash, WithStatus
<1>. QED  BY <1>1, <1>2, <1>4, <1>5, RunEnds

LEMMA LoadStep ==
  ASSUME MarketInv, NEW w \in Worker, LoadMarket(w)
  PROVE  MarketInv'
<1>1. PICK m \in Market :
        /\ m = run[w].market /\ run[w].pc = "load" /\ TypeOK
        /\ Holds(run[w]) /\ job[m] \in JobState
  BY RunKnows DEF LoadMarket
<1>2. CASE Deployable(m)
  <2>1. PICK r \in RunState :
          /\ r.pc = "deploy" /\ r.market = m
          /\ [run EXCEPT ![w].pc = "deploy"] = [run EXCEPT ![w] = r]
    BY <1>1, RunAt DEF InHandler
  <2>2. /\ run' = [run EXCEPT ![w] = r]
        /\ UNCHANGED <<market, deployed, rows, job, processed, call, poll>>
    BY <1>1, <1>2, <2>1 DEF LoadMarket
  <2>3. Holds(r)
    BY <1>1, <2>1 DEF Holds
  <2>. QED  BY <1>1, <2>1, <2>2, <2>3, RunMoves
<1>3. CASE ~Deployable(m)
  <2>1. /\ run' = [run EXCEPT ![w] = IdleRun]
        /\ job' = [job EXCEPT ![m] = [job[m] EXCEPT !.state = "completed"]]
        /\ UNCHANGED <<market, deployed, rows, processed, call, poll>>
    BY <1>1, <1>3 DEF LoadMarket, TypeOK
  <2>. QED  BY <1>1, <2>1, RunEnds
<1>. QED  BY <1>2, <1>3

\* A deployment, with the contract in hand or lost in a failed call.
LEMMA DeployMoves ==
  ASSUME MarketInv, NEW w \in Worker, NEW m \in Market, m = run[w].market,
         run[w].pc = "deploy", deployed' = [deployed EXCEPT ![m] = @ + 1],
         NEW r \in RunState, run' = [run EXCEPT ![w] = r], r.market = m,
         r.pc = "revert"
           \/ (r.pc = "activate" /\ r.contract = <<m, deployed[m] + 1>>),
         UNCHANGED <<market, rows, job, processed, call, poll>>
  PROVE  MarketInv'
<1>1. /\ TypeOK /\ JobBounded(m) /\ job[m] \in JobState
      /\ job[m].state = "active" /\ deployed[m] \in Nat
      /\ \A v \in Worker \ {w} : run[v].pc # "idle" => run[v].market # m
      /\ deployed[m] <= job[m].attempts + job[m].stalls
  BY RunKnows DEF Holds
<1>2. /\ deployed'[m] = deployed[m] + 1 /\ deployed' \in [Market -> Nat]
      /\ \A u \in Market \ {m} : deployed'[u] = deployed[u]
      /\ run'[w] = r /\ \A v \in Worker \ {w} : run'[v] = run[v]
      /\ UNCHANGED <<token, pairs>>
  BY <1>1 DEF TypeOK, rows
<1>3. TypeOK'
  BY <1>1, <1>2 DEF TypeOK
<1>4. JobBounded(m)'
  <2>1. /\ job[m].attempts \in Nat /\ job[m].stalls \in Nat
        /\ deployed[m] + 1 <= job[m].attempts + job[m].stalls + 1
    BY <1>1 DEF JobState
  <2>. QED  BY <1>1, <1>2, <2>1 DEF JobBounded
<1>5. Holds(run[w])'
  <2>1. r.pc = "activate" =>
          \E i \in 1..deployed'[m] : r.contract = <<m, i>>
    BY <1>1, <1>2
  <2>. QED  BY <1>1, <1>2, <2>1 DEF Holds
<1>. QED  BY <1>1, <1>2, <1>3, <1>4, <1>5, WorkerMoves

LEMMA DeployStep ==
  ASSUME MarketInv, NEW w \in Worker, DeployToken(w)
  PROVE  MarketInv'
<1>1. PICK m \in Market :
        m = run[w].market /\ run[w].pc = "deploy" /\ TypeOK
        /\ run[w] \in RunState /\ deployed[m] \in Nat
  BY RunKnows DEF DeployToken
<1>2. PICK r : r = [run[w] EXCEPT !.pc = "activate",
                                  !.contract = <<m, deployed[m] + 1>>]
  OBVIOUS
<1>3. /\ r \in RunState /\ r.pc = "activate" /\ r.market = m
      /\ r.contract = <<m, deployed[m] + 1>>
  BY <1>1, <1>2, ContractTypes DEF RunState, InHandler
<1>4. /\ run' = [run EXCEPT ![w] = r]
      /\ deployed' = [deployed EXCEPT ![m] = @ + 1]
      /\ UNCHANGED <<market, rows, job, processed, call, poll>>
  BY <1>1, <1>2 DEF DeployToken, NewContract, TypeOK
<1>. QED  BY <1>1, <1>3, <1>4, DeployMoves

LEMMA DeployFaultStep ==
  ASSUME MarketInv, NEW w \in Worker, DeployFault(w)
  PROVE  MarketInv'
<1>1. /\ run[w].pc # "idle" /\ run' = [run EXCEPT ![w].pc = "revert"]
      /\ UNCHANGED <<market, rows, job, processed, call, poll>>
  BY DEF DeployFault, InHandler
<1>2. PICK m \in Market : m = run[w].market
  BY <1>1, RunKnows
<1>3. CASE deployed' = deployed
  BY <1>1, <1>3, GivesUp
<1>4. CASE deployed' # deployed
  <2>1. run[w].pc = "deploy" /\ deployed' = [deployed EXCEPT ![m] = @ + 1]
    BY <1>2, <1>4 DEF DeployFault
  <2>2. PICK r \in RunState :
          /\ r.pc = "revert" /\ r.market = m
          /\ [run EXCEPT ![w].pc = "revert"] = [run EXCEPT ![w] = r]
    BY <1>2, RunAt
  <2>. QED  BY <1>1, <1>2, <2>1, <2>2, DeployMoves
<1>. QED  BY <1>3, <1>4

LEMMA ActivateStep ==
  ASSUME MarketInv, NEW w \in Worker, ActivateMarket(w)
  PROVE  MarketInv'
<1>1. PICK m \in Market :
        /\ m = run[w].market /\ run[w].pc = "activate" /\ TypeOK
        /\ Holds(run[w]) /\ run[w].contract \in Contract
        /\ JobBounded(m) /\ job[m].state = "active" /\ deployed[m] \in Nat
        /\ \A v \in Worker \ {w} : run[v].pc # "idle" => run[v].market # m
  BY RunKnows DEF ActivateMarket
<1>2. PICK r \in RunState :
        /\ r.pc = "findToken" /\ r.market = m
        /\ r.contract = run[w].contract
        /\ [run EXCEPT ![w].pc = "findToken"] = [run EXCEPT ![w] = r]
  BY <1>1, RunAt DEF InHandler
<1>3. /\ run' = [run EXCEPT ![w] = r]
      /\ market' = [market EXCEPT ![m].status = "active",
                                  ![m].contract = run[w].contract]
      /\ UNCHANGED <<deployed, token, pairs, job, processed, call, poll>>
  BY <1>1, <1>2 DEF ActivateMarket, rows
<1>4. /\ market' \in [Market -> MarketState]
      /\ market'[m].approved = market[m].approved
      /\ market'[m].rejected = market[m].rejected
      /\ \A u \in Market \ {m} : market'[u] = market[u]
  BY <1>1, <1>3, StatusTypes
<1>5. run'[w] = r /\ \A v \in Worker \ {w} : run'[v] = run[v]
  BY <1>1, <1>3 DEF TypeOK
<1>6. TypeOK'
  BY <1>1, <1>3, <1>4 DEF TypeOK
<1>7. Holds(run[w])' /\ JobBounded(m)'
  BY <1>1, <1>2, <1>3, <1>5 DEF Holds, JobBounded
<1>. QED
  BY <1>1, <1>2, <1>3, <1>4, <1>5, <1>6, <1>7, WorkerMoves

\* A row is made, and the run goes on to r.
LEMMA RowsMove ==
  ASSUME MarketInv, NEW w \in Worker, run[w].pc # "idle",
         NEW r \in RunState, r.market = run[w].market, Holds(r)',
         run' = [run EXCEPT ![w] = r],
         token' \in [TokenSymbol -> TokenState],
         \A s \in TokenSymbol : token[s].exists => token'[s] = token[s],
         \A s \in TokenSymbol :
           token'[s].exists => token'[s] = token[s] \/ Backed(s)',
         pairs' = pairs \/
           (/\ pairs' = pairs \cup {run[w].market}
            /\ token[Usdc].exists /\ token[Symbol[run[w].market]].exists),
         UNCHANGED <<market, deployed, job, processed, call, poll>>
  PROVE  MarketInv'
<1>1. PICK m \in Market :
        /\ m = run[w].market /\ TypeOK /\ JobBounded(m)
        /\ job[m].state = "active" /\ deployed[m] \in Nat
        /\ \A v \in Worker \ {w} : run[v].pc # "idle" => run[v].market # m
  BY RunKnows
<1>2. TypeOK' /\ run'[w] = r /\ \A v \in Worker \ {w} : run'[v] = run[v]
  BY <1>1 DEF TypeOK
<1>3. JobBounded(m)'
  BY <1>1 DEF JobBounded
<1>4. Holds(run[w])' /\ run'[w].market = m
  BY <1>1, <1>2
<1>. QED  BY <1>1, <1>2, <1>3, <1>4, WorkerMoves

\* createToken, for the token of the market or the quote token.
LEMMA CreateRow ==
  ASSUME MarketInv, NEW w \in Worker, run[w].pc # "idle",
         NEW s \in TokenSymbol, NEW a \in Contract,
         NEW next \in {"findUsdc", "findPair"}, Create(w, s, a, next),
         \/ s = Usdc /\ a = NoContract
         \/ \E n \in Market :
              Symbol[n] = s /\ \E i \in 1..deployed[n] : a = <<n, i>>,
         \/ next = "findUsdc" /\ s = Symbol[run[w].market]
         \/ /\ next = "findPair" /\ s = Usdc
            /\ token[Symbol[run[w].market]].exists
  PROVE  MarketInv'
<1>1. /\ TypeOK /\ Holds(run[w]) /\ run[w].market \in Market
      /\ Symbol[run[w].market] \in TokenSymbol /\ Usdc \in TokenSymbol
      /\ UNCHANGED <<market, deployed, pairs, job, processed, call, poll>>
  BY RunKnows DEF Create, TokenSymbol
<1>2. CASE token[s].exists
  BY <1>1, <1>2, GivesUp DEF Create, rows
<1>3. CASE ~token[s].exists
  <2>1. PICK x : x = [exists |-> TRUE, contract |-> a]
    OBVIOUS
  <2>2. x \in TokenState /\ x.exists /\ x.contract = a
    BY <2>1 DEF TokenState
  <2>3. token' = [token EXCEPT ![s] = x] /\ run' = [run EXCEPT ![w].pc = next]
    BY <1>3, <2>1 DEF Create
  <2>4. /\ token' \in [TokenSymbol -> TokenState] /\ token'[s] = x
        /\ \A u \in TokenSymbol \ {s} : token'[u] = token[u]
    BY <1>1, <2>2, <2>3 DEF TypeOK
  <2>5. \A u \in TokenSymbol : token[u].exists => token'[u] = token[u]
    BY <1>3, <2>4
  <2>6. \A u \in TokenSymbol :
          token'[u].exists => token'[u] = token[u] \/ Backed(u)'
    BY <1>1, <2>2, <2>4 DEF Backed
  <2>7. PICK r \in RunState :
          /\ r.pc = next /\ r.market = run[w].market
          /\ [run EXCEPT ![w].pc = next] = [run EXCEPT ![w] = r]
    BY RunAt DEF InHandler
  <2>8. Holds(r)'
    BY <1>1, <2>2, <2>4, <2>7 DEF Holds
  <2>. QED
    BY <1>1, <2>3, <2>4, <2>5, <2>6, <2>7, <2>8, RowsMove
<1>. QED  BY <1>2, <1>3

LEMMA CreateStep ==
  ASSUME MarketInv, NEW w \in Worker,
         CreateToken(w) \/ CreateUsdc(w) \/ CreatePair(w)
  PROVE  MarketInv'
<1>1. run[w].pc \in {"createToken", "createUsdc", "createPair"}
  BY DEF CreateToken, CreateUsdc, CreatePair
<1>2. PICK m \in Market :
        /\ m = run[w].market /\ TypeOK /\ Holds(run[w])
        /\ run[w].contract \in Contract
  BY <1>1, RunKnows
<1>3. Symbol[m] \in TokenSymbol /\ Usdc \in TokenSymbol
  BY DEF TokenSymbol
<1>4. CASE CreateToken(w)
  <2>1. \E i \in 1..deployed[m] : run[w].contract = <<m, i>>
    BY <1>2, <1>4 DEF Holds, CreateToken
  <2>. QED  BY <1>1, <1>2, <1>3, <1>4, <2>1, CreateRow DEF CreateToken
<1>5. CASE CreateUsdc(w)
  <2>1. token[Symbol[m]].exists
    BY <1>2, <1>5 DEF Holds, CreateUsdc
  <2>. QED
    BY <1>1, <1>2, <1>3, <1>5, <2>1, ContractTypes, CreateRow DEF CreateUsdc
<1>6. CASE CreatePair(w)
  <2>1. /\ token[Symbol[m]].exists /\ token[Usdc].exists
        /\ token' = token
        /\ UNCHANGED <<market, deployed, job, processed, call, poll>>
    BY <1>2, <1>6 DEF Holds, CreatePair
  <2>2. CASE \E n \in pairs : Symbol[n] = Symbol[m]
    BY <1>1, <1>2, <1>6, <2>1, <2>2, GivesUp DEF CreatePair, rows
  <2>3. CASE ~\E n \in pairs : Symbol[n] = Symbol[m]
    <3>1. /\ run' = [run EXCEPT ![w].pc = "publish"]
          /\ pairs' = pairs \cup {m}
      BY <1>2, <1>6, <2>3 DEF CreatePair
    <3>2. PICK r \in RunState :
            /\ r.pc = "publish" /\ r.market = m
            /\ [run EXCEPT ![w].pc = "publish"] = [run EXCEPT ![w] = r]
      BY <1>2, RunAt DEF InHandler
    <3>3. Holds(r)'
      BY <1>1, <1>2, <2>1, <3>2 DEF Holds
    <3>4. token' \in [TokenSymbol -> TokenState]
      BY <1>2, <2>1 DEF TypeOK
    <3>. QED
      BY <1>1, <1>2, <2>1, <3>1, <3>2, <3>3, <3>4, RowsMove
  <2>. QED  BY <2>2, <2>3
<1>. QED  BY <1>4, <1>5, <1>6

-----------------------------------------------------------------------------
(* The theorems *)

LEMMA MarketStep == MarketInv /\ [Next]_vars => MarketInv'
<1> SUFFICES ASSUME MarketInv, [Next]_vars PROVE MarketInv'
  OBVIOUS
<1>1. ASSUME NEW c \in Call,
             Receive(c) \/ Handle(c) \/ CallFault(c) \/ CallCrash(c)
      PROVE  MarketInv'
  <2>1. CASE Receive(c)
    BY <2>1, ReceiveStep
  <2>2. CASE Handle(c)
    BY <2>2, CheckStep, WriteStep, RecordStep, EnqueueStep DEF Handle
  <2>3. CASE CallFault(c) \/ CallCrash(c)
    BY <2>3, CheckStep
  <2>. QED  BY <1>1, <2>1, <2>2, <2>3
<1>2. ASSUME NEW m \in Market, NEW s \in {"paused", "archived"}, Shelve(m, s)
      PROVE  MarketInv'
  BY <1>2, ShelveStep
<1>3. CASE Poll \/ PollFault
  BY <1>3, RecordStep
<1>4. ASSUME NEW w \in Worker,
             Work(w) \/ DeployFault(w) \/ RevertFault(w) \/ Crash(w)
      PROVE  MarketInv'
  <2>1. CASE \E m \in Market : TakeJob(w, m)
    BY <2>1, TakeStep
  <2>2. CASE LoadMarket(w) \/ DeployToken(w) \/ ActivateMarket(w)
    BY <2>2, LoadStep, DeployStep, ActivateStep
  <2>3. CASE FindToken(w) \/ FindUsdc(w) \/ FindPair(w)
    BY <2>3, FindStep
  <2>4. CASE CreateToken(w) \/ CreateUsdc(w) \/ CreatePair(w)
    BY <2>4, CreateStep
  <2>5. CASE \/ PublishActivated(w) \/ Revert(w)
             \/ RevertFault(w) \/ Crash(w)
    BY <2>5, EndStep
  <2>6. CASE DeployFault(w)
    BY <2>6, DeployFaultStep
  <2>. QED  BY <1>4, <2>1, <2>2, <2>3, <2>4, <2>5, <2>6 DEF Work
<1>5. CASE UNCHANGED vars
  BY <1>5
  DEF vars, MarketInv, TypeOK, CallsSound, Knows, MarketsSound, RunsSound,
      Holds, OneRun, JobsBounded, JobBounded, TokensSound, Backed,
      PairsSound, SuccessWasDecided
<1>. QED  BY <1>1, <1>2, <1>3, <1>4, <1>5 DEF Next

-----------------------------------------------------------------------------
(* Deployments implement AtLeastOnce *)

Closed(m) == job[m].state \in {"completed", "failed"}
ClosedMarkets == {m \in Market : Closed(m)}
RecordedMarkets == {m \in Market : market[m].contract # NoContract}
KeepsContracts == \A m \in Market : market'[m].contract = market[m].contract

\* Steps that deploy nothing, write no contract and end no job.
LEMMA PromiseStutters ==
  ASSUME deployed' = deployed, KeepsContracts,
         \A m \in Market : Closed(m)' = Closed(m)
  PROVE  UNCHANGED Promise!vars
<1>1. RecordedMarkets' = RecordedMarkets /\ ClosedMarkets' = ClosedMarkets
  BY DEF RecordedMarkets, ClosedMarkets, KeepsContracts
<1>. QED  BY <1>1 DEF Promise!vars, RecordedMarkets, ClosedMarkets, Closed

\* The run of worker w ends, and the job of its market may be over with it.
LEMMA PromiseCloses ==
  ASSUME MarketInv, NEW w \in Worker, run[w].pc # "idle", NEW j,
         job' = [job EXCEPT ![run[w].market] = j],
         deployed' = deployed, KeepsContracts
  PROVE  Promise!Next
<1>1. PICK m \in Market : m = run[w].market /\ job[m].state = "active" /\ TypeOK
  BY RunKnows
<1>2. PICK items \in SUBSET Market : items = {u \in {m} : Closed(u)'}
  OBVIOUS
<1>3. (\A u \in Market \ {m} : job'[u] = job[u]) /\ ~Closed(m)
  BY <1>1 DEF TypeOK, Closed
<1>4. /\ ClosedMarkets' = ClosedMarkets \cup items
      /\ RecordedMarkets' = RecordedMarkets
  BY <1>1, <1>2, <1>3
  DEF ClosedMarkets, Closed, RecordedMarkets, KeepsContracts
<1>5. Promise!Close(items)
  BY <1>4 DEF Promise!Close, ClosedMarkets, Closed, RecordedMarkets
<1>. QED  BY <1>2, <1>5 DEF Promise!Next

\* A contract is deployed: the job of its market has a run left to pay for it.
LEMMA PromiseEffect ==
  ASSUME MarketInv, NEW w \in Worker, run[w].pc = "deploy",
         deployed' = [deployed EXCEPT ![run[w].market] = @ + 1],
         UNCHANGED <<market, job>>
  PROVE  Promise!Next
<1>1. PICK m \in Market :
        /\ m = run[w].market /\ job[m].state = "active" /\ TypeOK
        /\ job[m] \in JobState /\ deployed[m] \in Nat /\ JobBounded(m)
        /\ deployed[m] <= job[m].attempts + job[m].stalls
  BY RunKnows DEF Holds
<1>2. deployed[m] < Attempts + MaxStalls
  <2>1. job[m].attempts < Attempts /\ job[m].stalls <= MaxStalls
    BY <1>1 DEF JobBounded
  <2>2. /\ job[m].attempts \in Nat /\ job[m].stalls \in Nat
        /\ Attempts \in Nat /\ MaxStalls \in Nat
    BY <1>1, NumberAssumption DEF JobState
  <2>. QED  BY <1>1, <2>1, <2>2
<1>3. /\ ClosedMarkets' = ClosedMarkets /\ RecordedMarkets' = RecordedMarkets
      /\ m \notin ClosedMarkets
  BY <1>1 DEF ClosedMarkets, Closed, RecordedMarkets
<1>4. Promise!Effect(m)
  BY <1>1, <1>2, <1>3
  DEF Promise!Effect, ClosedMarkets, Closed, RecordedMarkets
<1>. QED  BY <1>4 DEF Promise!Next

\* The market's row gets the contract the run deployed.
LEMMA PromiseRecord ==
  ASSUME MarketInv, NEW w \in Worker, ActivateMarket(w)
  PROVE  Promise!Next
<1>1. PICK m \in Market :
        /\ m = run[w].market /\ job[m].state = "active" /\ TypeOK
        /\ Holds(run[w]) /\ run[w].pc = "activate" /\ deployed[m] \in Nat
        /\ run[w].contract \in Contract
  BY RunKnows DEF ActivateMarket
<1>2. PICK i \in 1..deployed[m] : run[w].contract = <<m, i>>
  BY <1>1 DEF Holds
<1>3. deployed[m] > 0 /\ run[w].contract # NoContract
  BY <1>1, <1>2 DEF NoContract
<1>4. /\ market'[m].contract = run[w].contract
      /\ \A u \in Market \ {m} : market'[u] = market[u]
      /\ UNCHANGED <<deployed, job>>
  <2>1. market' = [market EXCEPT ![m].status = "active",
                                 ![m].contract = run[w].contract]
        /\ UNCHANGED <<deployed, job>>
    BY <1>1 DEF ActivateMarket
  <2>. QED  BY <1>1, <2>1 DEF TypeOK, MarketState
<1>5. /\ RecordedMarkets' = RecordedMarkets \cup {m}
      /\ ClosedMarkets' = ClosedMarkets /\ m \notin ClosedMarkets
  BY <1>1, <1>3, <1>4 DEF RecordedMarkets, ClosedMarkets, Closed
<1>6. Promise!Record(m)
  BY <1>3, <1>4, <1>5 DEF Promise!Record, RecordedMarkets, ClosedMarkets, Closed
<1>. QED  BY <1>6 DEF Promise!Next

\* What requests, administrators and the poller do: they deploy nothing, and a
\* job they enqueue is not one that is over.
LEMMA PromiseRequests ==
  ASSUME MarketInv,
         \/ \E c \in Call : Receive(c) \/ Handle(c) \/ CallFault(c) \/ CallCrash(c)
         \/ \E m \in Market, s \in {"paused", "archived"} : Shelve(m, s)
         \/ Poll \/ PollFault
  PROVE  UNCHANGED Promise!vars
<1>1. market \in [Market -> MarketState] /\ job \in [Market -> JobState]
  BY DEF MarketInv, TypeOK
<1>2. deployed' = deployed
  BY DEF Receive, Handle, CallFault, CallCrash, Shelve, Poll, PollFault,
     ReceiveEvent, RegisterMarket, AdminActivation, AdminDecision,
     RequestApproval, CheckPending, NotAuthorized, WriteDecision, RecordEvent,
     CheckApproved, StartActivation, EnqueueDeployment, PollEvent, RecordPolled
<1>3. \/ market' = market
      \/ \E m \in Market, s \in Status : market' = WithStatus(m, s)
      \/ \E m \in Market : market' = WithApproval(m) \/ market' = WithRejection(m)
  <2>1. \A c \in Call : call[c].pc # "idle" => call[c].market \in Market
    BY DEF MarketInv, CallsSound, Knows
  <2>. QED
    BY <2>1 DEF Receive, Handle, CallFault, CallCrash, Shelve, Poll, PollFault,
       ReceiveEvent, RegisterMarket, AdminActivation, AdminDecision,
       RequestApproval, CheckPending, NotAuthorized, WriteDecision, RecordEvent,
       CheckApproved, StartActivation, EnqueueDeployment, PollEvent,
       RecordPolled, WithStatus, Status
<1>4. KeepsContracts
  <2>1. ASSUME NEW m \in Market, NEW u \in Market
        PROVE  /\ \A s \in Status : WithStatus(m, s)[u].contract = market[u].contract
               /\ WithApproval(m)[u].contract = market[u].contract
               /\ WithRejection(m)[u].contract = market[u].contract
    <3>1. CASE u = m
      BY <1>1, <3>1 DEF WithStatus, WithApproval, WithRejection, MarketState
    <3>2. CASE u # m
      BY <1>1, <3>2 DEF WithStatus, WithApproval, WithRejection
    <3>. QED  BY <3>1, <3>2
  <2>. QED  BY <1>3, <2>1 DEF KeepsContracts
<1>5. \A m \in Market : Closed(m)' = Closed(m)
  <2>1. job' = job \/ \E m : job' = [job EXCEPT ![m] = Add(@)]
    BY DEF Receive, Handle, CallFault, CallCrash, Shelve, Poll, PollFault,
       ReceiveEvent, RegisterMarket, AdminActivation, AdminDecision,
       RequestApproval, CheckPending, NotAuthorized, WriteDecision, RecordEvent,
       CheckApproved, StartActivation, EnqueueDeployment, PollEvent, RecordPolled
  <2>2. \A m \in Market : job[m].state # "none" => job'[m] = job[m]
    BY <1>1, <2>1 DEF Add
  <2>3. \A m \in Market : job[m].state = "none" => job'[m].state \in {"none", "waiting"}
    BY <1>1, <2>1 DEF Add, JobState
  <2>. QED  BY <2>2, <2>3 DEF Closed
<1>. QED  BY <1>2, <1>4, <1>5, PromiseStutters

\* What the worker does.
LEMMA PromiseWorks ==
  ASSUME MarketInv, NEW w \in Worker,
         Work(w) \/ DeployFault(w) \/ RevertFault(w) \/ Crash(w)
  PROVE  [Promise!Next]_Promise!vars
<1>1. ASSUME NEW m \in Market, TakeJob(w, m) PROVE UNCHANGED Promise!vars
  <2>1. /\ job[m].state = "waiting" /\ job \in [Market -> JobState]
        /\ job' = [job EXCEPT ![m].state = "active"]
        /\ UNCHANGED <<deployed, market>>
    BY <1>1 DEF MarketInv, TypeOK, TakeJob
  <2>2. \A u \in Market : Closed(u)' = Closed(u)
    BY <2>1 DEF Closed, JobState
  <2>. QED  BY <2>1, <2>2, PromiseStutters DEF KeepsContracts
<1>2. CASE UNCHANGED <<deployed, market, job>>
  BY <1>2, PromiseStutters DEF KeepsContracts, Closed
<1>3. CASE LoadMarket(w) \/ PublishActivated(w)
  <2>1. CASE job' = job
    <3>1. UNCHANGED <<deployed, market>>
      BY <1>3 DEF LoadMarket, PublishActivated
    <3>. QED  BY <1>2, <2>1, <3>1
  <2>2. CASE job' # job
    <3>1. /\ run[w].pc # "idle" /\ UNCHANGED <<deployed, market>>
          /\ job' = [job EXCEPT ![run[w].market] =
                       [job[run[w].market] EXCEPT !.state = "completed"]]
      BY <1>3, <2>2 DEF LoadMarket, PublishActivated
    <3>. QED  BY <3>1, PromiseCloses DEF KeepsContracts
  <2>. QED  BY <2>1, <2>2
<1>4. CASE Revert(w) \/ RevertFault(w) \/ Crash(w)
  <2>1. /\ run[w].pc # "idle" /\ deployed' = deployed
        /\ \E j : job' = [job EXCEPT ![run[w].market] = j]
        /\ \/ market' = market
           \/ market' = WithStatus(run[w].market, "approved")
    BY <1>4 DEF Revert, RevertFault, Crash
  <2>2. KeepsContracts
    BY <2>1 DEF KeepsContracts, WithStatus, MarketInv, TypeOK, MarketState
  <2>. QED  BY <2>1, <2>2, PromiseCloses
<1>5. CASE DeployToken(w) \/ (DeployFault(w) /\ deployed' # deployed)
  <2>1. /\ run[w].pc = "deploy" /\ UNCHANGED <<market, job>>
        /\ deployed' = [deployed EXCEPT ![run[w].market] = @ + 1]
    BY <1>5 DEF DeployToken, DeployFault
  <2>. QED  BY <2>1, PromiseEffect
<1>6. CASE ActivateMarket(w)
  BY <1>6, PromiseRecord
<1>7. CASE \/ FindToken(w) \/ CreateToken(w) \/ FindUsdc(w) \/ CreateUsdc(w)
           \/ FindPair(w) \/ CreatePair(w)
           \/ (DeployFault(w) /\ deployed' = deployed)
  BY <1>2, <1>7 DEF FindToken, CreateToken, FindUsdc, CreateUsdc, FindPair,
     CreatePair, Find, Create, DeployFault
<1>. QED  BY <1>1, <1>3, <1>4, <1>5, <1>6, <1>7 DEF Work

\* The invariant holds in every reachable state.
THEOREM MarketInvariant == Spec => []MarketInv
BY InitMarket, MarketStep, PTL DEF Spec

\* Every variable keeps its type, in every run of handlers and workers.
THEOREM TypeCorrect == Spec => []TypeOK
<1>1. MarketInv => TypeOK
  BY DEF MarketInv
<1>. QED  BY <1>1, MarketInvariant, PTL

\* However decisions, activations, pauses and retries race, what is being
\* activated, is active, or went on chain had an approval written.
THEOREM OnlyApprovedDeploys == Spec => []DeployedWasApproved
<1>1. MarketInv => DeployedWasApproved
  <2> SUFFICES ASSUME MarketInv, NEW m \in Market,
                      \/ market[m].status \in {"activating", "active"}
                      \/ deployed[m] > 0 \/ m \in pairs
               PROVE  market[m].approved
    BY DEF DeployedWasApproved
  <2>1. deployed[m] > 0 \/ m \in pairs => job[m].state # "none"
    BY DEF MarketInv, JobsBounded, JobBounded, PairsSound
  <2>. QED  BY <2>1 DEF MarketInv, MarketsSound
<1>. QED  BY <1>1, MarketInvariant, PTL

\* MarketLifecycle implements AtLeastOnce: a market's token is deployed at most
\* once per attempt or stall of its one job, its contract is recorded only after
\* a deployment, and neither happens after that job is over.
THEOREM KeepsPromise == Spec => DeploymentsKeepPromise
<1>1. Init => Promise!Init
  <2>1. Init => RecordedMarkets = {} /\ ClosedMarkets = {}
    BY DEF Init, RecordedMarkets, ClosedMarkets, Closed
  <2>. QED
    BY <2>1 DEF Init, Promise!Init, RecordedMarkets, ClosedMarkets, Closed
<1>2. MarketInv /\ [Next]_vars => [Promise!Next]_Promise!vars
  <2>1. UNCHANGED vars => UNCHANGED Promise!vars
    BY PromiseStutters DEF vars, KeepsContracts, Closed
  <2>. QED  BY <2>1, PromiseRequests, PromiseWorks DEF Next
<1>. QED
  BY <1>1, <1>2, MarketInvariant, PTL
  DEF Spec, DeploymentsKeepPromise, Promise!Spec

\* An event that only the webhook handles, and that is recorded as a success,
\* has its decision on the row of its market.
THEOREM SuccessIsDecided == Spec => []SuccessWasDecided
<1>1. MarketInv => SuccessWasDecided
  BY DEF MarketInv
<1>. QED  BY <1>1, MarketInvariant, PTL

\* A trading pair has both its tokens, and the contract of its base token was
\* deployed for a market of that symbol; only a pair of the quote token with
\* itself may have none.
THEOREM PairsKeepTokens == Spec => []PairsHaveTokens
<1>1. MarketInv => PairsHaveTokens
  <2> SUFFICES ASSUME MarketInv, NEW m \in pairs
               PROVE  /\ token[Usdc].exists /\ token[Symbol[m]].exists
                      /\ Backed(Symbol[m])
    BY DEF PairsHaveTokens, Backed
  <2>1. m \in Market /\ token[Usdc].exists /\ token[Symbol[m]].exists
    BY DEF MarketInv, TypeOK, PairsSound
  <2>2. Symbol[m] \in TokenSymbol
    BY <2>1 DEF TokenSymbol
  <2>. QED  BY <2>1, <2>2 DEF MarketInv, TokensSound
<1>. QED  BY <1>1, MarketInvariant, PTL

=============================================================================
