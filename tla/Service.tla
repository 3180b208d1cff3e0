------------------------------- MODULE Service -------------------------------
(***************************************************************************)
(* The transaction manager and the gate of order submissions in the server *)
(* process that starts, stops and dies under them.  PostgreSQL and Redis   *)
(* outlive the process: rows, jobs and nonce keys stay, while requests,    *)
(* running jobs and the calls of listeners are gone.                       *)
(***************************************************************************)
EXTENDS ServiceLifecycle, TransactionQueue, OrderGate

CONSTANTS
  MaxFaults,  \* bound: failed calls and crashes in a behaviour
  MaxLeft     \* bound: requests in flight whose client has disconnected

ASSUME FaultAssumption == MaxFaults \in Nat /\ MaxLeft \in Nat

VARIABLES
  left,     \* requests whose client has disconnected; their handlers run on
  faults,   \* failed calls and crashes so far
  crashes   \* history: processes that died with a transaction running

vars == <<lifecycle, transactions, gate, left, faults, crashes>>

Init ==
  /\ LifecycleInit /\ TransactionsInit /\ GateInit
  /\ left = {} /\ faults = 0 /\ crashes = 0

Fault == faults < MaxFaults /\ faults' = faults + 1

\* The process is gone, with what it kept in memory.
Gone == DropTransactions /\ DropRequests /\ left' = {}
Died ==
  /\ Down /\ Gone
  /\ crashes' = IF txRun.pc = "idle" THEN crashes ELSE crashes + 1

Lifecycle(step) ==
  step /\ UNCHANGED <<transactions, gate, left, faults, crashes>>
Transactions(step) ==
  step /\ UNCHANGED <<lifecycle, gate, left, faults, crashes>>
Gate(step) ==
  /\ step /\ left' = left \cap InFlight'
  /\ UNCHANGED <<lifecycle, transactions, faults, crashes>>

\* Requests with a connection.
Connected == InFlight \ left

-----------------------------------------------------------------------------
(* The process starts and stops *)

\* A component cannot be initialised (start catches it and exits), a shutdown
\* throws (its finally exits), or the process dies.
Crash == phase # "down" /\ Fault /\ Died

\* server.close waits for connections, not for the handlers of requests.
CloseIdleServer == Connected = {} /\ Lifecycle(CloseServer)

\* Mutant: the shutdown does not await the manager.
StopAtOnce(k) == Stopping(k) /\ Lifecycle(StopStep(k))

\* Worker.close of the manager, and of shutdownQueues, wait for the job.
StopNext(k) ==
  /\ Stopping(k)
  /\ Current(k) \in {"manager", "queues"} => txRun.pc = "idle"
  /\ Lifecycle(StopStep(k))

\* process.exit does not wait for anything.
ExitProcess(k) ==
  /\ Exit(k) \/ StopTwice(k)
  /\ Gone
  /\ UNCHANGED <<faults, crashes>>

-----------------------------------------------------------------------------
(* What runs in it *)

TakeNext(t) ==
  "manager" \in up /\ ~Closing("manager") /\ Transactions(TakeTransaction(t))

NoticeNext(c) ==
  "manager" \in up /\ ~Closing("manager") /\ Transactions(NoticeStalled(c))

ProcessNext ==
  {"database", "redis", "sapphire"} \subseteq up
  /\ Transactions(ConfirmTransaction \/ CompleteTransaction)

ProcessFault == Fault /\ TransactionFails
                /\ UNCHANGED <<lifecycle, gate, left, crashes>>

\* The manager is used by a process that serves.
EnqueueNext(t) ==
  /\ phase \in {"serving", "draining"}
  /\ Transactions(CreateTransaction(t) \/ AddTransactionJob(t)
                  \/ MarkInProgress(t))

EnqueueFault(t) ==
  /\ phase \in {"serving", "draining"}
  /\ Fault /\ EnqueueFails(t)
  /\ UNCHANGED <<lifecycle, gate, left, crashes>>

CallNeeds(c) == IF c.pc = "dead" THEN "queues" ELSE "database"

ListenerNext(c) ==
  CallNeeds(c) \in up /\ Transactions(HandleFailed(c) \/ AddDeadLetter(c))

\* Nothing catches what an async listener throws: the process dies of an
\* unhandled rejection, after a failed call or because the shutdown has taken
\* the pool or the queue away.
ListenerThrows(c) ==
  /\ c \in calls /\ c.pc # "stalled" /\ phase # "down"
  /\ IF CallNeeds(c) \in up THEN Fault ELSE faults' = faults
  /\ Died

RequestNext(r) ==
  \/ "redis" \in up /\ Gate(LookUpNonce(r) \/ MarkNonceAsUsed(r))
  \/ Gate(Submit(r))

\* A connection that is kept alive may bring requests while the server closes.
ArriveNext(r) == phase \in {"serving", "draining"} /\ Gate(Arrive(r))

\* Nothing tells the handler of a request that its client has disconnected.
Disconnect(r) ==
  /\ r \in Connected /\ Cardinality(left) < MaxLeft
  /\ left' = left \cup {r}
  /\ UNCHANGED <<lifecycle, transactions, gate, faults, crashes>>

\* A call of Redis fails, as every call does once the shutdown has ended the
\* connection.
RequestFault(r) ==
  /\ IF "redis" \in up THEN Fault ELSE faults' = faults /\ key' = key
  /\ LoseNonce(r) /\ left' = left \cap InFlight'
  /\ UNCHANGED <<lifecycle, transactions, crashes>>

-----------------------------------------------------------------------------
Next ==
  \/ Lifecycle(StartProcess \/ BootStep \/ Listen \/ Signal)
  \/ Lifecycle(TakeOtherJob \/ EndOtherJob)
  \/ CloseIdleServer \/ Crash
  \/ \E k \in Shutdown : StopNext(k) \/ ExitProcess(k)
  \/ \E t \in Tx : TakeNext(t) \/ EnqueueNext(t) \/ EnqueueFault(t)
  \/ ProcessNext \/ ProcessFault
  \/ \E c \in calls : NoticeNext(c) \/ ListenerNext(c) \/ ListenerThrows(c)
  \/ \E r \in Request :
       ArriveNext(r) \/ RequestNext(r) \/ Disconnect(r) \/ RequestFault(r)
  \/ Gate(TimePasses)

Spec == Init /\ [][Next]_vars

\* Node.js goes on with the shutdowns when what they await is over, and closes a
\* connection that has been idle for the keep-alive timeout.  Nothing is
\* assumed of jobs, which may wait for ever for a client of the pool or for
\* the chain, nor of requests.
FairSpec ==
  /\ Spec
  /\ WF_vars(CloseIdleServer)
  /\ WF_vars(\E k \in Shutdown : StopNext(k) \/ ExitProcess(k))

-----------------------------------------------------------------------------
(* Properties *)

\* Every variable keeps its type.
TypeOK ==
  /\ LifecycleTypeOK /\ TransactionsTypeOK /\ GateTypeOK
  /\ left \subseteq InFlight /\ faults \in Nat /\ crashes \in Nat

\* In whatever order the process boots and stops and however many signals it
\* gets, a request finds every component while its client waits, a transaction
\* the database, Redis and the Sapphire runtime, another job the database and
\* Redis, and a poll of the listener the database when it starts.  The handler
\* of a request whose client has left, and a poll that is running, may outlive
\* what they use: a shutdown waits for neither.
WorkHasItsComponents ==
  /\ Connected # {} => up = Component
  /\ txRun.pc # "idle" => {"database", "redis", "sapphire"} \subseteq up
  /\ busy => {"database", "redis"} \subseteq up
  /\ "listener" \in up => "database" \in up

\* A shutdown interrupts no transaction: a job stalls only in a process that
\* crashed.
ShutdownsInterruptNothing == \A t \in Tx : txJob[t].stalls <= crashes

\* A process that was told to stop ends, provided that its jobs and its
\* transactions do, and that clients stop sending requests on connections
\* they keep alive.
ShutdownEnds ==
  []<>~busy /\ []<>(txRun.pc = "idle")
    /\ <>[](phase = "draining" => Connected = {})
  => (phase = "draining" ~> phase = "down")

=============================================================================
