--------------------------- MODULE ServiceLifecycle ---------------------------
(***************************************************************************)
(* One server process: server.ts and bootstrapInfrastructure /             *)
(* shutdownInfrastructure.  The components start in one order and stop in  *)
(* another; a signal first lets the connections end.  Each signal runs the *)
(* shutdown once more, beside the one in progress.  What happens to jobs   *)
(* and requests is composed in Service.                                    *)
(***************************************************************************)
EXTENDS Naturals, Sequences, FiniteSets, Functions

CONSTANT MaxSignals  \* bound: SIGINT and SIGTERM a process gets

ASSUME SignalAssumption == MaxSignals \in Nat \ {0}

VARIABLES
  phase,    \* "down", "booting", "serving", "draining", "stopping"
  up,       \* components that are initialised
  signals,  \* signals received
  at,       \* the step each shutdown is at; 0 before it began
  busy      \* whether a job other than a transaction's is running

lifecycle == <<phase, up, signals, at, busy>>

\* The awaits of bootstrapInfrastructure.  The listener only starts a timer,
\* and the initialize...Worker calls follow each other without an await.
Boot == <<"database", "redis", "queues", "sapphire", "listener", "manager",
          "workers">>

Component == Range(Boot)

\* Mutant: the Sapphire runtime is released before the manager has stopped.
StopRuntimeFirst ==
  <<"listener", "sapphire", "manager", "queues", "redis", "database">>

\* The awaits of shutdownInfrastructure.  Stopping the listener clears the
\* interval that starts its polls; a poll that is running goes on beside the
\* shutdown, catches what it throws, and has no state here.  shutdownQueues
\* closes the queues and the workers together.
Stop == <<"listener", "manager", "sapphire", "queues", "redis", "database">>

Stopped(c) == IF c = "queues" THEN {"queues", "workers"} ELSE {c}

Shutdown == 1..MaxSignals

LifecycleInit ==
  /\ phase = "down" /\ up = {} /\ signals = 0
  /\ at = [k \in Shutdown |-> 0]
  /\ busy = FALSE

\* process.exit, or the process dies.
Down ==
  /\ phase' = "down" /\ up' = {} /\ signals' = 0
  /\ at' = [k \in Shutdown |-> 0]
  /\ busy' = FALSE

-----------------------------------------------------------------------------
(* server.ts: start *)

StartProcess ==
  /\ phase = "down"
  /\ phase' = "booting"
  /\ UNCHANGED <<up, signals, at, busy>>

\* The next of the initialisations; each adds its component.
BootStep ==
  /\ phase = "booting"
  /\ up # Component
  /\ up' = up \cup {Boot[Cardinality(up) + 1]}
  /\ UNCHANGED <<phase, signals, at, busy>>

\* scheduleReconciliation, the last await, and app.listen.  The workers have
\* been taking jobs since they were created.
Listen ==
  /\ phase = "booting"
  /\ up = Component
  /\ phase' = "serving"
  /\ UNCHANGED <<up, signals, at, busy>>

-----------------------------------------------------------------------------
(* server.ts: shutdown *)

\* SIGINT or SIGTERM.  While the server closes, the callback waits for the
\* 'close' event with those before it; on a server that is closed it is
\* called with an error.
Signal ==
  /\ phase \in {"serving", "draining", "stopping"}
  /\ signals < MaxSignals
  /\ signals' = signals + 1
  /\ IF phase = "stopping"
     THEN at' = [at EXCEPT ![signals + 1] = 1] /\ phase' = phase
     ELSE at' = at /\ phase' = "draining"
  /\ UNCHANGED <<up, busy>>

\* The 'close' event: no connection is left, and every callback is called.
CloseServer ==
  /\ phase = "draining"
  /\ phase' = "stopping"
  /\ at' = [k \in Shutdown |-> IF k <= signals THEN 1 ELSE 0]
  /\ UNCHANGED <<up, signals, busy>>

Current(k) == Stop[at[k]]
Stopping(k) == at[k] \in 1..Len(Stop)

\* Some shutdown has reached the step of c, or passed it.
Closing(c) == \E k \in Shutdown : \E i \in 1..at[k] : i <= Len(Stop) /\ Stop[i] = c

\* An awaited step of a shutdown ends; one whose component is gone already
\* returns at once.  Worker.close waits for the jobs that are running.
StopStep(k) ==
  /\ Stopping(k)
  /\ Current(k) = "queues" => ~busy
  /\ up' = up \ Stopped(Current(k))
  /\ at' = [at EXCEPT ![k] = @ + 1]
  /\ UNCHANGED <<phase, signals, busy>>

\* pool.end refuses to be called twice, and so may a quit on a connection
\* that is quitting: the shutdown that called second exits the process.
StopTwice(k) ==
  /\ Stopping(k)
  /\ Current(k) \in {"redis", "database"} \cap up
  /\ \E other \in Shutdown \ {k} : at[other] = at[k]
  /\ Down

\* The finally block of the shutdown that is through first.
Exit(k) == at[k] > Len(Stop) /\ Down

-----------------------------------------------------------------------------
(* Jobs of the other workers *)

\* Mutant: a worker that closes goes on taking jobs.
TakeWhileClosing ==
  /\ "workers" \in up
  /\ ~busy
  /\ busy' = TRUE
  /\ UNCHANGED <<phase, up, signals, at>>

TakeOtherJob ==
  /\ "workers" \in up /\ ~Closing("queues")
  /\ ~busy
  /\ busy' = TRUE
  /\ UNCHANGED <<phase, up, signals, at>>

EndOtherJob == busy /\ busy' = FALSE /\ UNCHANGED <<phase, up, signals, at>>

-----------------------------------------------------------------------------
(* Properties *)

LifecycleTypeOK ==
  /\ phase \in {"down", "booting", "serving", "draining", "stopping"}
  /\ up \subseteq Component
  /\ signals \in 0..MaxSignals
  /\ at \in [Shutdown -> 0..(Len(Stop) + 1)]
  /\ busy \in BOOLEAN

=============================================================================
