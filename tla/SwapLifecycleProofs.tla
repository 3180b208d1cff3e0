------------------------- MODULE SwapLifecycleProofs -------------------------
(***************************************************************************)
(* Proofs about SwapLifecycle, for any number of swaps, accounts, workers, *)
(* attempts, stalls and faults, and any amounts, quotes and decimals.      *)
(***************************************************************************)
EXTENDS SwapLifecycle, JobQueueProofs, FiniteSums, TLAPS

-----------------------------------------------------------------------------
(* The inductive invariant *)

RunType == [pc : PC, swap : Swap \cup {None}, entry : Balance]

\* What is known of swap s while a run that holds its job is at pc.  A swap
\* is made once more before its source is taken once more, and that before
\* its target is credited once more.
InRun(s, pc) ==
  /\ job[s].state = "active"
  /\ pc \in {"load", "start", "chain"} => chain[s] < Runs(job[s])
  /\ pc \in {"record", "readSource", "take"} => taken[s] < chain[s]
  /\ pc \in {"readTarget", "credit"} => credited[s] < taken[s]
  /\ pc = "complete" => credited[s] > 0

RunsSound ==
  \A w \in Worker : run[w].pc # "idle" =>
    run[w].swap \in Swap /\ InRun(run[w].swap, run[w].pc)

\* A job is run by one worker at a time.
OneRun ==
  \A v, w \in Worker :
    run[v].pc # "idle" /\ run[w].pc # "idle" /\ run[v].swap = run[w].swap
      => v = w

\* What is known of a swap at any time.
SwapSound(s) ==
  /\ JobSound(job[s])
  /\ chain[s] <= Runs(job[s])
  /\ taken[s] <= chain[s] /\ credited[s] <= taken[s]
  /\ status[s] = "COMPLETED" => credited[s] > 0
  /\ req[s] \in {"lock", "create", "enqueue"} => job[s] = NoJob
  /\ req[s] = "enqueue" \/ job[s].state # "none" => Quotable(s)

SwapsSound == \A s \in Swap : SwapSound(s)

SwapInv == TypeOK /\ SwapsSound /\ RunsSound /\ OneRun

-----------------------------------------------------------------------------
(* Powers of ten *)

\* A table h of the powers up to the n-th.
PowerTable(h, n) ==
  /\ h \in [0..n -> Nat \ {0}]
  /\ h[0] = 1
  /\ \A i \in 1..n : h[i] = 10 * h[i - 1]

\* There is one for every n: each extends to the next.
LEMMA TablesExist == \A n \in Nat : \E h : PowerTable(h, n)
<1> DEFINE T == {n \in Nat : \E h : PowerTable(h, n)}
<1>1. 0 \in T
  <2>1. PICK h : h = [i \in 0..0 |-> 1]
    OBVIOUS
  <2>2. PowerTable(h, 0)
    BY <2>1 DEF PowerTable
  <2>. QED  BY <2>2
<1>2. ASSUME NEW n \in T PROVE n + 1 \in T
  <2>1. PICK h : n \in Nat /\ PowerTable(h, n)
    OBVIOUS
  <2>2. PICK k : k = [i \in 0..(n + 1) |-> IF i <= n THEN h[i] ELSE 10 * h[n]]
    OBVIOUS
  <2>3. \A i \in 0..(n + 1) : i \in 0..n \/ i = n + 1
    BY <2>1
  <2>4. k \in [0..(n + 1) -> Nat \ {0}] /\ k[0] = 1
    <3>1. n \in 0..n /\ 0 \in 0..n /\ \A i \in 0..n : h[i] \in Nat \ {0}
      BY <2>1 DEF PowerTable
    <3>. QED  BY <2>1, <2>2, <2>3, <3>1 DEF PowerTable
  <2>5. ASSUME NEW i \in 1..(n + 1) PROVE k[i] = 10 * k[i - 1]
    <3>1. /\ i \in 0..(n + 1) /\ i - 1 \in 0..n /\ i - 1 \in 0..(n + 1)
          /\ i <= n \/ i = n + 1
      BY <2>1
    <3>2. CASE i <= n
      <4>1. i \in 1..n
        BY <3>2
      <4>. QED  BY <2>1, <2>2, <3>1, <3>2, <4>1 DEF PowerTable
    <3>3. CASE i = n + 1
      <4>1. k[i] = 10 * h[n] /\ k[i - 1] = h[n]
        BY <2>1, <2>2, <3>1, <3>3
      <4>. QED  BY <4>1
    <3>. QED  BY <3>1, <3>2, <3>3
  <2>6. PowerTable(k, n + 1)
    BY <2>4, <2>5 DEF PowerTable
  <2>. QED  BY <2>1, <2>6
<1>3. T = Nat
  <2> HIDE DEF T
  <2>1. T \in SUBSET Nat
    BY DEF T
  <2>. QED  BY <1>1, <1>2, <2>1, NaturalsBySteps
<1>. QED  BY <1>3

\* Two tables agree where both are defined.
LEMMA TablesAgree ==
  ASSUME NEW m \in Nat, NEW n \in Nat, m <= n,
         NEW h, NEW k, PowerTable(h, m), PowerTable(k, n)
  PROVE  h[m] = k[m]
<1> DEFINE T == {i \in Nat : i <= m => h[i] = k[i]}
<1>1. 0 \in T
  BY DEF PowerTable
<1>2. ASSUME NEW i \in T PROVE i + 1 \in T
  <2>1. i \in Nat
    OBVIOUS
  <2>2. SUFFICES ASSUME i + 1 <= m PROVE h[i + 1] = k[i + 1]
    BY <2>1
  <2>3. /\ i + 1 \in 1..m /\ i + 1 \in 1..n /\ (i + 1) - 1 = i
        /\ h[i] = k[i]
    BY <2>1, <2>2
  <2>. QED  BY <2>3 DEF PowerTable
<1>3. T = Nat
  <2> HIDE DEF T
  <2>1. T \in SUBSET Nat
    BY DEF T
  <2>. QED  BY <1>1, <1>2, <2>1, NaturalsBySteps
<1>. QED  BY <1>3

\* So the powers of ten are a function, and none is zero.
LEMMA PowersArePositive == \A n \in Nat : PowerOfTen[n] \in Nat \ {0}
<1> DEFINE Table(n) == CHOOSE h : PowerTable(h, n)
           Steps10(f) == f = [n \in Nat |-> IF n = 0 THEN 1 ELSE 10 * f[n - 1]]
<1>1. \A n \in Nat : PowerTable(Table(n), n)
  BY TablesExist
<1>2. PICK g : g = [n \in Nat |-> Table(n)[n]]
  OBVIOUS
<1> HIDE DEF Table
<1>3. g[0] = 1 /\ \A n \in Nat \ {0} : g[n] = 10 * g[n - 1]
  <2>1. g[0] = 1
    BY <1>1, <1>2 DEF PowerTable
  <2>2. ASSUME NEW n \in Nat \ {0} PROVE g[n] = 10 * g[n - 1]
    <3>1. n - 1 \in Nat /\ n - 1 <= n /\ n \in 1..n
      OBVIOUS
    <3>2. Table(n)[n] = 10 * Table(n)[n - 1]
      BY <1>1, <3>1 DEF PowerTable
    <3>3. Table(n - 1)[n - 1] = Table(n)[n - 1]
      BY <1>1, <3>1, TablesAgree
    <3>. QED  BY <1>2, <3>1, <3>2, <3>3
  <2>. QED  BY <2>1, <2>2
<1>4. Steps10(g)
  BY <1>2, <1>3
<1>5. Steps10(PowerOfTen)
  BY <1>4 DEF PowerOfTen
<1>6. PowerOfTen[0] = 1 /\ \A n \in Nat : PowerOfTen[n + 1] = 10 * PowerOfTen[n]
  <2>1. \A n \in Nat :
          PowerOfTen[n] = IF n = 0 THEN 1 ELSE 10 * PowerOfTen[n - 1]
    BY <1>5
  <2>2. \A n \in Nat : n + 1 \in Nat /\ n + 1 # 0 /\ (n + 1) - 1 = n
    OBVIOUS
  <2>. QED  BY <2>1, <2>2
<1> DEFINE T == {n \in Nat : PowerOfTen[n] \in Nat \ {0}}
<1>7. 0 \in T /\ \A n \in T : n + 1 \in T
  BY <1>6
<1>8. T = Nat
  <2> HIDE DEF T
  <2>1. T \in SUBSET Nat
    BY DEF T
  <2>. QED  BY <1>7, <2>1, NaturalsBySteps
<1>. QED  BY <1>8

-----------------------------------------------------------------------------
(* Quotes *)

\* The amount of a row is an integer: a client may bring any, and what cannot
\* be quoted is computed in integers too.
LEMMA ExpectedInInt ==
  ASSUME NEW s \in Swap, quote[s] \in Int \cup {None}
  PROVE  Expected(s) \in Int
<1>1. CASE quote[s] # None
  BY <1>1 DEF Expected
<1>2. CASE quote[s] = None
  <2> DEFINE x == Source[s]
             y == Target[s]
             net == Amount[s] - TotalFee(Amount[s])
  <2>1. /\ x \in Account /\ y \in Account
        /\ Decimals[x] \in Nat /\ Decimals[y] \in Nat
    BY SwapAssumption
  <2>2. Amount[s] \in Nat /\ TotalFee(Amount[s]) \in Nat
    BY SwapAssumption DEF TotalFee
  <2>3. net \in Int
    BY <2>2
  <2> HIDE DEF net, x, y
  <2>4. CASE Decimals[x] > Decimals[y]
    <3> DEFINE p == PowerOfTen[Decimals[x] - Decimals[y]]
    <3>1. p \in Nat \ {0}
      BY <2>1, <2>4, PowersArePositive
    <3> HIDE DEF p
    <3>2. net \div p \in Int
      BY <2>3, <3>1
    <3>. QED  BY <1>2, <2>4, <3>2 DEF Expected, ConvertAmount, net, p, x, y
  <2>5. CASE ~(Decimals[x] > Decimals[y])
    <3> DEFINE p == PowerOfTen[Decimals[y] - Decimals[x]]
    <3>1. p \in Nat \ {0}
      BY <2>1, <2>5, PowersArePositive
    <3> HIDE DEF p
    <3>2. net * p \in Int
      BY <2>3, <3>1
    <3>. QED  BY <1>2, <2>5, <3>2 DEF Expected, ConvertAmount, net, p, x, y
  <2>. QED  BY <2>4, <2>5
<1>. QED  BY <1>1, <1>2

-----------------------------------------------------------------------------
(* Init *)

LEMMA InitSwap == Init => SwapInv
<1> SUFFICES ASSUME Init PROVE SwapInv
  OBVIOUS
<1>1. TypeOK
  <2>1. quote \in [Swap -> Int \cup {None}]
    BY SwapAssumption DEF Init
  <2>2. bal \in [Account -> Balance]
    BY SwapAssumption DEF Init, Balance
  <2>3. job \in [Swap -> JobRecord]
    BY NewJob DEF Init, JobSound
  <2>4. run \in [Worker -> RunType]
    BY DEF Init, IdleRun, Zero, Balance, PC, RunType
  <2>. QED  BY <2>1, <2>2, <2>3, <2>4 DEF Init, TypeOK, Status, RunType
<1>2. SwapsSound
  BY NewJob DEF Init, SwapsSound, SwapSound, NoJob
<1>3. RunsSound /\ OneRun
  BY DEF Init, RunsSound, OneRun, IdleRun
<1>. QED  BY <1>1, <1>2, <1>3 DEF SwapInv

-----------------------------------------------------------------------------
(* requestSwap *)

\* A step of the request of swap s.
LEMMA RequestMoves ==
  ASSUME SwapInv, TypeOK', NEW s \in Swap,
         UNCHANGED <<given, chain, run, taken, credited>>,
         \A u \in Swap \ {s} :
           status'[u] = status[u] /\ job'[u] = job[u] /\ req'[u] = req[u],
         SwapSound(s)', job'[s] = job[s] \/ job[s].state = "none"
  PROVE  SwapInv'
<1>1. \A u \in Swap \ {s} : SwapSound(u)'
  BY DEF SwapInv, SwapsSound, SwapSound, given, Quotable
<1>2. RunsSound'
  BY DEF SwapInv, RunsSound, InRun
<1>3. OneRun'
  BY DEF SwapInv, OneRun
<1>. QED  BY <1>1, <1>2, <1>3 DEF SwapInv, SwapsSound

LEMMA RequestStep ==
  ASSUME SwapInv, NEW s \in Swap, Request(s)
  PROVE  SwapInv'
<1>1. TypeOK /\ SwapSound(s)
  BY DEF SwapInv, SwapsSound
<1>2. CASE RequestRefused(s) \/ RequestFault(s)
  <2>1. TypeOK'
    BY <1>1, <1>2 DEF TypeOK, RequestRefused, RequestFault, given, settled
  <2>2. SwapSound(s)'
    BY <1>1, <1>2
    DEF TypeOK, SwapSound, Quotable, RequestRefused, RequestFault, given, settled
  <2>. QED
    BY <1>1, <1>2, <2>1, <2>2, RequestMoves
    DEF TypeOK, RequestRefused, RequestFault, given, settled
<1>3. CASE LockSource(s)
  <2>1. /\ Source[s] \in Account /\ Amount[s] \in Nat
        /\ bal[Source[s]] \in Balance
    BY <1>1, SwapAssumption DEF TypeOK
  <2>2. bal' \in [Account -> Balance]
    BY <1>1, <1>3, <2>1 DEF TypeOK, LockSource, Balance
  <2>3. TypeOK'
    BY <1>1, <1>3, <2>2 DEF TypeOK, LockSource, given, settled
  <2>4. SwapSound(s)'
    BY <1>1, <1>3
    DEF TypeOK, SwapSound, Quotable, LockSource, given, settled
  <2>. QED
    BY <1>1, <1>3, <2>3, <2>4, RequestMoves DEF TypeOK, LockSource, given, settled
<1>4. CASE CreateSwap(s)
  <2>1. TypeOK'
    BY <1>1, <1>4 DEF TypeOK, Status, CreateSwap, given, settled
  <2>2. SwapSound(s)'
    BY <1>1, <1>4
    DEF TypeOK, SwapSound, Quotable, CreateSwap, given, settled
  <2>. QED
    BY <1>1, <1>4, <2>1, <2>2, RequestMoves DEF TypeOK, CreateSwap, given, settled
<1>5. CASE EnqueueSwap(s)
  <2>1. /\ job[s] = NoJob /\ job[s].state = "none"
        /\ JobSound(Enqueued(job[s])) /\ Runs(Enqueued(job[s])) = Runs(job[s])
        /\ Enqueued(job[s]).state = "waiting"
    BY <1>1, <1>5, EnqueuedJob DEF SwapSound, EnqueueSwap, NoJob
  <2>2. job' = [job EXCEPT ![s] = Enqueued(job[s])] /\ job'[s] = Enqueued(job[s])
    BY <1>1, <1>5 DEF TypeOK, EnqueueSwap
  <2>3. TypeOK'
    BY <1>1, <1>5, <2>1, <2>2
    DEF TypeOK, EnqueueSwap, given, settled, JobSound
  <2>4. SwapSound(s)'
    BY <1>1, <1>5, <2>1, <2>2
    DEF TypeOK, SwapSound, Quotable, EnqueueSwap, given, settled
  <2>. QED
    BY <1>1, <1>5, <2>1, <2>2, <2>3, <2>4, RequestMoves
    DEF TypeOK, EnqueueSwap, given, settled
<1>6. CASE MarkQueued(s)
  <2>1. TypeOK'
    BY <1>1, <1>6 DEF TypeOK, Status, MarkQueued, given, settled
  <2>2. SwapSound(s)'
    BY <1>1, <1>6
    DEF TypeOK, SwapSound, Quotable, MarkQueued, given, settled
  <2>. QED
    BY <1>1, <1>6, <2>1, <2>2, RequestMoves DEF TypeOK, MarkQueued, given, settled
<1>. QED  BY <1>2, <1>3, <1>4, <1>5, <1>6 DEF Request

-----------------------------------------------------------------------------
(* processSwapJob *)

\* A step of the run of worker w, which holds the job of swap s before it or
\* takes it.
LEMMA WorkerMoves ==
  ASSUME SwapInv, TypeOK', NEW w \in Worker, NEW s \in Swap,
         UNCHANGED <<given, req>>,
         \A v \in Worker \ {w} : run'[v] = run[v],
         \A u \in Swap \ {s} :
           /\ status'[u] = status[u] /\ job'[u] = job[u] /\ chain'[u] = chain[u]
           /\ taken'[u] = taken[u] /\ credited'[u] = credited[u],
         \A v \in Worker \ {w} : run[v].pc # "idle" => run[v].swap # s,
         SwapSound(s)',
         run'[w].pc = "idle" \/ (run'[w].swap = s /\ InRun(s, run[w].pc)')
  PROVE  SwapInv'
<1>1. \A u \in Swap \ {s} : SwapSound(u)'
  BY DEF SwapInv, SwapsSound, SwapSound, given, Quotable
<1>2. RunsSound'
  <2>1. ASSUME NEW v \in Worker \ {w}, run[v].pc # "idle"
        PROVE  run[v].swap \in Swap \ {s} /\ InRun(run[v].swap, run[v].pc)'
    BY <2>1 DEF SwapInv, RunsSound, InRun
  <2>. QED  BY <2>1 DEF RunsSound
<1>3. OneRun'
  BY DEF SwapInv, OneRun
<1>. QED  BY <1>1, <1>2, <1>3 DEF SwapInv, SwapsSound

\* What a run that is not idle knows of its swap.
LEMMA RunKnows ==
  ASSUME SwapInv, NEW w \in Worker, run[w].pc # "idle"
  PROVE  /\ TypeOK /\ run[w].swap \in Swap
         /\ SwapSound(run[w].swap) /\ InRun(run[w].swap, run[w].pc)
         /\ \A v \in Worker \ {w} : run[v].pc # "idle" => run[v].swap # run[w].swap
BY DEF SwapInv, SwapsSound, RunsSound, OneRun

\* A step that goes on in the run and writes at most another status.
LEMMA StatusMoves ==
  ASSUME SwapInv, TypeOK', NEW w \in Worker, run[w].pc # "idle",
         UNCHANGED <<given, req, job, chain, taken, credited>>,
         \A v \in Worker \ {w} : run'[v] = run[v],
         run'[w].swap = run[w].swap, InRun(run[w].swap, run'[w].pc),
         \A u \in Swap : u # run[w].swap => status'[u] = status[u],
         \/ status'[run[w].swap] = status[run[w].swap]
         \/ status'[run[w].swap] # "COMPLETED"
         \/ credited[run[w].swap] > 0
  PROVE  SwapInv'
<1>1. PICK s \in Swap : s = run[w].swap /\ SwapSound(s)
  BY RunKnows
<1>2. \A v \in Worker \ {w} : run[v].pc # "idle" => run[v].swap # s
  BY <1>1, RunKnows
<1>3. SwapSound(s)'
  BY <1>1 DEF SwapSound, Quotable, given
<1>4. InRun(s, run[w].pc)'
  BY <1>1 DEF InRun
<1>. QED  BY <1>1, <1>2, <1>3, <1>4, WorkerMoves

\* The run ends: its job is over, or will be run again.
LEMMA RunEnds ==
  ASSUME SwapInv, NEW w \in Worker, run[w].pc # "idle",
         \/ End(w, Completed(Mine(w))) \/ End(w, AttemptFailed(Mine(w)))
         \/ End(w, Stalled(Mine(w))),
         faults' \in Nat,
         status' = status \/ status' = [status EXCEPT ![run[w].swap] = "QUEUED"],
         UNCHANGED <<given, bal, chain, req, settled>>
  PROVE  SwapInv'
<1>1. PICK s \in Swap :
        /\ s = run[w].swap
        /\ TypeOK /\ SwapSound(s) /\ job[s].state = "active"
        /\ \A v \in Worker \ {w} : run[v].pc # "idle" => run[v].swap # s
  BY RunKnows DEF InRun
<1>2. PICK k \in {Completed(job[s]), AttemptFailed(job[s]), Stalled(job[s])} :
        job' = [job EXCEPT ![s] = k] /\ run' = [run EXCEPT ![w] = IdleRun]
  BY <1>1 DEF End, Mine
<1>3. JobSound(k) /\ Runs(k) = Runs(job[s]) /\ k.state # "none"
  BY <1>1, EndedJob DEF SwapSound
<1>4. TypeOK'
  <2>1. job' \in [Swap -> JobRecord]
    BY <1>1, <1>2, <1>3 DEF TypeOK, JobSound
  <2>2. run' \in [Worker -> RunType]
    BY <1>1, <1>2 DEF TypeOK, IdleRun, Zero, Balance, PC, RunType
  <2>3. status' \in [Swap -> Status]
    BY <1>1 DEF TypeOK, Status
  <2>. QED  BY <1>1, <2>1, <2>2, <2>3 DEF TypeOK, given, settled, RunType
<1>5. job'[s] = k /\ run'[w].pc = "idle"
  BY <1>1, <1>2 DEF TypeOK, IdleRun
<1>6. UNCHANGED <<given, quote, req, chain, taken, credited>>
  BY DEF given, settled
<1>7. SwapSound(s)'
  <2>1. job[s] # NoJob /\ job[s].state # "none"
    BY <1>1 DEF NoJob
  <2>2. status'[s] = "COMPLETED" => status[s] = "COMPLETED"
    BY <1>1 DEF TypeOK
  <2>3. JobSound(job'[s]) /\ Runs(job'[s]) = Runs(job[s])
    BY <1>3, <1>5
  <2>4. Quotable(s)'
    BY <1>1, <1>6, <2>1 DEF SwapSound, Quotable
  <2>. QED
    BY <1>1, <1>6, <2>1, <2>2, <2>3, <2>4 DEF SwapSound
<1>8. \A u \in Swap \ {s} : status'[u] = status[u] /\ job'[u] = job[u]
  BY <1>1, <1>2 DEF TypeOK
<1>9. \A v \in Worker \ {w} : run'[v] = run[v]
  BY <1>1, <1>2 DEF TypeOK
<1>. QED
  BY <1>1, <1>4, <1>5, <1>6, <1>7, <1>8, <1>9, WorkerMoves

LEMMA GotoMoves ==
  ASSUME TypeOK, NEW w \in Worker, NEW pc \in PC, Goto(w, pc)
  PROVE  /\ run' \in [Worker -> RunType]
         /\ run'[w].pc = pc /\ run'[w].swap = run[w].swap
         /\ \A v \in Worker \ {w} : run'[v] = run[v]
BY DEF TypeOK, Goto, RunType

LEMMA CaughtMoves ==
  ASSUME TypeOK, NEW w \in Worker, Caught(w)
  PROVE  /\ run' \in [Worker -> RunType]
         /\ run'[w].pc \in {"fail", "requeue"} /\ run'[w].swap = run[w].swap
         /\ \A v \in Worker \ {w} : run'[v] = run[v]
<1> DEFINE pc == IF LastAttempt(Mine(w)) THEN "fail" ELSE "requeue"
<1>1. pc \in PC /\ pc \in {"fail", "requeue"} /\ Zero \in Balance
  BY DEF PC, Zero, Balance
<1>2. run' = [run EXCEPT ![w].pc = pc, ![w].entry = Zero]
  BY DEF Caught
<1> HIDE DEF pc
<1>. QED  BY <1>1, <1>2 DEF TypeOK, RunType

\* The run reads row a and goes on at pc.
LEMMA ReadMoves ==
  ASSUME TypeOK, NEW w \in Worker, NEW a \in Account, NEW pc \in PC,
         run' = [run EXCEPT ![w].entry = bal[a], ![w].pc = pc]
  PROVE  /\ run' \in [Worker -> RunType]
         /\ run'[w].pc = pc /\ run'[w].swap = run[w].swap
         /\ \A v \in Worker \ {w} : run'[v] = run[v]
<1>1. bal[a] \in Balance
  BY DEF TypeOK
<1>. QED  BY <1>1 DEF TypeOK, RunType

LEMMA TakeStep ==
  ASSUME SwapInv, NEW w \in Worker, NEW s \in Swap, TakeJob(w, s)
  PROVE  SwapInv'
<1>1. TypeOK /\ SwapSound(s) /\ job[s].state = "waiting"
  BY DEF SwapInv, SwapsSound, TakeJob
<1>2. /\ JobSound(Taken(job[s])) /\ Runs(Taken(job[s])) = Runs(job[s]) + 1
      /\ Taken(job[s]).state = "active" /\ Runs(job[s]) \in Nat
  BY <1>1, TakenJob, RunsBounded DEF SwapSound
<1>3. /\ job' = [job EXCEPT ![s] = Taken(job[s])] /\ job'[s] = Taken(job[s])
      /\ run' = [run EXCEPT ![w] = [pc |-> "load", swap |-> s, entry |-> Zero]]
  BY <1>1 DEF TakeJob, TypeOK
<1>4. TypeOK'
  <2>1. job' \in [Swap -> JobRecord]
    BY <1>1, <1>2, <1>3 DEF TypeOK, JobSound
  <2>2. [pc |-> "load", swap |-> s, entry |-> Zero] \in RunType
    BY DEF RunType, PC, Zero, Balance
  <2>3. run' \in [Worker -> RunType]
    BY <1>1, <1>3, <2>2 DEF TypeOK, RunType
  <2>. QED  BY <1>1, <2>1, <2>3 DEF TypeOK, TakeJob, given, settled, RunType
<1>5. UNCHANGED <<given, quote, req, status, chain, taken, credited>>
  BY DEF TakeJob, given, settled
<1>6. SwapSound(s)'
  <2>1. job[s] # NoJob /\ job[s].state # "none"
    BY <1>1 DEF NoJob
  <2>2. JobSound(job'[s]) /\ chain[s] <= Runs(job'[s])
    BY <1>1, <1>2, <1>3 DEF SwapSound, TypeOK
  <2>3. Quotable(s)'
    BY <1>1, <1>5, <2>1 DEF SwapSound, Quotable
  <2>. QED
    BY <1>1, <1>5, <2>1, <2>2, <2>3 DEF SwapSound
<1>7. \A v \in Worker : run[v].pc # "idle" => run[v].swap # s
  BY <1>1 DEF SwapInv, RunsSound, InRun
<1>8. run'[w].swap = s /\ run'[w].pc = "load" /\ InRun(s, run[w].pc)'
  <2>1. run'[w].swap = s /\ run'[w].pc = "load"
    BY <1>1, <1>3 DEF TypeOK
  <2>2. chain'[s] < Runs(job'[s]) /\ job'[s].state = "active"
    BY <1>1, <1>2, <1>3, <1>5 DEF SwapSound, TypeOK
  <2>. QED  BY <2>1, <2>2 DEF InRun
<1>9. \A u \in Swap \ {s} : job'[u] = job[u]
  BY <1>1, <1>3 DEF TypeOK
<1>10. \A v \in Worker \ {w} : run'[v] = run[v]
  BY <1>1, <1>3 DEF TypeOK
<1>. QED
  BY <1>4, <1>5, <1>6, <1>7, <1>8, <1>9, <1>10, WorkerMoves

\* The steps that go on and change nothing but what the run remembers, the
\* status, or what is locked.
LEMMA LoadStep ==
  ASSUME SwapInv, NEW w \in Worker, LoadSwap(w)
  PROVE  SwapInv'
<1>1. /\ run[w].pc = "load" /\ TypeOK /\ run[w].swap \in Swap
      /\ InRun(run[w].swap, "load")
  BY RunKnows DEF LoadSwap
<1>2. CASE End(w, Completed(Mine(w)))
  BY <1>1, <1>2, RunEnds DEF LoadSwap, TypeOK
<1>3. CASE Goto(w, IF signer THEN "start" ELSE "fail") /\ job' = job
  <2>1. PICK pc \in {"start", "fail"} : Goto(w, pc)
    BY <1>3
  <2>2. pc \in PC /\ InRun(run[w].swap, pc)
    BY <1>1 DEF PC, InRun
  <2>3. /\ run' \in [Worker -> RunType]
        /\ run'[w].pc = pc /\ run'[w].swap = run[w].swap
        /\ \A v \in Worker \ {w} : run'[v] = run[v]
    BY <1>1, <2>1, <2>2, GotoMoves
  <2>4. TypeOK'
    BY <1>1, <1>3, <2>3 DEF TypeOK, LoadSwap, given, settled, RunType
  <2>. QED
    BY <1>1, <1>3, <2>2, <2>3, <2>4, StatusMoves DEF LoadSwap, settled
<1>. QED  BY <1>2, <1>3 DEF LoadSwap

LEMMA StatusStep ==
  ASSUME SwapInv, NEW w \in Worker,
         \/ StartProcessing(w) \/ RecordTransaction(w) \/ MarkCompleted(w)
         \/ MarkFailed(w) \/ UnlockFault(w)
  PROVE  SwapInv'
<1>1. PICK pc \in {"chain", "readSource", "audit", "unlock", "report"} :
        /\ Goto(w, pc) /\ run[w].pc # "idle"
        /\ pc = "chain" => run[w].pc = "start"
        /\ pc = "readSource" => run[w].pc = "record"
        /\ pc = "audit" => run[w].pc = "complete"
        /\ \/ status' = status
           \/ \E x \in Status : /\ status' = [status EXCEPT ![run[w].swap] = x]
                                /\ x = "COMPLETED" => pc = "audit"
  BY DEF StartProcessing, RecordTransaction, MarkCompleted, MarkFailed,
         UnlockFault, Status
<1>2. UNCHANGED <<given, bal, chain, job, req, settled>> /\ faults' \in Nat
  BY DEF StartProcessing, RecordTransaction, MarkCompleted, MarkFailed,
         UnlockFault, SwapInv, TypeOK
<1>3. /\ TypeOK /\ run[w].swap \in Swap
      /\ InRun(run[w].swap, run[w].pc)
  BY <1>1, RunKnows
<1>4. pc \in PC /\ InRun(run[w].swap, pc)
  BY <1>1, <1>3 DEF PC, InTry, InRun
<1>5. /\ run' \in [Worker -> RunType]
      /\ run'[w].pc = pc /\ run'[w].swap = run[w].swap
      /\ \A v \in Worker \ {w} : run'[v] = run[v]
  BY <1>1, <1>3, <1>4, GotoMoves
<1>6. /\ status' \in [Swap -> Status]
      /\ \A u \in Swap : u # run[w].swap => status'[u] = status[u]
      /\ \/ status'[run[w].swap] = status[run[w].swap]
         \/ status'[run[w].swap] # "COMPLETED"
         \/ credited[run[w].swap] > 0
  BY <1>1, <1>3 DEF TypeOK, InRun
<1>7. TypeOK'
  BY <1>2, <1>3, <1>5, <1>6 DEF TypeOK, given, settled, RunType
<1>. QED
  BY <1>1, <1>2, <1>4, <1>5, <1>6, <1>7, StatusMoves DEF settled

LEMMA ReadStep ==
  ASSUME SwapInv, NEW w \in Worker, ReadSource(w) \/ ReadTarget(w)
  PROVE  SwapInv'
<1>1. run[w].pc \in {"readSource", "readTarget"} /\ run[w].pc # "idle"
  BY DEF ReadSource, ReadTarget
<1>2. TypeOK /\ run[w].swap \in Swap /\ InRun(run[w].swap, run[w].pc)
  BY <1>1, RunKnows
<1>3. PICK a \in Account, pc \in {"take", "credit"} :
        /\ run' = [run EXCEPT ![w].entry = bal[a], ![w].pc = pc]
        /\ pc = "take" => run[w].pc = "readSource"
        /\ pc = "credit" => run[w].pc = "readTarget"
  BY <1>2, SwapAssumption DEF ReadSource, ReadTarget
<1>4. pc \in PC /\ InRun(run[w].swap, pc)
  BY <1>2, <1>3 DEF PC, InTry, InRun
<1>5. /\ run' \in [Worker -> RunType]
      /\ run'[w].pc = pc /\ run'[w].swap = run[w].swap
      /\ \A v \in Worker \ {w} : run'[v] = run[v]
  BY <1>2, <1>3, <1>4, ReadMoves
<1>6. UNCHANGED <<given, status, bal, chain, job, req, faults, settled>>
  BY DEF ReadSource, ReadTarget
<1>7. TypeOK'
  BY <1>2, <1>5, <1>6 DEF TypeOK, given, settled, RunType
<1>. QED
  BY <1>1, <1>4, <1>5, <1>6, <1>7, StatusMoves DEF settled

LEMMA UnlockStep ==
  ASSUME SwapInv, NEW w \in Worker, UnlockSource(w)
  PROVE  SwapInv'
<1>1. PICK s \in Swap : s = run[w].swap /\ run[w].pc = "unlock" /\ TypeOK
                        /\ InRun(s, "unlock")
  BY RunKnows DEF UnlockSource
<1>2. /\ Source[s] \in Account /\ Amount[s] \in Nat
      /\ bal[Source[s]] \in Balance
  BY <1>1, SwapAssumption DEF TypeOK
<1>3. bal' \in [Account -> Balance]
  BY <1>1, <1>2 DEF TypeOK, UnlockSource, Balance
<1>4. "report" \in PC /\ InRun(s, "report")
  BY <1>1 DEF PC, InRun
<1>5. /\ run' \in [Worker -> RunType]
      /\ run'[w].pc = "report" /\ run'[w].swap = run[w].swap
      /\ \A v \in Worker \ {w} : run'[v] = run[v]
  BY <1>1, <1>4, GotoMoves DEF UnlockSource
<1>6. UNCHANGED <<given, status, chain, job, req, faults, settled>>
  BY DEF UnlockSource
<1>7. TypeOK'
  BY <1>1, <1>3, <1>5, <1>6 DEF TypeOK, given, settled, RunType
<1>. QED
  BY <1>1, <1>4, <1>5, <1>6, <1>7, StatusMoves DEF settled

\* A swap made once more, within the runs that were started.
LEMMA ChainMoves ==
  ASSUME SwapInv, NEW w \in Worker, run[w].pc = "chain",
         chain' = [chain EXCEPT ![run[w].swap] = @ + 1],
         run' \in [Worker -> RunType],
         run'[w].swap = run[w].swap,
         run'[w].pc \in {"record", "fail", "requeue"},
         \A v \in Worker \ {w} : run'[v] = run[v],
         faults' \in Nat,
         UNCHANGED <<given, status, bal, job, req, settled>>
  PROVE  SwapInv'
<1>1. PICK s \in Swap :
        /\ s = run[w].swap
        /\ TypeOK /\ SwapSound(s) /\ InRun(s, "chain")
        /\ \A v \in Worker \ {w} : run[v].pc # "idle" => run[v].swap # s
  BY RunKnows
<1>2. UNCHANGED <<quote, job, taken, credited>>
  BY DEF given, settled
<1>3. /\ chain' = [chain EXCEPT ![s] = chain[s] + 1] /\ chain[s] \in Nat
      /\ chain'[s] = chain[s] + 1 /\ taken[s] \in Nat
      /\ \A u \in Swap \ {s} : chain'[u] = chain[u]
  BY <1>1 DEF TypeOK
<1>4. TypeOK'
  BY <1>1, <1>3 DEF TypeOK, given, settled, RunType
<1>5. Runs(job[s]) \in Nat
  BY <1>1, RunsBounded DEF SwapSound
<1>6. SwapSound(s)'
  <2>1. Quotable(s)' = Quotable(s)
    BY <1>2 DEF Quotable
  <2>2. chain'[s] <= Runs(job[s]) /\ taken[s] <= chain'[s]
    BY <1>1, <1>3, <1>5 DEF SwapSound, InRun
  <2>. QED  BY <1>1, <1>2, <2>1, <2>2 DEF SwapSound
<1>7. InRun(s, run[w].pc)'
  <2>1. taken[s] < chain'[s]
    BY <1>1, <1>3 DEF SwapSound
  <2>. QED  BY <1>1, <1>2, <2>1 DEF InRun
<1>. QED
  BY <1>1, <1>2, <1>3, <1>4, <1>6, <1>7, WorkerMoves

LEMMA ChainStep ==
  ASSUME SwapInv, NEW w \in Worker, SwapOnChain(w)
  PROVE  SwapInv'
<1>1. TypeOK /\ "record" \in PC
  BY DEF SwapInv, PC, InTry
<1>2. /\ run' \in [Worker -> RunType]
      /\ run'[w].pc = "record" /\ run'[w].swap = run[w].swap
      /\ \A v \in Worker \ {w} : run'[v] = run[v]
  BY <1>1, GotoMoves DEF SwapOnChain
<1>. QED  BY <1>1, <1>2, ChainMoves DEF SwapOnChain, TypeOK

\* updateBalance of a row, to natural numbers.
LEMMA WriteMoves ==
  ASSUME TypeOK, NEW w \in Worker, NEW a \in Account, NEW b \in Balance,
         Write(w, a, b)
  PROVE  bal' \in [Account -> Balance] /\ overlapped' \in SUBSET Account
BY DEF TypeOK, Write

LEMMA TakeSourceStep ==
  ASSUME SwapInv, NEW w \in Worker, TakeSource(w)
  PROVE  SwapInv'
<1>1. PICK s \in Swap :
        /\ s = run[w].swap /\ run[w].pc = "take"
        /\ TypeOK /\ SwapSound(s) /\ InRun(s, "take")
        /\ \A v \in Worker \ {w} : run[v].pc # "idle" => run[v].swap # s
  BY RunKnows DEF TakeSource
<1> DEFINE b == [run[w].entry EXCEPT !.locked = @ - Amount[s]]
<1>2. /\ Source[s] \in Account /\ Amount[s] \in Nat
      /\ run[w].entry \in Balance
  BY <1>1, SwapAssumption DEF TypeOK
<1>3. CASE b.locked >= 0
  <2>1. /\ Write(w, Source[s], b) /\ Goto(w, "readTarget")
        /\ taken' = [taken EXCEPT ![s] = @ + 1]
        /\ UNCHANGED <<given, quote, status, chain, job, req, faults, credited>>
    BY <1>1, <1>3 DEF TakeSource, given
  <2>2. b \in Balance
    BY <1>2, <1>3 DEF Balance
  <2>3. bal' \in [Account -> Balance] /\ overlapped' \in SUBSET Account
    BY <1>1, <1>2, <2>1, <2>2, WriteMoves
  <2>4. /\ "readTarget" \in PC
        /\ run' \in [Worker -> RunType]
        /\ run'[w].pc = "readTarget" /\ run'[w].swap = s
        /\ \A v \in Worker \ {w} : run'[v] = run[v]
    BY <1>1, <2>1, GotoMoves DEF PC, InTry
  <2>5. /\ taken'[s] = taken[s] + 1 /\ taken[s] \in Nat /\ chain[s] \in Nat
        /\ credited[s] \in Nat
        /\ \A u \in Swap \ {s} : taken'[u] = taken[u]
    BY <1>1, <2>1 DEF TypeOK
  <2>6. TypeOK'
    BY <1>1, <2>1, <2>3, <2>4 DEF TypeOK, given, RunType
  <2>7. SwapSound(s)'
    <3>1. Quotable(s)' = Quotable(s)
      BY <2>1 DEF Quotable
    <3>2. taken'[s] <= chain[s] /\ credited[s] <= taken'[s]
      BY <1>1, <2>5 DEF SwapSound, InRun
    <3>. QED  BY <1>1, <2>1, <3>1, <3>2 DEF SwapSound
  <2>8. InRun(s, run[w].pc)'
    <3>1. credited[s] < taken'[s]
      BY <1>1, <2>5 DEF SwapSound
    <3>. QED  BY <1>1, <2>1, <2>4, <3>1 DEF InRun
  <2>. QED
    BY <1>1, <2>1, <2>4, <2>5, <2>6, <2>7, <2>8, WorkerMoves
<1>4. CASE ~(b.locked >= 0)
  <2>1. /\ Caught(w)
        /\ UNCHANGED <<given, status, bal, chain, job, req, faults, settled>>
    BY <1>1, <1>4 DEF TakeSource, settled
  <2>2. /\ run' \in [Worker -> RunType]
        /\ run'[w].pc \in {"fail", "requeue"} /\ run'[w].swap = run[w].swap
        /\ \A v \in Worker \ {w} : run'[v] = run[v]
    BY <1>1, <2>1, CaughtMoves
  <2>3. InRun(s, run'[w].pc)
    BY <1>1, <2>2 DEF InRun
  <2>4. TypeOK'
    BY <1>1, <2>1, <2>2 DEF TypeOK, given, settled, RunType
  <2>. QED
    BY <1>1, <2>1, <2>2, <2>3, <2>4, StatusMoves DEF settled
<1>. QED  BY <1>3, <1>4

LEMMA CreditStep ==
  ASSUME SwapInv, NEW w \in Worker, CreditTarget(w)
  PROVE  SwapInv'
<1>1. PICK s \in Swap :
        /\ s = run[w].swap /\ run[w].pc = "credit"
        /\ TypeOK /\ SwapSound(s) /\ InRun(s, "credit")
        /\ \A v \in Worker \ {w} : run[v].pc # "idle" => run[v].swap # s
  BY RunKnows DEF CreditTarget
<1>2. /\ Target[s] \in Account /\ run[w].entry \in Balance
      /\ Expected(s) \in Int
  <2>1. quote[s] \in Int \cup {None}
    BY <1>1 DEF TypeOK
  <2>2. Expected(s) \in Int
    BY <2>1, ExpectedInInt
  <2>. QED  BY <1>1, <2>2, SwapAssumption DEF TypeOK
<1>3. PICK b : b = [run[w].entry EXCEPT !.available = @ + Expected(s)]
  OBVIOUS
<1>4. CASE b.available >= 0
  <2>1. b \in Balance
    BY <1>2, <1>3, <1>4 DEF Balance
  <2>2. /\ Write(w, Target[s], b)
        /\ credited' = [credited EXCEPT ![s] = @ + 1]
        /\ run' = [run EXCEPT ![w].pc = "complete", ![w].entry = Zero]
        /\ UNCHANGED <<given, quote, status, chain, job, req, faults, taken>>
    BY <1>1, <1>3, <1>4 DEF CreditTarget, given
  <2>3. bal' \in [Account -> Balance] /\ overlapped' \in SUBSET Account
    BY <1>1, <1>2, <2>1, <2>2, WriteMoves
  <2>4. /\ run' \in [Worker -> RunType]
        /\ run'[w].pc = "complete" /\ run'[w].swap = s
        /\ \A v \in Worker \ {w} : run'[v] = run[v]
    <3>1. "complete" \in PC /\ Zero \in Balance
      BY DEF PC, InTry, Zero, Balance
    <3>. QED  BY <1>1, <2>2, <3>1 DEF TypeOK, RunType
  <2>5. /\ credited'[s] = credited[s] + 1 /\ credited[s] \in Nat
        /\ taken[s] \in Nat
        /\ \A u \in Swap \ {s} : credited'[u] = credited[u]
    BY <1>1, <2>2 DEF TypeOK
  <2>6. TypeOK'
    BY <1>1, <2>2, <2>3, <2>4 DEF TypeOK, given, RunType
  <2>7. SwapSound(s)'
    <3>1. Quotable(s)' = Quotable(s)
      BY <2>2 DEF Quotable
    <3>2. credited'[s] <= taken[s] /\ credited'[s] > 0
      BY <1>1, <2>5 DEF SwapSound, InRun
    <3>. QED  BY <1>1, <2>2, <3>1, <3>2 DEF SwapSound
  <2>8. InRun(s, run[w].pc)'
    BY <1>1, <2>2, <2>4, <2>5 DEF InRun
  <2>. QED
    BY <1>1, <2>2, <2>4, <2>5, <2>6, <2>7, <2>8, WorkerMoves
<1>5. CASE ~(b.available >= 0)
  <2>1. /\ Caught(w)
        /\ UNCHANGED <<given, status, bal, chain, job, req, faults, settled>>
    BY <1>1, <1>3, <1>5 DEF CreditTarget, settled
  <2>2. /\ run' \in [Worker -> RunType]
        /\ run'[w].pc \in {"fail", "requeue"} /\ run'[w].swap = run[w].swap
        /\ \A v \in Worker \ {w} : run'[v] = run[v]
    BY <1>1, <2>1, CaughtMoves
  <2>3. InRun(s, run'[w].pc)
    BY <1>1, <2>2 DEF InRun
  <2>4. TypeOK'
    BY <1>1, <2>1, <2>2 DEF TypeOK, given, settled, RunType
  <2>. QED
    BY <1>1, <2>1, <2>2, <2>3, <2>4, StatusMoves DEF settled
<1>. QED  BY <1>4, <1>5

LEMMA TryFaultStep ==
  ASSUME SwapInv, NEW w \in Worker, TryFault(w)
  PROVE  SwapInv'
<1>1. /\ run[w].pc \in InTry /\ run[w].pc # "idle" /\ Caught(w)
      /\ UNCHANGED <<given, status, bal, job, req, settled>>
  BY DEF TryFault, InTry
<1>2. TypeOK /\ InRun(run[w].swap, run[w].pc) /\ run[w].swap \in Swap
  BY <1>1, RunKnows
<1>3. faults' \in Nat
  BY <1>2 DEF TypeOK, TryFault
<1>4. /\ run' \in [Worker -> RunType]
      /\ run'[w].pc \in {"fail", "requeue"} /\ run'[w].swap = run[w].swap
      /\ \A v \in Worker \ {w} : run'[v] = run[v]
  BY <1>1, <1>2, CaughtMoves
<1>5. CASE chain' = chain
  <2>1. InRun(run[w].swap, run'[w].pc)
    BY <1>2, <1>4 DEF InRun
  <2>2. TypeOK'
    BY <1>1, <1>2, <1>3, <1>4, <1>5 DEF TypeOK, given, settled, RunType
  <2>. QED
    BY <1>1, <1>4, <1>5, <2>1, <2>2, StatusMoves DEF settled
<1>6. CASE chain' = [chain EXCEPT ![run[w].swap] = @ + 1] /\ run[w].pc = "chain"
  BY <1>1, <1>3, <1>4, <1>6, ChainMoves
<1>. QED  BY <1>5, <1>6 DEF TryFault

LEMMA EndStep ==
  ASSUME SwapInv, NEW w \in Worker,
         \/ AuditCompleted(w) \/ Requeue(w) \/ ReportFailure(w)
         \/ HandlerFault(w) \/ Crash(w)
  PROVE  SwapInv'
<1>1. run[w].pc # "idle" /\ faults \in Nat
  BY DEF AuditCompleted, Requeue, ReportFailure, HandlerFault, Crash,
         SwapInv, TypeOK
<1>2. \/ End(w, Completed(Mine(w))) \/ End(w, AttemptFailed(Mine(w)))
      \/ End(w, Stalled(Mine(w)))
  BY DEF AuditCompleted, Requeue, ReportFailure, HandlerFault, Crash
<1>3. /\ faults' \in Nat
      /\ status' = status \/ status' = [status EXCEPT ![run[w].swap] = "QUEUED"]
      /\ UNCHANGED <<given, bal, chain, req, settled>>
  BY <1>1 DEF AuditCompleted, Requeue, ReportFailure, HandlerFault, Crash
<1>. QED  BY <1>1, <1>2, <1>3, RunEnds

-----------------------------------------------------------------------------
LEMMA SwapStep == SwapInv /\ [Next]_vars => SwapInv'
<1> SUFFICES ASSUME SwapInv, [Next]_vars PROVE SwapInv'
  OBVIOUS
<1>1. CASE UNCHANGED vars
  <2>1. TypeOK' /\ UNCHANGED <<given, job, req, run, status, chain, taken, credited, quote>>
    BY <1>1 DEF SwapInv, TypeOK, vars, given
  <2>. QED
    BY <2>1 DEF SwapInv, SwapsSound, SwapSound, Quotable, RunsSound, InRun, OneRun
<1>2. ASSUME NEW w \in Worker, Work(w) PROVE SwapInv'
  BY <1>2, TakeStep, LoadStep, StatusStep, ReadStep, UnlockStep, ChainStep,
     TakeSourceStep, CreditStep, EndStep DEF Work
<1>3. ASSUME NEW w \in Worker,
             TryFault(w) \/ HandlerFault(w) \/ UnlockFault(w) \/ Crash(w)
      PROVE  SwapInv'
  BY <1>3, TryFaultStep, EndStep, StatusStep
<1>. QED  BY <1>1, <1>2, <1>3, RequestStep DEF Next

-----------------------------------------------------------------------------
(* The ledger *)

\* Once more of an amount is that amount more.
LEMMA OnceMore ==
  ASSUME NEW n \in Int, NEW x \in Int
  PROVE  n * x \in Int /\ (n + 1) * x = n * x + x
OBVIOUS

From(a) == {s \in Swap : Source[s] = a}
Into(a) == {s \in Swap : Target[s] = a}
Takings == [s \in Swap |-> taken[s] * Amount[s]]
Credits == [s \in Swap |-> credited[s] * Expected(s)]

LEMMA FlowTypes ==
  ASSUME TypeOK
  PROVE  /\ \A s \in Swap : Takings[s] \in Int /\ Credits[s] \in Int
         /\ \A a \in Account : IsFiniteSet(From(a)) /\ IsFiniteSet(Into(a))
         /\ \A a \in Account : Outflow(a) \in Int /\ Inflow(a) \in Int
<1>1. ASSUME NEW s \in Swap PROVE Takings[s] \in Int /\ Credits[s] \in Int
  <2>1. taken[s] \in Int /\ credited[s] \in Int /\ Amount[s] \in Int
    BY SwapAssumption DEF TypeOK
  <2>2. Expected(s) \in Int
    BY ExpectedInInt DEF TypeOK
  <2>3. taken[s] * Amount[s] \in Int /\ credited[s] * Expected(s) \in Int
    BY <2>1, <2>2, OnceMore
  <2>. QED  BY <2>3 DEF Takings, Credits
<1>2. ASSUME NEW a \in Account
      PROVE  /\ IsFiniteSet(From(a)) /\ From(a) \subseteq Swap
             /\ IsFiniteSet(Into(a)) /\ Into(a) \subseteq Swap
  <2>1. From(a) \subseteq Swap /\ Into(a) \subseteq Swap
    BY DEF From, Into
  <2>. QED  BY <2>1, SwapAssumption, FS_Subset
<1>3. ASSUME NEW a \in Account PROVE Outflow(a) \in Int /\ Inflow(a) \in Int
  <2>1. SumFunctionOnSet(Takings, From(a)) \in Int
    BY <1>1, <1>2, SumType
  <2>2. SumFunctionOnSet(Credits, Into(a)) \in Int
    BY <1>1, <1>2, SumType
  <2>. QED  BY <2>1, <2>2 DEF Outflow, Inflow, Takings, Credits, From, Into
<1>. QED  BY <1>1, <1>2, <1>3

\* Nothing is taken or credited but by a settlement.
LEMMA FlowsStay ==
  ASSUME NEW a \in Account
  PROVE  /\ UNCHANGED taken => Outflow(a)' = Outflow(a)
         /\ UNCHANGED <<credited, quote>> => Inflow(a)' = Inflow(a)
BY DEF Outflow, Inflow, Expected

\* One more taking flows out of the source, and out of no other account.
LEMMA TakingFlows ==
  ASSUME TypeOK, TypeOK', NEW s \in Swap,
         taken' = [taken EXCEPT ![s] = @ + 1], NEW a \in Account
  PROVE  Outflow(a)' = Outflow(a) + (IF a = Source[s] THEN Amount[s] ELSE 0)
<1>1. PICK f, g : f = Takings /\ g = Takings'
  OBVIOUS
<1>2. /\ Outflow(a) = SumFunctionOnSet(f, From(a))
      /\ Outflow(a)' = SumFunctionOnSet(g, From(a))
  BY <1>1 DEF Outflow, From, Takings
<1>3. IsFiniteSet(From(a)) /\ From(a) \subseteq Swap
  BY FlowTypes DEF From
<1>4. \A u \in Swap : f[u] \in Int /\ g[u] \in Int
  <2>1. \A u \in Swap : g[u] \in Int
    <3>1. ASSUME NEW u \in Swap PROVE taken'[u] * Amount[u] \in Int
      <4>1. taken' \in [Swap -> Nat] /\ Amount \in [Swap -> Nat \ {0}]
        BY SwapAssumption DEF TypeOK
      <4>2. taken'[u] \in Int /\ Amount[u] \in Int
        BY <4>1
      <4>. QED  BY <4>2, OnceMore
    <3>. QED  BY <1>1, <3>1 DEF Takings
  <2>. QED  BY <1>1, <2>1, FlowTypes
<1>5. \A u \in Swap \ {s} : g[u] = f[u]
  BY <1>1 DEF TypeOK, Takings
<1>6. CASE s \in From(a)
  <2>1. SumFunctionOnSet(g, From(a))
          = SumFunctionOnSet(f, From(a)) + g[s] - f[s]
    BY <1>3, <1>4, <1>5, <1>6, SumOfChanged
  <2>2. g[s] = f[s] + Amount[s]
    <3>1. taken[s] \in Int /\ Amount[s] \in Int /\ taken'[s] = taken[s] + 1
      <4>1. taken \in [Swap -> Nat] /\ Amount \in [Swap -> Nat \ {0}]
        BY SwapAssumption DEF TypeOK
      <4>. QED  BY <4>1
    <3>2. f[s] = taken[s] * Amount[s] /\ g[s] = (taken[s] + 1) * Amount[s]
      BY <1>1, <3>1 DEF Takings
    <3>. QED  BY <3>1, <3>2, OnceMore
  <2>3. a = Source[s] /\ Amount[s] \in Int
    BY <1>6, SwapAssumption DEF From
  <2>4. SumFunctionOnSet(f, From(a)) \in Int
    BY <1>2, FlowTypes
  <2>. QED  BY <1>2, <1>4, <2>1, <2>2, <2>3, <2>4
<1>7. CASE s \notin From(a)
  <2>1. SumFunctionOnSet(g, From(a)) = SumFunctionOnSet(f, From(a))
    BY <1>3, <1>4, <1>5, <1>7, SumOfSame
  <2>2. a # Source[s] /\ Outflow(a) \in Int
    BY <1>7, FlowTypes DEF From
  <2>. QED  BY <1>2, <2>1, <2>2
<1>. QED  BY <1>6, <1>7

\* One more credit flows into the target, and into no other account.
LEMMA CreditFlows ==
  ASSUME TypeOK, TypeOK', NEW s \in Swap, UNCHANGED quote,
         credited' = [credited EXCEPT ![s] = @ + 1], NEW a \in Account
  PROVE  Inflow(a)' = Inflow(a) + (IF a = Target[s] THEN Expected(s) ELSE 0)
<1>1. PICK f, g : f = Credits /\ g = Credits'
  OBVIOUS
<1>2. /\ Inflow(a) = SumFunctionOnSet(f, Into(a))
      /\ Inflow(a)' = SumFunctionOnSet(g, Into(a))
  BY <1>1 DEF Inflow, Into, Credits
<1>3. IsFiniteSet(Into(a)) /\ Into(a) \subseteq Swap
  BY FlowTypes DEF Into
<1>4. \A u \in Swap : Expected(u)' = Expected(u) /\ Expected(u) \in Int
  <2>1. \A u \in Swap : Expected(u) \in Int
    BY ExpectedInInt DEF TypeOK
  <2>. QED  BY <2>1 DEF Expected
<1>5. \A u \in Swap : f[u] \in Int /\ g[u] \in Int
  <2>1. \A u \in Swap : g[u] = credited'[u] * Expected(u)
    BY <1>1, <1>4 DEF Credits
  <2>2. \A u \in Swap : credited'[u] \in Int
    BY DEF TypeOK
  <2>3. \A u \in Swap : g[u] \in Int
    BY <1>4, <2>1, <2>2, OnceMore
  <2>. QED  BY <1>1, <2>3, FlowTypes
<1>6. \A u \in Swap \ {s} : g[u] = f[u]
  BY <1>1, <1>4 DEF TypeOK, Credits
<1>7. CASE s \in Into(a)
  <2>1. SumFunctionOnSet(g, Into(a))
          = SumFunctionOnSet(f, Into(a)) + g[s] - f[s]
    BY <1>3, <1>5, <1>6, <1>7, SumOfChanged
  <2>2. g[s] = f[s] + Expected(s)
    <3>1. credited[s] \in Int /\ credited'[s] = credited[s] + 1
      BY DEF TypeOK
    <3>2. f[s] = credited[s] * Expected(s)
          /\ g[s] = (credited[s] + 1) * Expected(s)
      BY <1>1, <1>4, <3>1 DEF Credits
    <3>. QED  BY <1>4, <3>1, <3>2, OnceMore
  <2>3. a = Target[s]
    BY <1>7 DEF Into
  <2>4. SumFunctionOnSet(f, Into(a)) \in Int
    BY <1>2, FlowTypes
  <2>. QED  BY <1>2, <1>4, <1>5, <2>1, <2>2, <2>3, <2>4
<1>8. CASE s \notin Into(a)
  <2>1. SumFunctionOnSet(g, Into(a)) = SumFunctionOnSet(f, Into(a))
    BY <1>3, <1>5, <1>6, <1>8, SumOfSame
  <2>2. a # Target[s] /\ Inflow(a) \in Int
    BY <1>8, FlowTypes DEF Into
  <2>. QED  BY <1>2, <2>1, <2>2
<1>. QED  BY <1>7, <1>8

\* A step that leaves what an account holds in all, and settles nothing.
LEMMA LedgerStays ==
  ASSUME LedgerMatchesSettlements, UNCHANGED <<settled, quote>>,
         \A a \in Account : Sum(bal[a])' = Sum(bal[a])
  PROVE  LedgerMatchesSettlements'
<1>1. \A a \in Account : Outflow(a)' = Outflow(a) /\ Inflow(a)' = Inflow(a)
  BY FlowsStay DEF settled
<1>. QED  BY <1>1 DEF LedgerMatchesSettlements, settled

\* A settlement that changes account a by d, computed from the row it read:
\* if the row held another sum by then, a is one that was overwritten.
LEMMA LedgerWritten ==
  ASSUME TypeOK, LedgerMatchesSettlements, NEW w \in Worker,
         NEW a \in Account, NEW b \in Balance, Write(w, a, b),
         NEW d \in Int, Sum(b) = Sum(run[w].entry) + d,
         \A c \in Account :
           Inflow(c)' - Outflow(c)'
             = Inflow(c) - Outflow(c) + (IF c = a THEN d ELSE 0),
         \A c \in Account : Inflow(c)' \in Int /\ Outflow(c)' \in Int
  PROVE  LedgerMatchesSettlements'
<1> SUFFICES ASSUME NEW c \in Account, c \notin overlapped'
             PROVE  Sum(bal[c])' = Deposit[c] - Outflow(c)' + Inflow(c)'
  BY DEF LedgerMatchesSettlements
<1>1. /\ c \notin overlapped
      /\ c = a => Sum(bal[a]) = Sum(run[w].entry)
  BY DEF Write
<1>2. Sum(bal[c]) = Deposit[c] - Outflow(c) + Inflow(c)
  BY <1>1 DEF LedgerMatchesSettlements
<1>3. /\ Deposit[c] \in Int /\ Outflow(c) \in Int /\ Inflow(c) \in Int
      /\ Outflow(c)' \in Int /\ Inflow(c)' \in Int
  BY FlowTypes, SwapAssumption
<1>4. Sum(bal[c])' = IF c = a THEN Sum(b) ELSE Sum(bal[c])
  BY DEF Write, TypeOK, Sum
<1>5. PICK i, j, o, p : /\ i = Inflow(c) /\ j = Inflow(c)'
                        /\ o = Outflow(c) /\ p = Outflow(c)'
  OBVIOUS
<1>6. j - p = i - o + (IF c = a THEN d ELSE 0)
  BY <1>5
<1>. QED  BY <1>1, <1>2, <1>3, <1>4, <1>5, <1>6

LEMMA LedgerLocks ==
  ASSUME SwapInv, LedgerMatchesSettlements, NEW s \in Swap, LockSource(s)
  PROVE  LedgerMatchesSettlements'
<1>1. /\ bal \in [Account -> Balance] /\ Source[s] \in Account
      /\ Amount[s] \in Nat
  BY SwapAssumption DEF SwapInv, TypeOK
<1>2. \A a \in Account : Sum(bal[a])' = Sum(bal[a])
  <2>1. ASSUME NEW a \in Account, a # Source[s] PROVE bal'[a] = bal[a]
    BY <1>1, <2>1 DEF LockSource
  <2>2. /\ bal'[Source[s]].available = bal[Source[s]].available - Amount[s]
        /\ bal'[Source[s]].locked = bal[Source[s]].locked + Amount[s]
    BY <1>1 DEF LockSource, Balance
  <2>3. Sum(bal[Source[s]])' = Sum(bal[Source[s]])
    BY <1>1, <2>2 DEF Sum, Balance
  <2>. QED  BY <2>1, <2>3 DEF Sum
<1>3. UNCHANGED <<settled, quote>>
  BY DEF LockSource, given
<1>. QED  BY <1>2, <1>3, LedgerStays

LEMMA LedgerUnlocks ==
  ASSUME SwapInv, LedgerMatchesSettlements, NEW w \in Worker, UnlockSource(w)
  PROVE  LedgerMatchesSettlements'
<1>1. PICK s \in Swap : s = run[w].swap
  BY RunKnows DEF UnlockSource
<1>2. /\ bal \in [Account -> Balance] /\ Source[s] \in Account
      /\ Amount[s] \in Nat
  BY SwapAssumption DEF SwapInv, TypeOK
<1>3. \A a \in Account : Sum(bal[a])' = Sum(bal[a])
  <2>1. CASE bal[Source[s]].locked >= Amount[s]
    <3>1. bal' = [bal EXCEPT ![Source[s]].available = @ + Amount[s],
                             ![Source[s]].locked = @ - Amount[s]]
      BY <1>1, <2>1 DEF UnlockSource
    <3>2. ASSUME NEW a \in Account, a # Source[s] PROVE bal'[a] = bal[a]
      BY <1>2, <3>1, <3>2
    <3>3. /\ bal'[Source[s]].available = bal[Source[s]].available + Amount[s]
          /\ bal'[Source[s]].locked = bal[Source[s]].locked - Amount[s]
      BY <1>2, <3>1 DEF Balance
    <3>4. Sum(bal[Source[s]])' = Sum(bal[Source[s]])
      BY <1>2, <3>3 DEF Sum, Balance
    <3>. QED  BY <3>2, <3>4 DEF Sum
  <2>2. CASE ~(bal[Source[s]].locked >= Amount[s])
    BY <1>1, <2>2 DEF UnlockSource, Sum
  <2>. QED  BY <2>1, <2>2
<1>4. UNCHANGED <<settled, quote>>
  BY DEF UnlockSource, given
<1>. QED  BY <1>3, <1>4, LedgerStays

LEMMA LedgerTakes ==
  ASSUME SwapInv, LedgerMatchesSettlements, NEW w \in Worker, TakeSource(w)
  PROVE  LedgerMatchesSettlements'
<1>1. TypeOK /\ TypeOK'
  BY TakeSourceStep DEF SwapInv
<1>2. PICK s \in Swap : s = run[w].swap
  BY RunKnows DEF TakeSource
<1>3. /\ Source[s] \in Account /\ Amount[s] \in Nat
      /\ run[w].entry \in Balance
  BY <1>1, SwapAssumption DEF TypeOK
<1>4. PICK b : b = [run[w].entry EXCEPT !.locked = @ - Amount[s]]
  OBVIOUS
<1>5. CASE b.locked >= 0
  <2>1. /\ Write(w, Source[s], b)
        /\ taken' = [taken EXCEPT ![s] = @ + 1]
        /\ UNCHANGED <<credited, quote>>
    BY <1>2, <1>4, <1>5 DEF TakeSource, given
  <2>2. b \in Balance /\ Sum(b) = Sum(run[w].entry) + (0 - Amount[s])
    BY <1>3, <1>4, <1>5 DEF Balance, Sum
  <2>3. ASSUME NEW c \in Account
        PROVE  /\ Inflow(c)' \in Int /\ Outflow(c)' \in Int
               /\ Inflow(c)' - Outflow(c)' = Inflow(c) - Outflow(c)
                    + (IF c = Source[s] THEN 0 - Amount[s] ELSE 0)
    <3>1. PICK i \in Int, o \in Int : i = Inflow(c) /\ o = Outflow(c)
      BY <1>1, FlowTypes
    <3>2. Inflow(c)' = i
      BY <2>1, <3>1, FlowsStay
    <3>3. Outflow(c)' = o + (IF c = Source[s] THEN Amount[s] ELSE 0)
      BY <1>1, <2>1, <3>1, TakingFlows
    <3>. QED  BY <1>3, <3>1, <3>2, <3>3
  <2>4. 0 - Amount[s] \in Int
    BY <1>3
  <2>. QED  BY <1>1, <1>3, <2>1, <2>2, <2>3, <2>4, LedgerWritten
<1>6. CASE ~(b.locked >= 0)
  <2>1. UNCHANGED <<bal, settled, quote>>
    BY <1>2, <1>4, <1>6 DEF TakeSource, settled, given
  <2>. QED  BY <2>1, LedgerStays DEF Sum
<1>. QED  BY <1>5, <1>6

LEMMA LedgerCredits ==
  ASSUME SwapInv, LedgerMatchesSettlements, NEW w \in Worker, CreditTarget(w)
  PROVE  LedgerMatchesSettlements'
<1>1. TypeOK /\ TypeOK'
  BY CreditStep DEF SwapInv
<1>2. PICK s \in Swap : s = run[w].swap
  BY RunKnows DEF CreditTarget
<1>3. quote[s] \in Int \cup {None}
  BY <1>1 DEF TypeOK
<1>4. /\ Target[s] \in Account /\ Expected(s) \in Int
      /\ run[w].entry \in Balance
  BY <1>1, <1>2, <1>3, ExpectedInInt, SwapAssumption DEF TypeOK
<1>5. PICK b : b = [run[w].entry EXCEPT !.available = @ + Expected(s)]
  OBVIOUS
<1>6. CASE b.available >= 0
  <2>1. /\ Write(w, Target[s], b)
        /\ credited' = [credited EXCEPT ![s] = @ + 1]
        /\ UNCHANGED <<taken, quote>>
    BY <1>2, <1>5, <1>6 DEF CreditTarget, given
  <2>2. b \in Balance /\ Sum(b) = Sum(run[w].entry) + Expected(s)
    BY <1>4, <1>5, <1>6 DEF Balance, Sum
  <2>3. ASSUME NEW c \in Account
        PROVE  /\ Inflow(c)' \in Int /\ Outflow(c)' \in Int
               /\ Inflow(c)' - Outflow(c)' = Inflow(c) - Outflow(c)
                    + (IF c = Target[s] THEN Expected(s) ELSE 0)
    <3>1. PICK i \in Int, o \in Int : i = Inflow(c) /\ o = Outflow(c)
      BY <1>1, FlowTypes
    <3>2. Outflow(c)' = o
      BY <2>1, <3>1, FlowsStay
    <3>3. Inflow(c)' = i + (IF c = Target[s] THEN Expected(s) ELSE 0)
      BY <1>1, <2>1, <3>1, CreditFlows
    <3>. QED  BY <1>4, <3>1, <3>2, <3>3
  <2>. QED  BY <1>1, <1>4, <2>1, <2>2, <2>3, LedgerWritten
<1>7. CASE ~(b.available >= 0)
  <2>1. UNCHANGED <<bal, settled, quote>>
    BY <1>2, <1>5, <1>7 DEF CreditTarget, settled, given
  <2>. QED  BY <2>1, LedgerStays DEF Sum
<1>. QED  BY <1>6, <1>7

\* What the ledger is at first, and that every step leaves it sound.
LEMMA LedgerInit == Init => LedgerMatchesSettlements
<1> SUFFICES ASSUME Init, NEW a \in Account
             PROVE  Sum(bal[a]) = Deposit[a] - Outflow(a) + Inflow(a)
  BY DEF LedgerMatchesSettlements
<1>1. TypeOK
  BY InitSwap DEF SwapInv
<1>2. \A s \in Swap : Takings[s] = 0 /\ Credits[s] = 0
  <2>1. ASSUME NEW s \in Swap
        PROVE  taken[s] * Amount[s] = 0 /\ credited[s] * Expected(s) = 0
    <3>1. PICK x \in Int, y \in Int : x = Amount[s] /\ y = Expected(s)
      BY <1>1, ExpectedInInt, SwapAssumption DEF TypeOK
    <3>2. taken[s] = 0 /\ credited[s] = 0 /\ 0 * x = 0 /\ 0 * y = 0
      BY DEF Init
    <3>. QED  BY <3>1, <3>2
  <2>. QED  BY <2>1 DEF Takings, Credits
<1>3. Outflow(a) = 0 /\ Inflow(a) = 0
  <2>1. /\ IsFiniteSet(From(a)) /\ From(a) \subseteq Swap
        /\ IsFiniteSet(Into(a)) /\ Into(a) \subseteq Swap
    BY <1>1, FlowTypes DEF From, Into
  <2>2. /\ SumFunctionOnSet(Takings, From(a)) = 0
        /\ SumFunctionOnSet(Credits, Into(a)) = 0
    BY <1>2, <2>1, SumOfZeros
  <2>. QED  BY <2>2 DEF Outflow, Inflow, Takings, Credits, From, Into
<1>4. Sum(bal[a]) = Deposit[a] /\ Deposit[a] \in Nat
  BY SwapAssumption DEF Init, Sum
<1>. QED  BY <1>3, <1>4

LEMMA LedgerStep ==
  SwapInv /\ LedgerMatchesSettlements /\ [Next]_vars
    => LedgerMatchesSettlements'
<1> SUFFICES ASSUME SwapInv, LedgerMatchesSettlements, [Next]_vars
             PROVE  LedgerMatchesSettlements'
  OBVIOUS
<1>1. CASE UNCHANGED <<bal, settled, quote>>
  BY <1>1, LedgerStays DEF Sum
<1>2. ASSUME NEW s \in Swap, Request(s) PROVE LedgerMatchesSettlements'
  BY <1>1, <1>2, LedgerLocks
  DEF Request, RequestRefused, CreateSwap, EnqueueSwap, MarkQueued,
      RequestFault, given
<1>3. ASSUME NEW w \in Worker, Work(w) PROVE LedgerMatchesSettlements'
  BY <1>1, <1>3, LedgerTakes, LedgerCredits, LedgerUnlocks
  DEF Work, TakeJob, LoadSwap, StartProcessing, SwapOnChain,
      RecordTransaction, ReadSource, ReadTarget, MarkCompleted,
      AuditCompleted, Requeue, MarkFailed, ReportFailure, given
<1>4. ASSUME NEW w \in Worker,
             TryFault(w) \/ HandlerFault(w) \/ UnlockFault(w) \/ Crash(w)
      PROVE  LedgerMatchesSettlements'
  BY <1>1, <1>4 DEF TryFault, HandlerFault, UnlockFault, Crash, given
<1>5. CASE UNCHANGED vars
  BY <1>1, <1>5 DEF vars, settled
<1>. QED  BY <1>2, <1>3, <1>4, <1>5 DEF Next

-----------------------------------------------------------------------------
(* Theorems *)

\* The strengthened invariant holds in every reachable state.
THEOREM SwapInvariant == Spec => []SwapInv
BY InitSwap, SwapStep, PTL DEF Spec

\* Every variable keeps its type: balances never become negative, although a
\* client's quote may be, and a computed one is a whole number of units.
THEOREM TypeCorrect == Spec => []TypeOK
BY SwapInvariant, PTL DEF SwapInv

\* settleBalances: over all attempts, retries and restarts, credits never run
\* ahead of takings, nor takings ahead of swaps on the chain.
THEOREM LedgerNeverAhead == Spec => []CreditsWereSwapped
<1>1. SwapInv => CreditsWereSwapped
  BY DEF SwapInv, SwapsSound, SwapSound, CreditsWereSwapped
<1>. QED  BY <1>1, SwapInvariant, PTL

\* lockBalanceForOrder, unlockBalanceFromOrder and settleBalances, retries and
\* restarts included: an account holds its deposit, less what settlements
\* took, plus what they credited, unless one settlement overwrote another.
THEOREM LedgerIsSettled == Spec => []LedgerMatchesSettlements
<1>1. Init => SwapInv /\ LedgerMatchesSettlements
  BY InitSwap, LedgerInit
<1>2. SwapInv /\ LedgerMatchesSettlements /\ [Next]_vars
        => (SwapInv /\ LedgerMatchesSettlements)'
  BY SwapStep, LedgerStep
<1>. QED  BY <1>1, <1>2, PTL DEF Spec

\* markSwapCompleted comes last: a swap that says COMPLETED was swapped and
\* settled on both sides.
THEOREM CompletedIsSettled == Spec => []CompletedWasSettled
<1>1. SwapInv => CompletedWasSettled
  BY DEF SwapInv, SwapsSound, SwapSound, CompletedWasSettled, TypeOK
<1>. QED  BY <1>1, SwapInvariant, PTL

-----------------------------------------------------------------------------
(* The refinement of AtLeastOnce *)

RecordedSwaps == {s \in Swap : credited[s] > 0}
ClosedSwaps == {s \in Swap : Over(job[s])}

\* Steps that change neither the chain, nor credits, nor which jobs are over.
LEMMA PromiseStutters ==
  ASSUME chain' = chain, credited' = credited,
         \A s \in Swap : Over(job[s])' = Over(job[s])
  PROVE  UNCHANGED Promise!vars
<1>1. RecordedSwaps' = RecordedSwaps /\ ClosedSwaps' = ClosedSwaps
  BY DEF RecordedSwaps, ClosedSwaps
<1>. QED  BY <1>1 DEF Promise!vars, RecordedSwaps, ClosedSwaps

\* The run of worker w ends, and its job may be over with it.
LEMMA PromiseCloses ==
  ASSUME SwapInv, NEW w \in Worker, run[w].pc # "idle",
         job' = [job EXCEPT ![run[w].swap] = job'[run[w].swap]],
         chain' = chain, credited' = credited
  PROVE  Promise!Next
<1>1. PICK s \in Swap : s = run[w].swap /\ job[s].state = "active" /\ TypeOK
  BY RunKnows DEF InRun
<1>2. PICK items \in SUBSET Swap : items = {u \in {s} : Over(job'[s])}
  OBVIOUS
<1>3. /\ \A u \in Swap \ {s} : job'[u] = job[u]
      /\ ~Over(job[s])
  BY <1>1 DEF TypeOK, Over
<1>4. ClosedSwaps' = ClosedSwaps \cup items /\ RecordedSwaps' = RecordedSwaps
  BY <1>1, <1>2, <1>3 DEF ClosedSwaps, RecordedSwaps
<1>5. Promise!Close(items)
  BY <1>4 DEF Promise!Close, ClosedSwaps, RecordedSwaps
<1>. QED  BY <1>2, <1>5 DEF Promise!Next

\* The swap is made: once more, but no more often than it has runs.
LEMMA PromiseEffect ==
  ASSUME SwapInv, NEW w \in Worker, run[w].pc = "chain",
         chain' = [chain EXCEPT ![run[w].swap] = @ + 1],
         UNCHANGED <<job, credited>>
  PROVE  Promise!Next
<1>1. PICK s \in Swap : s = run[w].swap /\ InRun(s, "chain") /\ TypeOK
                        /\ SwapSound(s)
  BY RunKnows
<1>2. chain[s] < MaxRuns /\ ~Over(job[s])
  <2>1. Runs(job[s]) \in Nat /\ Runs(job[s]) <= MaxRuns /\ MaxRuns \in Nat
    BY <1>1, RunsBounded DEF SwapSound
  <2>. QED  BY <1>1, <2>1 DEF InRun, TypeOK, Over
<1>3. ClosedSwaps' = ClosedSwaps /\ RecordedSwaps' = RecordedSwaps
  BY DEF ClosedSwaps, RecordedSwaps
<1>4. Promise!Effect(s)
  BY <1>1, <1>2, <1>3 DEF Promise!Effect, ClosedSwaps, RecordedSwaps
<1>. QED  BY <1>4 DEF Promise!Next

LEMMA PromiseRecord ==
  ASSUME SwapInv, NEW w \in Worker, CreditTarget(w)
  PROVE  [Promise!Next]_Promise!vars
<1>1. PICK s \in Swap : /\ s = run[w].swap /\ InRun(s, "credit") /\ TypeOK
                        /\ SwapSound(s) /\ run[w].pc = "credit"
  BY RunKnows DEF CreditTarget
<1>2. UNCHANGED <<job, chain>>
  BY DEF CreditTarget
<1>3. CASE UNCHANGED credited
  BY <1>2, <1>3, PromiseStutters
<1>4. CASE credited' = [credited EXCEPT ![s] = @ + 1]
  <2>1. credited[s] \in Nat
    BY <1>1 DEF TypeOK
  <2>2. chain[s] > 0 /\ ~Over(job[s])
    BY <1>1 DEF InRun, SwapSound, TypeOK, Over
  <2>3. /\ RecordedSwaps' = RecordedSwaps \cup {s}
        /\ ClosedSwaps' = ClosedSwaps
    BY <1>1, <1>2, <1>4, <2>1 DEF RecordedSwaps, ClosedSwaps, TypeOK
  <2>4. Promise!Record(s)
    BY <1>2, <2>2, <2>3 DEF Promise!Record, RecordedSwaps, ClosedSwaps
  <2>. QED  BY <2>4 DEF Promise!Next
<1>. QED  BY <1>1, <1>3, <1>4 DEF CreditTarget

LEMMA PromiseWorks ==
  ASSUME SwapInv, NEW w \in Worker,
         Work(w) \/ TryFault(w) \/ HandlerFault(w) \/ UnlockFault(w) \/ Crash(w)
  PROVE  [Promise!Next]_Promise!vars
<1>1. ASSUME NEW s \in Swap, TakeJob(w, s) PROVE [Promise!Next]_Promise!vars
  <2>1. job[s].state = "waiting" /\ job[s] \in JobRecord /\ TypeOK
    BY <1>1 DEF SwapInv, TypeOK, TakeJob
  <2>2. Taken(job[s]).state = "active"
    BY <2>1 DEF JobRecord, Taken
  <2>3. \A u \in Swap : Over(job'[u]) = Over(job[u])
    BY <1>1, <2>1, <2>2 DEF TakeJob, TypeOK, Over
  <2>. QED  BY <1>1, <2>3, PromiseStutters DEF TakeJob, settled
<1>2. CASE \/ StartProcessing(w) \/ RecordTransaction(w) \/ ReadSource(w)
           \/ TakeSource(w) \/ ReadTarget(w) \/ MarkCompleted(w) \/ MarkFailed(w)
           \/ UnlockSource(w) \/ UnlockFault(w)
           \/ (LoadSwap(w) /\ job' = job)
           \/ (TryFault(w) /\ chain' = chain)
  <2>1. UNCHANGED <<job, chain, credited>>
    BY <1>2
    DEF StartProcessing, RecordTransaction, ReadSource, TakeSource, ReadTarget,
        MarkCompleted, MarkFailed, UnlockSource, UnlockFault, LoadSwap,
        TryFault, settled
  <2>. QED  BY <2>1, PromiseStutters
<1>3. CASE \/ AuditCompleted(w) \/ Requeue(w) \/ ReportFailure(w)
           \/ HandlerFault(w) \/ Crash(w)
           \/ (LoadSwap(w) /\ End(w, Completed(Mine(w))))
  <2>1. run[w].pc # "idle" /\ UNCHANGED <<chain, credited>>
    BY <1>3
    DEF AuditCompleted, Requeue, ReportFailure, HandlerFault, Crash, LoadSwap,
        settled
  <2>2. \/ End(w, Completed(Mine(w))) \/ End(w, AttemptFailed(Mine(w)))
        \/ End(w, Stalled(Mine(w)))
    BY <1>3 DEF AuditCompleted, Requeue, ReportFailure, HandlerFault, Crash
  <2>3. TypeOK /\ run[w].swap \in Swap
    BY <2>1, RunKnows
  <2>4. job' = [job EXCEPT ![run[w].swap] = job'[run[w].swap]]
    BY <2>2, <2>3 DEF End, TypeOK
  <2>. QED  BY <2>1, <2>4, PromiseCloses
<1>4. CASE \/ SwapOnChain(w)
           \/ /\ TryFault(w) /\ run[w].pc = "chain"
              /\ chain' = [chain EXCEPT ![run[w].swap] = @ + 1]
  <2>1. /\ run[w].pc = "chain" /\ UNCHANGED <<job, credited>>
        /\ chain' = [chain EXCEPT ![run[w].swap] = @ + 1]
    BY <1>4 DEF SwapOnChain, TryFault, settled
  <2>. QED  BY <2>1, PromiseEffect
<1>. QED
  BY <1>1, <1>2, <1>3, <1>4, PromiseRecord DEF Work, TryFault, LoadSwap

LEMMA PromiseRequests ==
  ASSUME SwapInv, NEW s \in Swap, Request(s)
  PROVE  [Promise!Next]_Promise!vars
<1>1. TypeOK /\ SwapSound(s)
  BY DEF SwapInv, SwapsSound
<1>2. CASE EnqueueSwap(s)
  <2>1. JobSound(job[s]) /\ job[s].state = "none"
    BY <1>1, <1>2 DEF SwapSound, EnqueueSwap, NoJob
  <2>2. Enqueued(job[s]).state = "waiting"
    BY <2>1, EnqueuedJob
  <2>3. \A u \in Swap : Over(job'[u]) = Over(job[u])
    BY <1>1, <1>2, <2>1, <2>2 DEF EnqueueSwap, TypeOK, Over
  <2>. QED  BY <1>2, <2>3, PromiseStutters DEF EnqueueSwap, settled
<1>3. CASE ~EnqueueSwap(s)
  <2>1. UNCHANGED <<job, chain, credited>>
    BY <1>3
    DEF Request, RequestRefused, LockSource, CreateSwap, MarkQueued,
        RequestFault, settled
  <2>. QED  BY <2>1, PromiseStutters
<1>. QED  BY <1>2, <1>3

\* SwapLifecycle implements AtLeastOnce: a swap is made on the chain at most
\* once per run of its job, credited only after it was made, and neither
\* happens after the job is over.
THEOREM KeepsPromise == Spec => SwapsKeepPromise
<1>1. Init => Promise!Init
  <2>1. Init => RecordedSwaps = {} /\ ClosedSwaps = {}
    BY DEF Init, RecordedSwaps, ClosedSwaps, Over, NoJob
  <2>. QED
    BY <2>1 DEF Init, Promise!Init, RecordedSwaps, ClosedSwaps
<1>2. SwapInv /\ [Next]_vars => [Promise!Next]_Promise!vars
  <2>1. UNCHANGED vars => UNCHANGED Promise!vars
    BY PromiseStutters DEF vars
  <2>. QED  BY <2>1, PromiseRequests, PromiseWorks DEF Next
<1>. QED
  BY <1>1, <1>2, SwapInvariant, PTL DEF Spec, SwapsKeepPromise, Promise!Spec

==========
