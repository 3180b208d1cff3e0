----------------------------- MODULE RateLimiter -----------------------------
(***************************************************************************)
(* lib/rateLimiter.ts: the token bucket in front of the Sapphire RPC.  It  *)
(* lives in the memory of a process.  tryConsume runs without an await,    *)
(* so it is one action; a caller that gets no token polls again.  Time is  *)
(* counted in ticks.  What passed since lastRefill is counted up to the    *)
(* time that fills an empty bucket: more makes no difference.              *)
(***************************************************************************)
EXTENDS Naturals

CONSTANTS
  MaxTokens,  \* maxTokens: rateLimitPerMinute (120)
  Interval    \* refillIntervalMs: a minute by that number, at least a second

ASSUME LimiterAssumption ==
  MaxTokens \in Nat \ {0} /\ Interval \in Nat \ {0}

VARIABLES
  tokens,   \* tokens left
  elapsed,  \* time since lastRefill
  debt      \* history: each call granted adds Interval, time pays it back

limiter == <<tokens, elapsed, debt>>

LimiterInit == tokens = MaxTokens /\ elapsed = 0 /\ debt = 0

\* Math.min(this.maxTokens, this.tokens + refillCount).
Refilled ==
  LET count == tokens + elapsed \div Interval
  IN  IF elapsed < Interval THEN tokens
      ELSE IF count < MaxTokens THEN count ELSE MaxTokens

\* Mutant: lastRefill is not moved on.
ConsumeAgain ==
  /\ Refilled > 0
  /\ tokens' = Refilled - 1
  /\ elapsed' = elapsed
  /\ debt' = debt + Interval

\* acquire: a tryConsume that finds a token.  One that finds none changes
\* nothing.
Consume ==
  /\ Refilled > 0
  /\ tokens' = Refilled - 1
  /\ elapsed' = IF elapsed < Interval THEN elapsed ELSE 0
  /\ debt' = debt + Interval

Tick ==
  /\ elapsed' = IF elapsed < Interval * MaxTokens THEN elapsed + 1 ELSE elapsed
  /\ debt' = IF debt > 0 THEN debt - 1 ELSE 0
  /\ tokens' = tokens

\* A new process starts with a full bucket.
Restart == tokens' = MaxTokens /\ elapsed' = 0 /\ debt' = 0

LimiterSpec == LimiterInit /\ [][Consume \/ Tick \/ Restart]_limiter

-----------------------------------------------------------------------------
(* Properties *)

LimiterTypeOK ==
  tokens \in 0..MaxTokens /\ elapsed \in 0..(Interval * MaxTokens) /\ debt \in Nat

\* The rate: in the life of a process, a window of T ticks sees fewer than
\* MaxTokens + 1 + T / Interval calls, wherever it starts.  (The debt grows
\* by Interval with each call and shrinks by at most T in the window.)
RateBounded == debt < Interval * (MaxTokens + 1)

=============================================================================
