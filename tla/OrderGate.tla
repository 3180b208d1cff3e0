------------------------------ MODULE OrderGate ------------------------------
(***************************************************************************)
(* What an order submission does before anything else (TradingService.     *)
(* submitOrder): validateExpiry and NonceService.validateAndConsumeNonce,  *)
(* two Redis calls with other requests in between.  State is kept for each *)
(* Redis key, which is made of the user's address as the request spells it *)
(* and the nonce; the check of the signature spells it in lower case.  The *)
(* rest of submitOrder is in OrderMatching.                                *)
(***************************************************************************)
EXTENDS Naturals

CONSTANTS
  Request,  \* requests; a client may repeat one as often as it likes
  NonceKey, \* Redis keys, nonce:<userAddress>:<nonce>
  KeyOf,    \* [Request -> NonceKey]
  Expiry,   \* [Request -> Nat], the time the order is signed to expire at
  Ttl,      \* NONCE_TTL
  MaxTime   \* bound: the clock stops there

ASSUME GateAssumption ==
  /\ KeyOf \in [Request -> NonceKey] /\ Expiry \in [Request -> Nat]
  /\ Ttl \in Nat \ {0} /\ MaxTime \in Nat

VARIABLES
  now,     \* the clock
  key,     \* Redis: when each key expires; it is gone once that is past
  sub,     \* where each request is
  passes,  \* history: how often a request with the key was let through
  last     \* history: when it was let through last

gate == <<now, key, sub, passes, last>>

GateInit ==
  /\ now = 0
  /\ key = [n \in NonceKey |-> 0]
  /\ sub = [r \in Request |-> "idle"]
  /\ passes = [n \in NonceKey |-> 0]
  /\ last = [n \in NonceKey |-> 0]

Used(n) == key[n] > now

Goto(r, pc) == sub' = [sub EXCEPT ![r] = pc]

-----------------------------------------------------------------------------

\* validateExpiry: an expired order is refused, which changes nothing.
Arrive(r) ==
  /\ sub[r] = "idle"
  /\ Expiry[r] > now
  /\ Goto(r, "exists")
  /\ UNCHANGED <<now, key, passes, last>>

\* isNonceUsed.
LookUpNonce(r) ==
  /\ sub[r] = "exists"
  /\ IF Used(KeyOf[r]) THEN Goto(r, "idle")
     ELSE Goto(r, "set")
  /\ UNCHANGED <<now, key, passes, last>>

\* Mutant: SET without NX, on the word of isNonceUsed.
SetNonce(r) ==
  /\ sub[r] = "set"
  /\ key' = [key EXCEPT ![KeyOf[r]] = now + Ttl]
  /\ passes' = [passes EXCEPT ![KeyOf[r]] = @ + 1]
  /\ last' = [last EXCEPT ![KeyOf[r]] = now]
  /\ Goto(r, "submit")
  /\ UNCHANGED now

\* markNonceAsUsed: SET with NX and EX.
MarkNonceAsUsed(r) ==
  /\ sub[r] = "set"
  /\ IF Used(KeyOf[r])
     THEN Goto(r, "idle") /\ UNCHANGED <<key, passes, last>>
     ELSE /\ key' = [key EXCEPT ![KeyOf[r]] = now + Ttl]
          /\ passes' = [passes EXCEPT ![KeyOf[r]] = @ + 1]
          /\ last' = [last EXCEPT ![KeyOf[r]] = now]
          /\ Goto(r, "submit")
  /\ UNCHANGED now

\* The call fails, or its answer is lost: the request ends, and its key may
\* be taken without an order.
LoseNonce(r) ==
  /\ sub[r] \in {"exists", "set"}
  /\ key' \in IF sub[r] = "set" /\ ~Used(KeyOf[r])
              THEN {key, [key EXCEPT ![KeyOf[r]] = now + Ttl]} ELSE {key}
  /\ Goto(r, "idle")
  /\ UNCHANGED <<now, passes, last>>

\* The signature is verified, and the order submitted or refused.
Submit(r) ==
  /\ sub[r] = "submit"
  /\ Goto(r, "idle")
  /\ UNCHANGED <<now, key, passes, last>>

\* The process dies with its requests; Redis keeps the keys.
DropRequests ==
  /\ sub' = [r \in Request |-> "idle"]
  /\ UNCHANGED <<now, key, passes, last>>

TimePasses ==
  /\ now < MaxTime
  /\ now' = now + 1
  /\ UNCHANGED <<key, sub, passes, last>>

InFlight == {r \in Request : sub[r] # "idle"}

\* The gate by itself, with every process that may fail.
GateNext ==
  \/ \E r \in Request :
       \/ Arrive(r) \/ LookUpNonce(r) \/ MarkNonceAsUsed(r)
       \/ LoseNonce(r) \/ Submit(r)
  \/ DropRequests \/ TimePasses

GateSpec == GateInit /\ [][GateNext]_gate

-----------------------------------------------------------------------------
(* Properties *)

GateTypeOK ==
  /\ now \in 0..MaxTime
  /\ key \in [NonceKey -> Nat]
  /\ sub \in [Request -> {"idle", "exists", "set", "submit"}]
  /\ passes \in [NonceKey -> Nat]
  /\ last \in [NonceKey -> Nat]

\* However the lookups and the SETs of concurrent requests interleave, and
\* whatever fails in between, requests with one key are let through Ttl apart.
\* Nothing is said of a nonce whose requests spell the address differently.
NoncesApart ==
  [][\A n \in NonceKey :
       passes'[n] # passes[n] /\ passes[n] > 0 => now >= last[n] + Ttl]_gate

=============================================================================
