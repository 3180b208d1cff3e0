------------------------ MODULE ReconciliationProofs ------------------------
(***************************************************************************)
(* Proofs about Reconciliation, for any users, tokens and orders, any      *)
(* amounts and deposits, and any number of moves and faults.               *)
(***************************************************************************)
EXTENDS Reconciliation, FiniteSums

-----------------------------------------------------------------------------
(* The inductive invariant *)

ReconType ==
  [pc : {"idle", "token", "row", "compare", "overwrite"},
   tokens : SUBSET Token, rows : SUBSET Row, row : Row \cup {None},
   onChain : Nat]

\* A round that compares or overwrites has a row at hand.
RowAtHand == recon.pc \in {"compare", "overwrite"} => recon.row \in Row

\* What a row has locked is among what it has ever had locked, and that is
\* never more than what orders of the row locked.
PastWasLocked ==
  \A r \in Row :
    /\ bal[r].locked \in past[r]
    /\ \A l \in past[r] : l <= SumFunctionOnSet(Amount, Lockers(r))

ReconInv == TypeOK /\ RowAtHand /\ PastWasLocked /\ LockedIsHeld

-----------------------------------------------------------------------------
(* What orders hold, and what they ever locked *)

Held(r) == SumFunctionOnSet(Amount, Holders(r))
Ever(r) == SumFunctionOnSet(Amount, Lockers(r))
Status == {"new", "open", "traded", "closed"}

\* The constants' types, at an order.
LEMMA AmountTypes ==
  ASSUME NEW o \in Order
  PROVE  Amount[o] \in Nat /\ OrderOf[o] \in Row
BY ReconciliationAssumption

\* The orders of a row are finitely many, and hold natural amounts.
LEMMA HeldType ==
  ASSUME NEW S \in SUBSET Order
  PROVE  /\ IsFiniteSet(S) /\ \A u \in S : Amount[u] \in Int
         /\ SumFunctionOnSet(Amount, S) \in Nat
<1>1. IsFiniteSet(S) /\ \A u \in S : Amount[u] \in Nat
  BY AmountTypes, ReconciliationAssumption, FS_Subset
<1>. QED  BY <1>1, SumOfNaturals

\* An order more holds its amount more.
LEMMA HeldWithOne ==
  ASSUME NEW S \in SUBSET Order, NEW o \in S
  PROVE  SumFunctionOnSet(Amount, S)
           = Amount[o] + SumFunctionOnSet(Amount, S \ {o})
BY HeldType, SumWithout

\* What holds in a row, and what was ever locked in it, are natural numbers.
LEMMA HeldInNat == ASSUME NEW r \in Row PROVE Held(r) \in Nat /\ Ever(r) \in Nat
BY HeldType DEF Held, Ever, Holders, Lockers

\* The invariant's two bounds, in these terms.
LEMMA LockedBounds ==
  /\ LockedIsHeld <=> \A r \in Row :
       bal[r].locked <= IF r \in stale THEN Ever(r) ELSE Held(r)
  /\ PastWasLocked <=> \A r \in Row :
       bal[r].locked \in past[r] /\ \A l \in past[r] : l <= Ever(r)
<1>1. ASSUME NEW r \in Row
      PROVE  SumFunctionOnSet(Amount, IF r \in stale THEN Lockers(r)
                                                     ELSE Holders(r))
               = IF r \in stale THEN Ever(r) ELSE Held(r)
  BY DEF Ever, Held
<1>. QED  BY <1>1 DEF LockedIsHeld, PastWasLocked, Ever

\* The same after a step.
LEMMA LockedBoundsNext ==
  /\ LockedIsHeld' <=> \A r \in Row :
       bal'[r].locked <= IF r \in stale' THEN Ever(r)' ELSE Held(r)'
  /\ PastWasLocked' <=> \A r \in Row :
       bal'[r].locked \in past'[r] /\ \A l \in past'[r] : l <= Ever(r)'
<1>1. ASSUME NEW r \in Row
      PROVE  SumFunctionOnSet(Amount, IF r \in stale' THEN Lockers(r)'
                                                      ELSE Holders(r)')
               = IF r \in stale' THEN Ever(r)' ELSE Held(r)'
  BY DEF Ever, Held
<1>. QED  BY <1>1 DEF LockedIsHeld, PastWasLocked, Ever

\* The orders of a row after one of them has changed.
LEMMA OrderChanges ==
  ASSUME TypeOK, NEW o \in Order, NEW v \in Status,
         order' = [order EXCEPT ![o] = v], NEW r \in Row
  PROVE  /\ r # OrderOf[o] =>
              Holders(r)' = Holders(r) /\ Lockers(r)' = Lockers(r)
         /\ r = OrderOf[o] /\ v = "open" =>
              Holders(r)' = Holders(r) \cup {o}
         /\ r = OrderOf[o] /\ v # "open" => Holders(r)' = Holders(r) \ {o}
         /\ r = OrderOf[o] /\ v # "new" => Lockers(r)' = Lockers(r) \cup {o}
<1>1. PICK status : status = {"new", "open", "traded", "closed"}
  OBVIOUS
<1>2. order \in [Order -> status]
  BY <1>1 DEF TypeOK
<1>3. order'[o] = v /\ \A u \in Order : u # o => order'[u] = order[u]
  BY <1>2
<1>. QED  BY <1>3 DEF Holders, Lockers

\* The sum over a set of orders, with one that was not among them.
LEMMA SumWithOneMore ==
  ASSUME NEW S \in SUBSET Order, NEW o \in Order, o \notin S
  PROVE  SumFunctionOnSet(Amount, S \cup {o})
           = SumFunctionOnSet(Amount, S) + Amount[o]
<1>1. PICK H : H = S \cup {o}
  OBVIOUS
<1>2. H \in SUBSET Order /\ o \in H /\ H \ {o} = S
  BY <1>1
<1>3. SumFunctionOnSet(Amount, H)
        = Amount[o] + SumFunctionOnSet(Amount, H \ {o})
  BY <1>2, HeldWithOne
<1>4. PICK h \in Nat : h = SumFunctionOnSet(Amount, S)
  BY HeldType
<1>5. Amount[o] + h = h + Amount[o]
  BY AmountTypes
<1>. QED  BY <1>1, <1>2, <1>3, <1>4, <1>5, Zenon

\* The sum over a set of orders, without one of them.
LEMMA SumWithoutOne ==
  ASSUME NEW S \in SUBSET Order, NEW o \in S
  PROVE  SumFunctionOnSet(Amount, S \ {o})
           = SumFunctionOnSet(Amount, S) - Amount[o]
<1>1. SumFunctionOnSet(Amount, S)
        = Amount[o] + SumFunctionOnSet(Amount, S \ {o})
  BY HeldWithOne
<1>2. PICK h \in Nat : h = SumFunctionOnSet(Amount, S \ {o})
  BY HeldType
<1>3. (Amount[o] + h) - Amount[o] = h
  BY AmountTypes
<1>. QED  BY <1>1, <1>2, <1>3, Zenon

\* An order that opens holds its amount, and in no other row.
LEMMA HeldByOpening ==
  ASSUME TypeOK, NEW o \in Order, order[o] = "new",
         order' = [order EXCEPT ![o] = "open"], NEW r \in Row
  PROVE  IF r = OrderOf[o]
         THEN Held(r)' = Held(r) + Amount[o] /\ Ever(r)' = Ever(r) + Amount[o]
         ELSE Held(r)' = Held(r) /\ Ever(r)' = Ever(r)
<1>1. /\ o \notin Holders(r) /\ o \notin Lockers(r)
      /\ Holders(r) \in SUBSET Order /\ Lockers(r) \in SUBSET Order
  BY DEF Holders, Lockers
<1>2. "open" \in Status
  BY DEF Status
<1>3. CASE r # OrderOf[o]
  BY <1>2, <1>3, OrderChanges DEF Held, Ever
<1>4. CASE r = OrderOf[o]
  <2>1. /\ Holders(r)' = Holders(r) \cup {o}
        /\ Lockers(r)' = Lockers(r) \cup {o}
    BY <1>2, <1>4, OrderChanges
  <2>. QED  BY <1>1, <1>4, <2>1, SumWithOneMore DEF Held, Ever
<1>. QED  BY <1>3, <1>4

\* An order that is traded or closed holds nothing more, and has locked what
\* it has locked.
LEMMA HeldByClosing ==
  ASSUME TypeOK, NEW o \in Order, order[o] # "new",
         NEW v \in {"traded", "closed"}, order' = [order EXCEPT ![o] = v],
         NEW r \in Row
  PROVE  /\ Ever(r)' = Ever(r)
         /\ Held(r)' = IF r = OrderOf[o] /\ order[o] = "open"
                       THEN Held(r) - Amount[o] ELSE Held(r)
<1>1. v \in Status /\ v # "open" /\ v # "new"
  BY DEF Status
<1>2. CASE r # OrderOf[o]
  BY <1>1, <1>2, OrderChanges DEF Held, Ever
<1>3. CASE r = OrderOf[o]
  <2>1. Holders(r)' = Holders(r) \ {o} /\ Lockers(r)' = Lockers(r) \cup {o}
    BY <1>1, <1>3, OrderChanges
  <2>2. /\ o \in Lockers(r) /\ Holders(r) \in SUBSET Order
        /\ o \in Holders(r) <=> order[o] = "open"
    BY <1>3 DEF Holders, Lockers
  <2>3. Ever(r)' = Ever(r)
    BY <2>1, <2>2 DEF Ever
  <2>4. CASE order[o] = "open"
    BY <1>3, <2>1, <2>2, <2>3, <2>4, SumWithoutOne DEF Held
  <2>5. CASE order[o] # "open"
    <3>1. Holders(r)' = Holders(r)
      BY <2>1, <2>2, <2>5
    <3>. QED  BY <2>3, <2>5, <3>1 DEF Held
  <2>. QED  BY <2>4, <2>5
<1>. QED  BY <1>2, <1>3

\* Orders that stay as they are hold what they held.
LEMMA HeldByNoChange ==
  ASSUME UNCHANGED order, NEW r \in Row
  PROVE  Held(r)' = Held(r) /\ Ever(r)' = Ever(r)
BY DEF Held, Ever, Holders, Lockers

-----------------------------------------------------------------------------
(* Init *)

LEMMA InitRecon == Init => ReconInv
<1> SUFFICES ASSUME Init PROVE ReconInv
  OBVIOUS
<1>1. TypeOK
  BY ReconciliationAssumption DEF Init, TypeOK, Idle
<1>2. RowAtHand
  BY DEF Init, RowAtHand, Idle
<1>3. LockedIsHeld /\ PastWasLocked
  BY HeldInNat, LockedBounds DEF Init
<1>. QED  BY <1>1, <1>2, <1>3 DEF ReconInv

-----------------------------------------------------------------------------
(* Orders and moves *)

Balance == [available : Nat, locked : Nat]

\* A row, as the invariant knows it.
LEMMA RowFacts ==
  ASSUME ReconInv, NEW r \in Row
  PROVE  /\ TypeOK /\ bal[r] \in Balance
         /\ bal[r].available \in Nat /\ bal[r].locked \in Nat
         /\ Held(r) \in Nat /\ Ever(r) \in Nat
         /\ bal[r].locked <= IF r \in stale THEN Ever(r) ELSE Held(r)
         /\ bal[r].locked \in past[r] /\ bal[r].locked <= Ever(r)
         /\ \A l \in past[r] : l \in Nat /\ l <= Ever(r)
<1>1. TypeOK /\ bal[r] \in Balance /\ past[r] \in SUBSET Nat
  BY DEF ReconInv, TypeOK, Balance
<1>2. bal[r].available \in Nat /\ bal[r].locked \in Nat
  BY <1>1 DEF Balance
<1>. QED  BY <1>1, <1>2, HeldInNat, LockedBounds DEF ReconInv

\* A step that writes one row, and leaves the round alone.
LEMMA RowMoves ==
  ASSUME ReconInv, NEW r \in Row, NEW b \in Balance, Write(r, b),
         UNCHANGED recon,
         chain' \in [Row -> Nat], moves' \in 0..MaxMoves,
         faults' \in 0..MaxFaults, order' \in [Order -> Status],
         stale' \in SUBSET Row,
         b.locked <= Ever(r)', r \notin stale' => b.locked <= Held(r)',
         Ever(r) <= Ever(r)',
         \A s \in Row \ {r} : /\ Held(s)' = Held(s) /\ Ever(s)' = Ever(s)
                              /\ s \in stale' <=> s \in stale
  PROVE  ReconInv'
<1>1. /\ bal' = [bal EXCEPT ![r] = b]
      /\ past' = [past EXCEPT ![r] = @ \cup {b.locked}]
      /\ b.locked \in Nat /\ TypeOK
      /\ bal \in [Row -> Balance] /\ past \in [Row -> SUBSET Nat]
  BY DEF Write, Balance, ReconInv, TypeOK
<1>2. bal' \in [Row -> Balance] /\ past' \in [Row -> SUBSET Nat]
  <2>1. past[r] \cup {b.locked} \in SUBSET Nat
    BY <1>1
  <2>. QED  BY <1>1, <2>1
<1>3. TypeOK'
  BY <1>1, <1>2 DEF TypeOK, Balance, Status
<1>4. RowAtHand'
  BY DEF ReconInv, RowAtHand
<1>5. /\ bal'[r] = b /\ past'[r] = past[r] \cup {b.locked}
      /\ \A s \in Row \ {r} : bal'[s] = bal[s] /\ past'[s] = past[s]
  BY <1>1
<1>6. ASSUME NEW s \in Row
      PROVE  bal'[s].locked <= IF s \in stale' THEN Ever(s)' ELSE Held(s)'
  BY <1>5, RowFacts
<1>7. ASSUME NEW s \in Row
      PROVE  bal'[s].locked \in past'[s] /\ \A l \in past'[s] : l <= Ever(s)'
  <2>1. CASE s # r
    BY <1>5, <2>1, RowFacts
  <2>2. CASE s = r
    <3>1. Ever(r)' \in Nat
      BY HeldType DEF Ever, Lockers
    <3>2. \A l \in past[r] : l <= Ever(r)'
      BY <3>1, RowFacts
    <3>. QED  BY <1>5, <2>2, <3>2
  <2>. QED  BY <2>1, <2>2
<1>8. LockedIsHeld' /\ PastWasLocked'
  BY <1>6, <1>7, LockedBoundsNext
<1>. QED  BY <1>3, <1>4, <1>8 DEF ReconInv

LEMMA OpenStep ==
  ASSUME ReconInv, NEW o \in Order, OpenOrder(o)
  PROVE  ReconInv'
<1>1. PICK r \in Row : r = OrderOf[o] /\ Amount[o] \in Nat
  BY AmountTypes
<1>2. /\ TypeOK /\ bal[r].available >= Amount[o]
      /\ order' = [order EXCEPT ![o] = "open"] /\ order[o] = "new"
      /\ UNCHANGED <<chain, stale, recon, moves, faults>>
  BY <1>1 DEF ReconInv, OpenOrder
<1>3. PICK b : b = [available |-> bal[r].available - Amount[o],
                    locked |-> bal[r].locked + Amount[o]]
  OBVIOUS
<1>4. b \in Balance /\ b.locked = bal[r].locked + Amount[o] /\ Write(r, b)
  BY <1>1, <1>2, <1>3, RowFacts DEF Balance, OpenOrder
<1>5. /\ Held(r)' = Held(r) + Amount[o] /\ Ever(r)' = Ever(r) + Amount[o]
      /\ \A s \in Row \ {r} : Held(s)' = Held(s) /\ Ever(s)' = Ever(s)
  BY <1>1, <1>2, HeldByOpening
<1>6. /\ b.locked <= Ever(r)' /\ Ever(r) <= Ever(r)'
      /\ r \notin stale' => b.locked <= Held(r)'
  BY <1>1, <1>2, <1>4, <1>5, RowFacts
<1>7. /\ chain' \in [Row -> Nat] /\ order' \in [Order -> Status]
      /\ stale' \in SUBSET Row
      /\ moves' \in 0..MaxMoves /\ faults' \in 0..MaxFaults
  BY <1>2 DEF TypeOK, Status
<1>. QED  BY <1>2, <1>4, <1>5, <1>6, <1>7, RowMoves

LEMMA CloseStep ==
  ASSUME ReconInv, NEW o \in Order, CloseOrder(o)
  PROVE  ReconInv'
<1>1. PICK r \in Row : r = OrderOf[o] /\ Amount[o] \in Nat
  BY AmountTypes
<1>2. /\ TypeOK /\ bal[r].locked >= Amount[o]
      /\ order' = [order EXCEPT ![o] = "closed"]
      /\ order[o] \in {"open", "traded"}
      /\ UNCHANGED <<chain, stale, recon, moves, faults>>
  BY <1>1 DEF ReconInv, CloseOrder
<1>3. PICK b : b = [available |-> bal[r].available + Amount[o],
                    locked |-> bal[r].locked - Amount[o]]
  OBVIOUS
<1>4. b \in Balance /\ b.locked = bal[r].locked - Amount[o] /\ Write(r, b)
  BY <1>1, <1>2, <1>3, RowFacts DEF Balance, CloseOrder
<1>5. /\ Ever(r)' = Ever(r)
      /\ Held(r)' = IF order[o] = "open" THEN Held(r) - Amount[o] ELSE Held(r)
      /\ \A s \in Row \ {r} : Held(s)' = Held(s) /\ Ever(s)' = Ever(s)
  BY <1>1, <1>2, HeldByClosing
<1>6. /\ b.locked <= Ever(r)' /\ Ever(r) <= Ever(r)'
      /\ r \notin stale' => b.locked <= Held(r)'
  BY <1>1, <1>2, <1>4, <1>5, RowFacts
<1>7. /\ chain' \in [Row -> Nat] /\ order' \in [Order -> Status]
      /\ stale' \in SUBSET Row
      /\ moves' \in 0..MaxMoves /\ faults' \in 0..MaxFaults
  BY <1>2 DEF TypeOK, Status
<1>. QED  BY <1>2, <1>4, <1>5, <1>6, <1>7, RowMoves

\* What FromRead changes.
LEMMA ReadFacts ==
  ASSUME ReconInv, NEW r \in Row, NEW l, FromRead(r, l)
  PROVE  /\ l \in Nat /\ l <= Ever(r) /\ stale' \in SUBSET Row
         /\ r \notin stale' => l <= Held(r)
         /\ \A s \in Row \ {r} : s \in stale' <=> s \in stale
         /\ moves' \in 0..MaxMoves
<1>1. l \in Nat /\ l <= Ever(r)
  BY RowFacts DEF FromRead
<1>2. /\ stale' \in SUBSET Row
      /\ \A s \in Row \ {r} : s \in stale' <=> s \in stale
      /\ r \notin stale' => r \notin stale /\ ~(l > bal[r].locked)
  BY DEF FromRead, ReconInv, TypeOK
<1>3. r \notin stale' => l <= Held(r)
  BY <1>1, <1>2, RowFacts
<1>4. moves' \in 0..MaxMoves
  BY ReconciliationAssumption DEF FromRead, ReconInv, TypeOK
<1>. QED  BY <1>1, <1>2, <1>3, <1>4

LEMMA CreditStep ==
  ASSUME ReconInv, NEW r \in Row, NEW amount \in 0..MaxAmount, NEW l,
         Credit(r, amount, l)
  PROVE  ReconInv'
<1>1. FromRead(r, l) /\ UNCHANGED <<chain, order, recon, faults>>
  BY DEF Credit
<1>2. PICK b : b = [available |-> amount, locked |-> l]
  OBVIOUS
<1>3. b \in Balance /\ b.locked = l /\ Write(r, b)
  BY <1>1, <1>2, ReadFacts DEF Balance, Credit
<1>4. \A s \in Row : Held(s)' = Held(s) /\ Ever(s)' = Ever(s)
  BY <1>1, HeldByNoChange
<1>5. /\ b.locked <= Ever(r)' /\ Ever(r) <= Ever(r)'
      /\ r \notin stale' => b.locked <= Held(r)'
  BY <1>1, <1>3, <1>4, ReadFacts, HeldInNat
<1>6. /\ chain' \in [Row -> Nat] /\ order' \in [Order -> Status]
      /\ faults' \in 0..MaxFaults
  BY <1>1 DEF ReconInv, TypeOK, Status
<1>. QED  BY <1>1, <1>3, <1>4, <1>5, <1>6, ReadFacts, RowMoves

LEMMA TradeStep ==
  ASSUME ReconInv, NEW o \in Order, NEW amount \in 0..MaxAmount, NEW l,
         Trade(o, amount, l)
  PROVE  ReconInv'
<1>1. PICK r \in Row : r = OrderOf[o] /\ Amount[o] \in Nat
  BY AmountTypes
<1>2. /\ FromRead(r, l) /\ l >= Amount[o] /\ order[o] # "new" /\ TypeOK
      /\ order' = [order EXCEPT ![o] = IF @ = "open" THEN "traded" ELSE @]
      /\ UNCHANGED <<chain, recon, faults>>
  BY <1>1 DEF Trade, ReconInv
<1>3. PICK b : b = [available |-> amount, locked |-> l - Amount[o]]
  OBVIOUS
<1>4. b \in Balance /\ b.locked = l - Amount[o] /\ Write(r, b)
  BY <1>1, <1>2, <1>3, ReadFacts DEF Balance, Trade
<1>5. PICK v \in {"traded", "closed"} :
        /\ order' = [order EXCEPT ![o] = v]
  <2>1. order \in [Order -> Status]
    BY <1>2 DEF TypeOK, Status
  <2>2. order[o] \in {"open", "traded", "closed"}
    BY <1>2, <2>1 DEF Status
  <2>3. CASE order[o] = "open"
    BY <1>2, <2>3
  <2>4. CASE order[o] # "open"
    BY <1>2, <2>2, <2>4
  <2>. QED  BY <2>3, <2>4
<1>6. /\ Ever(r)' = Ever(r)
      /\ Held(r)' = IF order[o] = "open" THEN Held(r) - Amount[o] ELSE Held(r)
      /\ \A s \in Row \ {r} : Held(s)' = Held(s) /\ Ever(s)' = Ever(s)
  BY <1>1, <1>2, <1>5, HeldByClosing
<1>7. /\ b.locked <= Ever(r)' /\ Ever(r) <= Ever(r)'
      /\ r \notin stale' => b.locked <= Held(r)'
  BY <1>1, <1>2, <1>4, <1>6, ReadFacts, HeldInNat
<1>8. /\ chain' \in [Row -> Nat] /\ order' \in [Order -> Status]
      /\ faults' \in 0..MaxFaults
  BY <1>2, <1>5 DEF TypeOK, Status
<1>. QED  BY <1>2, <1>4, <1>6, <1>7, <1>8, ReadFacts, RowMoves

LEMMA ChainStep ==
  ASSUME ReconInv, NEW r \in Row, NEW amount \in 0..MaxAmount,
         ChainMoves(r, amount)
  PROVE  ReconInv'
<1>1. /\ UNCHANGED <<bal, order, past, stale, recon, faults>>
      /\ TypeOK /\ RowAtHand
  BY DEF ChainMoves, ReconInv
<1>2. chain' \in [Row -> Nat] /\ moves' \in 0..MaxMoves
  BY <1>1, ReconciliationAssumption DEF ChainMoves, TypeOK
<1>3. TypeOK'
  BY <1>1, <1>2 DEF TypeOK
<1>. QED
  BY <1>1, <1>3 DEF ReconInv, RowAtHand, LockedIsHeld, PastWasLocked,
                    Holders, Lockers

-----------------------------------------------------------------------------
(* performReconciliation *)

\* A step of the round that writes no row.
LEMMA RoundMoves ==
  ASSUME ReconInv, UNCHANGED <<bal, past, stale, chain, order, moves>>,
         faults' \in 0..MaxFaults, recon' \in ReconType, RowAtHand'
  PROVE  ReconInv'
BY DEF ReconInv, TypeOK, ReconType, LockedIsHeld, PastWasLocked, Holders,
       Lockers

\* What is left of a round, field by field.
LEMMA RoundFields ==
  ASSUME ReconInv
  PROVE  /\ recon = [pc |-> recon.pc, tokens |-> recon.tokens,
                     rows |-> recon.rows, row |-> recon.row,
                     onChain |-> recon.onChain]
         /\ recon.pc \in {"idle", "token", "row", "compare", "overwrite"}
         /\ recon.tokens \in SUBSET Token /\ recon.rows \in SUBSET Row
         /\ recon.row \in Row \cup {None} /\ recon.onChain \in Nat
         /\ RowAtHand
         /\ Idle \in ReconType
BY DEF ReconInv, TypeOK, ReconType, Idle

\* A failure is counted.
LEMMA FaultsBounded ==
  ASSUME ReconInv, faults < MaxFaults, faults' = faults + 1
  PROVE  faults' \in 0..MaxFaults
BY ReconciliationAssumption DEF ReconInv, TypeOK

LEMMA StartRoundStep == ASSUME ReconInv, StartRound PROVE ReconInv'
<1>1. recon' \in ReconType /\ recon'.pc = "token"
  BY RoundFields DEF StartRound, ReconType
<1>. QED
  BY <1>1, RoundMoves DEF ReconInv, TypeOK, RowAtHand, StartRound, world, ledger

LEMMA CompareStep == ASSUME ReconInv, Compare PROVE ReconInv'
<1>1. CASE recon' = [recon EXCEPT !.pc = "row", !.row = None, !.onChain = 0]
  <2>1. recon' \in ReconType /\ recon'.pc = "row"
    BY <1>1, RoundFields DEF ReconType
  <2>. QED
    BY <2>1, RoundMoves DEF ReconInv, TypeOK, RowAtHand, Compare, world, ledger
<1>2. CASE recon' = [recon EXCEPT !.pc = "overwrite"]
  <2>1. recon' \in ReconType /\ recon'.row \in Row
    BY <1>2, RoundFields DEF ReconType, RowAtHand, Compare
  <2>. QED
    BY <2>1, RoundMoves DEF ReconInv, TypeOK, RowAtHand, Compare, world, ledger
<1>. QED  BY <1>1, <1>2 DEF Compare

LEMMA NextTokenStep == ASSUME ReconInv, NextToken PROVE ReconInv'
<1>1. recon' \in ReconType /\ recon'.pc = "token"
  BY RoundFields DEF NextToken, ReconType
<1>. QED
  BY <1>1, RoundMoves DEF ReconInv, TypeOK, RowAtHand, NextToken, world, ledger

LEMMA EndRoundStep == ASSUME ReconInv, EndRound PROVE ReconInv'
<1>1. recon' \in ReconType /\ recon'.pc = "idle"
  BY RoundFields DEF EndRound, Idle
<1>. QED
  BY <1>1, RoundMoves DEF ReconInv, TypeOK, RowAtHand, EndRound, world, ledger

LEMMA AbortRoundStep == ASSUME ReconInv, AbortRound PROVE ReconInv'
<1>1. recon' \in ReconType /\ recon'.pc = "idle"
  BY RoundFields DEF AbortRound, Idle
<1>. QED  BY <1>1, RoundMoves, FaultsBounded DEF RowAtHand, AbortRound, ledger

LEMMA ListRowsStep ==
  ASSUME ReconInv, NEW t \in Token, ListRows(t) PROVE ReconInv'
<1>1. PICK R : R = {r \in Row : r[2] = t /\ Sum(bal[r]) > 0}
  OBVIOUS
<1>2. R \in SUBSET Row
  BY <1>1
<1>3. recon' = [recon EXCEPT !.pc = "row", !.tokens = @ \ {t}, !.rows = R]
  BY <1>1 DEF ListRows
<1>4. recon' \in ReconType /\ recon'.pc = "row"
  BY <1>2, <1>3, RoundFields DEF ReconType
<1>. QED
  BY <1>4, RoundMoves DEF ReconInv, TypeOK, RowAtHand, ListRows, world, ledger

LEMMA SkipTokenStep ==
  ASSUME ReconInv, NEW t \in Token, SkipToken(t) PROVE ReconInv'
<1>1. recon' \in ReconType /\ recon'.pc = "token"
  BY RoundFields DEF SkipToken, ReconType
<1>. QED  BY <1>1, RoundMoves, FaultsBounded DEF RowAtHand, SkipToken, ledger

LEMMA AskChainStep ==
  ASSUME ReconInv, NEW r \in Row, AskChain(r) PROVE ReconInv'
<1>1. PICK n \in Nat : n = chain[r]
  BY DEF ReconInv, TypeOK
<1>2. recon' = [recon EXCEPT !.pc = "compare", !.rows = @ \ {r},
                             !.row = r, !.onChain = n]
  BY <1>1 DEF AskChain
<1>3. recon' \in ReconType /\ recon'.row = r
  BY <1>2, RoundFields DEF ReconType
<1>. QED
  BY <1>3, RoundMoves DEF ReconInv, TypeOK, RowAtHand, AskChain, world, ledger

LEMMA SkipRowStep ==
  ASSUME ReconInv, NEW r \in Row, SkipRow(r) PROVE ReconInv'
<1>1. recon' \in ReconType /\ recon'.pc = "row"
  BY RoundFields DEF SkipRow, ReconType
<1>. QED  BY <1>1, RoundMoves, FaultsBounded DEF RowAtHand, SkipRow, ledger

\* What a round writes is never locked.
LEMMA OverwriteStep ==
  ASSUME ReconInv, Overwrite
  PROVE  ReconInv'
<1>1. PICK r \in Row : r = recon.row /\ recon.onChain \in Nat
  BY DEF ReconInv, RowAtHand, TypeOK, Overwrite
<1>2. PICK b : b = [available |-> recon.onChain, locked |-> 0]
  OBVIOUS
<1>3. b \in Balance /\ b.locked = 0 /\ Write(r, b)
  BY <1>1, <1>2 DEF Overwrite, Balance
<1>4. recon' \in ReconType /\ recon'.pc = "row"
  BY RoundFields DEF Overwrite, ReconType
<1>5. /\ UNCHANGED <<chain, order, moves, faults>>
      /\ stale' = stale \ {r} /\ TypeOK
  BY <1>1 DEF Overwrite, world, ReconInv
<1>6. /\ bal' = [bal EXCEPT ![r] = b]
      /\ past' = [past EXCEPT ![r] = @ \cup {b.locked}]
      /\ bal \in [Row -> Balance] /\ past \in [Row -> SUBSET Nat]
  BY <1>3, <1>5 DEF Write, Balance, TypeOK
<1>7. bal' \in [Row -> Balance] /\ past' \in [Row -> SUBSET Nat]
  <2>1. past[r] \cup {b.locked} \in SUBSET Nat
    BY <1>3, <1>6
  <2>. QED  BY <1>3, <1>6, <2>1
<1>8. TypeOK'
  <2>1. stale' \in SUBSET Row
    BY <1>5 DEF TypeOK
  <2>. QED  BY <1>4, <1>5, <1>7, <2>1 DEF TypeOK, ReconType, Balance
<1>9. RowAtHand'
  BY <1>4 DEF RowAtHand
<1>10. \A s \in Row : /\ Held(s)' = Held(s) /\ Ever(s)' = Ever(s)
                      /\ Held(s) \in Nat /\ Ever(s) \in Nat
  BY <1>5, HeldInNat, HeldByNoChange
<1>11. /\ bal'[r].locked = 0 /\ past'[r] = past[r] \cup {0}
       /\ \A s \in Row \ {r} : bal'[s] = bal[s] /\ past'[s] = past[s]
  BY <1>3, <1>6
<1>12. ASSUME NEW s \in Row
       PROVE  /\ bal'[s].locked <= IF s \in stale' THEN Ever(s)' ELSE Held(s)'
              /\ bal'[s].locked \in past'[s]
              /\ \A l \in past'[s] : l <= Ever(s)'
  <2>1. CASE s # r
    BY <1>5, <1>10, <1>11, <2>1, RowFacts
  <2>2. CASE s = r
    BY <1>10, <1>11, <2>2, RowFacts
  <2>. QED  BY <2>1, <2>2
<1>13. LockedIsHeld' /\ PastWasLocked'
  BY <1>12, LockedBoundsNext
<1>. QED  BY <1>8, <1>9, <1>13 DEF ReconInv

LEMMA ReconStep == ReconInv /\ [Next]_vars => ReconInv'
<1> SUFFICES ASSUME ReconInv, [Next]_vars PROVE ReconInv'
  OBVIOUS
<1>1. CASE UNCHANGED vars
  BY <1>1 DEF vars, ReconInv, TypeOK, RowAtHand, LockedIsHeld, Holders,
              PastWasLocked, Lockers
<1>2. CASE Round
  BY <1>2, StartRoundStep, CompareStep, OverwriteStep, NextTokenStep,
     EndRoundStep, ListRowsStep, AskChainStep DEF Round
<1>3. CASE Next
  BY <1>2, <1>3, OpenStep, CloseStep, CreditStep, TradeStep, ChainStep,
     AbortRoundStep, SkipTokenStep, SkipRowStep DEF Next
<1>. QED  BY <1>1, <1>3

-----------------------------------------------------------------------------
(* Theorems *)

\* The strengthened invariant holds in every reachable state.
THEOREM ReconInvariant == Spec => []ReconInv
BY InitRecon, ReconStep, PTL DEF Spec

\* Every variable keeps its type: no interleaving of orders, trades and
\* overwritten rows makes a balance negative.
THEOREM TypeCorrect == Spec => []TypeOK
BY ReconInvariant, PTL DEF ReconInv

\* performReconciliation against lockBalance, unlockBalance and the writes of
\* updateBalanceInternal: a row never has more locked than its open orders
\* hold, unless a locked amount read earlier was written back, and never more
\* than its orders ever locked.
THEOREM NothingLockedForNobody == Spec => []LockedIsHeld
BY ReconInvariant, PTL DEF ReconInv

=============================================================================
