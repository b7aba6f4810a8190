------------------------- MODULE QuotaGatewayProofs --------------------------
(***************************************************************************)
(* The daily quota, for any number of attempts, requests and days and any  *)
(* limit: the hashes by themselves (DailyQuota), and with the gateways and *)
(* the agent around them (QuotaGateway).                                   *)
(***************************************************************************)
EXTENDS QuotaGateway, FiniteSetTheorems, TLAPS

\* A hash that adds up by itself: what LedgerAddsUp says of each day.
AddsUp(l) ==
  /\ l.committed = Cardinality(In(l, "delivered"))
  /\ l.reserved = Cardinality(In(l, "reserved"))
  /\ l.committed + l.reserved <= Limit

WellFormed(l) == l \in LedgerType /\ AddsUp(l)

\* The counters are typed because they add up: giving back a reservation takes
\* one from a counter that the entry itself keeps above zero.
IInv == TypeOK /\ LedgerAddsUp

-----------------------------------------------------------------------------
(* The hash.                                                               *)

LEMMA FiniteIn ==
  ASSUME NEW l, NEW e
  PROVE  IsFiniteSet(In(l, e)) /\ Cardinality(In(l, e)) \in Nat
BY RequestsAssumption, FS_Subset, FS_CardinalityType DEF In

LEMMA EmptyWellFormed == WellFormed(EmptyLedger)
<1>1. In(EmptyLedger, "delivered") = {} /\ In(EmptyLedger, "reserved") = {}
  BY DEF In, EmptyLedger
<1>2. EmptyLedger \in LedgerType
  BY DEF EmptyLedger, LedgerType, Entries
<1>3. AddsUp(EmptyLedger)
  BY <1>1, FS_EmptySet, LimitAssumption DEF AddsUp, EmptyLedger
<1> QED BY <1>2, <1>3 DEF WellFormed

\* A new reservation, where there is room for it.
LEMMA ReservedWellFormed ==
  ASSUME NEW l, WellFormed(l), NEW r \in Requests,
         l.entry[r] = "none", l.committed + l.reserved < Limit
  PROVE  WellFormed(Reserved(l, r))
<1> DEFINE n == Reserved(l, r)
<1>1. l \in LedgerType /\ AddsUp(l)
  BY DEF WellFormed
<1>2. /\ n.entry = [l.entry EXCEPT ![r] = "reserved"]
      /\ n.committed = l.committed
      /\ n.reserved = l.reserved + 1
      /\ n \in LedgerType
  <2>1. /\ l.entry \in [Requests -> Entries]
        /\ l.committed \in Nat /\ l.reserved \in Nat /\ l.revision \in Nat
    BY <1>1 DEF LedgerType
  <2>2. n = [entry |-> [l.entry EXCEPT ![r] = "reserved"], committed |-> l.committed,
             reserved |-> l.reserved + 1, revision |-> l.revision + 1]
    BY DEF Reserved
  <2>3. [l.entry EXCEPT ![r] = "reserved"] \in [Requests -> Entries]
    BY <2>1 DEF Entries
  <2> HIDE DEF n
  <2> QED BY <2>1, <2>2, <2>3 DEF LedgerType
<1>3. In(n, "delivered") = In(l, "delivered") /\ In(n, "reserved") = In(l, "reserved") \union {r}
  BY <1>1, <1>2 DEF In, LedgerType
<1>4. r \notin In(l, "reserved")
  BY DEF In
<1>5. Cardinality(In(n, "reserved")) = l.reserved + 1
  BY <1>1, <1>3, <1>4, FiniteIn, FS_AddElement DEF AddsUp
<1>6. AddsUp(n)
  BY <1>1, <1>2, <1>3, <1>5, LimitAssumption DEF AddsUp, LedgerType
<1> QED BY <1>2, <1>6 DEF WellFormed

\* A reservation that is charged or given back.
LEMMA ChargedWellFormed ==
  ASSUME NEW l, WellFormed(l), NEW r \in Requests, l.entry[r] = "reserved"
  PROVE  WellFormed(Charged(l, r))
<1> DEFINE n == Charged(l, r)
<1>1. l \in LedgerType /\ AddsUp(l)
  BY DEF WellFormed
<1>2. r \in In(l, "reserved") /\ r \notin In(l, "delivered")
  BY DEF In
<1>3. Cardinality(In(l, "reserved") \ {r}) = l.reserved - 1
  <2>1. Cardinality(In(l, "reserved")) = l.reserved
    BY <1>1 DEF AddsUp
  <2>2. Cardinality(In(l, "reserved") \ {r}) = Cardinality(In(l, "reserved")) - 1
    BY <1>1, <1>2, FiniteIn, FS_RemoveElement
  <2> QED BY <2>1, <2>2
<1>4. l.reserved - 1 \in Nat
  <2>1. IsFiniteSet(In(l, "reserved") \ {r})
    BY <1>1, <1>2, FiniteIn, FS_RemoveElement
  <2> QED BY <1>3, <2>1, FS_CardinalityType
<1>5. /\ n.entry = [l.entry EXCEPT ![r] = "delivered"]
      /\ n.committed = l.committed + 1
      /\ n.reserved = l.reserved - 1
      /\ n \in LedgerType
  <2>1. /\ l.entry \in [Requests -> Entries]
        /\ l.committed \in Nat /\ l.reserved \in Nat /\ l.revision \in Nat
    BY <1>1 DEF LedgerType
  <2>2. n = [entry |-> [l.entry EXCEPT ![r] = "delivered"], committed |-> l.committed + 1,
             reserved |-> l.reserved - 1, revision |-> l.revision + 1]
    BY DEF Charged
  <2>3. [l.entry EXCEPT ![r] = "delivered"] \in [Requests -> Entries]
    BY <2>1 DEF Entries
  <2> HIDE DEF n
  <2> QED BY <1>4, <2>1, <2>2, <2>3 DEF LedgerType
<1>6. /\ In(n, "delivered") = In(l, "delivered") \union {r}
      /\ In(n, "reserved") = In(l, "reserved") \ {r}
  BY <1>1, <1>5 DEF In, LedgerType
<1>7. Cardinality(In(n, "delivered")) = l.committed + 1
  BY <1>1, <1>2, <1>6, FiniteIn, FS_AddElement DEF AddsUp
<1>8. AddsUp(n)
  <2>1. l.committed \in Nat /\ l.reserved \in Nat /\ l.committed + l.reserved <= Limit
    BY <1>1 DEF AddsUp, LedgerType
  <2>2. (l.committed + 1) + (l.reserved - 1) <= Limit
    BY <2>1, LimitAssumption
  <2> HIDE DEF n
  <2> QED BY <1>3, <1>5, <1>6, <1>7, <2>2 DEF AddsUp
<1> QED BY <1>5, <1>8 DEF WellFormed

LEMMA ReleasedWellFormed ==
  ASSUME NEW l, WellFormed(l), NEW r \in Requests, l.entry[r] = "reserved"
  PROVE  WellFormed(Released(l, r))
<1> DEFINE n == Released(l, r)
<1>1. l \in LedgerType /\ AddsUp(l)
  BY DEF WellFormed
<1>2. r \in In(l, "reserved")
  BY DEF In
<1>3. Cardinality(In(l, "reserved") \ {r}) = l.reserved - 1
  <2>1. Cardinality(In(l, "reserved")) = l.reserved
    BY <1>1 DEF AddsUp
  <2>2. Cardinality(In(l, "reserved") \ {r}) = Cardinality(In(l, "reserved")) - 1
    BY <1>1, <1>2, FiniteIn, FS_RemoveElement
  <2> QED BY <2>1, <2>2
<1>4. l.reserved - 1 \in Nat
  <2>1. IsFiniteSet(In(l, "reserved") \ {r})
    BY <1>1, <1>2, FiniteIn, FS_RemoveElement
  <2> QED BY <1>3, <2>1, FS_CardinalityType
<1>5. /\ n.entry = [l.entry EXCEPT ![r] = "none"]
      /\ n.committed = l.committed
      /\ n.reserved = l.reserved - 1
      /\ n \in LedgerType
  <2>1. /\ l.entry \in [Requests -> Entries]
        /\ l.committed \in Nat /\ l.reserved \in Nat /\ l.revision \in Nat
    BY <1>1 DEF LedgerType
  <2>2. n = [entry |-> [l.entry EXCEPT ![r] = "none"], committed |-> l.committed,
             reserved |-> l.reserved - 1, revision |-> l.revision + 1]
    BY DEF Released
  <2>3. [l.entry EXCEPT ![r] = "none"] \in [Requests -> Entries]
    BY <2>1 DEF Entries
  <2> HIDE DEF n
  <2> QED BY <1>4, <2>1, <2>2, <2>3 DEF LedgerType
<1>6. /\ In(n, "delivered") = In(l, "delivered")
      /\ In(n, "reserved") = In(l, "reserved") \ {r}
  BY <1>1, <1>5 DEF In, LedgerType
<1>7. AddsUp(n)
  <2>1. l.committed \in Nat /\ l.reserved \in Nat /\ l.committed + l.reserved <= Limit
    BY <1>1 DEF AddsUp, LedgerType
  <2>2. l.committed + (l.reserved - 1) <= Limit
    BY <2>1, LimitAssumption
  <2>3. Cardinality(In(l, "delivered")) = l.committed
    BY <1>1 DEF AddsUp
  <2> HIDE DEF n
  <2> QED BY <1>3, <1>5, <1>6, <2>2, <2>3 DEF AddsUp
<1> QED BY <1>5, <1>7 DEF WellFormed

LEMMA SettledWellFormed ==
  ASSUME NEW l, WellFormed(l), NEW r \in Requests, NEW o
  PROVE  WellFormed(Settled(l, r, o))
<1>1. CASE l.entry[r] = "reserved" /\ o = "delivered"
  BY <1>1, ChargedWellFormed DEF Settled
<1>2. CASE l.entry[r] = "reserved" /\ o = "failed"
  BY <1>2, ReleasedWellFormed DEF Settled
<1>3. CASE ~(l.entry[r] = "reserved" /\ o \in {"delivered", "failed"})
  BY <1>3 DEF Settled
<1> QED BY <1>1, <1>2, <1>3

LEMMA ShownType ==
  ASSUME NEW d \in Days, NEW l, WellFormed(l)
  PROVE  Shown(d, l) \in SnapshotType
<1>1. l.committed \in Nat /\ l.reserved \in Nat /\ l.revision \in Nat
  BY DEF WellFormed, LedgerType
<1>2. l.committed + l.reserved \in Nat
  BY <1>1
<1> QED BY <1>1, <1>2 DEF Shown, SnapshotType

\* The invariant, day by day.
LEMMA DayByDay ==
  (ledger \in [Days -> LedgerType] /\ LedgerAddsUp)
    <=> (ledger \in [Days -> LedgerType] /\ \A d \in Days : WellFormed(ledger[d]))
BY DEF LedgerAddsUp, WellFormed, AddsUp

\* Writing a well-formed hash, and letting it expire, keeps every day well formed.
LEMMA KeepWellFormed ==
  ASSUME IInv, NEW e \in Days, NEW n, WellFormed(n), ledger' = Keep(e, n)
  PROVE  ledger' \in [Days -> LedgerType] /\ LedgerAddsUp'
<1>1. ledger \in [Days -> LedgerType] /\ \A d \in Days : WellFormed(ledger[d])
  BY DayByDay DEF IInv, TypeOK
<1>2. n \in LedgerType /\ EmptyLedger \in LedgerType
  BY EmptyWellFormed DEF WellFormed
<1>3. ledger' \in [Days -> LedgerType]
  BY <1>1, <1>2 DEF Keep
<1>4. ASSUME NEW d \in Days PROVE WellFormed(ledger'[d])
  BY <1>1, EmptyWellFormed DEF Keep
<1>5. ASSUME NEW d \in Days PROVE AddsUp(ledger'[d])
  BY <1>4 DEF WellFormed
<1>6. LedgerAddsUp'
  BY <1>5 DEF LedgerAddsUp, AddsUp, In
<1> QED BY <1>3, <1>6

-----------------------------------------------------------------------------
(* Every reachable state adds up.                                          *)

LEMMA InitIInv == Init => IInv
<1> SUFFICES ASSUME Init PROVE IInv
  OBVIOUS
<1>1. EmptyLedger \in LedgerType
  BY EmptyWellFormed DEF WellFormed
<1>2. TypeOK
  BY <1>1, LimitAssumption DEF Init, TypeOK, Days, Positions, Outcomes, SnapshotType, NoSnapshot
<1>3. \A d \in Days : WellFormed(ledger[d])
  BY EmptyWellFormed DEF Init
<1> QED BY <1>2, <1>3, DayByDay DEF IInv, TypeOK

\* The days an attempt can find its request under.
LEMMA KnowingDay ==
  ASSUME IInv, NEW a \in Attempts, HashesKnowing(a) # {}
  PROVE  (IF date[a] \in HashesKnowing(a) THEN date[a] ELSE date[a] - 1) \in Days
BY DEF IInv, TypeOK, HashesKnowing, Days

\* Of the typing, all but the ledger; steps that leave the ledger alone.
LEMMA UntouchedLedger ==
  ASSUME IInv, UNCHANGED ledger
  PROVE  ledger' \in [Days -> LedgerType] /\ LedgerAddsUp'
BY DEF IInv, TypeOK, LedgerAddsUp, In

LEMMA ReserveKeepsIInv ==
  ASSUME IInv, NEW a \in Attempts, Reserve(a)
  PROVE  IInv'
<1> USE DEF IInv, TypeOK, Positions
<1>1. date[a] \in Days /\ req[a] \in Requests /\ WellFormed(ledger[date[a]])
  BY DayByDay
<1>2. CASE ReserveKnown(a)
  <2> DEFINE d == IF date[a] \in HashesKnowing(a) THEN date[a] ELSE date[a] - 1
  <2>1. d \in Days
    BY <1>2, KnowingDay DEF ReserveKnown
  <2>2. Shown(date[a], ledger[date[a]]) \in SnapshotType
    BY <1>1, ShownType
  <2> HIDE DEF d
  <2>3. Granted(a, d, Shown(date[a], ledger[date[a]]))
    BY <1>2 DEF ReserveKnown, d
  <2>4. source' \in [Attempts -> Days] /\ snapshot' \in [Attempts -> SnapshotType]
        /\ pc' \in [Attempts -> Positions]
    BY <2>1, <2>2, <2>3 DEF Granted, Go
  <2> QED BY <1>2, <2>4, UntouchedLedger DEF ReserveKnown
<1>3. CASE ReserveExhausted(a)
  <2>1. Shown(date[a], ledger[date[a]]) \in SnapshotType
    BY <1>1, ShownType
  <2>2. snapshot' \in [Attempts -> SnapshotType] /\ pc' \in [Attempts -> Positions]
    BY <1>3, <2>1 DEF ReserveExhausted, Go
  <2> QED BY <1>3, <2>2, UntouchedLedger DEF ReserveExhausted
<1>4. CASE ReserveNew(a)
  <2> DEFINE n == Reserved(ledger[date[a]], req[a])
  <2>1. WellFormed(n)
    <3>1. ledger[date[a]].entry[req[a]] = "none"
      BY <1>1, <1>4 DEF ReserveNew, HashesKnowing
    <3> QED BY <1>1, <1>4, <3>1, ReservedWellFormed DEF ReserveNew, Room
  <2>2. Shown(date[a], n) \in SnapshotType
    BY <1>1, <2>1, ShownType
  <2> HIDE DEF n
  <2>3. Granted(a, date[a], Shown(date[a], n)) /\ ledger' = Keep(date[a], n)
    BY <1>4 DEF ReserveNew, n
  <2>4. source' \in [Attempts -> Days] /\ snapshot' \in [Attempts -> SnapshotType]
        /\ pc' \in [Attempts -> Positions]
    BY <1>1, <2>2, <2>3 DEF Granted, Go
  <2>5. ledger' \in [Days -> LedgerType] /\ LedgerAddsUp'
    BY <1>1, <2>1, <2>3, KeepWellFormed
  <2> QED BY <1>4, <2>4, <2>5 DEF ReserveNew
<1>5. CASE ReserveFails(a)
  BY <1>5, UntouchedLedger DEF ReserveFails, Go
<1> QED BY <1>2, <1>3, <1>4, <1>5 DEF Reserve

LEMMA SettleKeepsIInv ==
  ASSUME IInv, NEW a \in Attempts, Settle(a)
  PROVE  IInv'
<1> USE DEF IInv, TypeOK, Positions
<1> DEFINE d == source[a]
           n == Settled(ledger[d], req[a], outcome[a])
<1>1. d \in Days /\ req[a] \in Requests /\ WellFormed(ledger[d])
  BY DayByDay
<1>2. WellFormed(n)
  BY <1>1, SettledWellFormed
<1>3. Shown(d, n) \in SnapshotType
  BY <1>1, <1>2, ShownType
<1>4. snapshot' \in [Attempts -> SnapshotType] /\ pc' \in [Attempts -> Positions]
  <2> HIDE DEF n
  <2>1. /\ snapshot' = [snapshot EXCEPT ![a] = Shown(d, n)] \/ UNCHANGED snapshot
        /\ \E p \in Positions : Go(a, p)
    BY DEF Settle, n
  <2> QED BY <1>3, <2>1 DEF Go
<1>5. ledger' = Keep(d, n) \/ UNCHANGED ledger
  BY DEF Settle
<1>6. ledger' \in [Days -> LedgerType] /\ LedgerAddsUp'
  <2> HIDE DEF n
  <2> QED BY <1>1, <1>2, <1>5, KeepWellFormed, UntouchedLedger
<1> QED BY <1>4, <1>6 DEF Settle

LEMMA TickKeepsIInv ==
  ASSUME IInv, Tick
  PROVE  IInv'
<1>1. ledger \in [Days -> LedgerType] /\ \A d \in Days : WellFormed(ledger[d])
  BY DayByDay DEF IInv, TypeOK
<1>2. ASSUME NEW d \in Days PROVE WellFormed(ledger'[d])
  BY <1>1, EmptyWellFormed DEF Tick
<1>3. ledger' \in [Days -> LedgerType]
  BY <1>1, EmptyWellFormed DEF Tick, WellFormed
<1>4. ASSUME NEW d \in Days PROVE AddsUp(ledger'[d])
  BY <1>2 DEF WellFormed
<1>5. LedgerAddsUp'
  BY <1>4 DEF LedgerAddsUp, AddsUp, In
<1>6. day' \in Days \ {0}
  BY LimitAssumption DEF Tick, IInv, TypeOK, Days
<1> QED BY <1>3, <1>5, <1>6 DEF Tick, IInv, TypeOK, attemptVars

LEMMA NextKeepsIInv == IInv /\ [Next]_quotaVars => IInv'
<1> SUFFICES ASSUME IInv, [Next]_quotaVars PROVE IInv'
  OBVIOUS
<1>1. ASSUME NEW a \in Attempts, Arrive(a) \/ Look(a) PROVE IInv'
  <2>1. day \in Days \ {0}
    BY DEF IInv, TypeOK
  <2> QED BY <1>1, <2>1, UntouchedLedger DEF Arrive, Look, Go, IInv, TypeOK, Positions
<1>2. ASSUME NEW a \in Attempts, Reserve(a) PROVE IInv'
  BY <1>2, ReserveKeepsIInv
<1>3. ASSUME NEW a \in Attempts, NEW o \in Outcomes, BeginSettle(a, o) PROVE IInv'
  BY <1>3, UntouchedLedger DEF BeginSettle, Go, IInv, TypeOK, Positions
<1>4. ASSUME NEW a \in Attempts, Settle(a) PROVE IInv'
  BY <1>4, SettleKeepsIInv
<1>5. ASSUME NEW a \in Attempts, Read(a) PROVE IInv'
  <2>1. Shown(date[a], ledger[date[a]]) \in SnapshotType
    BY DayByDay, ShownType DEF IInv, TypeOK
  <2>2. snapshot' \in [Attempts -> SnapshotType] /\ pc' \in [Attempts -> Positions]
    BY <1>5, <2>1 DEF Read, Go, IInv, TypeOK, Positions
  <2> QED BY <1>5, <2>2, UntouchedLedger DEF Read, IInv, TypeOK
<1>6. ASSUME NEW a \in Attempts, Abandon(a) PROVE IInv'
  BY <1>6, UntouchedLedger DEF Abandon, Go, IInv, TypeOK, Positions
<1>7. CASE Tick
  BY <1>7, TickKeepsIInv
<1>8. CASE UNCHANGED quotaVars
  BY <1>8, UntouchedLedger DEF quotaVars, attemptVars, IInv, TypeOK
<1> QED BY <1>1, <1>2, <1>3, <1>4, <1>5, <1>6, <1>7, <1>8 DEF Next

\* The scripts Reserve, Complete and Rollback keep the hash in its types, its counters
\* the sums of its entries, in whatever order they run.
THEOREM InvariantHolds == Spec => []IInv
BY InitIInv, NextKeepsIInv, PTL DEF Spec

\* Types: in particular no counter of the hash ever goes below zero, so the clamp
\* of settleScript and limitedSnapshot (quota.go) has nothing to clamp.
THEOREM TypeCorrect == Spec => []TypeOK
<1>1. IInv => TypeOK
  BY DEF IInv
<1> QED BY <1>1, InvariantHolds, PTL

\* reserveScript and settleScript keep the counters equal to the entries and
\* under the ceiling, however many attempts share, repeat or abandon them.
THEOREM CeilingHolds == Spec => []LedgerAddsUp
<1>1. IInv => LedgerAddsUp
  BY DEF IInv
<1> QED BY <1>1, InvariantHolds, PTL

-----------------------------------------------------------------------------
(* What a step may do to a hash.                                           *)

\* One entry of a living hash moves, from none to reserved or from reserved on.
Moves(d) ==
  \E r \in Requests :
    \/ ledger[d].entry[r] = "none" /\ ledger'[d] = Reserved(ledger[d], r)
    \/ ledger[d].entry[r] = "reserved" /\ ledger'[d] = Charged(ledger[d], r)
    \/ ledger[d].entry[r] = "reserved" /\ ledger'[d] = Released(ledger[d], r)

LEMMA LedgerStep ==
  ASSUME IInv, [Next]_quotaVars, NEW d \in Days, ~Expired(d)'
  PROVE  ledger'[d] = ledger[d] \/ Moves(d)
<1> USE DEF IInv, TypeOK
<1>1. CASE UNCHANGED ledger
  BY <1>1
<1>2. ASSUME NEW a \in Attempts, ReserveNew(a)
      PROVE  ledger'[d] = ledger[d] \/ Moves(d)
  <2>1. req[a] \in Requests /\ ledger[date[a]].entry[req[a]] = "none"
    BY <1>2 DEF ReserveNew, HashesKnowing
  <2>2. ~Expired(d)
    BY <1>2 DEF ReserveNew, Expired
  <2>3. ledger' = Keep(date[a], Reserved(ledger[date[a]], req[a]))
    BY <1>2 DEF ReserveNew
  <2>4. CASE d = date[a]
    BY <2>1, <2>2, <2>3, <2>4 DEF Keep, Moves
  <2>5. CASE d # date[a]
    BY <2>3, <2>5 DEF Keep
  <2> QED BY <2>4, <2>5
<1>3. ASSUME NEW a \in Attempts, Settle(a)
      PROVE  ledger'[d] = ledger[d] \/ Moves(d)
  <2> DEFINE l == ledger[source[a]]
             n == Settled(l, req[a], outcome[a])
  <2>1. \/ n = l
        \/ l.entry[req[a]] = "reserved" /\ n \in {Charged(l, req[a]), Released(l, req[a])}
    BY DEF Settled
  <2>2. ~Expired(d) /\ req[a] \in Requests
    BY <1>3 DEF Settle, Expired
  <2>3. ledger' = Keep(source[a], n) \/ UNCHANGED ledger
    BY <1>3 DEF Settle
  <2> HIDE DEF n
  <2>4. CASE d = source[a]
    BY <2>1, <2>2, <2>3, <2>4 DEF Keep, Moves
  <2>5. CASE d # source[a]
    BY <2>3, <2>5 DEF Keep
  <2> QED BY <2>4, <2>5
<1>4. CASE Tick
  <2>1. ~(day + 1 >= d + 2)
    BY <1>4 DEF Tick, Expired
  <2> QED BY <1>4, <2>1 DEF Tick
<1>5. CASE UNCHANGED quotaVars
  BY <1>5 DEF quotaVars
<1> QED
  BY <1>1, <1>2, <1>3, <1>4, <1>5
  DEF Next, Arrive, Look, Reserve, ReserveKnown, ReserveExhausted, ReserveFails,
      BeginSettle, Read, Abandon

\* settleScript never gives back a unit that was charged: no attempt, however late
\* its settlement, undoes what another delivered under the same request id.
THEOREM ChargeIsFinal == Spec => DeliveredIsFinal
<1>1. ASSUME IInv, [Next]_quotaVars, NEW d \in Days, NEW r \in Requests,
             ledger[d].entry[r] = "delivered", ~Expired(d)'
      PROVE  ledger'[d].entry[r] = "delivered"
  <2>1. ledger[d].entry \in [Requests -> Entries]
    BY <1>1 DEF IInv, TypeOK, LedgerType
  <2>2. ledger'[d] = ledger[d] \/ Moves(d)
    BY <1>1, LedgerStep
  <2>3. ASSUME NEW s \in Requests, ledger[d].entry[s] # "delivered",
               ledger'[d] \in {Reserved(ledger[d], s), Charged(ledger[d], s),
                               Released(ledger[d], s)}
        PROVE  ledger'[d].entry[r] = "delivered"
    BY <1>1, <2>1, <2>3 DEF Reserved, Charged, Released
  <2> QED BY <1>1, <2>2, <2>3 DEF Moves
<1>2. IInv /\ [Next]_quotaVars =>
        [\A d \in Days, r \in Requests :
           ledger[d].entry[r] = "delivered" /\ ~Expired(d)'
             => ledger'[d].entry[r] = "delivered"]_quotaVars
  BY <1>1
<1> QED BY <1>2, InvariantHolds, PTL DEF Spec, DeliveredIsFinal

\* The revision shown with every snapshot, by which a client can order them, moves
\* exactly when the entries do (quota.go, reserveScript and settleScript).
THEOREM RevisionIsFaithful == Spec => RevisionCountsChanges
<1>1. ASSUME IInv, [Next]_quotaVars, NEW d \in Days, ~Expired(d)'
      PROVE  ledger'[d].revision = ledger[d].revision
                                   + (IF ledger'[d].entry # ledger[d].entry THEN 1 ELSE 0)
  <2>1. ledger[d].entry \in [Requests -> Entries] /\ ledger[d].revision \in Nat
    BY <1>1 DEF IInv, TypeOK, LedgerType
  <2>2. ledger'[d] = ledger[d] \/ Moves(d)
    BY <1>1, LedgerStep
  <2>3. CASE ledger'[d] = ledger[d]
    BY <2>1, <2>3
  <2>4. ASSUME NEW s \in Requests, NEW e, ledger[d].entry[s] # e,
               ledger'[d].entry = [ledger[d].entry EXCEPT ![s] = e],
               ledger'[d].revision = ledger[d].revision + 1
        PROVE  ledger'[d].revision = ledger[d].revision
                                     + (IF ledger'[d].entry # ledger[d].entry THEN 1 ELSE 0)
    <3>1. ledger'[d].entry[s] = e
      BY <2>1, <2>4
    <3> QED BY <2>4, <3>1
  <2>5. CASE Moves(d)
    <3>1. PICK s \in Requests :
            \/ ledger[d].entry[s] = "none" /\ ledger'[d] = Reserved(ledger[d], s)
            \/ ledger[d].entry[s] = "reserved" /\ ledger'[d] = Charged(ledger[d], s)
            \/ ledger[d].entry[s] = "reserved" /\ ledger'[d] = Released(ledger[d], s)
      BY <2>5 DEF Moves
    <3>2. CASE ledger[d].entry[s] = "none" /\ ledger'[d] = Reserved(ledger[d], s)
      BY <2>4, <3>2 DEF Reserved
    <3>3. CASE ledger[d].entry[s] = "reserved" /\ ledger'[d] = Charged(ledger[d], s)
      BY <2>4, <3>3 DEF Charged
    <3>4. CASE ledger[d].entry[s] = "reserved" /\ ledger'[d] = Released(ledger[d], s)
      BY <2>4, <3>4 DEF Released
    <3> QED BY <3>1, <3>2, <3>3, <3>4
  <2> QED BY <2>2, <2>3, <2>5
<1>2. IInv /\ [Next]_quotaVars =>
        [\A d \in Days : ~Expired(d)' =>
           ledger'[d].revision = ledger[d].revision
                                   + (IF ledger'[d].entry # ledger[d].entry THEN 1 ELSE 0)]_quotaVars
  BY <1>1
<1> QED BY <1>2, InvariantHolds, PTL DEF Spec, RevisionCountsChanges

-----------------------------------------------------------------------------
(* Snapshots of one day tell one story.                                    *)

\* A hash whose day is over by two is empty: what late scripts write is gone at once.
ExpiredAreGone == \A d \in Days : Expired(d) => ledger[d] = EmptyLedger

Now(d) == Shown(d, ledger[d])

\* Every hash, fresh or begun again, passes through the same first two revisions.
Early(s) == (s.revision = 0 => s.used = 0) /\ (s.revision = 1 => s.used = 1)

Agree(s, t) == s.revision = t.revision => s.used = t.used

\* A snapshot is not ahead of the living hash, and agrees with it.
Behind(s) == ~Expired(s.day) => s.revision <= Now(s.day).revision /\ Agree(s, Now(s.day))

SnapInv ==
  /\ ExpiredAreGone
  /\ \A d \in Days : Early(Now(d))
  /\ \A a \in Attempts : Early(snapshot[a]) /\ Behind(snapshot[a])
  /\ \A a, b \in Attempts : snapshot[a].day = snapshot[b].day => Agree(snapshot[a], snapshot[b])

LEMMA InitSnapInv == Init => SnapInv
<1> SUFFICES ASSUME Init PROVE SnapInv
  OBVIOUS
<1>1. \A d \in Days : ledger[d] = EmptyLedger
  BY DEF Init
<1>2. \A a \in Attempts : snapshot[a] = NoSnapshot
  BY DEF Init
<1>3. Early(NoSnapshot) /\ \A d \in Days : Early(Now(d))
  BY <1>1 DEF Early, NoSnapshot, Now, Shown, EmptyLedger
<1>4. Behind(NoSnapshot)
  <2>1. ledger[0] = EmptyLedger
    BY <1>1, LimitAssumption DEF Days
  <2> QED BY <2>1 DEF Behind, Agree, NoSnapshot, Now, Shown, EmptyLedger
<1> QED BY <1>1, <1>2, <1>3, <1>4 DEF SnapInv, ExpiredAreGone, Agree

LEMMA EmptyEarly ==
  ASSUME NEW d
  PROVE  Early(Shown(d, EmptyLedger))
  BY DEF Early, Shown, EmptyLedger

\* The step from a hash to the next one.
LEMMA EarlySteps ==
  ASSUME NEW d \in Days, NEW l, WellFormed(l), Early(Shown(d, l)), NEW r \in Requests
  PROVE  /\ l.entry[r] = "none" => Early(Shown(d, Reserved(l, r)))
         /\ l.entry[r] = "reserved" => Early(Shown(d, Charged(l, r))) /\ Early(Shown(d, Released(l, r)))
<1>1. l.committed \in Nat /\ l.reserved \in Nat /\ l.revision \in Nat
  BY DEF WellFormed, LedgerType
<1>2. l.revision = 0 => l.committed + l.reserved = 0
  BY DEF Early, Shown
<1>3. Early(Shown(d, Reserved(l, r)))
  BY <1>1, <1>2 DEF Early, Shown, Reserved
<1>4. ASSUME l.entry[r] = "reserved" PROVE l.revision # 0
  <2>1. In(l, "reserved") # {}
    BY <1>4 DEF In
  <2>2. l.reserved # 0
    BY <2>1, FiniteIn, FS_EmptySet DEF WellFormed, AddsUp
  <2> QED BY <1>1, <1>2, <2>2
<1>5. ASSUME l.revision # 0 PROVE Early(Shown(d, Charged(l, r))) /\ Early(Shown(d, Released(l, r)))
  BY <1>1, <1>5 DEF Early, Shown, Charged, Released
<1> QED BY <1>3, <1>4, <1>5

LEMMA SettledEarly ==
  ASSUME NEW d \in Days, NEW l, WellFormed(l), Early(Shown(d, l)), NEW r \in Requests, NEW o
  PROVE  Early(Shown(d, Settled(l, r, o)))
  BY EarlySteps DEF Settled

\* A hash written by a script: it is the day's hash for as long as that one lives.
LEMMA KeepGone ==
  ASSUME IInv, SnapInv, NEW e \in Days, NEW l, ledger' = Keep(e, l), UNCHANGED day
  PROVE  ExpiredAreGone' /\ (~Expired(e)' => ledger'[e] = l)
  BY DEF IInv, TypeOK, SnapInv, ExpiredAreGone, Keep, Expired

LEMMA GoneStep == IInv /\ SnapInv /\ [Next]_quotaVars => ExpiredAreGone'
<1> SUFFICES ASSUME IInv, SnapInv, [Next]_quotaVars PROVE ExpiredAreGone'
  OBVIOUS
<1> USE DEF IInv, TypeOK
<1>1. ASSUME UNCHANGED <<day, ledger>> PROVE ExpiredAreGone'
  BY <1>1 DEF SnapInv, ExpiredAreGone, Expired
<1>2. ASSUME NEW a \in Attempts, ReserveNew(a) PROVE ExpiredAreGone'
  BY <1>2, KeepGone DEF ReserveNew
<1>3. ASSUME NEW a \in Attempts, Settle(a) PROVE ExpiredAreGone'
  BY <1>1, <1>3, KeepGone DEF Settle
<1>4. CASE Tick
  BY <1>4 DEF Tick, ExpiredAreGone, Expired
<1>5. CASE UNCHANGED quotaVars
  BY <1>1, <1>5 DEF quotaVars
<1> QED
  BY <1>1, <1>2, <1>3, <1>4, <1>5
  DEF Next, Arrive, Look, Reserve, ReserveKnown, ReserveExhausted, ReserveFails,
      BeginSettle, Read, Abandon

\* What is shown is the day's hash after the step, or a hash begun after its day.
Fresh(d, l) == IF Expired(d)' THEN l.revision \in {0, 1} ELSE ledger'[d] = l

Reads(a) ==
  \/ snapshot'[a] = snapshot[a]
  \/ \E d \in Days, l \in LedgerType :
       snapshot'[a] = Shown(d, l) /\ Early(Shown(d, l)) /\ Fresh(d, l)

LEMMA SnapshotStep ==
  ASSUME IInv, SnapInv, [Next]_quotaVars, NEW a \in Attempts
  PROVE  Reads(a)
<1> USE DEF IInv, TypeOK
<1>1. \A d \in Days : WellFormed(ledger[d]) /\ ledger[d] \in LedgerType /\ Early(Shown(d, ledger[d]))
  BY DayByDay DEF SnapInv, Now
<1>2. ASSUME NEW k \in Attempts, NEW s, snapshot' = [snapshot EXCEPT ![k] = s] \/ UNCHANGED snapshot,
             NEW d \in Days, NEW l \in LedgerType, s = Shown(d, l), Early(Shown(d, l)), Fresh(d, l)
      PROVE  Reads(a)
  BY <1>2 DEF Reads
<1>3. ASSUME UNCHANGED snapshot PROVE Reads(a)
  BY <1>3 DEF Reads
<1>4. ASSUME NEW k \in Attempts, NEW d \in Days, UNCHANGED <<day, ledger>>,
             snapshot' = [snapshot EXCEPT ![k] = Shown(d, ledger[d])] \/ UNCHANGED snapshot
      PROVE  Reads(a)
  <2>1. Fresh(d, ledger[d])
    BY <1>4 DEF Fresh, SnapInv, ExpiredAreGone, Expired, EmptyLedger
  <2> QED BY <1>1, <1>2, <1>4, <2>1
<1>5. ASSUME NEW k \in Attempts, ReserveKnown(k) \/ ReserveExhausted(k) \/ Read(k) PROVE Reads(a)
  BY <1>4, <1>5 DEF ReserveKnown, ReserveExhausted, Read, Granted
<1>6. ASSUME NEW k \in Attempts, ReserveNew(k) PROVE Reads(a)
  <2>1. PICK d \in Days : d = date[k]
    OBVIOUS
  <2>2. PICK l : l = Reserved(ledger[d], req[k])
    OBVIOUS
  <2>3. /\ ledger' = Keep(d, l) /\ UNCHANGED day
        /\ snapshot' = [snapshot EXCEPT ![k] = Shown(d, l)] \/ UNCHANGED snapshot
    BY <1>6, <2>1, <2>2 DEF ReserveNew, Granted
  <2>4. ledger[d].entry[req[k]] = "none" /\ ledger[d].committed + ledger[d].reserved < Limit
    BY <1>6, <2>1 DEF ReserveNew, Room, HashesKnowing
  <2>5. l \in LedgerType /\ Early(Shown(d, l))
    BY <1>1, <2>2, <2>4, ReservedWellFormed, EarlySteps DEF WellFormed
  <2>6. Fresh(d, l)
    <3>1. Expired(d)' => ledger[d] = EmptyLedger
      BY <2>3 DEF SnapInv, ExpiredAreGone, Expired
    <3> QED BY <2>2, <2>3, <3>1, KeepGone DEF Fresh, Reserved, EmptyLedger
  <2> QED BY <1>2, <2>3, <2>5, <2>6
<1>7. ASSUME NEW k \in Attempts, Settle(k) PROVE Reads(a)
  <2>1. PICK d \in Days : d = source[k]
    OBVIOUS
  <2>2. PICK l : l = Settled(ledger[d], req[k], outcome[k])
    OBVIOUS
  <2>3. \/ UNCHANGED snapshot
        \/ /\ ledger' = Keep(d, l) /\ UNCHANGED day
           /\ snapshot' = [snapshot EXCEPT ![k] = Shown(d, l)]
    BY <1>7, <2>1, <2>2 DEF Settle
  <2>4. l \in LedgerType /\ Early(Shown(d, l))
    BY <1>1, <2>2, SettledWellFormed, SettledEarly DEF WellFormed
  <2>5. CASE UNCHANGED snapshot
    BY <1>3, <2>5
  <2>6. CASE ledger' = Keep(d, l) /\ UNCHANGED day
    <3>1. Expired(d)' => ledger[d] = EmptyLedger
      BY <2>6 DEF SnapInv, ExpiredAreGone, Expired
    <3>2. req[k] \in Requests
      OBVIOUS
    <3>3. Expired(d)' => l = EmptyLedger
      BY <2>2, <3>1, <3>2 DEF Settled, EmptyLedger
    <3>4. Fresh(d, l)
      BY <2>6, <3>3, KeepGone DEF Fresh, EmptyLedger
    <3> QED BY <1>2, <2>3, <2>4, <2>5, <2>6, <3>4
  <2> QED BY <2>3, <2>5, <2>6
<1> QED
  BY <1>3, <1>5, <1>6, <1>7
  DEF Next, Arrive, Look, Reserve, ReserveFails, BeginSettle, Abandon, Tick, quotaVars, attemptVars

\* A living hash moves on, by revisions.
LEMMA HashStep ==
  ASSUME IInv, SnapInv, [Next]_quotaVars, NEW d \in Days
  PROVE  /\ Early(Now(d))'
         /\ ~Expired(d)' => /\ ~Expired(d)
                            /\ ledger'[d] = ledger[d] \/ ledger'[d].revision = ledger[d].revision + 1
<1> USE DEF IInv, TypeOK
<1>1. WellFormed(ledger[d]) /\ Early(Shown(d, ledger[d]))
  BY DayByDay DEF SnapInv, Now
<1>2. CASE Expired(d)'
  BY <1>2, GoneStep, EmptyEarly DEF ExpiredAreGone, Now
<1>3. CASE ~Expired(d)'
  <2>1. ledger'[d] = ledger[d] \/ Moves(d)
    BY <1>3, LedgerStep
  <2>2. ~Expired(d)
    <3>1. day \in Nat /\ (day' = day \/ day' = day + 1)
      BY DEF Days, Next, Arrive, Look, Reserve, ReserveKnown, ReserveExhausted, ReserveNew, ReserveFails,
         BeginSettle, Settle, Read, Abandon, Tick, quotaVars
    <3> QED BY <1>3, <3>1 DEF Expired, Days
  <2>3. CASE ledger'[d] = ledger[d]
    BY <1>1, <2>2, <2>3 DEF Now
  <2>4. CASE Moves(d)
    <3>1. PICK r \in Requests :
            \/ ledger[d].entry[r] = "none" /\ ledger'[d] = Reserved(ledger[d], r)
            \/ ledger[d].entry[r] = "reserved" /\ ledger'[d] = Charged(ledger[d], r)
            \/ ledger[d].entry[r] = "reserved" /\ ledger'[d] = Released(ledger[d], r)
      BY <2>4 DEF Moves
    <3>2. Early(Shown(d, ledger'[d]))
      BY <1>1, <3>1, EarlySteps
    <3>3. ledger'[d].revision = ledger[d].revision + 1
      BY <3>1 DEF Reserved, Charged, Released
    <3> QED BY <2>2, <3>2, <3>3 DEF Now
  <2> QED BY <2>1, <2>3, <2>4
<1> QED BY <1>2, <1>3

LEMMA ReadsTyped ==
  ASSUME NEW s \in SnapshotType, NEW t \in SnapshotType
  PROVE  s.revision \in Nat /\ t.revision \in Nat /\ s.used \in Nat /\ s.day \in Days
  BY DEF SnapshotType

LEMMA BehindStep ==
  ASSUME IInv, SnapInv, [Next]_quotaVars, NEW a \in Attempts,
         NEW s, s = snapshot'[a], ~Expired(s.day)'
  PROVE  s.revision <= ledger'[s.day].revision /\ Agree(s, Shown(s.day, ledger'[s.day]))
<1>1. IInv' /\ s \in SnapshotType /\ s.day \in Days
  BY NextKeepsIInv, ReadsTyped DEF IInv, TypeOK
<1>2. /\ s.revision \in Nat /\ ledger[s.day].revision \in Nat /\ ledger'[s.day].revision \in Nat
  BY <1>1, ReadsTyped DEF IInv, TypeOK, LedgerType
<1>3. CASE s = snapshot[a]
  <2>1. ~Expired(s.day) /\ (ledger'[s.day] = ledger[s.day]
                            \/ ledger'[s.day].revision = ledger[s.day].revision + 1)
    BY <1>1, HashStep
  <2>2. s.revision <= ledger[s.day].revision /\ Agree(s, Shown(s.day, ledger[s.day]))
    BY <1>3, <2>1 DEF SnapInv, Behind, Now, Shown
  <2> QED BY <1>2, <2>1, <2>2 DEF Agree, Shown
<1>4. CASE \E d \in Days, l \in LedgerType : s = Shown(d, l) /\ Fresh(d, l)
  <2>1. PICK d \in Days, l \in LedgerType : s = Shown(d, l) /\ Fresh(d, l)
    BY <1>4
  <2>2. s.day = d
    BY <2>1 DEF Shown
  <2>3. ledger'[s.day] = l /\ s.revision = l.revision
    BY <2>1, <2>2 DEF Shown, Expired, Fresh
  <2> QED BY <1>2, <2>1, <2>2, <2>3 DEF Agree
<1> QED BY <1>3, <1>4, SnapshotStep DEF Reads

LEMMA SnapInvStep == IInv /\ SnapInv /\ [Next]_quotaVars => SnapInv'
<1> SUFFICES ASSUME IInv, SnapInv, [Next]_quotaVars PROVE SnapInv'
  OBVIOUS
<1>1. snapshot \in [Attempts -> SnapshotType] /\ snapshot' \in [Attempts -> SnapshotType]
  BY NextKeepsIInv DEF IInv, TypeOK
<1>2. ExpiredAreGone' /\ \A d \in Days : Early(Now(d))'
  BY GoneStep, HashStep
<1>3. ASSUME NEW a \in Attempts PROVE Early(snapshot'[a])
  BY SnapshotStep DEF Reads, SnapInv
<1>4. ASSUME NEW a \in Attempts PROVE Behind(snapshot[a])'
  BY BehindStep DEF Behind, Now, Shown, Expired
<1>5. ASSUME NEW a \in Attempts, NEW b \in Attempts, snapshot'[a].day = snapshot'[b].day
      PROVE  Agree(snapshot'[a], snapshot'[b])
  <2>1. PICK s \in SnapshotType : s = snapshot'[a]
    BY <1>1
  <2>2. PICK t \in SnapshotType : t = snapshot'[b]
    BY <1>1
  <2>3. PICK d \in Days : d = s.day /\ d = t.day
    BY <1>5, <2>1, <2>2, ReadsTyped
  <2>4. ASSUME NEW k \in Attempts, NEW x \in SnapshotType, x = snapshot'[k], NEW o \in Attempts,
               NEW y \in SnapshotType, y = snapshot'[o], x.day = d, y.day = d,
               x # snapshot[k]
        PROVE  Agree(x, y) /\ Agree(y, x)
    <3>1. PICK l \in LedgerType : x = Shown(d, l) /\ Fresh(d, l)
      <4>1. PICK e \in Days, l \in LedgerType : x = Shown(e, l) /\ Fresh(e, l)
        BY <2>4, SnapshotStep DEF Reads
      <4>2. e = d
        BY <2>4, <4>1 DEF Shown
      <4> QED BY <4>1, <4>2
    <3>2. CASE ~Expired(d)'
      <4>1. ledger'[d] = l
        BY <3>1, <3>2 DEF Fresh
      <4>2. Agree(y, Shown(d, ledger'[d]))
        BY <2>4, <3>2, BehindStep
      <4> QED BY <3>1, <4>1, <4>2 DEF Agree
    <3>3. CASE Expired(d)'
      <4>1. x.revision \in {0, 1}
        BY <3>1, <3>3 DEF Fresh, Shown
      <4>2. Early(x) /\ Early(y)
        BY <1>3, <2>4
      <4> QED BY <4>1, <4>2 DEF Agree, Early
    <3> QED BY <3>2, <3>3
  <2>5. CASE s = snapshot[a] /\ t = snapshot[b]
    BY <2>1, <2>2, <2>3, <2>5 DEF SnapInv
  <2> QED BY <2>1, <2>2, <2>3, <2>4, <2>5
<1> QED BY <1>2, <1>3, <1>4, <1>5 DEF SnapInv

\* The revision shown with a snapshot puts the snapshots of a day in order, for any
\* number of attempts, lost replies and late scripts (quota.go, snapshotScript).
THEOREM SnapshotsInOrder == Spec => []SnapshotsAgree
<1>1. IInv /\ SnapInv => SnapshotsAgree
  BY DEF SnapInv, SnapshotsAgree, Agree, Behind, Now, Shown
<1> QED BY <1>1, InitSnapInv, SnapInvStep, InvariantHolds, PTL DEF Spec

-----------------------------------------------------------------------------
(* The gateway.                                                            *)

ToldType == [code : Codes, reply : Agent!ReplyType]

\* An answer with at least one character message.
Gives(t) == t.code = "OK" /\ t.reply.replies > 0

-----------------------------------------------------------------------------
(* Steps of the gateway, seen from the quota.                              *)

LEMMA StepOfQuota ==
  ASSUME [GatewayNext]_vars
  PROVE  [Next]_quotaVars \/ \E a \in Attempts : TurnAway(a)
<1>1. CASE UNCHANGED vars
  BY <1>1 DEF vars
<1>2. ASSUME NEW a \in Attempts, ArriveAtGateway(a) PROVE Next
  BY <1>2 DEF ArriveAtGateway, Next
<1>3. ASSUME NEW a \in Attempts, AgentStep(a) PROVE UNCHANGED quotaVars
  BY <1>3 DEF AgentStep, quotaVars, attemptVars, Agent!CallStep, Agent!Refuse, Agent!Ask,
     Agent!Repeat, Agent!TurnAway, Agent!Start, Agent!Speak, Agent!Finish, Agent!GiveUp, Agent!Die
<1>4. ASSUME NEW a \in Attempts, Answered(a) PROVE Next
  <2>1. PICK t : BeginSettle(a, OutcomeOf(t))
    BY <1>4 DEF Answered
  <2>2. OutcomeOf(t) \in Outcomes
    BY DEF OutcomeOf, Outcomes
  <2> QED BY <2>1, <2>2 DEF Next
<1>5. ASSUME NEW a \in Attempts, QuotaStep(a) PROVE Next
  BY <1>5 DEF QuotaStep, ReserveOrRefuse, SettleAndAnswer, Next
<1>6. CASE Midnight
  BY <1>6 DEF Midnight, Next
<1> QED BY <1>1, <1>2, <1>3, <1>4, <1>5, <1>6 DEF GatewayNext

LEMMA GatewayKeepsIInv == IInv /\ [GatewayNext]_vars => IInv'
<1> SUFFICES ASSUME IInv, [GatewayNext]_vars PROVE IInv'
  OBVIOUS
<1>1. ASSUME NEW a \in Attempts, TurnAway(a) PROVE IInv'
  BY <1>1, UntouchedLedger DEF TurnAway, Go, IInv, TypeOK, Positions
<1> QED BY <1>1, StepOfQuota, NextKeepsIInv

-----------------------------------------------------------------------------
(* The inductive invariant.                                                *)

\* What an attempt was told and shows, by where it stands.
ToldByPosition(a) ==
  /\ pc[a] \in {"idle", "reserve"} => source[a] = 0
  /\ pc[a] \in {"granted", "settle"} => source[a] # 0
  /\ source[a] = 0 \/ pc[a] = "granted" => told[a] = Error("none")
  /\ pc[a] = "settle" => outcome[a] = OutcomeOf(told[a])
  /\ shown[a] # "none" => pc[a] \in {"refused", "settled"}
  /\ pc[a] = "settled" /\ source[a] # 0 => shown[a] \in Shows(told[a])
  /\ pc[a] = "refused" /\ source[a] # 0 => shown[a] = "quota_unavailable"

\* Nothing is recorded under the eve of the model.
EveIsEmpty == \A r \in Requests : ledger[0].entry[r] = "none"

Tells == EveIsEmpty /\ \A a \in Attempts : ToldByPosition(a)

\* An attempt whose fate may still hold a unit.
Waits(a, d) ==
  \/ source[a] = d /\ pc[a] \in {"granted", "settle"}
  \/ source[a] = d /\ pc[a] \in {"read", "settled"} /\ OutcomeOf(told[a]) = "pending"
  \/ pc[a] = "gone"
  \/ pc[a] = "refused" /\ shown[a] = "quota_unavailable"

ReservedAreAwaited ==
  \A d \in Days, r \in Requests :
    ledger[d].entry[r] = "reserved" => \E a \in Attempts : req[a] = r /\ Waits(a, d)

\* The agent has a reply to show for what it says, and for what is charged.
Replied(r) == \E e \in Agent!Days : record[e][r].replies > 0

RepliesAreRecorded ==
  /\ \A a \in Attempts : answer[a].reply.replies > 0 => Replied(req[a])
  /\ \A a \in Attempts : told[a].reply.replies > 0 => Replied(req[a])
  /\ \A d \in Days, r \in Requests : ledger[d].entry[r] = "delivered" => Replied(r)

\* An attempt that carries its request, from the arrival to the end of the settlement.
Carries(a) == pc[a] \in {"reserve", "granted", "settle"} \/ (pc[a] = "read" /\ source[a] # 0)

OneAtATime == \A a, b \in Attempts : a # b /\ req[a] = req[b] /\ Carries(a) => ~Carries(b)

\* An attempt that may yet be, or was, answered by a character.
Claims(a) == pc[a] \in {"granted", "settle"} \/ (pc[a] \in {"read", "settled"} /\ Gives(told[a]))

\* The living hash has the request of whoever claims, charged once it is settled.
Covered(a) ==
  Claims(a) /\ ~Expired(source[a]) =>
    /\ ledger[source[a]].entry[req[a]] # "none"
    /\ pc[a] \in {"read", "settled"} => ledger[source[a]].entry[req[a]] = "delivered"

ClaimsAreCovered == \A a \in Attempts : Covered(a)

\* Scripts run on the day they were computed for, and nothing is ahead of the clock.
InTime ==
  /\ \A a \in Attempts : /\ pc[a] = "reserve" => date[a] = day
                         /\ date[a] <= day /\ source[a] <= day
  /\ \A d \in Days, r \in Requests : d > day => ledger[d].entry[r] = "none"

Claimed(d) == {req[a] : a \in {b \in Attempts : Claims(b) /\ source[b] = d}}

ClaimedWithinLimit == \A d \in Days : Cardinality(Claimed(d)) <= Limit

\* The day after a claim does not know its request, and nobody claims it there.
NeighboursDiffer ==
  \A a \in Attempts : Claims(a) =>
    /\ source[a] + 1 \in Days => ledger[source[a] + 1].entry[req[a]] = "none"
    /\ \A b \in Attempts : Claims(b) /\ req[b] = req[a] => source[b] # source[a] + 1

-----------------------------------------------------------------------------
(* Types.                                                                  *)

GatewayTypes ==
  /\ IInv
  /\ Agent!PromiseTypeOK
  /\ told \in [Attempts -> ToldType]
  /\ shown \in [Attempts -> Statuses]

LEMMA NoReplyTyped == Agent!NoReply \in Agent!ReplyType /\ Agent!NoReply.replies = 0
<1>1. 0 \in 0 .. MaxPlan
  BY AgentAssumption
<1> QED BY <1>1 DEF Agent!NoReply, Agent!ReplyType

LEMMA EndedTyped ==
  ASSUME NEW b \in Agent!ReplyType
  PROVE  /\ [b EXCEPT !.ended = TRUE] \in Agent!ReplyType
         /\ [b EXCEPT !.ended = TRUE].replies = b.replies
<1>1. ASSUME NEW v \in BOOLEAN
      PROVE  [b EXCEPT !.ended = v] \in Agent!ReplyType /\ [b EXCEPT !.ended = v].replies = b.replies
  BY DEF Agent!ReplyType
<1> QED BY <1>1, Zenon

Adds(r) ==
  \E d \in Agent!Days, b \in Agent!ReplyType :
    record' = [record EXCEPT ![d][r] = b] /\ b.replies >= record[d][r].replies

\* What an agent call does to the record of its request: it adds replies, or none.
LEMMA AgentWrites ==
  ASSUME GatewayTypes, NEW a \in Attempts, AgentStep(a)
  PROVE  UNCHANGED record \/ Adds(req[a])
<1> USE DEF GatewayTypes, Agent!PromiseTypeOK
<1>1. agentDate[a] \in Agent!Days /\ req[a] \in Requests
  OBVIOUS
<1>2. PICK old : old = record[agentDate[a]][req[a]]
  OBVIOUS
<1>3. old \in Agent!ReplyType /\ old.replies \in 0 .. MaxPlan
  BY <1>1, <1>2 DEF Agent!ReplyType
<1>4. CASE Agent!Repeat(a)
  <2>1. PICK d \in Agent!KnownOn(a) :
          \E b \in {record[d][req[a]], [record[d][req[a]] EXCEPT !.ended = TRUE]} : Agent!Put(d, a, b)
    BY <1>4 DEF Agent!Repeat
  <2>2. d \in Agent!Days
    BY DEF Agent!KnownOn
  <2>3. PICK was : was = record[d][req[a]]
    OBVIOUS
  <2>4. was \in Agent!ReplyType /\ was.replies \in 0 .. MaxPlan
    BY <1>1, <2>2, <2>3 DEF Agent!ReplyType
  <2>5. PICK b \in {was, [was EXCEPT !.ended = TRUE]} : Agent!Put(d, a, b)
    BY <2>1, <2>3
  <2>6. b \in Agent!ReplyType /\ b.replies = was.replies
    BY <2>4, <2>5, EndedTyped
  <2>7. was.replies \in Nat /\ b.replies >= was.replies
    BY <2>4, <2>6, AgentAssumption
  <2>8. record' = [record EXCEPT ![d][req[a]] = b]
    BY <2>5 DEF Agent!Put
  <2> QED BY <2>2, <2>3, <2>6, <2>7, <2>8 DEF Adds
<1>5. CASE Agent!Start(a)
  <2>1. old = Agent!NoReply
    BY <1>1, <1>2, <1>5 DEF Agent!Start, Agent!KnownOn
  <2>2. PICK b : b = [call |-> a, replies |-> 0, ended |-> FALSE]
    OBVIOUS
  <2>3. b \in Agent!ReplyType /\ b.replies = 0
    <3>1. 0 \in 0 .. MaxPlan
      BY AgentAssumption
    <3> QED BY <2>2, <3>1 DEF Agent!ReplyType
  <2>4. record' = [record EXCEPT ![agentDate[a]][req[a]] = b]
    BY <1>5, <2>2 DEF Agent!Start, Agent!Put
  <2>5. b.replies >= old.replies
    BY <2>1, <2>3, NoReplyTyped
  <2> QED BY <1>1, <1>2, <2>3, <2>4, <2>5 DEF Adds
<1>6. CASE Agent!Speak(a)
  <2>1. PICK b : b = [old EXCEPT !.replies = old.replies + 1]
    OBVIOUS
  <2>2. record' = [record EXCEPT ![agentDate[a]][req[a]] = b] /\ old.replies < MaxPlan
    BY <1>2, <1>6, <2>1 DEF Agent!Speak, Agent!Put, Agent!Mine
  <2>3. old.replies + 1 \in 0 .. MaxPlan
    BY <1>3, <2>2, AgentAssumption
  <2>4. b \in Agent!ReplyType /\ b.replies = old.replies + 1
    BY <1>3, <2>1, <2>3 DEF Agent!ReplyType
  <2>5. b.replies >= old.replies
    BY <1>3, <2>4
  <2> QED BY <1>1, <1>2, <2>2, <2>4, <2>5 DEF Adds
<1>7. CASE Agent!Finish(a) \/ Agent!GiveUp(a)
  <2>1. PICK b : b = [old EXCEPT !.ended = TRUE]
    OBVIOUS
  <2>2. UNCHANGED record \/ record' = [record EXCEPT ![agentDate[a]][req[a]] = b]
    BY <1>2, <1>7, <2>1 DEF Agent!Finish, Agent!GiveUp, Agent!Put, Agent!Mine
  <2>3. b \in Agent!ReplyType /\ b.replies = old.replies
    BY <1>3, <2>1, EndedTyped
  <2>4. b.replies >= old.replies
    BY <1>3, <2>3, AgentAssumption
  <2> QED BY <1>1, <1>2, <2>2, <2>3, <2>4 DEF Adds
<1> QED
  BY <1>4, <1>5, <1>6, <1>7
  DEF AgentStep, Agent!CallStep, Agent!Refuse, Agent!Ask, Agent!TurnAway, Agent!Die

LEMMA RecordTyped ==
  ASSUME GatewayTypes, NEW r \in Requests, UNCHANGED record \/ Adds(r)
  PROVE  record' \in [Agent!Days -> [Requests -> Agent!ReplyType]]
<1>1. record \in [Agent!Days -> [Requests -> Agent!ReplyType]]
  BY DEF GatewayTypes, Agent!PromiseTypeOK
<1>2. ASSUME Adds(r) PROVE record' \in [Agent!Days -> [Requests -> Agent!ReplyType]]
  <2>1. PICK d \in Agent!Days, b \in Agent!ReplyType : record' = [record EXCEPT ![d][r] = b]
    BY <1>2 DEF Adds
  <2>2. [record[d] EXCEPT ![r] = b] \in [Requests -> Agent!ReplyType]
    BY <1>1
  <2> QED BY <1>1, <2>1, <2>2
<1> QED BY <1>1, <1>2

\* What a call is told: an error, or a batch of its record.
Answers(a) ==
  \/ UNCHANGED answer
  \/ \E kind \in Agent!Kinds \ {"batch"} : answer' = [answer EXCEPT ![a] = Agent!Error(kind)]
  \/ \E d \in Agent!Days : answer' = [answer EXCEPT ![a] = Agent!Batch(record'[d][req[a]])]

LEMMA AgentAnswers ==
  ASSUME GatewayTypes, NEW a \in Attempts, AgentStep(a)
  PROVE  Answers(a)
<1> USE DEF GatewayTypes, Agent!PromiseTypeOK, Agent!Tell, Agent!Kinds
<1>1. agentDate[a] \in Agent!Days /\ req[a] \in Requests
      /\ record \in [Agent!Days -> [Requests -> Agent!ReplyType]]
  OBVIOUS
<1>2. ASSUME NEW d \in Agent!Days, NEW b, Agent!Put(d, a, b)
      PROVE  record'[d][req[a]] = b
  BY <1>1, <1>2 DEF Agent!Put
<1>3. CASE Agent!Repeat(a)
  <2>1. PICK d \in Agent!KnownOn(a) :
          \E b \in {record[d][req[a]], [record[d][req[a]] EXCEPT !.ended = TRUE]} :
            /\ Agent!Put(d, a, b)
            /\ Agent!Tell(a, Agent!Batch(b)) \/ Agent!Tell(a, Agent!Error("unknown"))
    BY <1>3 DEF Agent!Repeat
  <2>2. PICK b : /\ Agent!Put(d, a, b)
                 /\ Agent!Tell(a, Agent!Batch(b)) \/ Agent!Tell(a, Agent!Error("unknown"))
    BY <2>1
  <2>3. d \in Agent!Days /\ record'[d][req[a]] = b
    BY <1>2, <2>2 DEF Agent!KnownOn
  <2> QED BY <2>2, <2>3 DEF Answers
<1>4. CASE Agent!Finish(a)
  <2>1. PICK b : /\ Agent!Put(agentDate[a], a, b)
                 /\ Agent!Tell(a, Agent!Batch(b)) \/ UNCHANGED <<stage, answer>>
    BY <1>4 DEF Agent!Finish
  <2>2. record'[agentDate[a]][req[a]] = b
    BY <1>1, <1>2, <2>1
  <2> QED BY <1>1, <2>1, <2>2 DEF Answers
<1> QED
  BY <1>3, <1>4
  DEF AgentStep, Agent!CallStep, Answers, Agent!Refuse, Agent!Ask, Agent!TurnAway, Agent!Start,
      Agent!Speak, Agent!GiveUp, Agent!Die

LEMMA AgentKeepsTypes ==
  ASSUME GatewayTypes, NEW a \in Attempts, AgentStep(a)
  PROVE  Agent!PromiseTypeOK'
<1> USE DEF GatewayTypes, Agent!PromiseTypeOK
<1>1. record' \in [Agent!Days -> [Requests -> Agent!ReplyType]]
  BY AgentWrites, RecordTyped
<1>2. answer' \in [Attempts -> [kind : Agent!Kinds, reply : Agent!ReplyType]]
  <2>1. ASSUME NEW kind \in Agent!Kinds, NEW b \in Agent!ReplyType
        PROVE  [kind |-> kind, reply |-> b] \in [kind : Agent!Kinds, reply : Agent!ReplyType]
    BY <2>1
  <2>2. \A kind \in Agent!Kinds : Agent!Error(kind) \in [kind : Agent!Kinds, reply : Agent!ReplyType]
    BY <2>1, NoReplyTyped DEF Agent!Error
  <2>3. \A d \in Agent!Days :
          Agent!Batch(record'[d][req[a]]) \in [kind : Agent!Kinds, reply : Agent!ReplyType]
    BY <1>1, <2>1 DEF Agent!Batch, Agent!Kinds
  <2>4. ASSUME NEW x \in [kind : Agent!Kinds, reply : Agent!ReplyType],
               answer' = [answer EXCEPT ![a] = x]
        PROVE  answer' \in [Attempts -> [kind : Agent!Kinds, reply : Agent!ReplyType]]
    BY <2>4
  <2> QED BY <2>2, <2>3, <2>4, AgentAnswers DEF Answers
<1>3. stage' \in [Attempts -> Agent!Stages] /\ agentDate' \in [Attempts -> Agent!Days]
      /\ UNCHANGED <<day, req>>
  BY DEF AgentStep, Agent!CallStep, Agent!Refuse, Agent!Ask, Agent!Repeat, Agent!TurnAway, Agent!Start,
     Agent!Speak, Agent!Finish, Agent!GiveUp, Agent!Die, Agent!Tell, Agent!Stages
<1> QED BY <1>1, <1>2, <1>3

\* What comes back is typed, and says what the agent answered.
LEMMA AnsweredTells ==
  ASSUME GatewayTypes, NEW a \in Attempts, Answered(a)
  PROVE  \E t \in ToldType :
           /\ told' = [told EXCEPT ![a] = t]
           /\ BeginSettle(a, OutcomeOf(t))
           /\ t.reply \in {Agent!NoReply, answer[a].reply}
<1>1. PICK t \in {Error("Unavailable")} \union
                 (IF stage[a] # "done" THEN {}
                  ELSE {[code |-> k, reply |-> answer[a].reply] : k \in CodesOf(answer[a].kind)}) :
        told' = [told EXCEPT ![a] = t] /\ BeginSettle(a, OutcomeOf(t))
  BY DEF Answered
<1>2. answer[a].reply \in Agent!ReplyType
  BY DEF GatewayTypes, Agent!PromiseTypeOK
<1>3. \A k \in CodesOf(answer[a].kind) : k \in Codes
  BY DEF CodesOf, Codes
<1>4. t \in ToldType /\ t.reply \in {Agent!NoReply, answer[a].reply}
  BY <1>1, <1>2, <1>3, NoReplyTyped DEF ToldType, Error, Codes
<1> QED BY <1>1, <1>4

LEMMA GatewayKeepsTypes == GatewayTypes /\ [GatewayNext]_vars => GatewayTypes'
<1> SUFFICES ASSUME GatewayTypes, [GatewayNext]_vars PROVE GatewayTypes'
  OBVIOUS
<1>1. IInv'
  BY GatewayKeepsIInv DEF GatewayTypes
<1>2. day' \in Agent!Days /\ req' \in [Attempts -> Requests]
  BY <1>1 DEF IInv, TypeOK, Days, Agent!Days
<1>3. ASSUME UNCHANGED agentVars PROVE Agent!PromiseTypeOK'
  BY <1>2, <1>3 DEF GatewayTypes, Agent!PromiseTypeOK, agentVars
<1>4. \A a \in Attempts, s \in Statuses : ShowStatus(a, s) => shown' \in [Attempts -> Statuses]
  BY DEF ShowStatus, GatewayTypes
<1>5. ASSUME NEW a \in Attempts, TurnAway(a) PROVE GatewayTypes'
  <2>1. shown' \in [Attempts -> Statuses]
    BY <1>4, <1>5 DEF TurnAway, Statuses
  <2> QED BY <1>1, <1>3, <1>5, <2>1 DEF TurnAway, GatewayTypes
<1>6. ASSUME NEW a \in Attempts, ArriveAtGateway(a) PROVE GatewayTypes'
  BY <1>1, <1>3, <1>6 DEF ArriveAtGateway, GatewayTypes
<1>7. ASSUME NEW a \in Attempts, AgentStep(a) PROVE GatewayTypes'
  BY <1>1, <1>7, AgentKeepsTypes DEF AgentStep, GatewayTypes
<1>8. ASSUME NEW a \in Attempts, Answered(a) PROVE GatewayTypes'
  <2>1. told' \in [Attempts -> ToldType]
    BY <1>8, AnsweredTells DEF GatewayTypes
  <2> QED BY <1>1, <1>3, <1>8, <2>1 DEF Answered, GatewayTypes
<1>9. ASSUME NEW a \in Attempts, QuotaStep(a) PROVE GatewayTypes'
  <2>1. ASSUME ReserveOrRefuse(a) PROVE shown' \in [Attempts -> Statuses]
    BY <1>4, <2>1 DEF ReserveOrRefuse, Statuses, GatewayTypes
  <2>2. ASSUME SettleAndAnswer(a) PROVE shown' \in [Attempts -> Statuses]
    <3>1. \A t : Shows(t) \subseteq Statuses
      BY DEF Shows, StatusOf, Statuses
    <3> QED BY <1>4, <2>2, <3>1 DEF SettleAndAnswer, Statuses, GatewayTypes
  <2> QED BY <1>1, <1>3, <1>9, <2>1, <2>2 DEF QuotaStep, GatewayTypes
<1>10. CASE Midnight
  BY <1>1, <1>3, <1>10 DEF Midnight, GatewayTypes
<1>11. CASE UNCHANGED vars
  BY <1>1, <1>3, <1>11 DEF vars, agentVars, GatewayTypes
<1> QED BY <1>5, <1>6, <1>7, <1>8, <1>9, <1>10, <1>11 DEF GatewayNext

-----------------------------------------------------------------------------
(* What a step may do to an attempt.                                       *)

Keeps(a) == /\ date'[a] = date[a] /\ source'[a] = source[a] /\ outcome'[a] = outcome[a]
            /\ told'[a] = told[a]

Stays(a) == Keeps(a) /\ pc'[a] = pc[a] /\ shown'[a] = shown[a]

\* It is turned away or begins: alone with its request, if it reserves.
Begins(a) ==
  /\ pc[a] = "idle" /\ source'[a] = source[a] /\ told'[a] = told[a] /\ UNCHANGED ledger
  /\ \/ pc'[a] = "refused" /\ date'[a] = date[a]
     \/ /\ pc'[a] \in {"reserve", "read"} /\ shown'[a] = shown[a] /\ date'[a] = day
        /\ pc'[a] = "reserve" /\ ~Overlap => \A b \in Attempts : req[b] = req[a] => ~Handled(b)

\* The day under which the script finds or puts the reservation.
Holder(a) ==
  IF HashesKnowing(a) = {} \/ date[a] \in HashesKnowing(a) THEN date[a] ELSE date[a] - 1

Writes(a) ==
  IF HashesKnowing(a) # {} THEN UNCHANGED ledger
  ELSE ledger' = Keep(date[a], Reserved(ledger[date[a]], req[a]))

IsGranted(a) ==
  /\ pc[a] = "reserve" /\ pc'[a] = "granted"
  /\ source'[a] = Holder(a) /\ Writes(a)
  /\ date'[a] = date[a] /\ told'[a] = told[a] /\ shown'[a] = shown[a]

\* Exhausted, or the reply of the script is lost, with or without its effect.
IsRefused(a) ==
  /\ Keeps(a) /\ pc[a] = "reserve" /\ pc'[a] = "refused"
  /\ UNCHANGED ledger \/ (Writes(a) /\ shown'[a] = "quota_unavailable")

HasAnswer(a) ==
  /\ pc[a] = "granted" /\ pc'[a] = "settle" /\ UNCHANGED ledger
  /\ date'[a] = day /\ source'[a] = source[a] /\ shown'[a] = shown[a]
  /\ outcome'[a] = OutcomeOf(told'[a])
  /\ told'[a].reply \in {Agent!NoReply, answer[a].reply}

\* The settlement, and the answer to the client, as far as they get.
Concludes(a) ==
  /\ Keeps(a) /\ pc[a] \in {"settle", "read"}
  /\ \/ pc'[a] = "settled" /\ shown'[a] \in (IF source[a] = 0 THEN {"ok"} ELSE Shows(told[a]))
     \/ pc'[a] = "read" /\ shown'[a] = shown[a] /\ pc[a] = "settle"
     \/ pc'[a] = "refused" /\ shown'[a] = "quota_unavailable"
  /\ \/ UNCHANGED ledger /\ (pc[a] = "settle" => pc'[a] = "refused")
     \/ pc[a] = "settle" /\ ledger' = Keep(source[a], Settled(ledger[source[a]], req[a], outcome[a]))

Leaves(a) ==
  /\ Keeps(a) /\ Handled(a) /\ pc'[a] = "gone" /\ shown'[a] = shown[a] /\ UNCHANGED ledger

Moved(a) == Begins(a) \/ IsGranted(a) \/ IsRefused(a) \/ HasAnswer(a) \/ Concludes(a) \/ Leaves(a)

\* Midnight, an agent's step or nothing at all.
Rests ==
  /\ UNCHANGED <<req, date, source, outcome, pc, told, shown>>
  /\ UNCHANGED <<day, ledger>> \/ Midnight

LEMMA TurnAwayMoves ==
  ASSUME GatewayTypes, NEW a \in Attempts, TurnAway(a)
  PROVE  Begins(a) /\ (\A b \in Attempts \ {a} : Stays(b))
  BY DEF GatewayTypes, IInv, TypeOK, TurnAway, Go, ShowStatus, Begins, Keeps, Stays

LEMMA ArriveMoves ==
  ASSUME GatewayTypes, NEW a \in Attempts, ArriveAtGateway(a) \/ (Look(a) /\ UNCHANGED <<told, shown>>)
  PROVE  Begins(a) /\ (\A b \in Attempts \ {a} : Stays(b))
  BY DEF GatewayTypes, IInv, TypeOK, ArriveAtGateway, Arrive, Look, Go, Begins, Keeps, Stays

LEMMA ReserveMoves ==
  ASSUME GatewayTypes, NEW a \in Attempts, ReserveOrRefuse(a), UNCHANGED told
  PROVE  (IsGranted(a) \/ IsRefused(a)) /\ (\A b \in Attempts \ {a} : Stays(b))
<1> USE DEF GatewayTypes, IInv, TypeOK
<1>1. \A b \in Attempts \ {a} : Stays(b)
  BY DEF ReserveOrRefuse, Reserve, ReserveKnown, ReserveExhausted, ReserveNew, ReserveFails, Granted,
     Go, ShowStatus, Stays, Keeps
<1>2. ASSUME NEW d, NEW s, Granted(a, d, s), UNCHANGED <<date, outcome>>, d = Holder(a), Writes(a)
      PROVE  IsGranted(a) \/ IsRefused(a)
  <2>1. pc[a] = "reserve"
    BY DEF ReserveOrRefuse, Reserve, ReserveKnown, ReserveExhausted, ReserveNew, ReserveFails
  <2>2. CASE Go(a, "granted") /\ source' = [source EXCEPT ![a] = d]
    BY <1>2, <2>1, <2>2 DEF ReserveOrRefuse, Go, IsGranted
  <2>3. CASE Go(a, "refused") /\ UNCHANGED <<source, snapshot>>
    <3>1. shown' = [shown EXCEPT ![a] = "quota_unavailable"]
      BY <2>3 DEF ReserveOrRefuse, Go, ShowStatus
    <3> QED BY <1>2, <2>1, <2>3, <3>1 DEF Go, IsRefused, Keeps
  <2> QED BY <1>2, <2>2, <2>3 DEF Granted
<1>3. CASE ReserveKnown(a)
  <2>1. Granted(a, Holder(a), Shown(date[a], ledger[date[a]])) /\ Writes(a)
    BY <1>3 DEF ReserveKnown, Holder, Writes
  <2> QED BY <1>1, <1>2, <1>3, <2>1 DEF ReserveKnown
<1>4. CASE ReserveNew(a)
  <2>1. PICK s : Granted(a, Holder(a), s) /\ Writes(a)
    BY <1>4 DEF ReserveNew, Holder, Writes
  <2> QED BY <1>1, <1>2, <1>4, <2>1 DEF ReserveNew
<1>5. CASE ReserveExhausted(a) \/ ReserveFails(a)
  BY <1>1, <1>5 DEF ReserveExhausted, ReserveFails, Go, IsRefused, Keeps
<1> QED BY <1>3, <1>4, <1>5 DEF ReserveOrRefuse, Reserve

LEMMA AnsweredMoves ==
  ASSUME GatewayTypes, NEW a \in Attempts, Answered(a)
  PROVE  HasAnswer(a) /\ (\A b \in Attempts \ {a} : Stays(b))
<1>1. PICK t \in ToldType : /\ told' = [told EXCEPT ![a] = t]
                            /\ BeginSettle(a, OutcomeOf(t))
                            /\ t.reply \in {Agent!NoReply, answer[a].reply}
  BY AnsweredTells
<1>2. told'[a] = t /\ UNCHANGED shown
  BY <1>1 DEF GatewayTypes, Answered
<1> QED
  BY <1>1, <1>2 DEF GatewayTypes, IInv, TypeOK, BeginSettle, Go, HasAnswer, Stays, Keeps

LEMMA SettleMoves ==
  ASSUME GatewayTypes, NEW a \in Attempts, SettleAndAnswer(a), UNCHANGED told
  PROVE  Concludes(a) /\ (\A b \in Attempts \ {a} : Stays(b))
<1> USE DEF GatewayTypes, IInv, TypeOK
<1>1. \A b \in Attempts \ {a} : Stays(b)
  BY DEF SettleAndAnswer, Settle, Read, Go, ShowStatus, Stays, Keeps
<1>2. Keeps(a) /\ pc[a] \in {"settle", "read"} /\ (pc[a] = "settle" => Settle(a))
  BY DEF SettleAndAnswer, Settle, Read, Keeps
<1>3. /\ pc'[a] \in {"settled", "read", "refused"}
      /\ pc[a] = "read" => pc'[a] # "read" /\ UNCHANGED ledger
      /\ pc[a] = "settle" =>
           \/ UNCHANGED ledger /\ pc'[a] = "refused"
           \/ ledger' = Keep(source[a], Settled(ledger[source[a]], req[a], outcome[a]))
  <2>1. CASE Read(a)
    BY <2>1 DEF Read, Go
  <2>2. CASE Settle(a)
    BY <2>2 DEF Settle, Go
  <2> QED BY <2>1, <2>2 DEF SettleAndAnswer
<1>4. \/ pc'[a] = "settled" /\ shown'[a] \in (IF source[a] = 0 THEN {"ok"} ELSE Shows(told[a]))
      \/ pc'[a] = "refused" /\ shown'[a] = "quota_unavailable"
      \/ pc'[a] = "read" /\ shown'[a] = shown[a]
  <2>1. \A s : ShowStatus(a, s) => shown'[a] = s
    BY DEF ShowStatus
  <2> QED BY <2>1 DEF SettleAndAnswer
<1> QED BY <1>1, <1>2, <1>3, <1>4 DEF Concludes

LEMMA StepOfAttempts ==
  ASSUME GatewayTypes, [GatewayNext]_vars
  PROVE  /\ UNCHANGED req
         /\ Rests \/ (UNCHANGED day /\ \E a \in Attempts : Moved(a) /\ \A b \in Attempts \ {a} : Stays(b))
<1>1. ASSUME NEW a \in Attempts, TurnAway(a) PROVE UNCHANGED <<req, day>>
  BY <1>1 DEF TurnAway
<1>2. ASSUME NEW a \in Attempts, ArriveAtGateway(a) PROVE UNCHANGED <<req, day>>
  BY <1>2 DEF ArriveAtGateway, Arrive
<1>3. ASSUME NEW a \in Attempts, AgentStep(a) PROVE Rests
  BY <1>3 DEF AgentStep, Rests, Agent!CallStep, Agent!Refuse, Agent!Ask, Agent!Repeat, Agent!TurnAway,
     Agent!Start, Agent!Speak, Agent!Finish, Agent!GiveUp, Agent!Die
<1>4. ASSUME NEW a \in Attempts, Answered(a) PROVE UNCHANGED <<req, day>>
  BY <1>4 DEF Answered, BeginSettle
<1>5. ASSUME NEW a \in Attempts, QuotaStep(a)
      PROVE  /\ UNCHANGED <<req, day, told>>
             /\ Moved(a) /\ \A b \in Attempts \ {a} : Stays(b)
  <2>1. UNCHANGED told
    BY <1>5 DEF QuotaStep
  <2>2. CASE ReserveOrRefuse(a)
    BY <2>1, <2>2, ReserveMoves
    DEF Moved, ReserveOrRefuse, Reserve, ReserveKnown, ReserveExhausted, ReserveNew, ReserveFails
  <2>3. CASE SettleAndAnswer(a)
    BY <2>1, <2>3, SettleMoves DEF Moved, SettleAndAnswer, Settle, Read
  <2>4. CASE Look(a) /\ UNCHANGED shown
    BY <2>1, <2>4, ArriveMoves DEF Moved, Look
  <2>5. CASE Abandon(a) /\ UNCHANGED shown
    BY <2>1, <2>5 DEF Moved, Leaves, Abandon, Go, Handled, Keeps, Stays, GatewayTypes, IInv, TypeOK
  <2> QED BY <1>5, <2>2, <2>3, <2>4, <2>5 DEF QuotaStep
<1>6. CASE Midnight
  BY <1>6 DEF Midnight, Tick, Rests, attemptVars
<1>7. CASE UNCHANGED vars
  BY <1>7 DEF vars, quotaVars, attemptVars, Rests
<1> QED
  BY <1>1, <1>2, <1>3, <1>4, <1>5, <1>6, <1>7, TurnAwayMoves, ArriveMoves, AnsweredMoves
  DEF GatewayNext, Moved, Rests

-----------------------------------------------------------------------------
(* What attempts were told.                                                *)

LEMMA HolderType ==
  ASSUME GatewayTypes, EveIsEmpty, NEW a \in Attempts
  PROVE  Holder(a) \in Days \ {0} /\ Holder(a) \in {date[a], date[a] - 1}
<1>1. date[a] \in Days \ {0} /\ req[a] \in Requests
  BY DEF GatewayTypes, IInv, TypeOK
<1>2. CASE HashesKnowing(a) = {} \/ date[a] \in HashesKnowing(a)
  BY <1>1, <1>2 DEF Holder
<1>3. CASE ~(HashesKnowing(a) = {} \/ date[a] \in HashesKnowing(a))
  <2>1. date[a] - 1 \in HashesKnowing(a)
    BY <1>3 DEF HashesKnowing
  <2>2. date[a] - 1 \in Days /\ date[a] - 1 # 0
    BY <1>1, <2>1 DEF HashesKnowing, EveIsEmpty
  <2> QED BY <1>3, <2>2 DEF Holder
<1> QED BY <1>2, <1>3

LEMMA TellsStep == GatewayTypes /\ Tells /\ [GatewayNext]_vars => Tells'
<1> SUFFICES ASSUME GatewayTypes, Tells, [GatewayNext]_vars PROVE Tells'
  OBVIOUS
<1>1. ASSUME NEW a \in Attempts, Stays(a) \/ Moved(a) PROVE ToldByPosition(a)'
  <2>1. ToldByPosition(a) /\ EveIsEmpty
    BY DEF Tells
  <2>2. pc[a] \in Positions /\ source[a] \in Days
    BY DEF GatewayTypes, IInv, TypeOK
  <2>3. CASE Stays(a)
    BY <2>1, <2>3 DEF Stays, Keeps, ToldByPosition
  <2>4. CASE Begins(a)
    BY <2>1, <2>4 DEF Begins, ToldByPosition
  <2>5. CASE IsGranted(a)
    BY <2>1, <2>5, HolderType DEF IsGranted, ToldByPosition
  <2>6. CASE IsRefused(a)
    BY <2>1, <2>6 DEF IsRefused, Keeps, ToldByPosition
  <2>7. CASE HasAnswer(a)
    BY <2>1, <2>7 DEF HasAnswer, ToldByPosition
  <2>8. CASE Concludes(a)
    BY <2>1, <2>8 DEF Concludes, Keeps, ToldByPosition
  <2>9. CASE Leaves(a)
    BY <2>1, <2>9 DEF Leaves, Keeps, Handled, ToldByPosition
  <2> QED BY <1>1, <2>3, <2>4, <2>5, <2>6, <2>7, <2>8, <2>9 DEF Moved
<1>2. ASSUME Rests, NEW a \in Attempts PROVE ToldByPosition(a)'
  BY <1>2 DEF Rests, Tells, ToldByPosition
<1>3. \A a \in Attempts : ToldByPosition(a)'
  BY <1>1, <1>2, StepOfAttempts
<1>4. ledger'[0] \in {ledger[0], EmptyLedger}
  <2>1. 0 \in Days /\ ledger \in [Days -> LedgerType]
    BY LimitAssumption DEF Days, GatewayTypes, IInv, TypeOK
  <2>2. ASSUME NEW e \in Days \ {0}, NEW l, ledger' = Keep(e, l) PROVE ledger'[0] = ledger[0]
    BY <2>1, <2>2 DEF Keep
  <2>3. ASSUME NEW a \in Attempts, Moved(a) PROVE ledger'[0] = ledger[0]
    <3>1. date[a] \in Days \ {0}
      BY DEF GatewayTypes, IInv, TypeOK
    <3>2. pc[a] = "settle" => source[a] \in Days \ {0}
      BY DEF Tells, ToldByPosition, GatewayTypes, IInv, TypeOK
    <3> QED
      BY <2>2, <2>3, <3>1, <3>2
      DEF Moved, Begins, IsGranted, IsRefused, Writes, HasAnswer, Concludes, Leaves
  <2>4. CASE Midnight
    BY <2>1, <2>4 DEF Midnight, Tick
  <2> QED BY <2>3, <2>4, StepOfAttempts DEF Rests
<1>5. EveIsEmpty'
  BY <1>4 DEF Tells, EveIsEmpty, EmptyLedger
<1> QED BY <1>3, <1>5 DEF Tells

-----------------------------------------------------------------------------
(* A unit is held back for an open message only.                           *)

LEMMA ReservedAreAwaitedStep ==
  GatewayTypes /\ Tells /\ ReservedAreAwaited /\ [GatewayNext]_vars => ReservedAreAwaited'
<1> SUFFICES ASSUME GatewayTypes, Tells, ReservedAreAwaited, [GatewayNext]_vars,
                    NEW d \in Days, NEW r \in Requests, ledger'[d].entry[r] = "reserved"
             PROVE  \E a \in Attempts : req'[a] = r /\ Waits(a, d)'
  BY DEF ReservedAreAwaited
<1> USE DEF GatewayTypes, IInv, TypeOK
<1>1. /\ ledger \in [Days -> LedgerType] /\ ledger[d].entry \in [Requests -> Entries]
      /\ UNCHANGED req
  BY StepOfAttempts DEF LedgerType
<1>2. EmptyLedger.entry[r] = "none"
  BY DEF EmptyLedger
<1>3. ASSUME NEW e, NEW l, ledger' = Keep(e, l), e = d PROVE l.entry[r] = "reserved"
  BY <1>1, <1>2, <1>3 DEF Keep
<1>4. ASSUME NEW e, NEW l, ledger' = Keep(e, l), e # d PROVE ledger[d].entry[r] = "reserved"
  BY <1>1, <1>4 DEF Keep
<1>5. CASE ledger[d].entry[r] = "reserved"
  <2>1. PICK a \in Attempts : req[a] = r /\ Waits(a, d)
    BY <1>5 DEF ReservedAreAwaited
  <2>2. CASE Stays(a)
    BY <1>1, <2>1, <2>2 DEF Stays, Keeps, Waits
  <2>3. CASE HasAnswer(a)
    BY <1>1, <2>1, <2>3 DEF HasAnswer, Waits
  <2>4. CASE Leaves(a)
    BY <1>1, <2>1, <2>4 DEF Leaves, Waits
  <2>5. CASE Concludes(a)
    <3>1. CASE pc'[a] = "refused"
      BY <1>1, <2>1, <2>5, <3>1 DEF Concludes, Waits
    <3>2. CASE pc[a] = "read" /\ pc'[a] # "refused"
      BY <1>1, <2>1, <2>5, <3>2 DEF Concludes, Keeps, Waits
    <3>3. CASE pc[a] = "settle" /\ pc'[a] # "refused"
      <4>1. source[a] = d /\ outcome[a] = OutcomeOf(told[a])
        BY <2>1, <3>3 DEF Waits, Tells, ToldByPosition
      <4>2. Settled(ledger[d], r, outcome[a]).entry[r] = "reserved"
        BY <1>3, <2>1, <2>5, <3>3, <4>1 DEF Concludes
      <4>3. outcome[a] = "pending"
        <5>1. outcome[a] \in {"pending", "delivered", "failed"}
          BY DEF Outcomes
        <5>2. ASSUME outcome[a] = "delivered" PROVE FALSE
          BY <1>1, <1>5, <4>2, <5>2 DEF Settled, Charged
        <5>3. ASSUME outcome[a] = "failed" PROVE FALSE
          BY <1>1, <1>5, <4>2, <5>3 DEF Settled, Released
        <5> QED BY <5>1, <5>2, <5>3
      <4> QED BY <1>1, <2>1, <2>5, <3>3, <4>1, <4>3 DEF Concludes, Keeps, Waits
    <3> QED BY <2>5, <3>1, <3>2, <3>3 DEF Concludes
  <2>6. ~Begins(a) /\ ~IsGranted(a) /\ ~IsRefused(a)
    BY <2>1 DEF Begins, IsGranted, IsRefused, Waits
  <2>7. CASE Rests
    BY <1>1, <2>1, <2>7 DEF Rests, Waits
  <2> QED BY <2>2, <2>3, <2>4, <2>5, <2>6, <2>7, StepOfAttempts DEF Moved
<1>6. CASE ledger[d].entry[r] # "reserved"
  <2>1. PICK a \in Attempts : Moved(a)
    <3>1. CASE Midnight
      BY <1>2, <1>6, <3>1 DEF Midnight, Tick
    <3> QED BY <1>6, <3>1, StepOfAttempts DEF Rests
  <2>2. ~Begins(a) /\ ~HasAnswer(a) /\ ~Leaves(a)
    BY <1>6 DEF Begins, HasAnswer, Leaves
  <2>3. ASSUME Concludes(a) PROVE FALSE
    <3>1. ledger' = Keep(source[a], Settled(ledger[source[a]], req[a], outcome[a]))
      BY <1>6, <2>3 DEF Concludes
    <3>2. source[a] = d
      BY <1>4, <1>6, <3>1
    <3>3. Settled(ledger[d], req[a], outcome[a]).entry[r] = "reserved"
      BY <1>3, <3>1, <3>2
    <3> QED BY <1>1, <1>6, <3>3 DEF Settled, Charged, Released
  <2>4. IsGranted(a) \/ IsRefused(a)
    BY <2>1, <2>2, <2>3 DEF Moved
  <2>5. HashesKnowing(a) = {} /\ ledger' = Keep(date[a], Reserved(ledger[date[a]], req[a]))
    BY <1>6, <2>4 DEF IsGranted, IsRefused, Writes
  <2>6. date[a] = d
    BY <1>4, <1>6, <2>5
  <2>7. req[a] = r
    BY <1>1, <1>3, <1>6, <2>5, <2>6 DEF Reserved
  <2> QED BY <1>1, <1>6, <2>4, <2>5, <2>6, <2>7 DEF IsGranted, IsRefused, Holder, Waits
<1> QED BY <1>5, <1>6

-----------------------------------------------------------------------------
(* The agent holds a reply behind what it says and what is charged.        *)

LEMMA RepliedStays ==
  ASSUME GatewayTypes, [GatewayNext]_vars, NEW r \in Requests, Replied(r)
  PROVE  Replied(r)'
<1> USE DEF GatewayTypes, Agent!PromiseTypeOK
<1>1. PICK e \in Agent!Days : record[e][r].replies > 0
  BY DEF Replied
<1>2. CASE UNCHANGED record
  BY <1>1, <1>2 DEF Replied
<1>3. ASSUME NEW a \in Attempts, Adds(req[a]) PROVE Replied(r)'
  <2>1. PICK d \in Agent!Days, b \in Agent!ReplyType :
          record' = [record EXCEPT ![d][req[a]] = b] /\ b.replies >= record[d][req[a]].replies
    BY <1>3 DEF Adds
  <2>2. b.replies \in Nat /\ record[e][r].replies \in Nat
    BY AgentAssumption DEF Agent!ReplyType
  <2>3. CASE d = e /\ req[a] = r
    <3>1. record'[e][r] = b /\ b.replies > 0
      BY <1>1, <2>1, <2>2, <2>3
    <3> QED BY <3>1 DEF Replied
  <2>4. CASE ~(d = e /\ req[a] = r)
    <3>1. record'[e][r] = record[e][r]
      BY <2>1, <2>4
    <3> QED BY <1>1, <3>1 DEF Replied
  <2> QED BY <2>3, <2>4
<1>4. UNCHANGED record \/ \E a \in Attempts : Adds(req[a])
  <2>1. \A a \in Attempts : TurnAway(a) \/ ArriveAtGateway(a) \/ Answered(a) \/ QuotaStep(a) => UNCHANGED record
    BY DEF TurnAway, ArriveAtGateway, Answered, QuotaStep, agentVars
  <2>2. Midnight \/ UNCHANGED vars => UNCHANGED record
    BY DEF Midnight, vars, agentVars
  <2> QED BY <2>1, <2>2, AgentWrites DEF GatewayNext
<1> QED BY <1>2, <1>3, <1>4

LEMMA AnswersAreRecorded ==
  ASSUME GatewayTypes, RepliesAreRecorded, [GatewayNext]_vars,
         NEW a \in Attempts, NEW r \in Requests, req[a] = r, answer'[a].reply.replies > 0
  PROVE  Replied(r)'
<1> USE DEF GatewayTypes, Agent!PromiseTypeOK
<1>1. CASE answer'[a] = answer[a]
  BY <1>1, RepliedStays DEF RepliesAreRecorded
<1>2. CASE answer'[a] # answer[a]
  <2>1. PICK k \in Attempts : AgentStep(k)
    BY <1>2 DEF GatewayNext, TurnAway, ArriveAtGateway, Answered, QuotaStep, Midnight, vars, agentVars
  <2>2. k = a /\ UNCHANGED req
    <3>1. Answers(k)
      BY <2>1, AgentAnswers
    <3> QED BY <1>2, <2>1, <3>1, StepOfAttempts DEF Answers
  <2>3. PICK d \in Agent!Days : answer' = [answer EXCEPT ![a] = Agent!Batch(record'[d][req[a]])]
    <3>1. \A kind : Agent!Error(kind).reply.replies = 0
      BY NoReplyTyped DEF Agent!Error
    <3> QED BY <1>2, <2>1, <2>2, <3>1, AgentAnswers DEF Answers
  <2>4. record'[d][req[a]].replies > 0
    BY <2>3 DEF Agent!Batch
  <2> QED BY <2>4 DEF Replied
<1> QED BY <1>1, <1>2

LEMMA RepliesAreRecordedStep ==
  GatewayTypes /\ Tells /\ RepliesAreRecorded /\ [GatewayNext]_vars => RepliesAreRecorded'
<1> SUFFICES ASSUME GatewayTypes, Tells, RepliesAreRecorded, [GatewayNext]_vars PROVE RepliesAreRecorded'
  OBVIOUS
<1> USE DEF GatewayTypes, IInv, TypeOK
<1>1. UNCHANGED req
  BY StepOfAttempts
<1>2. ASSUME NEW a \in Attempts, NEW r \in Requests, req[a] = r, told'[a].reply.replies > 0
      PROVE  Replied(r)'
  <2>1. CASE told'[a] = told[a]
    BY <1>2, <2>1, RepliedStays DEF RepliesAreRecorded
  <2>2. CASE told'[a] # told[a]
    <3>1. HasAnswer(a)
      BY <2>2, StepOfAttempts
      DEF Rests, Moved, Stays, Keeps, Begins, IsGranted, IsRefused, Concludes, Leaves
    <3>2. told'[a].reply = answer[a].reply
      BY <1>2, <3>1, NoReplyTyped DEF HasAnswer
    <3>3. Replied(r)
      BY <1>2, <3>2 DEF RepliesAreRecorded
    <3> QED BY <3>3, RepliedStays
  <2> QED BY <2>1, <2>2
<1>3. ASSUME NEW d \in Days, NEW r \in Requests, ledger'[d].entry[r] = "delivered"
      PROVE  Replied(r)'
  <2>1. CASE ledger[d].entry[r] = "delivered"
    BY <2>1, RepliedStays DEF RepliesAreRecorded
  <2>2. CASE ledger[d].entry[r] # "delivered"
    <3>1. /\ ledger \in [Days -> LedgerType] /\ ledger[d].entry \in [Requests -> Entries]
          /\ EmptyLedger.entry[r] = "none"
      BY DEF LedgerType, EmptyLedger
    <3>2. ASSUME NEW e \in Days, NEW l, ledger' = Keep(e, l) PROVE e = d /\ l.entry[r] = "delivered"
      BY <1>3, <2>2, <3>1, <3>2 DEF Keep
    <3>3. ~Midnight
      BY <1>3, <2>2, <3>1 DEF Midnight, Tick
    <3>4. PICK a \in Attempts : Moved(a)
      BY <1>3, <2>2, <3>3, StepOfAttempts DEF Rests
    <3>5. date[a] \in Days /\ source[a] \in Days /\ req[a] \in Requests
      OBVIOUS
    <3>6. ~(IsGranted(a) \/ IsRefused(a))
      <4>1. ASSUME ledger' = Keep(date[a], Reserved(ledger[date[a]], req[a])) PROVE FALSE
        <5>1. date[a] = d /\ Reserved(ledger[d], req[a]).entry[r] = "delivered"
          BY <3>2, <3>5, <4>1
        <5> QED BY <2>2, <3>1, <5>1 DEF Reserved
      <4> QED BY <1>3, <2>2, <4>1 DEF IsGranted, IsRefused, Writes
    <3>7. Concludes(a)
      BY <1>3, <2>2, <3>4, <3>6 DEF Moved, Begins, HasAnswer, Leaves
    <3>8. pc[a] = "settle" /\ ledger' = Keep(source[a], Settled(ledger[source[a]], req[a], outcome[a]))
      BY <1>3, <2>2, <3>7 DEF Concludes
    <3>9. source[a] = d /\ Settled(ledger[d], req[a], outcome[a]).entry[r] = "delivered"
      BY <3>2, <3>5, <3>8
    <3>10. req[a] = r /\ outcome[a] = "delivered"
      BY <2>2, <3>1, <3>9 DEF Settled, Charged, Released
    <3>11. told[a].reply.replies > 0
      BY <3>8, <3>10 DEF Tells, ToldByPosition, OutcomeOf
    <3>12. Replied(r)
      BY <3>10, <3>11 DEF RepliesAreRecorded
    <3> QED BY <3>12, RepliedStays
  <2> QED BY <2>1, <2>2
<1>4. ASSUME NEW a \in Attempts, NEW r \in Requests, req[a] = r, answer'[a].reply.replies > 0
      PROVE  Replied(r)'
  BY <1>4, AnswersAreRecorded
<1> QED BY <1>1, <1>2, <1>3, <1>4 DEF RepliesAreRecorded, Replied

-----------------------------------------------------------------------------
(* What a step may do to an entry.                                         *)

\* The request of a is written under day d: reserved, or settled.
WritesNew(a, d) ==
  /\ IsGranted(a) \/ IsRefused(a)
  /\ HashesKnowing(a) = {} /\ date[a] = d
  /\ ledger'[d].entry[req[a]] = "reserved"

WritesOutcome(a, d) ==
  /\ pc[a] = "settle" /\ Concludes(a) /\ source[a] = d
  /\ ledger[d].entry[req[a]] = "reserved"
  /\ \/ outcome[a] = "delivered" /\ ledger'[d].entry[req[a]] = "delivered"
     \/ outcome[a] = "failed" /\ ledger'[d].entry[req[a]] = "none"

LEMMA EntryMoves ==
  ASSUME GatewayTypes, [GatewayNext]_vars, NEW d \in Days, NEW r \in Requests, ~Expired(d)',
         ledger'[d].entry[r] # ledger[d].entry[r]
  PROVE  \E a \in Attempts : req[a] = r /\ (WritesNew(a, d) \/ WritesOutcome(a, d))
<1> USE DEF GatewayTypes, IInv, TypeOK
<1>1. ledger \in [Days -> LedgerType] /\ ledger[d].entry \in [Requests -> Entries]
  BY DEF LedgerType
<1>2. ~Midnight
  BY <1>1 DEF Midnight, Tick, Expired
<1>3. PICK a \in Attempts : Moved(a) /\ UNCHANGED day
  BY <1>2, StepOfAttempts DEF Rests
<1>4. ASSUME NEW e \in Days, NEW l, ledger' = Keep(e, l) PROVE e = d /\ ledger'[d] = l
  <2>1. ~Expired(d)
    BY <1>3 DEF Expired
  <2> QED BY <1>1, <1>4, <2>1 DEF Keep
<1>5. date[a] \in Days /\ source[a] \in Days /\ req[a] \in Requests
  OBVIOUS
<1>6. CASE IsGranted(a) \/ IsRefused(a)
  <2>1. HashesKnowing(a) = {} /\ ledger' = Keep(date[a], Reserved(ledger[date[a]], req[a]))
    BY <1>6 DEF IsGranted, IsRefused, Writes
  <2>2. date[a] = d /\ ledger'[d] = Reserved(ledger[d], req[a])
    BY <1>4, <1>5, <2>1
  <2>3. req[a] = r /\ ledger'[d].entry[r] = "reserved"
    BY <1>1, <1>5, <2>2 DEF Reserved
  <2> QED BY <1>6, <2>1, <2>2, <2>3 DEF WritesNew
<1>7. CASE Concludes(a)
  <2>1. pc[a] = "settle" /\ ledger' = Keep(source[a], Settled(ledger[source[a]], req[a], outcome[a]))
    BY <1>7 DEF Concludes
  <2>2. source[a] = d /\ ledger'[d] = Settled(ledger[d], req[a], outcome[a])
    BY <1>4, <1>5, <2>1
  <2>3. /\ req[a] = r /\ ledger[d].entry[r] = "reserved"
        /\ \/ outcome[a] = "delivered" /\ ledger'[d].entry[r] = "delivered"
           \/ outcome[a] = "failed" /\ ledger'[d].entry[r] = "none"
    BY <1>1, <1>5, <2>2 DEF Settled, Charged, Released
  <2> QED BY <1>7, <2>1, <2>2, <2>3 DEF WritesOutcome
<1> QED BY <1>3, <1>6, <1>7 DEF Moved, Begins, HasAnswer, Leaves

\* Who claims after a step has claimed before it, or is granted by it.
LEMMA ClaimStep ==
  ASSUME GatewayTypes, Tells, [GatewayNext]_vars, NEW a \in Attempts, Claims(a)'
  PROVE  \/ Claims(a) /\ source'[a] = source[a] /\ (pc[a] \in {"read", "settled"} <=> pc'[a] \in {"read", "settled"})
         \/ pc[a] = "settle" /\ Concludes(a) /\ pc'[a] \in {"read", "settled"} /\ Gives(told[a])
         \/ IsGranted(a) /\ UNCHANGED day /\ \A b \in Attempts \ {a} : Stays(b)
<1> USE DEF GatewayTypes, IInv, TypeOK
<1>1. ToldByPosition(a)
  BY DEF Tells
<1>2. CASE Stays(a)
  BY <1>2 DEF Stays, Keeps, Claims
<1>3. CASE Rests
  BY <1>3 DEF Rests, Claims
<1>4. ASSUME Moved(a), UNCHANGED day, \A b \in Attempts \ {a} : Stays(b)
      PROVE  \/ Claims(a) /\ source'[a] = source[a]
                /\ (pc[a] \in {"read", "settled"} <=> pc'[a] \in {"read", "settled"})
             \/ pc[a] = "settle" /\ Concludes(a) /\ pc'[a] \in {"read", "settled"} /\ Gives(told[a])
             \/ IsGranted(a)
  <2>1. ~IsRefused(a) /\ ~Leaves(a)
    BY DEF IsRefused, Leaves, Claims
  <2>2. ~Begins(a)
    <3>1. ~Gives(Error("none"))
      BY DEF Gives, Error
    <3> QED BY <1>1, <3>1 DEF Begins, Claims, ToldByPosition
  <2>3. CASE HasAnswer(a)
    BY <2>3 DEF HasAnswer, Claims
  <2>4. CASE Concludes(a)
    BY <2>4 DEF Concludes, Keeps, Claims
  <2> QED BY <1>4, <2>1, <2>2, <2>3, <2>4 DEF Moved
<1> QED BY <1>2, <1>3, <1>4, StepOfAttempts

-----------------------------------------------------------------------------
(* While one attempt carries a request, no other does.                     *)

LEMMA OneAtATimeStep ==
  ASSUME ~Overlap, GatewayTypes, Tells, OneAtATime, [GatewayNext]_vars
  PROVE  OneAtATime'
<1>1. UNCHANGED req
  BY StepOfAttempts
<1>2. ASSUME NEW a \in Attempts, Moved(a), Carries(a)'
      PROVE  Carries(a) \/ \A b \in Attempts : req[b] = req[a] => ~Carries(b)
  <2>1. CASE Begins(a)
    <3>1. source[a] = 0
      BY <2>1 DEF Begins, Tells, ToldByPosition
    <3>2. \A b \in Attempts : req[b] = req[a] => ~Handled(b)
      BY <1>2, <2>1, <3>1 DEF Begins, Carries
    <3> QED BY <3>2 DEF Carries, Handled
  <2>2. CASE ~Begins(a)
    BY <1>2, <2>2 DEF Moved, IsGranted, IsRefused, HasAnswer, Concludes, Leaves, Keeps, Carries
  <2> QED BY <2>1, <2>2
<1>3. ASSUME NEW a \in Attempts, Stays(a) PROVE Carries(a)' <=> Carries(a)
  BY <1>3 DEF Stays, Keeps, Carries
<1>4. CASE Rests
  BY <1>4 DEF Rests, OneAtATime, Carries
<1>5. ASSUME NEW x \in Attempts, Moved(x), \A b \in Attempts \ {x} : Stays(b) PROVE OneAtATime'
  <2> SUFFICES ASSUME NEW a \in Attempts, NEW b \in Attempts, a # b, req'[a] = req'[b],
                      Carries(a)', Carries(b)'
               PROVE  FALSE
    BY DEF OneAtATime
  <2>1. CASE x \notin {a, b}
    BY <1>1, <1>3, <1>5, <2>1 DEF OneAtATime
  <2>2. CASE x = a
    BY <1>1, <1>2, <1>3, <1>5, <2>2 DEF OneAtATime
  <2>3. CASE x = b
    BY <1>1, <1>2, <1>3, <1>5, <2>3 DEF OneAtATime
  <2> QED BY <2>1, <2>2, <2>3
<1> QED BY <1>4, <1>5, StepOfAttempts

-----------------------------------------------------------------------------
(* The hash has the request of whoever claims.                             *)

LEMMA StillLiving ==
  ASSUME GatewayTypes, [GatewayNext]_vars, NEW d \in Days, ~Expired(d)'
  PROVE  ~Expired(d)
<1>1. day \in Nat /\ (day' = day \/ day' = day + 1)
  BY StepOfAttempts DEF Rests, Midnight, Tick, GatewayTypes, IInv, TypeOK, Days
<1> QED BY <1>1 DEF Expired, Days

LEMMA ClaimsAreCoveredStep ==
  ASSUME ~Overlap, GatewayTypes, Tells, OneAtATime, ClaimsAreCovered, [GatewayNext]_vars
  PROVE  ClaimsAreCovered'
<1> USE DEF GatewayTypes, IInv, TypeOK
<1>1. UNCHANGED req /\ ledger \in [Days -> LedgerType] /\ source' \in [Attempts -> Days]
  BY StepOfAttempts, GatewayKeepsTypes
<1>2. SUFFICES ASSUME NEW a \in Attempts, NEW d \in Days, NEW r \in Requests, req[a] = r, source'[a] = d,
                      Claims(a)', ~Expired(d)'
               PROVE  /\ ledger'[d].entry[r] # "none"
                      /\ pc'[a] \in {"read", "settled"} => ledger'[d].entry[r] = "delivered"
  <2>1. ASSUME NEW a \in Attempts PROVE Covered(a)'
    <3>1. PICK d \in Days : d = source'[a]
      BY <1>1
    <3>2. PICK r \in Requests : r = req[a]
      OBVIOUS
    <3> QED BY <1>1, <1>2, <3>1, <3>2 DEF Covered, Expired
  <2> QED BY <2>1 DEF ClaimsAreCovered
<1>3. ~Expired(d) /\ ledger[d].entry \in [Requests -> Entries]
  BY <1>1, <1>2, StillLiving DEF LedgerType
<1>4. CASE /\ Claims(a) /\ source'[a] = source[a]
           /\ pc[a] \in {"read", "settled"} <=> pc'[a] \in {"read", "settled"}
  <2>1. /\ ledger[d].entry[r] # "none"
        /\ pc[a] \in {"read", "settled"} => ledger[d].entry[r] = "delivered"
    BY <1>2, <1>3, <1>4 DEF ClaimsAreCovered, Covered
  <2>2. ASSUME NEW b \in Attempts, req[b] = r, WritesNew(b, d) PROVE FALSE
    BY <2>1, <2>2 DEF WritesNew, HashesKnowing
  <2>3. ASSUME NEW b \in Attempts, req[b] = r, WritesOutcome(b, d) PROVE FALSE
    <3>1. pc[a] \in {"granted", "settle"}
      BY <1>4, <2>1, <2>3 DEF WritesOutcome, Claims
    <3>2. b = a
      BY <1>2, <2>3, <3>1 DEF WritesOutcome, OneAtATime, Carries
    <3> QED BY <1>2, <1>4, <2>3, <3>1, <3>2 DEF WritesOutcome, Concludes, Claims
  <2>4. ledger'[d].entry[r] = ledger[d].entry[r]
    BY <1>2, <2>2, <2>3, EntryMoves
  <2> QED BY <1>4, <2>1, <2>4
<1>5. CASE pc[a] = "settle" /\ Concludes(a) /\ pc'[a] \in {"read", "settled"} /\ Gives(told[a])
  <2>1. outcome[a] = "delivered" /\ Claims(a) /\ source[a] = d
    BY <1>2, <1>5 DEF Tells, ToldByPosition, Gives, OutcomeOf, Claims, Concludes, Keeps
  <2>2. ledger[d].entry[r] # "none"
    BY <1>2, <1>3, <2>1 DEF ClaimsAreCovered, Covered
  <2>3. ledger'[d] = Settled(ledger[d], r, "delivered")
    <3>1. ledger' = Keep(d, Settled(ledger[d], r, "delivered"))
      BY <1>2, <1>5, <2>1 DEF Concludes
    <3> QED BY <1>1, <1>3, <3>1 DEF Keep
  <2>4. ledger[d].entry[r] \in {"reserved", "delivered"}
    BY <1>3, <2>2 DEF Entries
  <2>5. ledger'[d].entry[r] = "delivered"
    BY <1>3, <2>3, <2>4 DEF Settled, Charged
  <2> QED BY <2>5
<1>6. CASE IsGranted(a) /\ UNCHANGED day
  <2>1. d = Holder(a) /\ pc'[a] = "granted"
    BY <1>2, <1>6 DEF IsGranted
  <2>2. CASE HashesKnowing(a) = {}
    <3>1. ledger' = Keep(d, Reserved(ledger[d], r))
      BY <1>2, <1>6, <2>1, <2>2 DEF IsGranted, Writes, Holder
    <3>2. ledger'[d] = Reserved(ledger[d], r)
      BY <1>1, <1>3, <3>1 DEF Keep
    <3> QED BY <1>3, <2>1, <3>2 DEF Reserved
  <2>3. CASE HashesKnowing(a) # {}
    <3>1. d \in HashesKnowing(a) /\ UNCHANGED ledger
      BY <1>6, <2>1, <2>3 DEF IsGranted, Writes, Holder, HashesKnowing
    <3> QED BY <1>2, <2>1, <3>1 DEF HashesKnowing
  <2> QED BY <2>2, <2>3
<1> QED BY <1>2, <1>4, <1>5, <1>6, ClaimStep

-----------------------------------------------------------------------------
(* Nothing is ahead of the clock, and scripts run in time.                 *)

LEMMA InTimeStep ==
  ASSUME ~LateScripts, GatewayTypes, Tells, InTime, [GatewayNext]_vars
  PROVE  InTime'
<1> USE DEF GatewayTypes, IInv, TypeOK
<1>1. /\ day \in Days /\ day' \in Days /\ day <= day' /\ UNCHANGED req
      /\ ledger \in [Days -> LedgerType] /\ ledger' \in [Days -> LedgerType]
  BY StepOfAttempts, GatewayKeepsTypes DEF Rests, Midnight, Tick, Days
<1>2. ASSUME NEW a \in Attempts
      PROVE  (pc'[a] = "reserve" => date'[a] = day') /\ date'[a] <= day' /\ source'[a] <= day'
  <2>1. /\ pc[a] = "reserve" => date[a] = day
        /\ date[a] <= day /\ source[a] <= day
        /\ date[a] \in Days /\ source[a] \in Days
    BY DEF InTime
  <2>2. CASE Stays(a) /\ UNCHANGED day
    BY <2>1, <2>2 DEF Stays, Keeps
  <2>3. CASE Rests
    <3>1. UNCHANGED <<pc, date, source>> /\ (Midnight => pc[a] # "reserve") /\ (Midnight \/ UNCHANGED day)
      BY <2>3 DEF Rests, Midnight
    <3> QED BY <1>1, <2>1, <3>1 DEF Days
  <2>4. CASE Moved(a) /\ UNCHANGED day
    <3>1. date'[a] \in {date[a], day} /\ (pc'[a] = "reserve" => date'[a] = day)
      BY <2>4 DEF Moved, Begins, IsGranted, IsRefused, HasAnswer, Concludes, Leaves, Keeps
    <3>2. source'[a] = source[a] \/ (source'[a] = Holder(a) /\ pc[a] = "reserve")
      BY <2>4 DEF Moved, Begins, IsGranted, IsRefused, HasAnswer, Concludes, Leaves, Keeps
    <3>3. Holder(a) \in {date[a], date[a] - 1}
      BY HolderType DEF Tells
    <3> QED BY <1>1, <2>1, <2>4, <3>1, <3>2, <3>3 DEF Days
  <2> QED BY <2>2, <2>3, <2>4, StepOfAttempts
<1>3. ASSUME NEW d \in Days, NEW r \in Requests, d > day' PROVE ledger'[d].entry[r] = "none"
  <2>1. d > day /\ ledger[d].entry[r] = "none" /\ ~Expired(d)'
    BY <1>1, <1>3 DEF InTime, Expired, Days
  <2>2. ASSUME NEW a \in Attempts, WritesNew(a, d) \/ WritesOutcome(a, d) PROVE FALSE
    <3>1. date[a] = d \/ source[a] = d
      BY <2>2 DEF WritesNew, WritesOutcome
    <3>2. date[a] <= day /\ source[a] <= day
      BY DEF InTime
    <3> QED BY <1>1, <2>1, <3>1, <3>2 DEF Days
  <2> QED BY <2>1, <2>2, EntryMoves
<1> QED BY <1>2, <1>3 DEF InTime

LEMMA GatewayKeepsGone ==
  ASSUME GatewayTypes, SnapInv, [GatewayNext]_vars
  PROVE  SnapInv'
<1>1. ASSUME NEW a \in Attempts, TurnAway(a) PROVE SnapInv'
  BY <1>1 DEF TurnAway, SnapInv, ExpiredAreGone, Early, Now, Behind, Agree, Expired, Shown
<1> QED BY <1>1, StepOfQuota, SnapInvStep DEF GatewayTypes

-----------------------------------------------------------------------------
(* A day's claims stay within its limit.                                   *)

LEMMA CoveredWithinLimit ==
  ASSUME NEW l, WellFormed(l), NEW C \in SUBSET (In(l, "reserved") \union In(l, "delivered"))
  PROVE  Cardinality(C) <= Limit
<1> DEFINE R == In(l, "reserved")
           D == In(l, "delivered")
<1>1. IsFiniteSet(R) /\ IsFiniteSet(D) /\ Cardinality(R) \in Nat /\ Cardinality(D) \in Nat
  BY FiniteIn
<1>2. R \intersect D = {}
  BY DEF In
<1>3. Cardinality(R \union D) = Cardinality(R) + Cardinality(D)
  <2>1. Cardinality(R \union D) = Cardinality(R) + Cardinality(D) - Cardinality(R \intersect D)
    BY <1>1, FS_Union
  <2> QED BY <1>1, <1>2, <2>1, FS_EmptySet
<1>4. IsFiniteSet(R \union D)
  BY <1>1, FS_Union
<1>5. Cardinality(C) \in Nat /\ Cardinality(C) <= Cardinality(R \union D)
  BY <1>4, FS_Subset, FS_CardinalityType
<1>6. Cardinality(R) + Cardinality(D) <= Limit
  BY <1>1 DEF WellFormed, AddsUp
<1> HIDE DEF R, D
<1> QED BY <1>1, <1>3, <1>5, <1>6, LimitAssumption

\* Where an attempt is granted its unit: on this day, unless the day before has its request.
LEMMA GrantDay ==
  ASSUME GatewayTypes, InTime, NEW a \in Attempts, IsGranted(a), UNCHANGED day, NEW r, r = req[a]
  PROVE  \/ source'[a] = day /\ (ledger[day].entry[r] # "none"
                                  \/ (day - 1 \in Days => ledger[day - 1].entry[r] = "none"))
         \/ /\ source'[a] = day - 1 /\ day - 1 \in Days /\ UNCHANGED ledger
            /\ ledger[day].entry[r] = "none" /\ ledger[day - 1].entry[r] # "none"
<1>1. date[a] = day /\ day \in Days /\ source'[a] = Holder(a)
  BY DEF IsGranted, InTime, GatewayTypes, IInv, TypeOK
<1>2. HashesKnowing(a) = {e \in Days : e \in {day, day - 1} /\ ledger[e].entry[r] # "none"}
  BY <1>1 DEF HashesKnowing
<1>3. CASE HashesKnowing(a) = {}
  BY <1>1, <1>2, <1>3 DEF Holder
<1>4. CASE day \in HashesKnowing(a)
  BY <1>1, <1>2, <1>4 DEF Holder
<1>5. CASE HashesKnowing(a) # {} /\ day \notin HashesKnowing(a)
  BY <1>1, <1>2, <1>5 DEF Holder, IsGranted, Writes
<1> QED BY <1>3, <1>4, <1>5

LEMMA GrantLiving ==
  ASSUME GatewayTypes, InTime, NEW a \in Attempts, IsGranted(a), UNCHANGED day, NEW d, d = source'[a]
  PROVE  ~Expired(d)'
<1>1. day \in Nat /\ d \in {day, day - 1}
  BY GrantDay DEF GatewayTypes, IInv, TypeOK, Days
<1> QED BY <1>1 DEF Expired

LEMMA ClaimedWithinLimitStep ==
  ASSUME GatewayTypes, Tells, InTime, ClaimsAreCovered', ClaimedWithinLimit, [GatewayNext]_vars
  PROVE  ClaimedWithinLimit'
<1>1. UNCHANGED req /\ req \in [Attempts -> Requests] /\ source' \in [Attempts -> Days]
  BY StepOfAttempts, GatewayKeepsTypes DEF GatewayTypes, IInv, TypeOK
<1> SUFFICES ASSUME NEW d \in Days PROVE Cardinality(Claimed(d)') <= Limit
  BY DEF ClaimedWithinLimit
<1> DEFINE C == {req[a] : a \in {b \in Attempts : Claims(b)' /\ source'[b] = d}}
<1>2. Claimed(d)' = C
  BY <1>1 DEF Claimed
<1>3. CASE Expired(d)'
  <2>1. ASSUME NEW a \in Attempts, Claims(a)', source'[a] = d PROVE Claims(a) /\ source[a] = d
    <3>1. ~(IsGranted(a) /\ UNCHANGED day)
      BY <1>3, <2>1, GrantLiving
    <3>2. Concludes(a) => source'[a] = source[a]
      BY DEF Concludes, Keeps
    <3> QED BY <2>1, <3>1, <3>2, ClaimStep DEF Claims
  <2>2. C \subseteq Claimed(d)
    BY <2>1 DEF Claimed
  <2>3. IsFiniteSet(Claimed(d))
    <3>1. Claimed(d) \subseteq Requests
      BY <1>1 DEF Claimed
    <3> QED BY <3>1, RequestsAssumption, FS_Subset
  <2>4. /\ Cardinality(C) <= Cardinality(Claimed(d)) /\ Cardinality(Claimed(d)) <= Limit
        /\ Cardinality(C) \in Nat /\ Cardinality(Claimed(d)) \in Nat
    BY <2>2, <2>3, FS_Subset, FS_CardinalityType DEF ClaimedWithinLimit
  <2> HIDE DEF C
  <2> QED BY <1>2, <2>4, LimitAssumption
<1>4. CASE ~Expired(d)'
  <2>1. PICK l : l = ledger'[d]
    OBVIOUS
  <2>2. WellFormed(l)
    <3>1. IInv'
      BY GatewayKeepsTypes DEF GatewayTypes
    <3> QED BY <2>1, <3>1 DEF IInv, TypeOK, LedgerAddsUp, WellFormed, AddsUp
  <2>3. ASSUME NEW a \in Attempts, Claims(a)', source'[a] = d
        PROVE  l.entry[req[a]] \in {"reserved", "delivered"}
    <3>1. l.entry[req[a]] # "none"
      BY <1>1, <1>4, <2>1, <2>3 DEF ClaimsAreCovered, Covered, Expired
    <3>2. l.entry \in [Requests -> Entries]
      BY <2>2 DEF WellFormed, LedgerType
    <3> QED BY <1>1, <3>1, <3>2 DEF Entries
  <2>4. C \in SUBSET (In(l, "reserved") \union In(l, "delivered"))
    BY <1>1, <2>3 DEF In
  <2> HIDE DEF C
  <2> QED BY <1>2, <2>2, <2>4, CoveredWithinLimit
<1> QED BY <1>3, <1>4

-----------------------------------------------------------------------------
(* No claim has a neighbour the day after.                                 *)

\* The claims of before that a step keeps, at the same source.
LEMMA OldOrGranted ==
  ASSUME GatewayTypes, Tells, [GatewayNext]_vars, NEW a \in Attempts, Claims(a)'
  PROVE  \/ Claims(a) /\ source'[a] = source[a]
         \/ IsGranted(a) /\ UNCHANGED day /\ \A b \in Attempts \ {a} : Stays(b)
  BY ClaimStep DEF Concludes, Keeps, Claims

LEMMA NextDayUnknown ==
  ASSUME GatewayTypes, Tells, SnapInv, InTime, ClaimsAreCovered, NeighboursDiffer,
         InTime', SnapInv', [GatewayNext]_vars,
         NEW a \in Attempts, Claims(a)', NEW r \in Requests, r = req[a],
         NEW n \in Days, n = source'[a] + 1
  PROVE  ledger'[n].entry[r] = "none"
<1> USE DEF GatewayTypes, IInv, TypeOK
<1>1. day \in Days /\ source'[a] \in Days
  BY GatewayKeepsTypes
<1>2. CASE Expired(n)'
  BY <1>2 DEF SnapInv, ExpiredAreGone, EmptyLedger
<1>3. CASE ~Expired(n)' /\ Claims(a) /\ source'[a] = source[a]
  <2>1. ledger[n].entry[r] = "none"
    BY <1>3 DEF NeighboursDiffer
  <2>2. ASSUME NEW b \in Attempts, req[b] = r, WritesNew(b, n) PROVE FALSE
    <3>1. date[b] = n /\ n = day /\ HashesKnowing(b) = {}
      BY <2>2 DEF WritesNew, IsGranted, IsRefused, InTime
    <3>2. PICK d \in Days : d = source[a] /\ d = n - 1
      BY <1>1, <1>3 DEF Days
    <3>3. ~Expired(d)
      BY <1>1, <3>1, <3>2 DEF Expired, Days
    <3>4. ledger[d].entry[r] # "none"
      BY <1>3, <3>2, <3>3 DEF ClaimsAreCovered, Covered
    <3> QED BY <2>2, <3>1, <3>2, <3>4 DEF HashesKnowing
  <2>3. ASSUME NEW b \in Attempts, req[b] = r, WritesOutcome(b, n) PROVE FALSE
    BY <2>1, <2>3 DEF WritesOutcome
  <2> QED BY <1>3, <2>1, <2>2, <2>3, EntryMoves
<1>4. CASE IsGranted(a) /\ UNCHANGED day
  <2>1. CASE source'[a] = day
    <3>1. n > day'
      BY <1>1, <1>4, <2>1 DEF Days
    <3> QED BY <3>1 DEF InTime
  <2>2. CASE source'[a] # day
    <3>1. n = day /\ UNCHANGED ledger /\ ledger[day].entry[r] = "none"
      BY <1>1, <1>4, <2>2, GrantDay DEF Days
    <3> QED BY <3>1
  <2> QED BY <2>1, <2>2
<1> QED BY <1>2, <1>3, <1>4, OldOrGranted

LEMMA NextDayUnclaimed ==
  ASSUME GatewayTypes, Tells, InTime, ClaimsAreCovered, NeighboursDiffer, [GatewayNext]_vars,
         NEW a \in Attempts, Claims(a)', NEW b \in Attempts, Claims(b)', req[b] = req[a],
         source'[b] = source'[a] + 1
  PROVE  FALSE
<1> USE DEF GatewayTypes, IInv, TypeOK
<1>1. day \in Days /\ source'[a] \in Days /\ source'[b] \in Days
  BY GatewayKeepsTypes
<1>2. PICK r \in Requests : r = req[a] /\ r = req[b]
  OBVIOUS
<1>3. a # b
  BY <1>1 DEF Days
<1>4. CASE Claims(a) /\ source'[a] = source[a] /\ Claims(b) /\ source'[b] = source[b]
  BY <1>4 DEF NeighboursDiffer
<1>5. CASE Claims(a) /\ source'[a] = source[a] /\ IsGranted(b) /\ UNCHANGED day
  <2>1. PICK n \in Days : n = source'[b] /\ n = source[a] + 1
    BY <1>1, <1>5
  <2>2. ledger[n].entry[r] = "none"
    BY <1>2, <1>5, <2>1 DEF NeighboursDiffer
  <2>3. CASE n = day
    <3>1. PICK d \in Days : d = source[a] /\ d = day - 1
      BY <1>1, <1>5, <2>1, <2>3 DEF Days
    <3>2. ledger[d].entry[r] # "none"
      <4>1. ~Expired(d)
        BY <1>1, <3>1 DEF Expired, Days
      <4> QED BY <1>2, <1>5, <3>1, <4>1 DEF ClaimsAreCovered, Covered
    <3>3. source'[b] = day /\ day # day - 1
      BY <1>1, <2>1, <2>3 DEF Days
    <3>4. ledger[day].entry[r] # "none" \/ ledger[day - 1].entry[r] = "none"
      BY <1>2, <1>5, <3>1, <3>3, GrantDay
    <3> QED BY <2>2, <2>3, <3>1, <3>2, <3>4
  <2>4. CASE n # day
    BY <1>1, <1>2, <1>5, <2>1, <2>2, <2>4, GrantDay DEF Days
  <2> QED BY <2>3, <2>4
<1>6. CASE IsGranted(a) /\ UNCHANGED day /\ Claims(b) /\ source'[b] = source[b]
  <2>1. source[b] <= day
    BY DEF InTime
  <2>2. source'[a] = day - 1 /\ source[b] = day /\ ledger[day].entry[r] = "none"
    BY <1>1, <1>2, <1>6, <2>1, GrantDay DEF Days
  <2>3. ledger[day].entry[r] # "none"
    BY <1>1, <1>2, <1>6, <2>2 DEF ClaimsAreCovered, Covered, Expired, Days
  <2> QED BY <2>2, <2>3
<1>7. ~(IsGranted(a) /\ IsGranted(b) /\ \A k \in Attempts \ {a} : Stays(k))
  BY <1>3 DEF IsGranted, Stays
<1> QED BY <1>4, <1>5, <1>6, <1>7, OldOrGranted

LEMMA NeighboursDifferStep ==
  ASSUME GatewayTypes, Tells, SnapInv, InTime, ClaimsAreCovered, NeighboursDiffer,
         InTime', SnapInv', [GatewayNext]_vars
  PROVE  NeighboursDiffer'
<1>1. UNCHANGED req /\ req \in [Attempts -> Requests] /\ source' \in [Attempts -> Days]
  BY StepOfAttempts, GatewayKeepsTypes DEF GatewayTypes, IInv, TypeOK
<1>2. ASSUME NEW a \in Attempts, Claims(a)', source'[a] + 1 \in Days
      PROVE  ledger'[source'[a] + 1].entry[req'[a]] = "none"
  <2>1. PICK n \in Days : n = source'[a] + 1
    BY <1>2
  <2>2. PICK r \in Requests : r = req[a]
    BY <1>1
  <2> QED BY <1>1, <1>2, <2>1, <2>2, NextDayUnknown
<1> QED BY <1>1, <1>2, NextDayUnclaimed DEF NeighboursDiffer

-----------------------------------------------------------------------------
(* The theorems.                                                           *)

\* What holds whatever clients and scripts do.
GInv == GatewayTypes /\ SnapInv /\ Tells /\ ReservedAreAwaited /\ RepliesAreRecorded

LEMMA InitGInv == GatewayInit => GInv
<1> SUFFICES ASSUME GatewayInit PROVE GInv
  OBVIOUS
<1>1. IInv /\ SnapInv
  BY InitIInv, InitSnapInv DEF GatewayInit
<1>2. Agent!PromiseTypeOK /\ told \in [Attempts -> ToldType]
  <2>1. Agent!NoReply \in Agent!ReplyType
    BY NoReplyTyped
  <2>2. Agent!NoAnswer \in [kind : Agent!Kinds, reply : Agent!ReplyType]
    BY <2>1 DEF Agent!NoAnswer, Agent!Kinds
  <2>3. day \in Agent!Days /\ 1 \in Agent!Days
    BY LimitAssumption DEF GatewayInit, Init, Agent!Days
  <2>4. Error("none") \in ToldType
    BY <2>1 DEF Error, ToldType, Codes
  <2> QED BY <2>1, <2>2, <2>3, <2>4
      DEF GatewayInit, Init, Agent!PromiseInit, Agent!PromiseTypeOK, Agent!Stages
<1>3. shown \in [Attempts -> Statuses]
  BY DEF GatewayInit, Statuses
<1>4. \A d \in Days, r \in Requests : ledger[d].entry[r] = "none"
  BY DEF GatewayInit, Init, EmptyLedger
<1>5. Tells
  BY <1>4, LimitAssumption DEF GatewayInit, Init, Tells, EveIsEmpty, ToldByPosition, Days
<1>6. RepliesAreRecorded
  <2>1. \A a \in Attempts : answer[a].reply.replies = 0 /\ told[a].reply.replies = 0
    BY NoReplyTyped DEF GatewayInit, Agent!PromiseInit, Agent!NoAnswer, Error
  <2> QED BY <1>4, <2>1 DEF RepliesAreRecorded
<1> QED BY <1>1, <1>2, <1>3, <1>4, <1>5, <1>6 DEF GInv, GatewayTypes, ReservedAreAwaited

\* The invariant of the send handlers: what each attempt was told fits the ledger and
\* the agent's records, and a reserved entry has an attempt that still waits for the
\* agent, or was abandoned, or was told that the quota is unavailable.
THEOREM GatewayInvariant == GatewaySpec => []GInv
<1>1. GInv /\ [GatewayNext]_vars => GInv'
  BY GatewayKeepsTypes, GatewayKeepsGone, TellsStep, ReservedAreAwaitedStep, RepliesAreRecordedStep
  DEF GInv
<1> QED BY <1>1, InitGInv, PTL DEF GatewaySpec

\* Types of the quota, of the agent behind it and of what clients are told.
THEOREM GatewayTypeCorrect == GatewaySpec => []GatewayTypeOK
<1>1. GInv => GatewayTypeOK
  BY DEF GInv, GatewayTypes, GatewayTypeOK, IInv, ToldType
<1> QED BY <1>1, GatewayInvariant, PTL

\* Nobody is charged for what no character answered: settleQuota's outcome is taken
\* from a batch the agent has recorded, and a record never loses its replies.
THEOREM NobodyPaysForSilence == GatewaySpec => []ChargedForReplies
<1>1. GInv => ChargedForReplies
  BY DEF GInv, RepliesAreRecorded, Replied, ChargedForReplies
<1> QED BY <1>1, GatewayInvariant, PTL

\* What tells a client that its message was not taken gives the unit back, whatever
\* overlaps, dies or is lost (apiAgentError, definitiveAgentFailure).
THEOREM HeldUnitsAreOpen == GatewaySpec => []HeldForOpenMessages
<1>1. ASSUME GInv PROVE HeldForOpenMessages
  <2> SUFFICES ASSUME NEW d \in Days, NEW r \in Requests, ledger[d].entry[r] = "reserved"
               PROVE  \E a \in Attempts :
                        /\ req[a] = r
                        /\ \/ Handled(a) \/ pc[a] = "gone"
                           \/ shown[a] \in {"agent_error", "quota_unavailable"}
                           \/ shown[a] = "ok" /\ told[a].code = "OK" /\ ~told[a].reply.ended
    BY DEF HeldForOpenMessages
  <2>1. PICK a \in Attempts : req[a] = r /\ Waits(a, d)
    BY <1>1 DEF GInv, ReservedAreAwaited
  <2>2. CASE pc[a] # "settled"
    BY <2>1, <2>2 DEF Waits, Handled
  <2>3. CASE pc[a] = "settled"
    <3>1. source[a] = d /\ OutcomeOf(told[a]) = "pending" /\ ToldByPosition(a) /\ told[a] \in ToldType
      BY <1>1, <2>1, <2>3 DEF Waits, GInv, Tells, GatewayTypes
    <3>2. told[a].code \in Codes /\ told[a].reply.replies \in 0 .. MaxPlan
      BY <3>1 DEF ToldType, Agent!ReplyType
    <3>3. d # 0
      BY <1>1, <2>1, <2>3, <3>1 DEF GInv, Tells, EveIsEmpty
    <3>4. shown[a] \in Shows(told[a])
      BY <2>3, <3>1, <3>3 DEF ToldByPosition
    <3>5. CASE told[a].code = "OK"
      BY <2>1, <3>1, <3>4, <3>5 DEF OutcomeOf, Shows
    <3>6. CASE told[a].code # "OK"
      <4>1. told[a].code \in {"none", "Unknown", "Unavailable"}
        BY <3>1, <3>2, <3>6 DEF OutcomeOf, Definitive, Codes
      <4>2. StatusOf(told[a].code) = "agent_error"
        BY <4>1 DEF StatusOf
      <4> QED BY <2>1, <3>4, <3>6, <4>2 DEF Shows
    <3> QED BY <3>5, <3>6
  <2> QED BY <2>2, <2>3
<1> QED BY <1>1, GatewayInvariant, PTL

\* What holds when no client repeats a request while it is handled.
TInv == GInv /\ OneAtATime /\ ClaimsAreCovered

LEMMA TurnsInvariant == ASSUME ~Overlap PROVE GatewaySpec => []TInv
<1>1. GatewayInit => TInv
  BY InitGInv DEF GatewayInit, Init, TInv, OneAtATime, Carries, ClaimsAreCovered, Covered, Claims
<1>2. TInv /\ [GatewayNext]_vars => TInv'
  <2>1. GInv /\ [GatewayNext]_vars => GInv'
    BY GatewayKeepsTypes, GatewayKeepsGone, TellsStep, ReservedAreAwaitedStep, RepliesAreRecordedStep
    DEF GInv
  <2> QED BY <2>1, OneAtATimeStep, ClaimsAreCoveredStep DEF TInv, GInv
<1> QED BY <1>1, <1>2, PTL DEF GatewaySpec

\* A delivered message was settled with its outcome.
LEMMA DeliveredClaims ==
  ASSUME GInv, NEW a \in Attempts, Delivered(a)
  PROVE  Claims(a) /\ pc[a] = "settled"
<1>1. ToldByPosition(a) /\ told[a] \in ToldType
  BY DEF GInv, Tells, GatewayTypes
<1>2. shown[a] = "ok" /\ told[a].reply.replies > 0
  BY DEF Delivered
<1>3. source[a] # 0 /\ pc[a] = "settled"
  BY <1>1, <1>2, NoReplyTyped DEF ToldByPosition, Error
<1>4. "ok" \in Shows(told[a])
  BY <1>1, <1>2, <1>3 DEF ToldByPosition
<1>5. \A code : StatusOf(code) # "ok"
  BY DEF StatusOf
<1>6. told[a].code = "OK"
  BY <1>4, <1>5 DEF Shows
<1> QED BY <1>2, <1>3, <1>6 DEF Claims, Gives

\* Where no client repeats a request that is still handled, an answered message is
\* charged to the hash that reserved it (settleScript); where one does, it need not be.
THEOREM AnsweredIsCharged == ASSUME ~Overlap PROVE GatewaySpec => []DeliveredIsCharged
<1>1. TInv => DeliveredIsCharged
  BY DeliveredClaims DEF TInv, ClaimsAreCovered, Covered, DeliveredIsCharged
<1> QED BY <1>1, TurnsInvariant, PTL

\* What holds when, besides, every script runs on the day its window was computed for.
DInv == TInv /\ InTime /\ ClaimedWithinLimit /\ NeighboursDiffer

LEMMA DaysInvariant == ASSUME ~Overlap, ~LateScripts PROVE GatewaySpec => []DInv
<1>1. GatewayInit => DInv
  <2> SUFFICES ASSUME GatewayInit PROVE DInv
    OBVIOUS
  <2>1. TInv
    BY InitGInv DEF GatewayInit, Init, TInv, OneAtATime, Carries, ClaimsAreCovered, Covered, Claims
  <2>2. \A a \in Attempts : ~Claims(a)
    BY DEF GatewayInit, Init, Claims
  <2>3. InTime
    BY DEF GatewayInit, Init, InTime, EmptyLedger
  <2>4. ClaimedWithinLimit
    <3>1. \A d \in Days : Claimed(d) = {}
      BY <2>2 DEF Claimed
    <3> QED BY <3>1, FS_EmptySet, LimitAssumption DEF ClaimedWithinLimit
  <2> QED BY <2>1, <2>2, <2>3, <2>4 DEF DInv, NeighboursDiffer
<1>2. DInv /\ [GatewayNext]_vars => DInv'
  <2> SUFFICES ASSUME DInv, [GatewayNext]_vars PROVE DInv'
    OBVIOUS
  <2>1. GInv'
    BY GatewayKeepsTypes, GatewayKeepsGone, TellsStep, ReservedAreAwaitedStep, RepliesAreRecordedStep
    DEF DInv, TInv, GInv
  <2>2. OneAtATime' /\ ClaimsAreCovered' /\ InTime'
    BY OneAtATimeStep, ClaimsAreCoveredStep, InTimeStep DEF DInv, TInv, GInv
  <2> QED BY <2>1, <2>2, ClaimedWithinLimitStep, NeighboursDifferStep DEF DInv, TInv, GInv
<1> QED BY <1>1, <1>2, PTL DEF GatewaySpec

\* The purpose of reserving before the agent is called: no day answers more messages
\* than its limit, however attempts repeat, die, fail and lose their replies.
THEOREM LimitIsKept == ASSUME ~Overlap, ~LateScripts PROVE GatewaySpec => []DeliveredWithinLimit
<1>1. ASSUME DInv PROVE DeliveredWithinLimit
  <2> SUFFICES ASSUME NEW d \in Days
               PROVE  Cardinality({req[a] : a \in {b \in Attempts : Delivered(b) /\ source[b] = d}}) <= Limit
    BY DEF DeliveredWithinLimit
  <2> DEFINE C == {req[a] : a \in {b \in Attempts : Delivered(b) /\ source[b] = d}}
  <2>1. C \subseteq Claimed(d)
    BY <1>1, DeliveredClaims DEF Claimed, DInv, TInv
  <2>2. IsFiniteSet(Claimed(d))
    <3>1. Claimed(d) \subseteq Requests
      BY <1>1 DEF Claimed, DInv, TInv, GInv, GatewayTypes, IInv, TypeOK
    <3> QED BY <3>1, RequestsAssumption, FS_Subset
  <2>3. /\ Cardinality(C) <= Cardinality(Claimed(d)) /\ Cardinality(Claimed(d)) <= Limit
        /\ Cardinality(C) \in Nat /\ Cardinality(Claimed(d)) \in Nat
    BY <1>1, <2>1, <2>2, FS_Subset, FS_CardinalityType DEF DInv, ClaimedWithinLimit
  <2> HIDE DEF C
  <2>4. Cardinality(C) <= Limit
    BY <2>3, LimitAssumption
  <2> QED BY <2>4 DEF C
<1> QED BY <1>1, DaysInvariant, PTL

\* The hash of the day before is asked before a new unit is taken: a message repeated
\* over midnight is not charged to both days (reserveScript).
THEOREM NotChargedTwice == ASSUME ~Overlap, ~LateScripts PROVE GatewaySpec => []ChargedToNeighboursOnce
<1>1. DInv => ChargedToNeighboursOnce
  BY DeliveredClaims DEF DInv, TInv, NeighboursDiffer, ChargedToNeighboursOnce
<1> QED BY <1>1, DaysInvariant, PTL
=============================================================================
