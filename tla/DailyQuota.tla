------------------------------ MODULE DailyQuota ------------------------------
(***************************************************************************)
(* The daily quota of one user (internal/quota/quota.go): the Redis hash   *)
(* kept per Beijing day, the three Lua scripts that read and write it, and *)
(* the gateway attempts (internal/gateway/quota_handler.go) that reserve   *)
(* before they call the agent and settle after it, over midnight, expiry   *)
(* of the hashes, lost Redis replies and attempts that die half way.       *)
(*                                                                         *)
(* What the agent answers is left open here: an attempt may settle with    *)
(* any outcome.  QuotaGateway restricts it.  Administrators bypass Redis   *)
(* altogether, so there is nothing of theirs to model.                     *)
(***************************************************************************)
EXTENDS Integers, FiniteSets

CONSTANTS Attempts,     \* the HTTP requests of this user that reach the gateway
          Requests,     \* the scoped request ids (conversation and client id) they carry
          Limit,        \* messages a day
          LastDay       \* bound: the last Beijing day of the model

ASSUME LimitAssumption    == Limit \in Nat \ {0} /\ LastDay \in Nat \ {0}
ASSUME RequestsAssumption == IsFiniteSet(Requests)

VARIABLES
  day,        \* the Beijing day, of the gateway's clock and of Redis's
  ledger,     \* per day, the quota hash of the user
  pc,         \* where each attempt stands
  req,        \* the request id each attempt carries
  date,       \* the day each attempt last computed its window from
  source,     \* the day of the hash that holds each attempt's reservation
  outcome,    \* the outcome each attempt settles with
  snapshot    \* the last quota snapshot each attempt got back

attemptVars == <<pc, req, date, source, outcome, snapshot>>
quotaVars   == <<day, ledger, attemptVars>>

\* Day 0 is the eve of the model: nothing is ever recorded under it.
Days     == 0 .. LastDay
Entries  == {"none", "reserved", "delivered"}
Outcomes == {"pending", "delivered", "failed"}

LedgerType  == [entry : [Requests -> Entries], committed : Nat, reserved : Nat, revision : Nat]
EmptyLedger == [entry |-> [r \in Requests |-> "none"],
                committed |-> 0, reserved |-> 0, revision |-> 0]

\* What limitedSnapshot shows: Remaining is Limit less used, ResetAt follows the day.
SnapshotType == [day : Days, used : Nat, revision : Nat]
NoSnapshot   == [day |-> 0, used |-> 0, revision |-> 0]

Positions == {"idle", "reserve", "granted", "settle", "read", "refused", "settled", "gone"}

TypeOK ==
  /\ day \in Days \ {0}
  /\ ledger \in [Days -> LedgerType]
  /\ pc \in [Attempts -> Positions]
  /\ req \in [Attempts -> Requests]
  /\ date \in [Attempts -> Days \ {0}]
  /\ source \in [Attempts -> Days]
  /\ outcome \in [Attempts -> Outcomes]
  /\ snapshot \in [Attempts -> SnapshotType]

Init ==
  /\ day = 1
  /\ ledger = [d \in Days |-> EmptyLedger]
  /\ pc = [a \in Attempts |-> "idle"]
  /\ req \in [Attempts -> Requests]
  /\ date = [a \in Attempts |-> 1]
  /\ source = [a \in Attempts |-> 0]
  /\ outcome = [a \in Attempts |-> "pending"]
  /\ snapshot = [a \in Attempts |-> NoSnapshot]

Go(a, where) == pc' = [pc EXCEPT ![a] = where]

\* The snapshot of a day whose hash is l: committed + reserved, and the revision
\* they belong to.
Shown(d, l) == [day |-> d, used |-> l.committed + l.reserved, revision |-> l.revision]

\* A day's hash expires at the beginning of the day after the next.
Expired(d) == day >= d + 2

\* EXPIREAT with a moment that has passed deletes the hash at once.
Keep(d, l) == [ledger EXCEPT ![d] = IF Expired(d) THEN EmptyLedger ELSE l]

-----------------------------------------------------------------------------
(* Reserve.                                                                *)

\* reserveQuota: the window is computed from the gateway's clock, the script
\* runs in a later step.
Arrive(a) ==
  /\ pc[a] = "idle"
  /\ date' = [date EXCEPT ![a] = day]
  /\ Go(a, "reserve")
  /\ UNCHANGED <<day, ledger, req, source, outcome, snapshot>>

\* The session endpoint reads the quota without reserving.
Look(a) ==
  /\ pc[a] = "idle"
  /\ date' = [date EXCEPT ![a] = day]
  /\ Go(a, "read")
  /\ UNCHANGED <<day, ledger, req, source, outcome, snapshot>>

\* Faulty variant: only the day's own hash is asked.
HashesKnowingToday(a) == {d \in Days : d = date[a] /\ ledger[d].entry[req[a]] # "none"}

\* The hashes, of the window's day and of the day before, that know the request.
HashesKnowing(a) ==
  {d \in Days : d \in {date[a], date[a] - 1} /\ ledger[d].entry[req[a]] # "none"}

\* The script accepts: the attempt's reservation is kept under day d.  The
\* snapshot is always that of the window's own day.
Granted(a, d, shown) ==
  \/ /\ Go(a, "granted")
     /\ source' = [source EXCEPT ![a] = d]
     /\ snapshot' = [snapshot EXCEPT ![a] = shown]
  \/ Go(a, "refused") /\ UNCHANGED <<source, snapshot>>    \* the reply is lost

\* A request already reserved or delivered costs nothing more.
ReserveKnown(a) ==
  /\ pc[a] = "reserve"
  /\ HashesKnowing(a) # {}
  /\ Granted(a, IF date[a] \in HashesKnowing(a) THEN date[a] ELSE date[a] - 1, Shown(date[a], ledger[date[a]]))
  /\ UNCHANGED <<day, ledger, req, date, outcome>>

\* Faulty variant: the ceiling is one too high.
RoomOneMore(a) == ledger[date[a]].committed + ledger[date[a]].reserved <= Limit

\* Room is left under the day's ceiling.
Room(a) == ledger[date[a]].committed + ledger[date[a]].reserved < Limit

ReserveExhausted(a) ==
  /\ pc[a] = "reserve"
  /\ HashesKnowing(a) = {}
  /\ ~Room(a)
  /\ Go(a, "refused")
  /\ \/ snapshot' = [snapshot EXCEPT ![a] = Shown(date[a], ledger[date[a]])]
     \/ UNCHANGED snapshot                                 \* the reply is lost
  /\ UNCHANGED <<day, ledger, req, date, source, outcome>>

Reserved(l, r) ==
  [entry |-> [l.entry EXCEPT ![r] = "reserved"], committed |-> l.committed,
   reserved |-> l.reserved + 1, revision |-> l.revision + 1]

ReserveNew(a) ==
  /\ pc[a] = "reserve"
  /\ HashesKnowing(a) = {}
  /\ Room(a)
  /\ LET n == Reserved(ledger[date[a]], req[a])
     IN  /\ ledger' = Keep(date[a], n)
         /\ Granted(a, date[a], Shown(date[a], n))
  /\ UNCHANGED <<day, req, date, outcome>>

\* Redis is not reached: quotaUnavailable.
ReserveFails(a) ==
  /\ pc[a] = "reserve"
  /\ Go(a, "refused")
  /\ UNCHANGED <<day, ledger, req, date, source, outcome, snapshot>>

Reserve(a) == ReserveKnown(a) \/ ReserveExhausted(a) \/ ReserveNew(a) \/ ReserveFails(a)

-----------------------------------------------------------------------------
(* Settle.                                                                 *)

\* settleQuota: the outcome is known and the clock is read once more.
BeginSettle(a, o) ==
  /\ pc[a] = "granted"
  /\ outcome' = [outcome EXCEPT ![a] = o]
  /\ date' = [date EXCEPT ![a] = day]
  /\ Go(a, "settle")
  /\ UNCHANGED <<day, ledger, req, source, snapshot>>

Charged(l, r) ==
  [entry |-> [l.entry EXCEPT ![r] = "delivered"], committed |-> l.committed + 1,
   reserved |-> l.reserved - 1, revision |-> l.revision + 1]

Released(l, r) ==
  [entry |-> [l.entry EXCEPT ![r] = "none"], committed |-> l.committed,
   reserved |-> l.reserved - 1, revision |-> l.revision + 1]

\* Faulty variants: a charged request can be given back; or the entry stays
\* when its reservation is given back.
SettledUnlessNone(l, r, o) ==
  CASE l.entry[r] = "reserved" /\ o = "delivered" -> Charged(l, r)
    [] l.entry[r] # "none" /\ o = "failed" -> Released(l, r)
    [] OTHER -> l

SettledWithoutHDEL(l, r, o) ==
  CASE l.entry[r] = "reserved" /\ o = "delivered" -> Charged(l, r)
    [] l.entry[r] = "reserved" /\ o = "failed" -> [Released(l, r) EXCEPT !.entry[r] = "reserved"]
    [] OTHER -> l

\* settleScript: only a reservation can be charged or given back, once.
Settled(l, r, o) ==
  CASE l.entry[r] = "reserved" /\ o = "delivered" -> Charged(l, r)
    [] l.entry[r] = "reserved" /\ o = "failed" -> Released(l, r)
    [] OTHER -> l

\* Faulty variant: the settled hash is shown as today's.
SettleForToday(a) ==
  /\ pc[a] = "settle"
  /\ LET d == source[a]
         n == Settled(ledger[d], req[a], outcome[a])
     IN  /\ ledger' = Keep(d, n)
         /\ Go(a, "settled")
         /\ snapshot' = [snapshot EXCEPT ![a] = Shown(date[a], n)]
  /\ UNCHANGED <<day, req, date, source, outcome>>

\* The script, on the hash the reservation is kept under.  When the window has
\* moved on since, today's snapshot is read in a further call.
Settle(a) ==
  /\ pc[a] = "settle"
  /\ LET d == source[a]
         n == Settled(ledger[d], req[a], outcome[a])
     IN  \/ /\ ledger' = Keep(d, n)
            /\ \/ /\ d = date[a] /\ Go(a, "settled")
                  /\ snapshot' = [snapshot EXCEPT ![a] = Shown(d, n)]
               \/ d # date[a] /\ Go(a, "read") /\ UNCHANGED snapshot
               \/ Go(a, "refused") /\ UNCHANGED snapshot   \* the reply is lost
         \/ Go(a, "refused") /\ UNCHANGED <<ledger, snapshot>>      \* not reached
  /\ UNCHANGED <<day, req, date, source, outcome>>

\* snapshotScript, on the day computed before.
Read(a) ==
  /\ pc[a] = "read"
  /\ \/ Go(a, "settled") /\ snapshot' = [snapshot EXCEPT ![a] = Shown(date[a], ledger[date[a]])]
     \/ Go(a, "refused") /\ UNCHANGED snapshot
  /\ UNCHANGED <<day, ledger, req, date, source, outcome>>

\* The gateway dies, or the client hangs up and its cancelled context stops the
\* attempt: nothing is settled.
Abandon(a) ==
  /\ pc[a] \in {"reserve", "granted", "settle", "read"}
  /\ Go(a, "gone")
  /\ UNCHANGED <<day, ledger, req, date, source, outcome, snapshot>>

-----------------------------------------------------------------------------
\* Midnight; the hash of the day before the last one expires.
Tick ==
  /\ day < LastDay
  /\ day' = day + 1
  /\ ledger' = [d \in Days |-> IF day + 1 >= d + 2 THEN EmptyLedger ELSE ledger[d]]
  /\ UNCHANGED attemptVars

Next ==
  \/ \E a \in Attempts :
       \/ Arrive(a) \/ Look(a) \/ Reserve(a) \/ Settle(a) \/ Read(a) \/ Abandon(a)
       \/ \E o \in Outcomes : BeginSettle(a, o)
  \/ Tick

Spec == Init /\ [][Next]_quotaVars

-----------------------------------------------------------------------------
(* What must hold.                                                         *)

In(l, e) == {r \in Requests : l.entry[r] = e}

\* The counters are those of the entries, and never pass the ceiling: whatever
\* attempts share a reservation, settle it twice or leave it behind, a unit is
\* neither counted twice nor lost.
LedgerAddsUp ==
  \A d \in Days : LET l == ledger[d] IN
    /\ l.committed = Cardinality(In(l, "delivered"))
    /\ l.reserved = Cardinality(In(l, "reserved"))
    /\ l.committed + l.reserved <= Limit

\* A charged request is never given back while its hash lives: a failed attempt,
\* however late, cannot refund what another attempt delivered.
DeliveredIsFinal ==
  [][\A d \in Days, r \in Requests :
       ledger[d].entry[r] = "delivered" /\ ~Expired(d)' => ledger'[d].entry[r] = "delivered"]_quotaVars

\* The revision of a day moves exactly when its entries do, by one, and forward
\* for as long as the hash lives.
RevisionCountsChanges ==
  [][\A d \in Days : ~Expired(d)' =>
       ledger'[d].revision = ledger[d].revision
                               + (IF ledger'[d].entry # ledger[d].entry THEN 1 ELSE 0)]_quotaVars

\* Snapshots of one day can be put in order by their revision: equal revisions
\* show equal usage, and none is ahead of the hash it was read from.
SnapshotsAgree ==
  \A a, b \in Attempts :
    LET s == snapshot[a]
        t == snapshot[b]
    IN  s.day > 0 /\ s.day = t.day =>
          /\ s.revision = t.revision => s.used = t.used
          /\ ~Expired(s.day) => s.revision <= ledger[s.day].revision
=============================================================================
