----------------------- MODULE ConversationBatchProofs -----------------------
(***************************************************************************)
(* Proofs about ConversationBatch for every number of calls, request ids,  *)
(* speakers and days: the lease, what the ledger records and what the calls*)
(* answer.  Replies only grow, a record says how its plan went, and answers*)
(* agree with it.                                                          *)
(***************************************************************************)
EXTENDS ConversationBatch, TLAPS

LEMMA NoBatchType == NoBatch \in BatchType
  BY BoundAssumption DEF NoBatch, BatchType, Statuses

\* What the convergence of beginBatchScript and InterruptBatch makes of a batch.
LEMMA InterruptedType ==
  ASSUME NEW b \in BatchType
  PROVE  /\ Interrupted(b) \in BatchType
         /\ b.status # "generating" => Interrupted(b) = b
         /\ b # NoBatch => Interrupted(b) # NoBatch
         /\ Interrupted(b).call = b.call
  BY DEF Interrupted, BatchType, Statuses, NoBatch

\* A batch given another status is a batch.
LEMMA StatusType ==
  ASSUME NEW b \in BatchType, NEW s \in Statuses
  PROVE  [b EXCEPT !.status = s] \in BatchType
  BY DEF BatchType

\* A batch given its plan, and a batch given one more reply, are batches.
LEMMA PlannedType ==
  ASSUME NEW b \in BatchType, NEW n \in 0 .. MaxPlan
  PROVE  [b EXCEPT !.planned = n] \in BatchType
  BY DEF BatchType

LEMMA SaidType ==
  ASSUME NEW b \in BatchType, NEW n \in Nat
  PROVE  [b EXCEPT !.said = Append(@, n)] \in BatchType
<1>1. b.said \in Seq(Nat)
  BY DEF BatchType
<1>2. Append(b.said, n) \in Seq(Nat)
  BY <1>1
<1> QED BY <1>2 DEF BatchType

\* A known request is recorded on one of the model's days.
LEMMA LedgerDayType ==
  ASSUME TypeOK, NEW c \in Calls, KnownOn(c) # {}
  PROVE  LedgerDay(c) \in Days /\ LedgerDay(c) \in KnownOn(c)
  BY DEF TypeOK, KnownOn, LedgerDay, Days

LEMMA StoreType ==
  ASSUME TypeOK, NEW c \in Calls, NEW b \in BatchType, Store(c, b)
  PROVE  /\ batches' \in [Calls -> BatchType]
         /\ ledger' \in [Days -> [Requests -> BatchType]]
<1>1. batches' \in [Calls -> BatchType]
  BY DEF TypeOK, Store
<1>2. ledger \in [Days -> [Requests -> BatchType]] /\ date[c] \in Days /\ req[c] \in Requests
  BY DEF TypeOK
<1>3. ledger' \in [Days -> [Requests -> BatchType]]
  BY <1>2 DEF Store
<1> QED BY <1>1, <1>3

AnswerType == [kind : Kinds, batch : BatchType]

\* How a call moves keeps the types of its position and its answer.
LEMMA ReturnType ==
  ASSUME TypeOK, NEW c \in Calls, NEW b \in BatchType, NEW k \in Kinds,
         Return(c, [kind |-> k, batch |-> b])
  PROVE  pc' \in [Calls -> Positions] /\ answer' \in [Calls -> AnswerType]
  BY DEF TypeOK, Return, Positions, AnswerType

LEMMA ErrorType ==
  ASSUME TypeOK, NEW c \in Calls, NEW k \in Kinds, Return(c, Error(k)) \/ Fail(c, k)
  PROVE  pc' \in [Calls -> Positions] /\ answer' \in [Calls -> AnswerType]
<1>1. Error(k) \in AnswerType
  BY NoBatchType DEF Error, AnswerType
<1>2. "done" \in Positions /\ "interrupt" \in Positions
  BY DEF Positions, Working
<1>3. pc \in [Calls -> Positions] /\ answer \in [Calls -> AnswerType]
  BY DEF TypeOK, AnswerType
<1> QED BY <1>1, <1>2, <1>3 DEF Return, Fail

LEMMA GoType ==
  ASSUME TypeOK, NEW c \in Calls, NEW p \in Positions, Go(c, p)
  PROVE  pc' \in [Calls -> Positions] /\ answer' \in [Calls -> AnswerType]
  BY DEF TypeOK, Go, AnswerType

LEMMA SaveBatchType ==
  ASSUME TypeOK, NEW c \in Calls, NEW b \in BatchType, NEW release \in BOOLEAN,
         SaveBatch(c, b, release)
  PROVE  TypeOK'
<1>1. local' \in [Calls -> BatchType]
  BY DEF TypeOK, SaveBatch
<1>2. batches' \in [Calls -> BatchType] /\ ledger' \in [Days -> [Requests -> BatchType]]
  <2>1. CASE Store(c, b)
    BY <2>1, StoreType
  <2>2. CASE UNCHANGED <<ledger, batches>>
    BY <2>2 DEF TypeOK
  <2> QED BY <2>1, <2>2 DEF SaveBatch
<1>3. lease' \in Calls \union {Nobody}
  BY DEF TypeOK, SaveBatch, LeaseAfterSave
<1>4. pc' \in [Calls -> Positions] /\ answer' \in [Calls -> AnswerType]
  <2>1. "unknown" \in Kinds /\ "lease_lost" \in Kinds /\ "batch" \in Kinds /\ "speak" \in Positions
    BY DEF Kinds, Positions, Working
  <2>2. CASE Fail(c, "unknown")
    BY <2>1, <2>2, ReturnType, ErrorType, GoType
  <2>3. CASE Fail(c, "lease_lost")
    BY <2>1, <2>3, ReturnType, ErrorType, GoType
  <2>4. CASE Return(c, [kind |-> "batch", batch |-> b])
    BY <2>1, <2>4, ReturnType, ErrorType, GoType
  <2>5. CASE Go(c, "speak")
    BY <2>1, <2>5, ReturnType, ErrorType, GoType
  <2> QED BY <2>2, <2>3, <2>4, <2>5 DEF SaveBatch
<1> QED BY <1>1, <1>2, <1>3, <1>4 DEF TypeOK, SaveBatch, AnswerType

LEMMA InitTypes == Init => TypeOK
  BY NoBatchType, BoundAssumption DEF Init, TypeOK, Days, Positions, NoAnswer, Kinds

\* No handler of structured_store.go or Send leaves the states the code declares.
LEMMA NextTypes == TypeOK /\ [Next]_vars => TypeOK'
<1> SUFFICES ASSUME TypeOK, [Next]_vars PROVE TypeOK'
  OBVIOUS
<1>k. /\ \A k \in {"refused", "busy", "lease_lost", "unknown", "batch"} : k \in Kinds
      /\ \A p \in {"begin", "plan", "speak", "interrupt", "done", "crashed"} : p \in Positions
  BY DEF Kinds, Positions, Working
<1>1. ASSUME NEW c \in Calls, Refuse(c) PROVE TypeOK'
  <2>1. pc' \in [Calls -> Positions] /\ answer' \in [Calls -> AnswerType]
    BY <1>1, <1>k, ErrorType DEF Refuse
  <2> QED BY <1>1, <2>1 DEF Refuse, TypeOK, AnswerType, storeVars
<1>2. ASSUME NEW c \in Calls, Enter(c) PROVE TypeOK'
  <2>1. pc' \in [Calls -> Positions] /\ answer' \in [Calls -> AnswerType]
    BY <1>2, <1>k, GoType DEF Enter
  <2> QED BY <1>2, <2>1 DEF Enter, TypeOK, AnswerType, storeVars
<1>3. ASSUME NEW c \in Calls, BeginExisting(c) PROVE TypeOK'
  <2> DEFINE old == ledger[LedgerDay(c)][req[c]]
             b   == IF lease = Nobody THEN Interrupted(old) ELSE old
  <2>1. LedgerDay(c) \in Days /\ req[c] \in Requests
    BY <1>3, LedgerDayType DEF BeginExisting, TypeOK
  <2>2. old \in BatchType
    BY <2>1 DEF TypeOK
  <2>3. b \in BatchType
    BY <2>2, InterruptedType
  <2>4. pc' \in [Calls -> Positions] /\ answer' \in [Calls -> AnswerType]
    <3>1. CASE Return(c, [kind |-> "batch", batch |-> b])
      BY <3>1, <2>3, <1>k, ReturnType
    <3>2. CASE Return(c, Error("unknown"))
      BY <3>2, <1>k, ErrorType
    <3> QED BY <1>3, <3>1, <3>2 DEF BeginExisting
  <2>5. ledger' = [ledger EXCEPT ![LedgerDay(c)][req[c]] = b]
    BY <1>3 DEF BeginExisting
  <2> HIDE DEF b
  <2>6. ledger' \in [Days -> [Requests -> BatchType]]
    BY <2>1, <2>3, <2>5 DEF TypeOK
  <2> QED BY <1>3, <2>4, <2>6 DEF BeginExisting, TypeOK, AnswerType
<1>4. ASSUME NEW c \in Calls, BeginBusy(c) PROVE TypeOK'
  <2>1. pc' \in [Calls -> Positions] /\ answer' \in [Calls -> AnswerType]
    BY <1>4, <1>k, ErrorType DEF BeginBusy
  <2> QED BY <1>4, <2>1 DEF BeginBusy, TypeOK, AnswerType, storeVars
<1>5. ASSUME NEW c \in Calls, BeginStarted(c) PROVE TypeOK'
  <2> DEFINE d == date[c]
             n == sequence[d] + 1
             b == [call |-> c, status |-> "generating", planned |-> 0, user |-> n, said |-> <<>>]
  <2>1. d \in Days /\ n \in Nat
    BY DEF TypeOK
  <2>2. b \in BatchType
    BY <2>1, BoundAssumption DEF BatchType, Statuses
  <2>3. /\ lease' = c
        /\ sequence' = [sequence EXCEPT ![d] = n]
        /\ messages' = [messages EXCEPT ![d] = Append(@, [call |-> c, turn |-> 0, seq |-> n])]
        /\ Store(c, b)
        /\ active' = active \union {d}
        /\ starts' = Append(starts, c)
        /\ \/ Go(c, "plan") /\ local' = [local EXCEPT ![c] = b]
           \/ Return(c, Error("unknown")) /\ UNCHANGED local
        /\ UNCHANGED <<day, req, date, clearing>>
    BY <1>5 DEF BeginStarted
  <2> HIDE DEF b, n, d
  <2>4. pc' \in [Calls -> Positions] /\ answer' \in [Calls -> AnswerType]
    BY <2>3, <1>k, GoType, ErrorType
  <2>5. [call |-> c, turn |-> 0, seq |-> n] \in MessageType
    BY <2>1 DEF MessageType
  <2>6. messages' \in [Days -> Seq(MessageType)] /\ sequence' \in [Days -> Nat]
    BY <2>1, <2>3, <2>5 DEF TypeOK
  <2>7. batches' \in [Calls -> BatchType] /\ ledger' \in [Days -> [Requests -> BatchType]]
    BY <2>2, <2>3, StoreType
  <2>8. local' \in [Calls -> BatchType]
    BY <2>2, <2>3 DEF TypeOK
  <2>9. starts' \in Seq(Calls)
    BY <2>3 DEF TypeOK
  <2> QED BY <2>1, <2>3, <2>4, <2>6, <2>7, <2>8, <2>9 DEF TypeOK, AnswerType
<1>6. ASSUME NEW c \in Calls, BeginUnreached(c) PROVE TypeOK'
  <2>1. pc' \in [Calls -> Positions] /\ answer' \in [Calls -> AnswerType]
    BY <1>6, <1>k, ErrorType DEF BeginUnreached
  <2> QED BY <1>6, <2>1 DEF BeginUnreached, TypeOK, AnswerType, storeVars
<1>7. ASSUME NEW c \in Calls, NEW n \in 1 .. MaxPlan, SavePlan(c, n) PROVE TypeOK'
  <2>1. n \in 0 .. MaxPlan /\ local[c] \in BatchType
    BY BoundAssumption DEF TypeOK
  <2>2. [local[c] EXCEPT !.planned = n] \in BatchType
    BY <2>1, PlannedType
  <2> QED BY <1>7, <2>2, SaveBatchType DEF SavePlan
<1>8. ASSUME NEW c \in Calls, AppendCharacter(c) PROVE TypeOK'
  <2> DEFINE d     == date[c]
             n     == sequence[d] + 1
             sent  == [local[c] EXCEPT !.said = Append(@, 0)]
             saved == [local[c] EXCEPT !.said = Append(@, n)]
             m     == [call |-> c, turn |-> Len(saved.said), seq |-> n]
  <2>1. d \in Days /\ n \in Nat /\ local[c] \in BatchType
    BY DEF TypeOK
  <2>2. sent \in BatchType /\ saved \in BatchType
    BY <2>1, SaidType
  <2>0. m \in MessageType
    <3>1. saved.said \in Seq(Nat)
      BY <2>2 DEF BatchType
    <3>2. Len(saved.said) \in Nat
      BY <3>1
    <3> QED BY <2>1, <3>2 DEF MessageType
  <2>3. /\ \/ /\ sequence' = [sequence EXCEPT ![d] = n]
              /\ messages' = [messages EXCEPT ![d] = Append(@, m)]
              /\ Store(c, saved)
           \/ UNCHANGED <<sequence, messages, ledger, batches>>
        /\ \/ Go(c, "speak") /\ local' = [local EXCEPT ![c] = saved]
           \/ Fail(c, "unknown") /\ local' = [local EXCEPT ![c] = sent]
           \/ Fail(c, "lease_lost") /\ local' = [local EXCEPT ![c] = sent]
        /\ UNCHANGED <<day, lease, active, req, date, clearing, starts>>
    BY <1>8 DEF AppendCharacter
  <2> HIDE DEF sent, saved, m, n, d
  <2>4. pc' \in [Calls -> Positions] /\ answer' \in [Calls -> AnswerType]
    BY <2>3, <1>k, GoType, ErrorType
  <2>5. local' \in [Calls -> BatchType]
    BY <2>2, <2>3 DEF TypeOK
  <2>6. /\ messages' \in [Days -> Seq(MessageType)] /\ sequence' \in [Days -> Nat]
        /\ batches' \in [Calls -> BatchType] /\ ledger' \in [Days -> [Requests -> BatchType]]
    <3>1. CASE UNCHANGED <<sequence, messages, ledger, batches>>
      BY <3>1 DEF TypeOK
    <3>2. CASE /\ sequence' = [sequence EXCEPT ![d] = n]
               /\ messages' = [messages EXCEPT ![d] = Append(@, m)]
               /\ Store(c, saved)
      <4>1. batches' \in [Calls -> BatchType] /\ ledger' \in [Days -> [Requests -> BatchType]]
        BY <3>2, <2>2, StoreType
      <4>2. messages \in [Days -> Seq(MessageType)] /\ sequence \in [Days -> Nat]
        BY DEF TypeOK
      <4>3. sequence' \in [Days -> Nat]
        BY <3>2, <4>2, <2>1
      <4>4. messages[d] \in Seq(MessageType)
        BY <4>2, <2>1
      <4>5. Append(messages[d], m) \in Seq(MessageType)
        BY <4>4, <2>0
      <4>6. messages' \in [Days -> Seq(MessageType)]
        BY <3>2, <4>2, <4>5, <2>1
      <4> QED BY <4>1, <4>3, <4>6
    <3> QED BY <2>3, <3>1, <3>2
  <2> QED BY <2>3, <2>4, <2>5, <2>6 DEF TypeOK, AnswerType
<1>9. ASSUME NEW c \in Calls, FailGeneration(c) PROVE TypeOK'
  <2>1. Interrupted(local[c]) \in BatchType
    BY InterruptedType DEF TypeOK
  <2> QED BY <1>9, <2>1, SaveBatchType DEF FailGeneration
<1>10. ASSUME NEW c \in Calls, Complete(c) PROVE TypeOK'
  <2>1. local[c] \in BatchType
    BY DEF TypeOK
  <2>2. "complete" \in Statuses
    BY DEF Statuses
  <2>3. [local[c] EXCEPT !.status = "complete"] \in BatchType
    BY <2>1, <2>2, StatusType
  <2> QED BY <1>10, <2>3, SaveBatchType DEF Complete
<1>11. ASSUME NEW c \in Calls, Interrupt(c) PROVE TypeOK'
  <2> DEFINE old == IF batches[c] # NoBatch THEN batches[c] ELSE ledger[date[c]][req[c]]
  <2>1. old \in BatchType
    BY DEF TypeOK
  <2>2. Interrupted(old) \in BatchType
    BY <2>1, InterruptedType
  <2>3. /\ Store(c, Interrupted(old)) \/ UNCHANGED <<ledger, batches>>
        /\ lease' = Nobody \/ UNCHANGED lease
        /\ Go(c, "done")
        /\ local' = [local EXCEPT ![c] = NoBatch]
        /\ UNCHANGED <<day, messages, sequence, active, req, date, clearing, starts>>
    BY <1>11 DEF Interrupt
  <2> HIDE DEF old
  <2>4. batches' \in [Calls -> BatchType] /\ ledger' \in [Days -> [Requests -> BatchType]]
    BY <2>2, <2>3, StoreType DEF TypeOK
  <2>5. pc' \in [Calls -> Positions] /\ answer' \in [Calls -> AnswerType]
    BY <2>3, <1>k, GoType
  <2> QED BY <2>3, <2>4, <2>5, NoBatchType DEF TypeOK, AnswerType
<1>12. ASSUME NEW c \in Calls, Crash(c) PROVE TypeOK'
  <2>1. NoAnswer \in AnswerType
    BY NoBatchType DEF NoAnswer, AnswerType, Kinds
  <2> QED BY <1>12, <2>1, <1>k, NoBatchType DEF Crash, TypeOK, AnswerType, storeVars
<1>13. CASE LeaseExpires
  BY <1>13 DEF LeaseExpires, TypeOK, callVars
<1>14. CASE ClearCheck
  BY <1>14 DEF ClearCheck, TypeOK, callVars, storeVars
<1>15. CASE ClearToday
  <2>1. messages' \in [Days -> Seq(MessageType)]
    <3>1. <<>> \in Seq(MessageType)
      OBVIOUS
    <3> QED BY <1>15, <3>1 DEF ClearToday, ClearScopeDate, TypeOK
  <2>2. sequence' \in [Days -> Nat]
    <3>1. sequence' = [sequence EXCEPT ![clearing] = 0] \/ sequence' = sequence
      BY <1>15 DEF ClearToday, ClearScopeDate
    <3>2. sequence \in [Days -> Nat] /\ 0 \in Nat
      BY DEF TypeOK
    <3> QED BY <3>1, <3>2
  <2>3. active' \in SUBSET Days
    BY <1>15 DEF ClearToday, ClearScopeDate, TypeOK
  <2> QED BY <1>15, <2>1, <2>2, <2>3 DEF ClearToday, TypeOK, callVars
<1>16. CASE Tick
  <2>1. day' \in Days
    BY <1>16, BoundAssumption DEF Tick, TypeOK, Days
  <2> QED BY <1>16, <2>1 DEF Tick, TypeOK, callVars, storeVars
<1>17. CASE UNCHANGED vars
  BY <1>17 DEF vars, callVars, storeVars, TypeOK
<1> QED
  BY <1>1, <1>2, <1>3, <1>4, <1>5, <1>6, <1>7, <1>8, <1>9, <1>10, <1>11, <1>12,
     <1>13, <1>14, <1>15, <1>16, <1>17 DEF Next, Proceed, Begin

\* Type correctness of the store, the calls and the clock: no handler of
\* structured_store.go or Send leaves the states the code declares.
THEOREM TypeCorrect == Spec => []TypeOK
<1>1. Init => TypeOK
  BY InitTypes
<1>2. TypeOK /\ [Next]_vars => TypeOK'
  BY NextTypes
<1> QED BY <1>1, <1>2, PTL DEF Spec

-----------------------------------------------------------------------------
(* The inductive invariant of the fence.                                   *)

\* A call past BeginBatch works on a copy of its own open batch.
OpenCopies ==
  \A c \in Calls : pc[c] \in {"plan", "speak"} =>
    local[c].call = c /\ local[c].status = "generating"

\* The holder of the lease has taken its day from the clock for good.
HolderEntered == lease # Nobody => pc[lease] # "idle"

\* What was started stays on record, under a day and a request id that no
\* longer change.
StartsRecorded ==
  \A i \in DOMAIN starts :
    pc[starts[i]] \notin {"idle", "begin"} /\ Recorded(starts[i]) # NoBatch

IInv == /\ LeaseNamesOpenBatch
        /\ OpenCopies
        /\ HolderEntered
        /\ StartsRecorded
        /\ NoRegeneration

\* A step that leaves the keys alone keeps the invariant when it moves calls
\* only away from idle and lets none into the generating part of Send.
LEMMA IdleStep ==
  ASSUME TypeOK, IInv, UNCHANGED <<ledger, batches, req, date, starts>>,
         lease' \in {lease, Nobody},
         \A c \in Calls : pc'[c] \in {"plan", "speak"} => pc[c] = pc'[c] /\ local'[c] = local[c],
         \A c \in Calls : pc'[c] \in {"idle", "begin"} => pc[c] \in {"idle", "begin"},
         \A c \in Calls : pc'[c] = "idle" => pc[c] = "idle"
  PROVE  IInv'
<1>1. LeaseNamesOpenBatch'
  BY DEF IInv, LeaseNamesOpenBatch, Recorded
<1>2. OpenCopies'
  BY DEF IInv, OpenCopies
<1>3. HolderEntered'
  BY DEF IInv, HolderEntered, TypeOK
<1>4. StartsRecorded'
  <2> SUFFICES ASSUME NEW i \in DOMAIN starts
               PROVE  pc'[starts[i]] \notin {"idle", "begin"} /\ ledger[date[starts[i]]][req[starts[i]]] # NoBatch
    BY DEF StartsRecorded, Recorded
  <2>1. starts[i] \in Calls
    BY DEF TypeOK
  <2> QED BY <2>1 DEF IInv, StartsRecorded, Recorded
<1>5. NoRegeneration'
  BY DEF IInv, NoRegeneration
<1> QED BY <1>1, <1>2, <1>3, <1>4, <1>5 DEF IInv

\* A fenced write of call c's batch: c's record and batch key agree, and no
\* started batch loses its record.
LEMMA FencedStore ==
  ASSUME TypeOK, IInv, NEW c \in Calls, NEW b \in BatchType, b # NoBatch, Store(c, b),
         UNCHANGED <<req, date, starts>>
  PROVE  /\ Recorded(c)' = b /\ batches'[c] = b
         /\ \A i \in DOMAIN starts : Recorded(starts[i])' # NoBatch
<1>1. date[c] \in Days /\ req[c] \in Requests /\ ledger \in [Days -> [Requests -> BatchType]]
  BY DEF TypeOK
<1>2. ledger' = [ledger EXCEPT ![date[c]][req[c]] = b] /\ batches' = [batches EXCEPT ![c] = b]
  BY DEF Store
<1>3. Recorded(c)' = b /\ batches'[c] = b
  BY <1>1, <1>2 DEF Recorded, TypeOK
<1>4. ASSUME NEW i \in DOMAIN starts PROVE Recorded(starts[i])' # NoBatch
  <2>1. starts[i] \in Calls /\ ledger[date[starts[i]]][req[starts[i]]] # NoBatch
    BY DEF TypeOK, IInv, StartsRecorded, Recorded
  <2>2. date[starts[i]] \in Days /\ req[starts[i]] \in Requests
    BY <2>1 DEF TypeOK
  <2> QED BY <1>1, <1>2, <2>1, <2>2 DEF Recorded
<1> QED BY <1>3, <1>4

\* The calls of starts are past BeginBatch.
LEMMA StartsEntered ==
  ASSUME TypeOK, IInv, NEW i \in DOMAIN starts
  PROVE  starts[i] \in Calls /\ pc[starts[i]] \notin {"idle", "begin"}
<1>1. starts \in Seq(Calls)
  BY DEF TypeOK
<1>2. starts[i] \in Calls
  BY <1>1
<1>3. pc[starts[i]] \notin {"idle", "begin"}
  BY DEF IInv, StartsRecorded
<1> QED BY <1>2, <1>3

\* saveBatchScript keeps the invariant when the call saves its own batch, still
\* generating unless the lease is released with it.
LEMMA SaveBatchStep ==
  ASSUME TypeOK, IInv, NEW c \in Calls, NEW b \in BatchType, NEW release \in BOOLEAN,
         pc[c] \in {"plan", "speak"}, b.call = c, ~release => b.status = "generating",
         SaveBatch(c, b, release)
  PROVE  IInv'
<1>1. b # NoBatch
  BY NobodyAssumption DEF NoBatch
<1>2. UNCHANGED <<req, date, starts>> /\ local' = [local EXCEPT ![c] = b]
  BY DEF SaveBatch
<1>3. /\ pc'[c] \in {"speak", "interrupt", "done"}
      /\ \A e \in Calls \ {c} : pc'[e] = pc[e]
      /\ pc'[c] = "speak" => ~release
  BY DEF SaveBatch, Return, Go, Fail, TypeOK
<1>4. OpenCopies'
  BY <1>2, <1>3 DEF IInv, OpenCopies, TypeOK
<1>5. \A i \in DOMAIN starts : starts[i] \in Calls /\ pc'[starts[i]] \notin {"idle", "begin"}
  BY <1>3, StartsEntered
<1>6. CASE UNCHANGED <<ledger, batches, lease>>
  <2>1. LeaseNamesOpenBatch'
    BY <1>2, <1>6 DEF IInv, LeaseNamesOpenBatch, Recorded
  <2>2. HolderEntered'
    BY <1>3, <1>6 DEF IInv, HolderEntered, TypeOK
  <2>3. StartsRecorded'
    BY <1>2, <1>5, <1>6 DEF IInv, StartsRecorded, Recorded
  <2>4. NoRegeneration'
    BY <1>2 DEF IInv, NoRegeneration
  <2> QED BY <1>4, <2>1, <2>2, <2>3, <2>4 DEF IInv
<1>7. CASE Holds(c) /\ Store(c, b) /\ lease' = LeaseAfterSave(release)
  <2>1. /\ Recorded(c)' = b /\ batches'[c] = b
        /\ \A i \in DOMAIN starts : Recorded(starts[i])' # NoBatch
    BY <1>1, <1>2, <1>7, FencedStore
  <2>2. lease' # Nobody => lease' = c /\ ~release
    BY <1>7 DEF LeaseAfterSave, Holds
  <2>3. LeaseNamesOpenBatch'
    <3>1. CASE lease' = Nobody
      BY <3>1 DEF LeaseNamesOpenBatch
    <3>2. CASE lease' = c /\ ~release
      BY <2>1, <3>2 DEF LeaseNamesOpenBatch, Recorded
    <3> QED BY <2>2, <3>1, <3>2
  <2>4. HolderEntered'
    BY <1>3, <2>2 DEF HolderEntered
  <2>5. StartsRecorded'
    BY <1>2, <1>5, <2>1 DEF StartsRecorded
  <2>6. NoRegeneration'
    BY <1>2 DEF IInv, NoRegeneration
  <2> QED BY <1>4, <2>3, <2>4, <2>5, <2>6 DEF IInv
<1> QED BY <1>6, <1>7 DEF SaveBatch

LEMMA InitIInv == Init => IInv
  BY NobodyAssumption DEF Init, IInv, LeaseNamesOpenBatch, OpenCopies, HolderEntered,
     StartsRecorded, NoRegeneration

\* The call takes its day from the clock: it holds no lease and started nothing.
LEMMA EnterStep ==
  ASSUME TypeOK, IInv, NEW c \in Calls, Enter(c)
  PROVE  IInv'
<1>1. /\ pc[c] = "idle" /\ pc' = [pc EXCEPT ![c] = "begin"] /\ date' = [date EXCEPT ![c] = day]
      /\ UNCHANGED <<ledger, batches, lease, req, local, starts>>
  BY DEF Enter, Go, storeVars
<1>2. lease # c /\ \A i \in DOMAIN starts : starts[i] \in Calls /\ starts[i] # c
  BY <1>1, NobodyAssumption, StartsEntered DEF IInv, HolderEntered
<1>3. \A e \in Calls \ {c} : pc'[e] = pc[e] /\ date'[e] = date[e]
  BY <1>1 DEF TypeOK
<1>4. LeaseNamesOpenBatch'
  BY <1>1, <1>2, <1>3 DEF IInv, LeaseNamesOpenBatch, Recorded, TypeOK
<1>5. OpenCopies'
  BY <1>1 DEF IInv, OpenCopies, TypeOK
<1>6. HolderEntered'
  BY <1>1, <1>2, <1>3 DEF IInv, HolderEntered, TypeOK
<1>7. StartsRecorded'
  BY <1>1, <1>2, <1>3 DEF IInv, StartsRecorded, Recorded
<1>8. NoRegeneration'
  BY <1>1, <1>2, <1>3 DEF IInv, NoRegeneration
<1> QED BY <1>4, <1>5, <1>6, <1>7, <1>8 DEF IInv

\* A known request: the ledger changes only when no lease is held.
LEMMA BeginExistingStep ==
  ASSUME TypeOK, IInv, NEW c \in Calls, BeginExisting(c)
  PROVE  IInv'
<1> DEFINE d   == LedgerDay(c)
           old == ledger[d][req[c]]
           b   == IF lease = Nobody THEN Interrupted(old) ELSE old
<1>1. d \in Days /\ req[c] \in Requests /\ old \in BatchType /\ old # NoBatch
  BY LedgerDayType DEF BeginExisting, KnownOn, TypeOK
<1>2. b # NoBatch /\ (lease # Nobody => b = old)
  BY <1>1, InterruptedType
<1>3. /\ ledger' = [ledger EXCEPT ![d][req[c]] = b]
      /\ pc'[c] = "done" /\ \A e \in Calls \ {c} : pc'[e] = pc[e]
      /\ UNCHANGED <<batches, lease, req, date, local, starts>>
  BY DEF BeginExisting, Return, TypeOK
<1> HIDE DEF b, d
<1>4. LeaseNamesOpenBatch'
  <2>1. CASE lease = Nobody
    BY <1>3, <2>1 DEF LeaseNamesOpenBatch
  <2>2. CASE lease # Nobody
    <3>1. ledger' = ledger
      BY <1>1, <1>2, <1>3, <2>2 DEF TypeOK
    <3> QED BY <1>3, <3>1 DEF IInv, LeaseNamesOpenBatch, Recorded
  <2> QED BY <2>1, <2>2
<1>5. OpenCopies'
  BY <1>3 DEF IInv, OpenCopies
<1>6. HolderEntered'
  BY <1>3 DEF IInv, HolderEntered, TypeOK
<1>7. StartsRecorded'
  <2> SUFFICES ASSUME NEW i \in DOMAIN starts
               PROVE  pc'[starts[i]] \notin {"idle", "begin"} /\ ledger'[date[starts[i]]][req[starts[i]]] # NoBatch
    BY <1>3 DEF StartsRecorded, Recorded
  <2>1. /\ starts[i] \in Calls /\ pc[starts[i]] \notin {"idle", "begin"}
        /\ ledger[date[starts[i]]][req[starts[i]]] # NoBatch
    BY DEF IInv, StartsRecorded, Recorded, TypeOK
  <2>2. date[starts[i]] \in Days /\ req[starts[i]] \in Requests
    BY <2>1 DEF TypeOK
  <2> QED BY <1>1, <1>2, <1>3, <2>1, <2>2 DEF TypeOK
<1>8. NoRegeneration'
  BY <1>3 DEF IInv, NoRegeneration
<1> QED BY <1>4, <1>5, <1>6, <1>7, <1>8 DEF IInv

\* A new batch: neither ledger the script asked knows the request.
LEMMA BeginStartedStep ==
  ASSUME TypeOK, IInv, NEW c \in Calls, BeginStarted(c)
  PROVE  IInv'
<1> DEFINE b == [call |-> c, status |-> "generating", planned |-> 0,
                 user |-> sequence[date[c]] + 1, said |-> <<>>]
<1>1. /\ pc[c] = "begin" /\ KnownOn(c) = {} /\ lease = Nobody
      /\ lease' = c /\ Store(c, b) /\ starts' = Append(starts, c)
      /\ \/ Go(c, "plan") /\ local' = [local EXCEPT ![c] = b]
         \/ Return(c, Error("unknown")) /\ UNCHANGED local
      /\ UNCHANGED <<req, date>>
  BY DEF BeginStarted
<1>2. b.call = c /\ b.status = "generating" /\ b # NoBatch /\ b \in BatchType
  <2>1. sequence[date[c]] + 1 \in Nat
    BY DEF TypeOK
  <2>2. b \in BatchType
    BY <2>1, BoundAssumption DEF BatchType, Statuses
  <2>3. b.call # NoBatch.call
    BY NobodyAssumption DEF NoBatch
  <2> QED BY <2>2, <2>3
<1> HIDE DEF b
<1>3. pc'[c] \in {"plan", "done"} /\ \A e \in Calls \ {c} : pc'[e] = pc[e]
  BY <1>1 DEF Go, Return, TypeOK
<1>4. \A i \in DOMAIN starts :
        /\ starts[i] \in Calls /\ starts[i] # c
        /\ date[starts[i]] \in Days /\ req[starts[i]] \in Requests
        /\ ledger[date[starts[i]]][req[starts[i]]] # NoBatch
        /\ pc[starts[i]] \notin {"idle", "begin"}
  BY <1>1 DEF IInv, StartsRecorded, Recorded, TypeOK
<1>5. date[c] \in Days /\ req[c] \in Requests /\ ledger \in [Days -> [Requests -> BatchType]]
  BY DEF TypeOK
<1>6. Recorded(c)' = b /\ batches'[c] = b
  BY <1>1, <1>5 DEF Store, Recorded, TypeOK
<1>7. LeaseNamesOpenBatch'
  BY <1>1, <1>2, <1>6 DEF LeaseNamesOpenBatch, Recorded
<1>8. OpenCopies'
  <2> SUFFICES ASSUME NEW e \in Calls, pc'[e] \in {"plan", "speak"}
               PROVE  local'[e].call = e /\ local'[e].status = "generating"
    BY DEF OpenCopies
  <2>1. CASE e = c
    <3>1. local' = [local EXCEPT ![c] = b]
      BY <1>1, <2>1 DEF Return, TypeOK
    <3> QED BY <1>2, <2>1, <3>1 DEF TypeOK
  <2>2. CASE e # c
    <3>1. pc'[e] = pc[e] /\ local'[e] = local[e]
      BY <1>1, <1>3, <2>2 DEF TypeOK
    <3> QED BY <3>1 DEF IInv, OpenCopies
  <2> QED BY <2>1, <2>2
<1>9. HolderEntered'
  BY <1>1, <1>3 DEF HolderEntered
<1>10. /\ Len(starts) \in Nat /\ DOMAIN starts = 1 .. Len(starts)
       /\ DOMAIN starts' = 1 .. (Len(starts) + 1)
       /\ \A i \in DOMAIN starts : starts'[i] = starts[i]
       /\ starts'[Len(starts) + 1] = c
  <2>1. starts \in Seq(Calls) /\ starts' = Append(starts, c)
    BY <1>1 DEF TypeOK
  <2> QED BY <2>1
<1>11. StartsRecorded'
  <2> SUFFICES ASSUME NEW i \in DOMAIN starts'
               PROVE  pc'[starts'[i]] \notin {"idle", "begin"} /\ ledger'[date[starts'[i]]][req[starts'[i]]] # NoBatch
    BY <1>1 DEF StartsRecorded, Recorded
  <2>1. CASE i \in DOMAIN starts
    <3>1. starts'[i] = starts[i]
      BY <1>10, <2>1
    <3>2. ledger' = [ledger EXCEPT ![date[c]][req[c]] = b]
      BY <1>1 DEF Store
    <3> QED BY <1>2, <1>3, <1>4, <1>5, <2>1, <3>1, <3>2
  <2>2. CASE i = Len(starts) + 1
    BY <1>1, <1>2, <1>3, <1>6, <1>10, <2>2 DEF Recorded
  <2> QED BY <1>10, <2>1, <2>2
<1>12. NoRegeneration'
  <2> SUFFICES ASSUME NEW i \in DOMAIN starts', NEW j \in DOMAIN starts', i < j,
                      req[starts'[i]] = req[starts'[j]]
               PROVE  date[starts'[j]] \notin {date[starts'[i]], date[starts'[i]] + 1}
    BY <1>1 DEF NoRegeneration
  <2>1. i \in DOMAIN starts /\ starts'[i] = starts[i]
    BY <1>10
  <2>2. CASE j \in DOMAIN starts
    BY <1>10, <2>1, <2>2 DEF IInv, NoRegeneration
  <2>3. CASE j = Len(starts) + 1
    <3>1. starts'[j] = c
      BY <1>10, <2>3
    <3>2. date[starts[i]] \notin {date[c], date[c] - 1}
      BY <1>1, <1>4, <2>1, <3>1 DEF KnownOn
    <3> QED BY <1>4, <1>5, <2>1, <3>1, <3>2 DEF Days
  <2> QED BY <1>10, <2>2, <2>3
<1> QED BY <1>7, <1>8, <1>9, <1>11, <1>12 DEF IInv

\* AppendCharacter keeps the batch open, the lease and the record in step.
LEMMA AppendStep ==
  ASSUME TypeOK, IInv, NEW c \in Calls, AppendCharacter(c)
  PROVE  IInv'
<1> DEFINE n     == sequence[date[c]] + 1
           saved == [local[c] EXCEPT !.said = Append(@, n)]
           sent  == [local[c] EXCEPT !.said = Append(@, 0)]
<1>1. /\ pc[c] = "speak"
      /\ \/ Holds(c) /\ Store(c, saved)
         \/ UNCHANGED <<ledger, batches>>
      /\ \/ Go(c, "speak") /\ local' = [local EXCEPT ![c] = saved]
         \/ pc' = [pc EXCEPT ![c] = "interrupt"] /\ local' = [local EXCEPT ![c] = sent]
      /\ UNCHANGED <<lease, req, date, starts>>
  BY DEF AppendCharacter, Fail
<1>2. saved.call = c /\ saved.status = "generating" /\ saved # NoBatch /\ saved \in BatchType
  <2>1. local[c] \in BatchType /\ n \in Nat
    BY DEF TypeOK
  <2>2. local[c].call = c /\ local[c].status = "generating"
    BY <1>1 DEF IInv, OpenCopies
  <2>3. saved.call = c /\ saved.status = "generating"
    BY <2>1, <2>2 DEF BatchType
  <2>4. saved \in BatchType
    BY <2>1, SaidType
  <2>5. NoBatch.call = Nobody
    BY DEF NoBatch
  <2> QED BY <2>3, <2>4, <2>5, NobodyAssumption
<1> HIDE DEF saved, sent, n
<1>3. pc'[c] \in {"speak", "interrupt"} /\ \A e \in Calls \ {c} : pc'[e] = pc[e] /\ local'[e] = local[e]
  BY <1>1 DEF Go, TypeOK
<1>4. OpenCopies'
  <2> SUFFICES ASSUME NEW e \in Calls, pc'[e] \in {"plan", "speak"}
               PROVE  local'[e].call = e /\ local'[e].status = "generating"
    BY DEF OpenCopies
  <2>1. CASE e = c
    <3>1. local' = [local EXCEPT ![c] = saved]
      BY <1>1, <2>1 DEF TypeOK
    <3> QED BY <1>2, <2>1, <3>1 DEF TypeOK
  <2>2. CASE e # c
    BY <1>3, <2>2 DEF IInv, OpenCopies
  <2> QED BY <2>1, <2>2
<1>5. HolderEntered'
  BY <1>1, <1>3 DEF IInv, HolderEntered, TypeOK
<1>6. \A i \in DOMAIN starts : starts[i] \in Calls /\ pc'[starts[i]] \notin {"idle", "begin"}
  BY <1>3, StartsEntered
<1>7. NoRegeneration'
  BY <1>1 DEF IInv, NoRegeneration
<1>8. LeaseNamesOpenBatch' /\ StartsRecorded'
  <2>1. CASE Holds(c) /\ Store(c, saved)
    <3>1. /\ Recorded(c)' = saved /\ batches'[c] = saved
          /\ \A i \in DOMAIN starts : Recorded(starts[i])' # NoBatch
      BY <1>1, <1>2, <2>1, FencedStore
    <3>2. LeaseNamesOpenBatch'
      BY <1>1, <1>2, <2>1, <3>1 DEF LeaseNamesOpenBatch, Recorded, Holds
    <3>3. StartsRecorded'
      BY <1>1, <1>6, <3>1 DEF StartsRecorded
    <3> QED BY <3>2, <3>3
  <2>2. CASE UNCHANGED <<ledger, batches>>
    BY <1>1, <1>6, <2>2 DEF IInv, LeaseNamesOpenBatch, StartsRecorded, Recorded
  <2> QED BY <1>1, <2>1, <2>2
<1> QED BY <1>4, <1>5, <1>7, <1>8 DEF IInv

\* InterruptBatch drops the lease with the batch it ends.
LEMMA InterruptStep ==
  ASSUME TypeOK, IInv, NEW c \in Calls, Interrupt(c)
  PROVE  IInv'
<1>1. /\ pc[c] = "interrupt" /\ pc'[c] = "done" /\ \A e \in Calls \ {c} : pc'[e] = pc[e]
      /\ local' = [local EXCEPT ![c] = NoBatch]
      /\ UNCHANGED <<req, date, starts>>
  BY DEF Interrupt, Go, TypeOK
<1>2. OpenCopies'
  BY <1>1 DEF IInv, OpenCopies, TypeOK
<1>3. \A i \in DOMAIN starts : starts[i] \in Calls /\ pc'[starts[i]] \notin {"idle", "begin"}
  BY <1>1, StartsEntered
<1>4. NoRegeneration'
  BY <1>1 DEF IInv, NoRegeneration
<1>5. CASE UNCHANGED <<ledger, batches>> /\ lease' \in {lease, Nobody}
  <2>1. LeaseNamesOpenBatch' /\ StartsRecorded'
    BY <1>1, <1>3, <1>5 DEF IInv, LeaseNamesOpenBatch, StartsRecorded, Recorded
  <2>2. HolderEntered'
    BY <1>1, <1>5 DEF IInv, HolderEntered, TypeOK
  <2> QED BY <1>2, <1>4, <2>1, <2>2 DEF IInv
<1>6. CASE \E b \in BatchType : b # NoBatch /\ Store(c, b) /\ lease' = Nobody
  <2>1. PICK b \in BatchType : b # NoBatch /\ Store(c, b) /\ lease' = Nobody
    BY <1>6
  <2>2. \A i \in DOMAIN starts : Recorded(starts[i])' # NoBatch
    BY <1>1, <2>1, FencedStore
  <2>3. LeaseNamesOpenBatch' /\ HolderEntered' /\ StartsRecorded'
    BY <1>1, <1>3, <2>1, <2>2 DEF LeaseNamesOpenBatch, HolderEntered, StartsRecorded
  <2> QED BY <1>2, <1>4, <2>3 DEF IInv
<1>7. \/ UNCHANGED <<ledger, batches>> /\ lease' \in {lease, Nobody}
      \/ \E b \in BatchType : b # NoBatch /\ Store(c, b) /\ lease' = Nobody
  <2> DEFINE old == IF batches[c] # NoBatch THEN batches[c] ELSE ledger[date[c]][req[c]]
  <2>1. old \in BatchType
    BY DEF TypeOK
  <2>2. \/ old.status = "generating" /\ Store(c, Interrupted(old)) /\ lease' = Nobody
        \/ UNCHANGED <<ledger, batches>> /\ lease' \in {lease, Nobody}
    BY DEF Interrupt
  <2>3. old.status = "generating" => old # NoBatch
    BY DEF NoBatch
  <2> HIDE DEF old
  <2> QED BY <2>1, <2>2, <2>3, InterruptedType
<1> QED BY <1>5, <1>6, <1>7

LEMMA NextIInv == TypeOK /\ IInv /\ [Next]_vars => IInv'
<1> SUFFICES ASSUME TypeOK, IInv, [Next]_vars PROVE IInv'
  OBVIOUS
<1>1. ASSUME NEW c \in Calls, Refuse(c) \/ BeginBusy(c) \/ BeginUnreached(c) \/ Crash(c) PROVE IInv'
  <2>1. /\ UNCHANGED <<ledger, batches, lease, req, date, starts>>
        /\ pc'[c] \in {"done", "crashed"}
        /\ \A e \in Calls \ {c} : pc'[e] = pc[e] /\ local'[e] = local[e]
    BY <1>1 DEF Refuse, BeginBusy, BeginUnreached, Crash, Return, storeVars, TypeOK
  <2> QED BY <2>1, IdleStep
<1>2. CASE LeaseExpires \/ ClearCheck \/ ClearToday \/ Tick \/ UNCHANGED vars
  <2>1. UNCHANGED <<ledger, batches, req, date, starts, pc, local>> /\ lease' \in {lease, Nobody}
    BY <1>2 DEF LeaseExpires, ClearCheck, ClearToday, Tick, vars, storeVars, callVars
  <2> QED BY <2>1, IdleStep
<1>3. ASSUME NEW c \in Calls, NEW n \in 1 .. MaxPlan, SavePlan(c, n) PROVE IInv'
  <2> DEFINE b == [local[c] EXCEPT !.planned = n]
  <2>1. b \in BatchType /\ b.call = c /\ b.status = "generating" /\ pc[c] = "plan"
    <3>1. local[c] \in BatchType /\ n \in 0 .. MaxPlan
      BY BoundAssumption DEF TypeOK
    <3>2. b \in BatchType
      BY <3>1, PlannedType
    <3> QED BY <1>3, <3>1, <3>2 DEF SavePlan, IInv, OpenCopies, BatchType
  <2>2. SaveBatch(c, b, FALSE)
    BY <1>3 DEF SavePlan
  <2> HIDE DEF b
  <2> QED BY <2>1, <2>2, SaveBatchStep
<1>4. ASSUME NEW c \in Calls, FailGeneration(c) PROVE IInv'
  <2>1. Interrupted(local[c]) \in BatchType /\ Interrupted(local[c]).call = c /\ pc[c] = "speak"
    BY <1>4, InterruptedType DEF FailGeneration, IInv, OpenCopies, TypeOK
  <2> QED BY <1>4, <2>1, SaveBatchStep DEF FailGeneration
<1>5. ASSUME NEW c \in Calls, Complete(c) PROVE IInv'
  <2> DEFINE b == [local[c] EXCEPT !.status = "complete"]
  <2>1. b \in BatchType /\ b.call = c /\ pc[c] = "speak"
    <3>1. local[c] \in BatchType
      BY DEF TypeOK
    <3> QED BY <1>5, <3>1 DEF Complete, IInv, OpenCopies, BatchType, Statuses
  <2>2. SaveBatch(c, b, TRUE)
    BY <1>5 DEF Complete
  <2> HIDE DEF b
  <2> QED BY <2>1, <2>2, SaveBatchStep
<1> QED
  BY <1>1, <1>2, <1>3, <1>4, <1>5, EnterStep, BeginExistingStep, BeginStartedStep, AppendStep,
     InterruptStep DEF Next, Proceed, Begin

\* The lease of a scope names its open batch, at most one call that got past
\* BeginBatch generates under it, and none of them began on a batch already ended:
\* what BeginBatch and the lease check of the saves keep up between them.
THEOREM InvariantHolds == Spec => []IInv
  BY InitIInv, NextIInv, TypeCorrect, PTL DEF Spec

\* The lease key always names the batch the ledger shows as generating for it,
\* for any number of calls, expiries, crashes, lost replies and clears.
THEOREM LeaseIsExclusive == Spec => []LeaseNamesOpenBatch
<1>1. IInv => LeaseNamesOpenBatch
  BY DEF IInv
<1> QED BY <1>1, InvariantHolds, PTL

\* beginBatchScript starts a request id at most once in any two days: the ledger
\* of the day and of the day before is asked, and nothing ever erases an entry.
THEOREM NeverRegenerated == Spec => []NoRegeneration
<1>1. IInv => NoRegeneration
  BY DEF IInv
<1> QED BY <1>1, InvariantHolds, PTL

-----------------------------------------------------------------------------
(* An ended record is final.                                               *)

EndedKept == \A d \in Days, r \in Requests :
  ledger[d][r].status \in Terminal => ledger'[d][r] = ledger[d][r]

\* Under the fence the call's own record is still generating, so a store by the
\* holder of the lease touches no ended record.
LEMMA StoreKeepsEnded ==
  ASSUME TypeOK, IInv, NEW c \in Calls, Holds(c), NEW b, Store(c, b)
  PROVE  EndedKept
<1>1. Recorded(c).status = "generating"
  BY NobodyAssumption DEF Holds, IInv, LeaseNamesOpenBatch
<1>2. ledger' = [ledger EXCEPT ![date[c]][req[c]] = b]
  BY DEF Store
<1> QED BY <1>1, <1>2 DEF EndedKept, Recorded, Terminal, TypeOK

LEMMA NextKeepsEnded == TypeOK /\ IInv /\ [Next]_vars => EndedKept
<1> SUFFICES ASSUME TypeOK, IInv, [Next]_vars PROVE EndedKept
  OBVIOUS
<1>1. CASE UNCHANGED ledger
  BY <1>1 DEF EndedKept
<1>2. ASSUME NEW c \in Calls, BeginExisting(c) PROVE EndedKept
  <2> DEFINE d   == LedgerDay(c)
             old == ledger[d][req[c]]
             b   == IF lease = Nobody THEN Interrupted(old) ELSE old
  <2>1. d \in Days /\ req[c] \in Requests /\ old \in BatchType
    BY <1>2, LedgerDayType DEF BeginExisting, TypeOK
  <2>2. old.status \in Terminal => b = old
    BY <2>1, InterruptedType DEF Terminal
  <2>3. ledger' = [ledger EXCEPT ![d][req[c]] = b]
    BY <1>2 DEF BeginExisting
  <2> HIDE DEF b, d
  <2> QED BY <2>1, <2>2, <2>3 DEF EndedKept, TypeOK
<1>3. ASSUME NEW c \in Calls, BeginStarted(c) PROVE EndedKept
  <2>1. PICK b : ledger' = [ledger EXCEPT ![date[c]][req[c]] = b]
    BY <1>3 DEF BeginStarted, Store
  <2>2. ledger[date[c]][req[c]] = NoBatch
    BY <1>3 DEF BeginStarted, KnownOn, TypeOK
  <2>3. NoBatch.status \notin Terminal
    BY DEF NoBatch, Terminal
  <2> QED BY <2>1, <2>2, <2>3 DEF EndedKept, TypeOK
<1>4. ASSUME NEW c \in Calls, NEW b, NEW release \in BOOLEAN, SaveBatch(c, b, release) PROVE EndedKept
  BY <1>1, <1>4, StoreKeepsEnded DEF SaveBatch
<1>5. ASSUME NEW c \in Calls, AppendCharacter(c) PROVE EndedKept
  <2>1. UNCHANGED ledger \/ (Holds(c) /\ \E b : Store(c, b))
    BY <1>5 DEF AppendCharacter
  <2> QED BY <1>1, <2>1, StoreKeepsEnded
<1>6. ASSUME NEW c \in Calls, Interrupt(c) PROVE EndedKept
  <2>1. UNCHANGED ledger \/ (Holds(c) /\ \E b : Store(c, b))
    BY <1>6 DEF Interrupt
  <2> QED BY <1>1, <2>1, StoreKeepsEnded
<1>7. ASSUME NEW c \in Calls, Refuse(c) \/ Enter(c) \/ BeginBusy(c) \/ BeginUnreached(c) \/ Crash(c)
      PROVE  EndedKept
  BY <1>1, <1>7 DEF Refuse, Enter, BeginBusy, BeginUnreached, Crash, storeVars
<1>8. CASE LeaseExpires \/ ClearCheck \/ ClearToday \/ Tick \/ UNCHANGED vars
  BY <1>1, <1>8 DEF LeaseExpires, ClearCheck, ClearToday, Tick, vars, storeVars
<1>9. ASSUME NEW c \in Calls, NEW n \in 1 .. MaxPlan, SavePlan(c, n) PROVE EndedKept
  BY <1>4, <1>9 DEF SavePlan
<1>10. ASSUME NEW c \in Calls, FailGeneration(c) \/ Complete(c) PROVE EndedKept
  BY <1>4, <1>10 DEF FailGeneration, Complete
<1> QED
  BY <1>2, <1>3, <1>5, <1>6, <1>7, <1>8, <1>9, <1>10 DEF Next, Proceed, Begin

\* Once the ledger says how a batch ended - by its generator, by its cleanup or
\* by a retry that found the lease gone - no step of the system changes it.
THEOREM OutcomeIsFinal == Spec => EndedIsFinal
<1>1. TypeOK /\ IInv /\ [Next]_vars =>
        [\A d \in Days, r \in Requests :
           ledger[d][r].status \in Terminal => ledger'[d][r] = ledger[d][r]]_vars
  BY NextKeepsEnded DEF EndedKept
<1> QED BY <1>1, TypeCorrect, InvariantHolds, PTL DEF Spec, EndedIsFinal

-----------------------------------------------------------------------------
(* What the ledger records and what the calls answer.                      *)

\* The holder of the lease works on what the ledger holds of its batch.
HolderCopies ==
  \A c \in Calls : lease = c /\ pc[c] \in {"plan", "speak"} => local[c] = Recorded(c)

\* A record stands under the day and the request id of the call that started it.
RecordsOwned ==
  \A d \in Days, r \in Requests :
    ledger[d][r] # NoBatch =>
      LET k == ledger[d][r].call
      IN  k \in Calls /\ date[k] = d /\ req[k] = r /\ pc[k] \notin {"idle", "begin"}

\* What a call started is recorded as its own.
StartsOwned == \A i \in DOMAIN starts : Recorded(starts[i]).call = starts[i]

\* The replies of a batch fit its plan and its outcome.
FitsPlan(b) ==
  /\ b.status = "complete"   => Len(b.said) = b.planned /\ b.planned > 0
  /\ b.status = "partial"    => Len(b.said) \in 1 .. b.planned
  /\ b.status = "failed"     => b.said = <<>>
  /\ b.status = "generating" => Len(b.said) <= b.planned

PlansFit ==
  /\ \A d \in Days, r \in Requests : FitsPlan(ledger[d][r])
  /\ \A c \in Calls :
       /\ pc[c] = "plan"  => local[c].said = <<>>
       /\ pc[c] = "speak" => local[c].planned > 0 /\ Len(local[c].said) <= local[c].planned

\* A call that is cleaning up is about to return an error.
CleaningFails == \A c \in Calls : pc[c] = "interrupt" => answer[c].kind # "batch"

\* What is answered is the batch of some call.
AnswersNamed ==
  \A c \in Calls : pc[c] = "done" /\ answer[c].kind = "batch" => answer[c].batch.call \in Calls

RInv == /\ HolderCopies
        /\ RecordsOwned
        /\ StartsOwned
        /\ PlansFit
        /\ CleaningFails
        /\ AnswersNamed
        /\ AnswersAreRecorded

-----------------------------------------------------------------------------
(* How a step changes the ledger.                                          *)

\* beginBatchScript records a new batch under a day and id it found unknown.
Opens(c) ==
  /\ pc[c] = "begin" /\ KnownOn(c) = {} /\ lease = Nobody
  /\ starts' = Append(starts, c)
  /\ pc'[c] \notin {"idle", "begin"}
  /\ \E b \in BatchType :
       /\ b.call = c /\ b.status = "generating" /\ b.said = <<>>
       /\ ledger' = [ledger EXCEPT ![date[c]][req[c]] = b]

\* beginBatchScript ends a batch that nobody generates any more.
Converges ==
  /\ lease = Nobody
  /\ UNCHANGED starts
  /\ \E d \in Days, r \in Requests :
       ledger[d][r] # NoBatch /\ ledger' = [ledger EXCEPT ![d][r] = Interrupted(ledger[d][r])]

\* b becomes n: no reply is lost, and at most one is new.
Grows(b, n) == n.call = b.call /\ Prefix(b.said, n.said) /\ Len(n.said) <= Len(b.said) + 1

\* The holder of the lease saves its batch.
Saves(c) ==
  /\ Holds(c)
  /\ UNCHANGED starts
  /\ \E b \in BatchType :
       /\ Grows(Recorded(c), b) /\ FitsPlan(b)
       /\ ledger' = [ledger EXCEPT ![date[c]][req[c]] = b]

LedgerStep == UNCHANGED <<ledger, starts>> \/ Converges \/ \E c \in Calls : Opens(c) \/ Saves(c)

LEMMA PrefixItself == ASSUME NEW s \in Seq(Nat) PROVE Prefix(s, s)
  BY DEF Prefix

LEMMA PrefixAppend ==
  ASSUME NEW s \in Seq(Nat), NEW n \in Nat
  PROVE  Prefix(s, Append(s, n)) /\ Len(Append(s, n)) = Len(s) + 1
  BY DEF Prefix

\* Giving up keeps the replies, and the outcome it gives fits them.
LEMMA InterruptedFits ==
  ASSUME NEW b \in BatchType, FitsPlan(b)
  PROVE  /\ FitsPlan(Interrupted(b))
         /\ Interrupted(b).said = b.said
<1>1. b.said \in Seq(Nat) /\ b.planned \in Nat
  BY BoundAssumption DEF BatchType
<1>2. CASE b.status # "generating"
  BY <1>2 DEF Interrupted
<1>3. CASE b.status = "generating"
  <2> DEFINE s == IF b.said = <<>> THEN "failed" ELSE "partial"
             n == [b EXCEPT !.status = s]
  <2>1. n.status = s /\ n.said = b.said /\ n.planned = b.planned
    BY DEF BatchType
  <2>2. Len(b.said) <= b.planned /\ Len(b.said) \in Nat /\ (b.said # <<>> => Len(b.said) > 0)
    BY <1>1, <1>3 DEF FitsPlan
  <2>3. Interrupted(b) = n
    BY <1>3 DEF Interrupted
  <2> HIDE DEF n
  <2> QED BY <1>1, <2>1, <2>2, <2>3 DEF FitsPlan
<1> QED BY <1>2, <1>3

\* A batch that keeps its author and its replies grows.
LEMMA GrowsItself ==
  ASSUME NEW b \in BatchType, NEW n \in BatchType, n.call = b.call, n.said = b.said
  PROVE  Grows(b, n)
<1>1. b.said \in Seq(Nat)
  BY DEF BatchType
<1> QED BY <1>1, PrefixItself DEF Grows

\* What a running call holds is the record, when it holds the lease.
LEMMA CopyOfHolder ==
  ASSUME TypeOK, IInv, RInv, NEW c \in Calls, Holds(c), pc[c] \in {"plan", "speak"}
  PROVE  /\ local[c] = Recorded(c) /\ local[c] \in BatchType
         /\ local[c].call = c /\ local[c].status = "generating"
         /\ local[c].said \in Seq(Nat) /\ local[c].planned \in Nat
<1>1. local[c] \in BatchType
  BY DEF TypeOK
<1>2. local[c] = Recorded(c) /\ local[c].call = c /\ local[c].status = "generating"
  BY DEF RInv, HolderCopies, IInv, OpenCopies, Holds
<1> QED BY <1>1, <1>2, BoundAssumption DEF BatchType

\* A save that reaches Redis writes what the call made of its copy.
LEMMA SaveLedger ==
  ASSUME TypeOK, IInv, RInv, NEW c \in Calls, NEW b \in BatchType, NEW release \in BOOLEAN,
         pc[c] \in {"plan", "speak"}, b.call = local[c].call, b.said = local[c].said, FitsPlan(b),
         SaveBatch(c, b, release)
  PROVE  LedgerStep
<1>1. CASE UNCHANGED ledger
  BY <1>1 DEF SaveBatch, LedgerStep
<1>2. CASE Holds(c) /\ Store(c, b)
  <2>1. Grows(Recorded(c), b)
    BY <1>2, CopyOfHolder, GrowsItself
  <2> QED BY <1>2, <2>1 DEF SaveBatch, Store, Saves, LedgerStep
<1> QED BY <1>1, <1>2 DEF SaveBatch

\* What SavePlan, FailGeneration and Complete save fits the plan.
LEMMA PlannedFits ==
  ASSUME TypeOK, IInv, RInv, NEW c \in Calls, NEW n \in 1 .. MaxPlan, pc[c] = "plan"
  PROVE  LET b == [local[c] EXCEPT !.planned = n]
         IN  /\ b \in BatchType /\ FitsPlan(b) /\ b.call = local[c].call /\ b.said = local[c].said
             /\ b.said = <<>> /\ b.planned > 0
<1>1. local[c] \in BatchType /\ local[c].status = "generating" /\ local[c].said = <<>>
  BY DEF TypeOK, IInv, OpenCopies, RInv, PlansFit
<1>2. n \in 0 .. MaxPlan /\ n > 0 /\ n \in Nat
  BY BoundAssumption
<1>3. [local[c] EXCEPT !.planned = n] \in BatchType
  BY <1>1, <1>2, PlannedType
<1> QED BY <1>1, <1>2, <1>3 DEF FitsPlan, BatchType

LEMMA CompleteFits ==
  ASSUME TypeOK, IInv, RInv, NEW c \in Calls, pc[c] = "speak", Len(local[c].said) = local[c].planned
  PROVE  LET b == [local[c] EXCEPT !.status = "complete"]
         IN  b \in BatchType /\ FitsPlan(b) /\ b.call = local[c].call /\ b.said = local[c].said
<1>1. local[c] \in BatchType /\ local[c].planned > 0
  BY DEF TypeOK, RInv, PlansFit
<1>2. [local[c] EXCEPT !.status = "complete"] \in BatchType
  BY <1>1, StatusType DEF Statuses
<1> QED BY <1>1, <1>2 DEF FitsPlan, BatchType

LEMMA SpeakFits ==
  ASSUME TypeOK, IInv, RInv, NEW c \in Calls, pc[c] = "speak"
  PROVE  FitsPlan(local[c])
<1>1. local[c].status = "generating" /\ Len(local[c].said) <= local[c].planned
  BY DEF IInv, OpenCopies, RInv, PlansFit
<1> QED BY <1>1 DEF FitsPlan

\* The next reply still fits the plan, numbered or not.
LEMMA AppendFits ==
  ASSUME TypeOK, IInv, RInv, NEW c \in Calls, NEW n \in Nat, pc[c] = "speak",
         Len(local[c].said) < local[c].planned
  PROVE  LET b == [local[c] EXCEPT !.said = Append(@, n)]
         IN  /\ b \in BatchType /\ FitsPlan(b) /\ Grows(local[c], b)
             /\ b.planned > 0 /\ Len(b.said) <= b.planned
<1> DEFINE b == [local[c] EXCEPT !.said = Append(@, n)]
<1>1. local[c] \in BatchType /\ local[c].status = "generating"
  BY DEF TypeOK, IInv, OpenCopies
<1>2. b \in BatchType
  BY <1>1, SaidType
<1>3. /\ b.said = Append(local[c].said, n) /\ b.planned = local[c].planned
      /\ b.status = "generating" /\ b.call = local[c].call
  BY <1>1 DEF BatchType
<1>4. local[c].said \in Seq(Nat) /\ local[c].planned \in Nat
  BY <1>1, BoundAssumption DEF BatchType
<1>5. /\ Prefix(local[c].said, b.said) /\ Len(b.said) = Len(local[c].said) + 1
      /\ Len(local[c].said) \in Nat
  BY <1>3, <1>4, PrefixAppend
<1> HIDE DEF b
<1>6. Len(b.said) <= b.planned /\ b.planned > 0
  BY <1>3, <1>4, <1>5
<1>7. FitsPlan(b) /\ Grows(local[c], b)
  BY <1>3, <1>4, <1>5, <1>6 DEF FitsPlan, Grows
<1> QED BY <1>2, <1>6, <1>7 DEF b

\* Every step changes the ledger in one of these ways, if at all.
LEMMA NextLedger == TypeOK /\ IInv /\ RInv /\ [Next]_vars => LedgerStep
<1> SUFFICES ASSUME TypeOK, IInv, RInv, [Next]_vars PROVE LedgerStep
  OBVIOUS
<1>1. ASSUME NEW c \in Calls, Refuse(c) \/ Enter(c) \/ BeginBusy(c) \/ BeginUnreached(c) \/ Crash(c)
      PROVE  LedgerStep
  BY <1>1 DEF Refuse, Enter, BeginBusy, BeginUnreached, Crash, storeVars, LedgerStep
<1>2. CASE LeaseExpires \/ ClearCheck \/ ClearToday \/ Tick \/ UNCHANGED vars
  BY <1>2 DEF LeaseExpires, ClearCheck, ClearToday, Tick, vars, storeVars, LedgerStep
<1>3. ASSUME NEW c \in Calls, BeginExisting(c) PROVE LedgerStep
  <2> DEFINE d == LedgerDay(c)
  <2>1. d \in Days /\ req[c] \in Requests /\ ledger[d][req[c]] # NoBatch
    BY <1>3, LedgerDayType DEF BeginExisting, KnownOn, TypeOK
  <2>2. /\ ledger' = [ledger EXCEPT ![d][req[c]] =
                        IF lease = Nobody THEN Interrupted(ledger[d][req[c]]) ELSE ledger[d][req[c]]]
        /\ UNCHANGED starts
    BY <1>3 DEF BeginExisting
  <2> HIDE DEF d
  <2>3. CASE lease = Nobody
    BY <2>1, <2>2, <2>3 DEF Converges, LedgerStep
  <2>4. CASE lease # Nobody
    <3>1. ledger' = ledger
      BY <2>1, <2>2, <2>4 DEF TypeOK
    <3> QED BY <2>2, <3>1 DEF LedgerStep
  <2> QED BY <2>3, <2>4
<1>4. ASSUME NEW c \in Calls, BeginStarted(c) PROVE LedgerStep
  <2> DEFINE b == [call |-> c, status |-> "generating", planned |-> 0,
                   user |-> sequence[date[c]] + 1, said |-> <<>>]
  <2>1. b \in BatchType
    <3>1. sequence[date[c]] + 1 \in Nat
      BY DEF TypeOK
    <3> QED BY <3>1, BoundAssumption DEF BatchType, Statuses
  <2>2. b.call = c /\ b.status = "generating" /\ b.said = <<>>
    OBVIOUS
  <2>3. Store(c, b)
    BY <1>4 DEF BeginStarted
  <2>4. pc'[c] \notin {"idle", "begin"}
    BY <1>4 DEF BeginStarted, Go, Return, TypeOK
  <2> HIDE DEF b
  <2>5. Opens(c)
    BY <1>4, <2>1, <2>2, <2>3, <2>4 DEF BeginStarted, Opens, Store
  <2> QED BY <2>5 DEF LedgerStep
<1>5. ASSUME NEW c \in Calls, NEW n \in 1 .. MaxPlan, SavePlan(c, n) PROVE LedgerStep
  BY <1>5, PlannedFits, SaveLedger DEF SavePlan
<1>6. ASSUME NEW c \in Calls, FailGeneration(c) PROVE LedgerStep
  <2>1. pc[c] = "speak" /\ local[c] \in BatchType
    BY <1>6 DEF FailGeneration, TypeOK
  <2>2. /\ Interrupted(local[c]) \in BatchType /\ FitsPlan(Interrupted(local[c]))
        /\ Interrupted(local[c]).call = local[c].call /\ Interrupted(local[c]).said = local[c].said
    BY <2>1, SpeakFits, InterruptedType, InterruptedFits
  <2> QED BY <1>6, <2>1, <2>2, SaveLedger DEF FailGeneration
<1>7. ASSUME NEW c \in Calls, Complete(c) PROVE LedgerStep
  BY <1>7, CompleteFits, SaveLedger DEF Complete
<1>8. ASSUME NEW c \in Calls, AppendCharacter(c) PROVE LedgerStep
  <2> DEFINE n     == sequence[date[c]] + 1
             saved == [local[c] EXCEPT !.said = Append(@, n)]
  <2>1. /\ pc[c] = "speak" /\ Len(local[c].said) < local[c].planned /\ UNCHANGED starts
        /\ UNCHANGED ledger \/ (Holds(c) /\ Store(c, saved))
    BY <1>8 DEF AppendCharacter
  <2>2. n \in Nat
    BY DEF TypeOK
  <2>3. saved \in BatchType /\ FitsPlan(saved) /\ Grows(local[c], saved)
    BY <2>1, <2>2, AppendFits
  <2> HIDE DEF saved
  <2>4. CASE UNCHANGED ledger
    BY <2>1, <2>4 DEF LedgerStep
  <2>5. CASE Holds(c) /\ Store(c, saved)
    BY <2>1, <2>3, <2>5, CopyOfHolder DEF Store, Saves, LedgerStep
  <2> QED BY <2>1, <2>4, <2>5
<1>9. ASSUME NEW c \in Calls, Interrupt(c) PROVE LedgerStep
  <2>1. CASE UNCHANGED ledger
    BY <1>9, <2>1 DEF Interrupt, LedgerStep
  <2>2. CASE ~UNCHANGED ledger
    <3> DEFINE old == Recorded(c)
    <3>1. Holds(c)
      BY <1>9, <2>2 DEF Interrupt
    <3>2. batches[c] = old /\ old.call = c
      BY <3>1, NobodyAssumption DEF Holds, IInv, LeaseNamesOpenBatch
    <3>3. old # NoBatch /\ old \in BatchType /\ FitsPlan(old)
      BY <3>2, NobodyAssumption DEF NoBatch, Recorded, TypeOK, RInv, PlansFit
    <3>4. Store(c, Interrupted(old)) /\ UNCHANGED starts
      BY <1>9, <2>2, <3>2, <3>3 DEF Interrupt
    <3>5. /\ Interrupted(old) \in BatchType /\ FitsPlan(Interrupted(old))
          /\ Interrupted(old).call = old.call /\ Interrupted(old).said = old.said
      BY <3>3, InterruptedType, InterruptedFits
    <3>6. Grows(old, Interrupted(old))
      BY <3>3, <3>5, GrowsItself
    <3> HIDE DEF old
    <3>7. Saves(c)
      BY <3>1, <3>4, <3>5, <3>6 DEF Saves, Store, old
    <3> QED BY <3>7 DEF LedgerStep
  <2> QED BY <2>1, <2>2
<1> QED
  BY <1>1, <1>2, <1>3, <1>4, <1>5, <1>6, <1>7, <1>8, <1>9 DEF Next, Proceed, Begin

-----------------------------------------------------------------------------
(* The records: owned, fitting their plans, never losing a reply.          *)

GrowKept == \A d \in Days, r \in Requests :
  LET b == ledger[d][r]
      n == ledger'[d][r]
  IN  b.call # Nobody =>
        /\ n.call = b.call /\ Prefix(b.said, n.said)
        /\ Len(n.said) <= Len(b.said) + 1
        /\ n.said # b.said => lease = b.call

LEMMA StepGrows == TypeOK /\ IInv /\ RInv /\ LedgerStep => GrowKept
<1> SUFFICES ASSUME TypeOK, IInv, RInv, LedgerStep, NEW d \in Days, NEW r \in Requests,
                    ledger[d][r].call # Nobody
             PROVE  LET b == ledger[d][r]
                        n == ledger'[d][r]
                    IN  Grows(b, n) /\ (n.said # b.said => lease = b.call)
  BY DEF GrowKept, Grows
<1>1. ledger[d][r] \in BatchType /\ ledger \in [Days -> [Requests -> BatchType]]
  BY DEF TypeOK
<1>2. Grows(ledger[d][r], ledger[d][r])
  BY <1>1, GrowsItself
<1>3. CASE UNCHANGED ledger
  BY <1>2, <1>3
<1>4. CASE Converges
  <2>1. PICK e \in Days, q \in Requests : ledger' = [ledger EXCEPT ![e][q] = Interrupted(ledger[e][q])]
    BY <1>4 DEF Converges
  <2>2. FitsPlan(ledger[d][r])
    BY DEF RInv, PlansFit
  <2>3. Grows(ledger[d][r], Interrupted(ledger[d][r])) /\ Interrupted(ledger[d][r]).said = ledger[d][r].said
    BY <1>1, <2>2, InterruptedType, InterruptedFits, GrowsItself
  <2>4. ledger'[d][r] \in {ledger[d][r], Interrupted(ledger[d][r])}
    BY <1>1, <2>1
  <2> QED BY <1>2, <2>3, <2>4
<1>5. ASSUME NEW c \in Calls, Opens(c) PROVE ledger'[d][r] = ledger[d][r]
  <2>1. ledger[date[c]][req[c]] = NoBatch
    BY <1>5 DEF Opens, KnownOn, TypeOK
  <2>2. d # date[c] \/ r # req[c]
    BY <2>1 DEF NoBatch
  <2>3. PICK b \in BatchType : ledger' = [ledger EXCEPT ![date[c]][req[c]] = b]
    BY <1>5 DEF Opens
  <2> QED BY <1>1, <2>2, <2>3
<1>6. ASSUME NEW c \in Calls, Saves(c)
      PROVE  ledger'[d][r] = ledger[d][r] \/ (Grows(ledger[d][r], ledger'[d][r]) /\ lease = ledger[d][r].call)
  <2>1. PICK b \in BatchType : Grows(Recorded(c), b) /\ ledger' = [ledger EXCEPT ![date[c]][req[c]] = b]
    BY <1>6 DEF Saves
  <2>2. CASE d = date[c] /\ r = req[c]
    <3>1. ledger[d][r] = Recorded(c) /\ ledger'[d][r] = b
      BY <1>1, <2>1, <2>2 DEF Recorded
    <3>2. Recorded(c).call = c /\ lease = c
      BY <1>6, NobodyAssumption DEF Saves, Holds, IInv, LeaseNamesOpenBatch
    <3> QED BY <2>1, <3>1, <3>2
  <2>3. CASE d # date[c] \/ r # req[c]
    BY <1>1, <2>1, <2>3
  <2> QED BY <2>2, <2>3
<1> QED BY <1>2, <1>3, <1>4, <1>5, <1>6 DEF LedgerStep

LEMMA NextGrows == TypeOK /\ IInv /\ RInv /\ [Next]_vars => GrowKept
  BY NextLedger, StepGrows

\* Days, ids and positions of the calls that are past BeginBatch stay there.
LEMMA CallsMoveOn ==
  ASSUME TypeOK, [Next]_vars
  PROVE  /\ req' = req
         /\ \A k \in Calls : pc[k] # "idle" => date'[k] = date[k]
         /\ \A k \in Calls : pc[k] \notin {"idle", "begin"} => pc'[k] \notin {"idle", "begin"}
<1>1. CASE \E c \in Calls : Enter(c)
  BY <1>1 DEF Enter, Go, storeVars, TypeOK
<1>2. CASE UNCHANGED <<req, date>> /\ (pc' = pc \/ \E c \in Calls : \E p \in Positions \ {"idle", "begin"} : pc' = [pc EXCEPT ![c] = p])
  BY <1>2 DEF TypeOK
<1>3. ASSUME NEW c \in Calls, Refuse(c) \/ Proceed(c) \/ Crash(c)
      PROVE  UNCHANGED <<req, date>> /\ \E p \in Positions \ {"idle", "begin"} : pc' = [pc EXCEPT ![c] = p]
  <2> DEFINE Moves == \E p \in Positions \ {"idle", "begin"} : pc' = [pc EXCEPT ![c] = p]
  <2>1. \A p \in {"plan", "speak", "interrupt", "done", "crashed"} : p \in Positions \ {"idle", "begin"}
    BY DEF Positions, Working
  <2>2. ASSUME NEW a, Return(c, a) PROVE Moves
    BY <2>1, <2>2 DEF Return
  <2>3. ASSUME NEW k, Fail(c, k) PROVE Moves
    BY <2>1, <2>3 DEF Fail
  <2>4. ASSUME NEW p \in {"plan", "speak", "done"}, Go(c, p) PROVE Moves
    BY <2>1, <2>4 DEF Go
  <2>5. ASSUME NEW b, NEW release \in BOOLEAN, SaveBatch(c, b, release) PROVE Moves /\ UNCHANGED <<req, date>>
    BY <2>2, <2>3, <2>4, <2>5 DEF SaveBatch
  <2>6. CASE Refuse(c) \/ Begin(c)
    BY <2>2, <2>4, <2>6 DEF Refuse, Begin, BeginExisting, BeginBusy, BeginStarted, BeginUnreached
  <2>7. CASE AppendCharacter(c)
    BY <2>3, <2>4, <2>7 DEF AppendCharacter
  <2>8. CASE Interrupt(c)
    BY <2>4, <2>8 DEF Interrupt
  <2>9. CASE Crash(c)
    BY <2>1, <2>9 DEF Crash
  <2>10. CASE (\E n \in 1 .. MaxPlan : SavePlan(c, n)) \/ FailGeneration(c) \/ Complete(c)
    BY <2>5, <2>10 DEF SavePlan, FailGeneration, Complete
  <2> QED BY <1>3, <2>6, <2>7, <2>8, <2>9, <2>10 DEF Proceed
<1>4. CASE LeaseExpires \/ ClearCheck \/ ClearToday \/ Tick \/ UNCHANGED vars
  BY <1>4 DEF LeaseExpires, ClearCheck, ClearToday, Tick, vars, callVars
<1> QED BY <1>1, <1>2, <1>3, <1>4 DEF Next

LEMMA OwnedStep == TypeOK /\ IInv /\ RInv /\ [Next]_vars => RecordsOwned'
<1> SUFFICES ASSUME TypeOK, IInv, RInv, [Next]_vars,
                    NEW d \in Days, NEW r \in Requests, ledger'[d][r] # NoBatch
             PROVE  LET k == ledger'[d][r].call
                    IN  k \in Calls /\ date'[k] = d /\ req'[k] = r /\ pc'[k] \notin {"idle", "begin"}
  BY DEF RecordsOwned
<1>1. ledger \in [Days -> [Requests -> BatchType]] /\ ledger[d][r] \in BatchType
  BY DEF TypeOK
<1>2. CASE ledger[d][r] # NoBatch /\ ledger'[d][r].call = ledger[d][r].call
  BY <1>2, CallsMoveOn DEF RInv, RecordsOwned
<1>3. ASSUME NEW c \in Calls, Opens(c)
      PROVE  ledger'[d][r] = ledger[d][r] \/ (ledger'[d][r].call = c /\ date[c] = d /\ req[c] = r)
  BY <1>1, <1>3 DEF Opens
<1>4. ASSUME NEW c \in Calls, Opens(c), ledger'[d][r].call = c, date[c] = d, req[c] = r
      PROVE  date'[c] = d /\ req'[c] = r /\ pc'[c] \notin {"idle", "begin"}
  BY <1>4, CallsMoveOn DEF Opens
<1>5. ASSUME NEW c \in Calls, Saves(c) PROVE ledger[d][r] # NoBatch /\ ledger'[d][r].call = ledger[d][r].call
  <2>1. PICK b \in BatchType : b.call = Recorded(c).call /\ ledger' = [ledger EXCEPT ![date[c]][req[c]] = b]
    BY <1>5 DEF Saves, Grows
  <2>2. Recorded(c) # NoBatch
    BY <1>5, NobodyAssumption DEF Saves, Holds, IInv, LeaseNamesOpenBatch, NoBatch
  <2> QED BY <1>1, <2>1, <2>2 DEF Recorded
<1>6. CASE Converges
  <2>1. PICK e \in Days, q \in Requests : /\ ledger[e][q] # NoBatch
                                          /\ ledger' = [ledger EXCEPT ![e][q] = Interrupted(ledger[e][q])]
    BY <1>6 DEF Converges
  <2>2. ledger[d][r] # NoBatch /\ ledger'[d][r] \in {ledger[d][r], Interrupted(ledger[d][r])}
    BY <1>1, <2>1
  <2> QED BY <1>1, <1>2, <2>2, InterruptedType
<1>7. CASE UNCHANGED ledger
  BY <1>2, <1>7
<1> QED BY <1>2, <1>3, <1>4, <1>5, <1>6, <1>7, NextLedger DEF LedgerStep

LEMMA StartsOwnedStep == TypeOK /\ IInv /\ RInv /\ [Next]_vars => StartsOwned'
<1> SUFFICES ASSUME TypeOK, IInv, RInv, [Next]_vars, NEW i \in DOMAIN starts'
             PROVE  ledger'[date'[starts'[i]]][req'[starts'[i]]].call = starts'[i]
  BY DEF StartsOwned, Recorded
<1>1. CASE i \in DOMAIN starts /\ starts'[i] = starts[i]
  <2> DEFINE k == starts[i]
  <2>1. k \in Calls /\ pc[k] \notin {"idle", "begin"}
    BY <1>1, StartsEntered
  <2>2. date'[k] = date[k] /\ req'[k] = req[k] /\ date[k] \in Days /\ req[k] \in Requests
    BY <2>1, CallsMoveOn DEF TypeOK
  <2>3. ledger[date[k]][req[k]].call = k
    BY <1>1 DEF RInv, StartsOwned, Recorded
  <2>4. ledger'[date[k]][req[k]].call = k
    BY <2>1, <2>2, <2>3, NextGrows, NobodyAssumption DEF GrowKept
  <2> QED BY <1>1, <2>2, <2>4
<1>2. CASE UNCHANGED starts
  BY <1>1, <1>2
<1>3. ASSUME NEW c \in Calls, Opens(c)
      PROVE  ledger'[date'[starts'[i]]][req'[starts'[i]]].call = starts'[i]
  <2>1. starts' = Append(starts, c) /\ starts \in Seq(Calls)
    BY <1>3 DEF Opens, TypeOK
  <2>2. \/ i \in DOMAIN starts /\ starts'[i] = starts[i]
        \/ starts'[i] = c
    BY <2>1
  <2>3. date'[c] = date[c] /\ req'[c] = req[c] /\ date[c] \in Days /\ req[c] \in Requests
    BY <1>3, CallsMoveOn DEF Opens, TypeOK
  <2>4. ledger'[date[c]][req[c]].call = c
    BY <1>3, <2>3 DEF Opens, TypeOK
  <2> QED BY <1>1, <2>2, <2>3, <2>4
<1> QED BY <1>2, <1>3, NextLedger DEF LedgerStep, Converges, Saves

LEMMA RecordsFitStep ==
  TypeOK /\ IInv /\ RInv /\ [Next]_vars => \A d \in Days, r \in Requests : FitsPlan(ledger'[d][r])
<1> SUFFICES ASSUME TypeOK, IInv, RInv, [Next]_vars, NEW d \in Days, NEW r \in Requests
             PROVE  FitsPlan(ledger'[d][r])
  OBVIOUS
<1>1. /\ ledger \in [Days -> [Requests -> BatchType]] /\ ledger[d][r] \in BatchType
      /\ FitsPlan(ledger[d][r])
  BY DEF TypeOK, RInv, PlansFit
<1>2. CASE Converges
  <2>1. PICK e \in Days, q \in Requests : ledger' = [ledger EXCEPT ![e][q] = Interrupted(ledger[e][q])]
    BY <1>2 DEF Converges
  <2>2. ledger'[d][r] \in {ledger[d][r], Interrupted(ledger[d][r])}
    BY <1>1, <2>1
  <2> QED BY <1>1, <2>2, InterruptedFits
<1>3. ASSUME NEW c \in Calls, Opens(c) PROVE FitsPlan(ledger'[d][r])
  <2>1. PICK b \in BatchType : /\ b.status = "generating" /\ b.said = <<>>
                               /\ ledger' = [ledger EXCEPT ![date[c]][req[c]] = b]
    BY <1>3 DEF Opens
  <2>2. FitsPlan(b)
    <3>1. Len(b.said) = 0 /\ b.planned \in Nat
      BY <2>1, BoundAssumption DEF BatchType
    <3> QED BY <2>1, <3>1 DEF FitsPlan
  <2> QED BY <1>1, <2>1, <2>2
<1>4. ASSUME NEW c \in Calls, Saves(c) PROVE FitsPlan(ledger'[d][r])
  <2>1. PICK b \in BatchType : FitsPlan(b) /\ ledger' = [ledger EXCEPT ![date[c]][req[c]] = b]
    BY <1>4 DEF Saves
  <2> QED BY <1>1, <2>1
<1> QED BY <1>1, <1>2, <1>3, <1>4, NextLedger DEF LedgerStep

-----------------------------------------------------------------------------
(* The copies of the calls, and what they answer.                          *)

CopiesFit == \A c \in Calls :
  /\ pc[c] = "plan"  => local[c].said = <<>>
  /\ pc[c] = "speak" => local[c].planned > 0 /\ Len(local[c].said) <= local[c].planned

Copies == HolderCopies /\ CopiesFit /\ CleaningFails

\* A step of call c leaves the others' copies alone, and their records too while one
\* of them holds the lease.
LEMMA CopiesOfOthers ==
  ASSUME TypeOK, IInv, RInv, NEW c \in Calls,
         \A e \in Calls \ {c} : pc'[e] = pc[e] /\ local'[e] = local[e] /\ answer'[e] = answer[e],
         UNCHANGED <<req, date>>, lease' \in {lease, Nobody, c},
         UNCHANGED ledger \/ lease \in {c, Nobody},
         pc'[c] \in {"plan", "speak"} /\ lease' = c => local'[c] = Recorded(c)',
         pc'[c] = "plan"  => local'[c].said = <<>>,
         pc'[c] = "speak" => local'[c].planned > 0 /\ Len(local'[c].said) <= local'[c].planned,
         pc'[c] = "interrupt" => answer'[c].kind # "batch"
  PROVE  Copies'
<1>1. HolderCopies'
  <2> SUFFICES ASSUME NEW e \in Calls \ {c}, lease' = e, pc'[e] \in {"plan", "speak"}
               PROVE  local'[e] = ledger'[date'[e]][req'[e]]
    BY DEF HolderCopies, Recorded
  <2>1. lease = e
    BY NobodyAssumption
  <2>2. local[e] = Recorded(e)
    BY <2>1 DEF RInv, HolderCopies
  <2>3. UNCHANGED ledger
    BY <2>1, NobodyAssumption
  <2> QED BY <2>2, <2>3 DEF Recorded
<1>2. CopiesFit'
  BY DEF CopiesFit, RInv, PlansFit
<1>3. CleaningFails'
  BY DEF CleaningFails, RInv
<1> QED BY <1>1, <1>2, <1>3 DEF Copies

\* saveBatchScript: the call goes on with the copy it saved.
LEMMA SaveCopies ==
  ASSUME TypeOK, IInv, RInv, NEW c \in Calls, NEW b \in BatchType, NEW release \in BOOLEAN,
         SaveBatch(c, b, release), ~release => b.planned > 0 /\ Len(b.said) <= b.planned
  PROVE  Copies'
<1>1. /\ local' = [local EXCEPT ![c] = b] /\ UNCHANGED <<req, date>>
      /\ lease' \in {lease, Nobody} /\ (UNCHANGED ledger \/ lease = c)
  BY DEF SaveBatch, LeaseAfterSave, Holds
<1>2. /\ \A e \in Calls \ {c} : pc'[e] = pc[e] /\ local'[e] = local[e] /\ answer'[e] = answer[e]
      /\ local'[c] = b
  BY <1>1 DEF SaveBatch, Return, Go, Fail, TypeOK
<1>3. pc'[c] # "plan" /\ (pc'[c] = "speak" => ~release /\ Store(c, b))
  BY DEF SaveBatch, Return, Go, Fail, TypeOK
<1>4. pc'[c] = "interrupt" => answer'[c].kind # "batch"
  <2>1. \/ pc'[c] # "interrupt"
        \/ Fail(c, "unknown") \/ Fail(c, "lease_lost")
    BY DEF SaveBatch, Return, Go, TypeOK
  <2>2. Error("unknown").kind # "batch" /\ Error("lease_lost").kind # "batch"
    BY DEF Error
  <2> QED BY <2>1, <2>2 DEF Fail, TypeOK
<1>5. pc'[c] = "speak" => local'[c] = Recorded(c)'
  BY <1>1, <1>2, <1>3 DEF Store, Recorded, TypeOK
<1> QED BY <1>1, <1>2, <1>3, <1>4, <1>5, CopiesOfOthers

LEMMA CopiesStep == TypeOK /\ IInv /\ RInv /\ [Next]_vars => Copies'
<1> SUFFICES ASSUME TypeOK, IInv, RInv, [Next]_vars PROVE Copies'
  OBVIOUS
<1>k. \A k \in {"refused", "busy", "lease_lost", "unknown"} : Error(k).kind # "batch"
  BY DEF Error
<1>1. ASSUME NEW c \in Calls, Refuse(c) \/ BeginExisting(c) \/ BeginBusy(c) \/ BeginUnreached(c) \/ Crash(c)
      PROVE  Copies'
  <2>1. /\ \A e \in Calls \ {c} : pc'[e] = pc[e] /\ local'[e] = local[e] /\ answer'[e] = answer[e]
        /\ UNCHANGED <<req, date, lease>> /\ pc'[c] \in {"done", "crashed"}
    BY <1>1 DEF Refuse, BeginExisting, BeginBusy, BeginUnreached, Crash, Return, storeVars, TypeOK
  <2>2. UNCHANGED ledger \/ lease = Nobody
    <3>1. CASE BeginExisting(c)
      <4>1. LedgerDay(c) \in Days /\ req[c] \in Requests
        BY <3>1, LedgerDayType DEF BeginExisting, TypeOK
      <4> QED BY <3>1, <4>1 DEF BeginExisting, TypeOK
    <3>2. CASE ~BeginExisting(c)
      BY <1>1, <3>2 DEF Refuse, BeginBusy, BeginUnreached, Crash, storeVars
    <3> QED BY <3>1, <3>2
  <2> QED BY <2>1, <2>2, CopiesOfOthers
<1>2. ASSUME NEW c \in Calls, Enter(c) PROVE Copies'
  <2>1. /\ pc' = [pc EXCEPT ![c] = "begin"] /\ pc[c] = "idle"
        /\ UNCHANGED <<ledger, lease, req, local, answer>>
        /\ \A e \in Calls \ {c} : date'[e] = date[e]
    BY <1>2 DEF Enter, Go, storeVars, TypeOK
  <2>2. HolderCopies'
    BY <2>1 DEF RInv, HolderCopies, Recorded, TypeOK
  <2>3. CopiesFit' /\ CleaningFails'
    BY <2>1 DEF RInv, PlansFit, CopiesFit, CleaningFails, TypeOK
  <2> QED BY <2>2, <2>3 DEF Copies
<1>3. ASSUME NEW c \in Calls, BeginStarted(c) PROVE Copies'
  <2> DEFINE b == [call |-> c, status |-> "generating", planned |-> 0,
                   user |-> sequence[date[c]] + 1, said |-> <<>>]
  <2>1. /\ lease = Nobody /\ lease' = c /\ Store(c, b)
        /\ \/ Go(c, "plan") /\ local' = [local EXCEPT ![c] = b]
           \/ Return(c, Error("unknown")) /\ UNCHANGED local
        /\ UNCHANGED <<req, date>> /\ b.said = <<>>
    BY <1>3 DEF BeginStarted
  <2> HIDE DEF b
  <2>2. \A e \in Calls \ {c} : pc'[e] = pc[e] /\ local'[e] = local[e] /\ answer'[e] = answer[e]
    BY <2>1 DEF Go, Return, TypeOK
  <2>3. pc'[c] = "done" \/ (pc'[c] = "plan" /\ local'[c] = b)
    BY <2>1 DEF Go, Return, TypeOK
  <2>4. Recorded(c)' = b
    BY <2>1 DEF Store, Recorded, TypeOK
  <2> QED BY <2>1, <2>2, <2>3, <2>4, CopiesOfOthers
<1>4. ASSUME NEW c \in Calls, NEW n \in 1 .. MaxPlan, SavePlan(c, n) PROVE Copies'
  <2> DEFINE b == [local[c] EXCEPT !.planned = n]
  <2>1. b \in BatchType /\ b.said = <<>> /\ b.planned > 0 /\ SaveBatch(c, b, FALSE)
    BY <1>4, PlannedFits DEF SavePlan
  <2>2. Len(b.said) <= b.planned
    <3>1. Len(b.said) = 0 /\ b.planned \in Nat
      BY <2>1, BoundAssumption DEF BatchType
    <3> QED BY <3>1
  <2> HIDE DEF b
  <2> QED BY <2>1, <2>2, SaveCopies
<1>5. ASSUME NEW c \in Calls, FailGeneration(c) PROVE Copies'
  BY <1>5, InterruptedType, SaveCopies DEF FailGeneration, TypeOK
<1>6. ASSUME NEW c \in Calls, Complete(c) PROVE Copies'
  BY <1>6, CompleteFits, SaveCopies DEF Complete
<1>7. ASSUME NEW c \in Calls, AppendCharacter(c) PROVE Copies'
  <2> DEFINE n     == sequence[date[c]] + 1
             saved == [local[c] EXCEPT !.said = Append(@, n)]
             sent  == [local[c] EXCEPT !.said = Append(@, 0)]
  <2>1. /\ pc[c] = "speak" /\ Len(local[c].said) < local[c].planned
        /\ UNCHANGED ledger \/ lease = c
        /\ \/ Go(c, "speak") /\ local' = [local EXCEPT ![c] = saved] /\ Store(c, saved)
           \/ Fail(c, "unknown") /\ local' = [local EXCEPT ![c] = sent]
           \/ Fail(c, "lease_lost") /\ local' = [local EXCEPT ![c] = sent]
        /\ UNCHANGED <<lease, req, date>>
    BY <1>7 DEF AppendCharacter, Holds
  <2>2. saved.planned > 0 /\ Len(saved.said) <= saved.planned
    <3>1. n \in Nat
      BY DEF TypeOK
    <3> QED BY <2>1, <3>1, AppendFits
  <2> HIDE DEF saved, sent
  <2>3. /\ \A e \in Calls \ {c} : pc'[e] = pc[e] /\ local'[e] = local[e] /\ answer'[e] = answer[e]
        /\ pc'[c] \in {"speak", "interrupt"}
    BY <2>1 DEF Go, Fail, TypeOK
  <2>4. pc'[c] = "speak" => local'[c] = saved /\ Recorded(c)' = saved
    BY <2>1 DEF Go, Fail, Store, Recorded, TypeOK
  <2>5. pc'[c] = "interrupt" => answer'[c].kind # "batch"
    BY <2>1, <2>3, <1>k DEF Fail, Go, TypeOK
  <2> QED BY <2>1, <2>2, <2>3, <2>4, <2>5, CopiesOfOthers
<1>8. ASSUME NEW c \in Calls, Interrupt(c) PROVE Copies'
  <2>1. /\ \A e \in Calls \ {c} : pc'[e] = pc[e] /\ local'[e] = local[e] /\ answer'[e] = answer[e]
        /\ UNCHANGED <<req, date>> /\ pc'[c] = "done"
        /\ lease' \in {lease, Nobody} /\ (UNCHANGED ledger \/ lease = c)
    BY <1>8 DEF Interrupt, Go, Holds, TypeOK
  <2> QED BY <2>1, CopiesOfOthers
<1>9. CASE LeaseExpires \/ ClearCheck \/ ClearToday \/ Tick \/ UNCHANGED vars
  <2>1. UNCHANGED <<ledger, req, date, pc, local, answer>> /\ lease' \in {lease, Nobody}
    BY <1>9 DEF LeaseExpires, ClearCheck, ClearToday, Tick, vars, storeVars, callVars
  <2>2. HolderCopies' /\ CopiesFit' /\ CleaningFails'
    BY <2>1, NobodyAssumption DEF RInv, PlansFit, HolderCopies, CopiesFit, CleaningFails, Recorded
  <2> QED BY <2>2 DEF Copies
<1> QED
  BY <1>1, <1>2, <1>3, <1>4, <1>5, <1>6, <1>7, <1>8, <1>9 DEF Next, Proceed, Begin

\* An answer that hands out a batch is one given before, or is what the ledger now holds.
AnswerStep == \A c \in Calls :
  pc'[c] = "done" /\ answer'[c].kind = "batch" =>
    \/ pc[c] = "done" /\ answer'[c] = answer[c]
    \/ \E d \in Days, r \in Requests :
         ledger'[d][r] = answer'[c].batch /\ ledger'[d][r] # NoBatch

\* A step of call c that returns an error, or goes on, gives no batch out.
LEMMA NoBatchAnswered ==
  ASSUME NEW c \in Calls,
         \A e \in Calls \ {c} : pc'[e] = pc[e] /\ answer'[e] = answer[e],
         pc'[c] = "done" => answer'[c].kind # "batch"
  PROVE  AnswerStep
  BY DEF AnswerStep

LEMMA SaveAnswers ==
  ASSUME TypeOK, IInv, RInv, NEW c \in Calls, NEW b \in BatchType, NEW release \in BOOLEAN,
         pc[c] \in {"plan", "speak"}, b.call = c, SaveBatch(c, b, release)
  PROVE  AnswerStep
<1>1. \A e \in Calls \ {c} : pc'[e] = pc[e] /\ answer'[e] = answer[e]
  BY DEF SaveBatch, Return, Go, Fail, TypeOK
<1>2. CASE Store(c, b)
  <2>1. Recorded(c)' = b /\ date'[c] \in Days /\ req'[c] \in Requests
    BY <1>2 DEF SaveBatch, Store, Recorded, TypeOK
  <2>2. b # NoBatch
    BY NobodyAssumption DEF NoBatch
  <2>3. pc'[c] = "done" => answer'[c].batch = b
    BY DEF SaveBatch, Return, Go, Fail, TypeOK
  <2> QED BY <1>1, <2>1, <2>2, <2>3 DEF AnswerStep, Recorded
<1>3. CASE Fail(c, "unknown") \/ Fail(c, "lease_lost") \/ Go(c, "speak")
  BY <1>1, <1>3, NoBatchAnswered DEF Fail, Go, TypeOK
<1> QED BY <1>2, <1>3 DEF SaveBatch

LEMMA NextAnswers == TypeOK /\ IInv /\ RInv /\ [Next]_vars => AnswerStep
<1> SUFFICES ASSUME TypeOK, IInv, RInv, [Next]_vars PROVE AnswerStep
  OBVIOUS
<1>k. \A k \in {"refused", "busy", "lease_lost", "unknown"} : Error(k).kind # "batch"
  BY DEF Error
<1>1. ASSUME NEW c \in Calls, Refuse(c) \/ BeginBusy(c) \/ BeginUnreached(c) PROVE AnswerStep
  BY <1>1, <1>k, NoBatchAnswered DEF Refuse, BeginBusy, BeginUnreached, Return, TypeOK
<1>2. ASSUME NEW c \in Calls, Enter(c) \/ AppendCharacter(c) \/ Crash(c) PROVE AnswerStep
  BY <1>2, NoBatchAnswered DEF Enter, AppendCharacter, Crash, Go, Fail, TypeOK
<1>3. ASSUME NEW c \in Calls, BeginStarted(c) PROVE AnswerStep
  <2>1. Go(c, "plan") \/ Return(c, Error("unknown"))
    BY <1>3 DEF BeginStarted
  <2> QED BY <2>1, <1>k, NoBatchAnswered DEF Go, Return, TypeOK
<1>4. ASSUME NEW c \in Calls, Interrupt(c) PROVE AnswerStep
  <2>1. pc[c] = "interrupt" /\ Go(c, "done")
    BY <1>4 DEF Interrupt
  <2>2. answer[c].kind # "batch"
    BY <2>1 DEF RInv, CleaningFails
  <2> QED BY <2>1, <2>2, NoBatchAnswered DEF Go, TypeOK
<1>5. ASSUME NEW c \in Calls, BeginExisting(c) PROVE AnswerStep
  <2> DEFINE d   == LedgerDay(c)
             old == ledger[d][req[c]]
             b   == IF lease = Nobody THEN Interrupted(old) ELSE old
  <2>1. d \in Days /\ req[c] \in Requests /\ old \in BatchType /\ old # NoBatch
    BY <1>5, LedgerDayType DEF BeginExisting, KnownOn, TypeOK
  <2>2. b # NoBatch
    BY <2>1, InterruptedType
  <2>3. /\ ledger' = [ledger EXCEPT ![d][req[c]] = b]
        /\ Return(c, [kind |-> "batch", batch |-> b]) \/ Return(c, Error("unknown"))
    BY <1>5 DEF BeginExisting
  <2> HIDE DEF b, d
  <2>4. ledger'[d][req[c]] = b
    BY <2>1, <2>3 DEF TypeOK
  <2>5. \A e \in Calls \ {c} : pc'[e] = pc[e] /\ answer'[e] = answer[e]
    BY <2>3 DEF Return, TypeOK
  <2>6. answer'[c].kind = "batch" => answer'[c].batch = b
    BY <2>3, <1>k DEF Return, TypeOK
  <2> QED BY <2>1, <2>2, <2>4, <2>5, <2>6 DEF AnswerStep
<1>6. ASSUME NEW c \in Calls, NEW n \in 1 .. MaxPlan, SavePlan(c, n) PROVE AnswerStep
  <2> DEFINE b == [local[c] EXCEPT !.planned = n]
  <2>1. pc[c] = "plan" /\ local[c].call = c
    BY <1>6 DEF SavePlan, IInv, OpenCopies
  <2>2. b \in BatchType /\ b.call = c
    BY <2>1, PlannedFits
  <2>3. SaveBatch(c, b, FALSE)
    BY <1>6 DEF SavePlan
  <2> HIDE DEF b
  <2> QED BY <2>1, <2>2, <2>3, SaveAnswers
<1>7. ASSUME NEW c \in Calls, FailGeneration(c) PROVE AnswerStep
  <2>1. pc[c] = "speak" /\ Interrupted(local[c]) \in BatchType /\ Interrupted(local[c]).call = c
    BY <1>7, InterruptedType DEF FailGeneration, IInv, OpenCopies, TypeOK
  <2> QED BY <1>7, <2>1, SaveAnswers DEF FailGeneration
<1>8. ASSUME NEW c \in Calls, Complete(c) PROVE AnswerStep
  <2> DEFINE b == [local[c] EXCEPT !.status = "complete"]
  <2>1. pc[c] = "speak" /\ local[c].call = c
    BY <1>8 DEF Complete, IInv, OpenCopies
  <2>2. b \in BatchType /\ b.call = c /\ SaveBatch(c, b, TRUE)
    BY <1>8, <2>1, CompleteFits DEF Complete
  <2> HIDE DEF b
  <2> QED BY <2>1, <2>2, SaveAnswers
<1>9. CASE LeaseExpires \/ ClearCheck \/ ClearToday \/ Tick \/ UNCHANGED vars
  BY <1>9 DEF LeaseExpires, ClearCheck, ClearToday, Tick, vars, storeVars, callVars, AnswerStep
<1> QED
  BY <1>1, <1>2, <1>3, <1>4, <1>5, <1>6, <1>7, <1>8, <1>9 DEF Next, Proceed, Begin

\* Prefixes chain.
LEMMA PrefixChain ==
  ASSUME NEW r \in Seq(Nat), NEW s \in Seq(Nat), NEW t \in Seq(Nat), Prefix(r, s), Prefix(s, t)
  PROVE  Prefix(r, t)
  BY DEF Prefix

LEMMA AnswersStep ==
  ASSUME TypeOK, TypeOK', IInv, RInv, [Next]_vars, RecordsOwned'
  PROVE  AnswersAreRecorded'
<1> SUFFICES ASSUME NEW c \in Calls, pc'[c] = "done", answer'[c].kind = "batch"
             PROVE  LET b == answer'[c].batch
                        n == ledger'[date'[b.call]][req'[b.call]]
                    IN  IF b.status \in Terminal THEN n = b ELSE n.call = b.call /\ Prefix(b.said, n.said)
  BY DEF AnswersAreRecorded, Recorded
<1> DEFINE b == answer'[c].batch
           n == ledger'[date'[b.call]][req'[b.call]]
<1>1. b \in BatchType
  BY DEF TypeOK
<1>2. CASE \E d \in Days, r \in Requests : ledger'[d][r] = b /\ ledger'[d][r] # NoBatch
  <2>1. n = b
    BY <1>2 DEF RecordsOwned
  <2>2. Prefix(b.said, b.said)
    BY <1>1, PrefixItself DEF BatchType
  <2> QED BY <2>1, <2>2
<1>3. CASE pc[c] = "done" /\ answer'[c] = answer[c]
  <2> DEFINE m == Recorded(b.call)
  <2>1. IF b.status \in Terminal THEN m = b ELSE m.call = b.call /\ Prefix(b.said, m.said)
    BY <1>3 DEF RInv, AnswersAreRecorded
  <2>2. b.call \in Calls
    BY <1>3 DEF RInv, AnswersNamed
  <2>3. /\ date[b.call] \in Days /\ req[b.call] \in Requests /\ m = ledger[date[b.call]][req[b.call]]
        /\ m \in BatchType /\ m.call = b.call /\ m # NoBatch
    <3>1. m.call = b.call
      BY <2>1
    <3>2. date[b.call] \in Days /\ req[b.call] \in Requests
      BY <2>2 DEF TypeOK
    <3>3. m = ledger[date[b.call]][req[b.call]]
      BY DEF Recorded
    <3>4. ledger[date[b.call]][req[b.call]] \in BatchType
      BY <3>2 DEF TypeOK
    <3>5. NoBatch.call = Nobody
      BY DEF NoBatch
    <3> HIDE DEF m, b
    <3> QED BY <2>2, <3>1, <3>2, <3>3, <3>4, <3>5, NobodyAssumption
  <2>4. pc[b.call] \notin {"idle", "begin"}
    BY <2>3 DEF RInv, RecordsOwned
  <2>5. n = ledger'[date[b.call]][req[b.call]] /\ n \in BatchType
    <3>1. date'[b.call] = date[b.call] /\ req' = req
      BY <2>2, <2>4, CallsMoveOn
    <3>2. ledger' \in [Days -> [Requests -> BatchType]]
      BY DEF TypeOK
    <3> QED BY <2>3, <3>1, <3>2
  <2> HIDE DEF n, m
  <2>6. b.status \in Terminal => n = m
    BY <2>1, <2>3, <2>5, NextKeepsEnded DEF EndedKept
  <2>7. n.call = m.call /\ Prefix(m.said, n.said)
    BY <2>2, <2>3, <2>5, NextGrows, NobodyAssumption DEF GrowKept
  <2>8. b.said \in Seq(Nat) /\ m.said \in Seq(Nat) /\ n.said \in Seq(Nat)
    BY <1>1, <2>3, <2>5 DEF BatchType
  <2> HIDE DEF b
  <2>9. IF b.status \in Terminal THEN n = b ELSE n.call = b.call /\ Prefix(b.said, n.said)
    BY <2>1, <2>3, <2>6, <2>7, <2>8, PrefixChain
  <2> QED BY <2>9 DEF n, b
<1> QED BY <1>2, <1>3, NextAnswers DEF AnswerStep

\* Every call of a record exists, so every answer names one.
LEMMA AnswersNamedStep ==
  ASSUME TypeOK, IInv, RInv, [Next]_vars, RecordsOwned'
  PROVE  AnswersNamed'
  BY NextAnswers DEF AnswerStep, AnswersNamed, RInv, RecordsOwned

-----------------------------------------------------------------------------
(* The theorems.                                                           *)

LEMMA InitRInv == Init => RInv
<1> SUFFICES ASSUME Init PROVE RInv
  OBVIOUS
<1>1. \A d \in Days, r \in Requests : ledger[d][r] = NoBatch
  BY DEF Init
<1>2. FitsPlan(NoBatch)
  BY DEF NoBatch, FitsPlan
<1>3. \A c \in Calls : pc[c] = "idle"
  BY DEF Init
<1>4. starts = <<>>
  BY DEF Init
<1> QED
  BY <1>1, <1>2, <1>3, <1>4 DEF RInv, HolderCopies, RecordsOwned, StartsOwned, PlansFit,
     CleaningFails, AnswersNamed, AnswersAreRecorded

LEMMA NextRInv == TypeOK /\ TypeOK' /\ IInv /\ RInv /\ [Next]_vars => RInv'
<1> SUFFICES ASSUME TypeOK, TypeOK', IInv, RInv, [Next]_vars PROVE RInv'
  OBVIOUS
<1>1. RecordsOwned' /\ StartsOwned'
  BY OwnedStep, StartsOwnedStep
<1>2. HolderCopies' /\ CleaningFails' /\ PlansFit'
  BY CopiesStep, RecordsFitStep DEF Copies, CopiesFit, PlansFit
<1>3. AnswersNamed' /\ AnswersAreRecorded'
  BY <1>1, AnswersNamedStep, AnswersStep
<1> QED BY <1>1, <1>2, <1>3 DEF RInv

\* What the ledger records, what the calls hold and what they answer stay in step:
\* the invariant behind the theorems below.
THEOREM RecordsHold == Spec => []RInv
  BY InitRInv, NextRInv, TypeCorrect, InvariantHolds, PTL DEF Spec

\* Whoever repeats a request, however often, and however slow its generator is: what
\* Send answered of an ended batch is what the ledger records ever after, and what it
\* answered of an open one is a prefix of that.
THEOREM AnswersStand == Spec => []AnswersAreRecorded
<1>1. RInv => AnswersAreRecorded
  BY DEF RInv
<1> QED BY <1>1, RecordsHold, PTL

\* A batch that the ledger says is complete has a reply of every planned speaker, a
\* failed one has none, a partial one some: convergence, cleanup and completion agree.
THEOREM OutcomesFit == Spec => []OutcomeFitsPlan
<1>1. ASSUME TypeOK, RInv PROVE OutcomeFitsPlan
  <2> SUFFICES ASSUME NEW i \in DOMAIN starts
               PROVE  FitsPlan(Recorded(starts[i])) /\ Recorded(starts[i]).call = starts[i]
    BY DEF OutcomeFitsPlan, Started, FitsPlan
  <2>1. starts[i] \in Calls
    BY <1>1 DEF TypeOK
  <2> QED BY <1>1, <2>1 DEF TypeOK, RInv, PlansFit, StartsOwned, Recorded
<1> QED BY <1>1, RecordsHold, TypeCorrect, PTL

\* beginBatchScript and the fenced scripts only append to a record: a reply, once
\* recorded, is never lost or renumbered, and only the lease's holder adds one.
THEOREM RepliesAreKept == Spec => RepliesOnlyGrow
<1>1. TypeOK /\ IInv /\ RInv /\ [Next]_vars =>
        [\A d \in Days, r \in Requests :
           LET b == ledger[d][r]
               n == ledger'[d][r]
           IN  b.call # Nobody =>
                 /\ n.call = b.call /\ Prefix(b.said, n.said)
                 /\ Len(n.said) <= Len(b.said) + 1
                 /\ n.said # b.said => lease = b.call]_vars
  BY NextGrows DEF GrowKept
<1> QED BY <1>1, TypeCorrect, InvariantHolds, RecordsHold, PTL DEF Spec, RepliesOnlyGrow
=============================================================================
