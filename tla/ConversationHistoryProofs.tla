---------------------- MODULE ConversationHistoryProofs ----------------------
(***************************************************************************)
(* What the clients of a conversation see, for every number of calls,      *)
(* request ids, speakers and days.  The visible list: its numbers are its  *)
(* places, it agrees with the ledger, and the maintenance finds the days   *)
(* that hold a message of the user.  The answers: ConversationBatch        *)
(* implements ReplyPromise, each of its steps is a step of the promise or  *)
(* changes nothing that the promise speaks of.                             *)
(***************************************************************************)
EXTENDS ConversationBatchProofs

HInv == SequenceIsPosition /\ UserMessagesAreListed /\ HistoryAgreesWithLedger

\* A list whose numbers are its places keeps them when the next number is appended.
LEMMA AppendsNext ==
  ASSUME NEW s \in Seq(MessageType), NEW m \in MessageType, m.seq = Len(s) + 1,
         \A i \in DOMAIN s : s[i].seq = i
  PROVE  /\ Append(s, m) \in Seq(MessageType) /\ Len(Append(s, m)) = Len(s) + 1
         /\ DOMAIN s = 1 .. Len(s) /\ DOMAIN Append(s, m) = 1 .. Len(s) + 1 /\ Len(s) \in Nat
         /\ \A i \in DOMAIN s : Append(s, m)[i] = s[i]
         /\ Append(s, m)[Len(s) + 1] = m
         /\ \A i \in DOMAIN Append(s, m) : Append(s, m)[i].seq = i
<1>1. /\ Append(s, m) \in Seq(MessageType) /\ Len(Append(s, m)) = Len(s) + 1
      /\ DOMAIN s = 1 .. Len(s) /\ DOMAIN Append(s, m) = 1 .. Len(s) + 1 /\ Len(s) \in Nat
      /\ \A i \in DOMAIN s : Append(s, m)[i] = s[i]
      /\ Append(s, m)[Len(s) + 1] = m
  OBVIOUS
<1>2. ASSUME NEW i \in DOMAIN Append(s, m) PROVE Append(s, m)[i].seq = i
  <2>1. CASE i \in DOMAIN s
    BY <1>1, <2>1
  <2>2. CASE i = Len(s) + 1
    BY <1>1, <2>2
  <2> QED BY <1>1, <2>1, <2>2
<1> QED BY <1>1, <1>2

\* What a step may do to the lists: nothing, empty one, or append the next message.
Appends(c, m) ==
  /\ m \in MessageType /\ m.call = c
  /\ m.seq = sequence[date[c]] + 1
  /\ sequence' = [sequence EXCEPT ![date[c]] = m.seq]
  /\ messages' = [messages EXCEPT ![date[c]] = Append(@, m)]

ListStep ==
  \/ UNCHANGED <<messages, sequence, active>>
  \/ \E d \in Days : ClearScopeDate(d)
  \/ \E c \in Calls, m \in MessageType :
       /\ Appends(c, m)
       /\ active' = IF m.turn = 0 THEN active \union {date[c]} ELSE active

\* The message of the next reply.
LEMMA ReplyAppends ==
  ASSUME TypeOK, NEW c \in Calls, AppendCharacter(c)
  PROVE  LET n == sequence[date[c]] + 1
             m == [call |-> c, turn |-> Len(local[c].said) + 1, seq |-> n]
         IN  /\ m \in MessageType /\ n \in Nat
             /\ \/ UNCHANGED <<messages, sequence, ledger>>
                \/ /\ Appends(c, m) /\ Holds(c)
                   /\ ledger' = [ledger EXCEPT ![date[c]][req[c]] = [local[c] EXCEPT !.said = Append(@, n)]]
<1> DEFINE n     == sequence[date[c]] + 1
           saved == [local[c] EXCEPT !.said = Append(@, n)]
           m     == [call |-> c, turn |-> Len(local[c].said) + 1, seq |-> n]
<1>1. n \in Nat /\ local[c] \in BatchType /\ local[c].said \in Seq(Nat)
  <2>1. n \in Nat /\ local[c] \in BatchType
    BY DEF TypeOK
  <2> QED BY <2>1 DEF BatchType
<1>2. saved.said = Append(local[c].said, n)
  BY <1>1 DEF BatchType
<1>3. Len(saved.said) = Len(local[c].said) + 1 /\ Len(local[c].said) + 1 \in Nat
  BY <1>1, <1>2
<1>4. m \in MessageType /\ m.call = c /\ m.seq = n
  BY <1>1, <1>3 DEF MessageType
<1>5. \/ UNCHANGED <<messages, sequence, ledger>>
      \/ /\ Holds(c) /\ Store(c, saved)
         /\ sequence' = [sequence EXCEPT ![date[c]] = n]
         /\ messages' = [messages EXCEPT ![date[c]] =
                           Append(@, [call |-> c, turn |-> Len(saved.said), seq |-> n])]
  BY DEF AppendCharacter
<1>6. [call |-> c, turn |-> Len(saved.said), seq |-> n] = m
  BY <1>3
<1> HIDE DEF m, saved
<1>7. UNCHANGED <<messages, sequence, ledger>> \/ (Appends(c, m) /\ Holds(c) /\ Store(c, saved))
  BY <1>4, <1>5, <1>6 DEF Appends
<1> QED BY <1>1, <1>4, <1>7 DEF m, saved, Store

LEMMA NextLists == TypeOK /\ [Next]_vars => ListStep
<1> SUFFICES ASSUME TypeOK, [Next]_vars PROVE ListStep
  OBVIOUS
<1>1. ASSUME NEW c \in Calls, BeginStarted(c) PROVE ListStep
  <2> DEFINE m == [call |-> c, turn |-> 0, seq |-> sequence[date[c]] + 1]
  <2>1. m \in MessageType
    <3>1. sequence[date[c]] + 1 \in Nat
      BY DEF TypeOK
    <3> QED BY <3>1 DEF MessageType
  <2>2. Appends(c, m) /\ m.turn = 0 /\ active' = active \union {date[c]}
    BY <1>1, <2>1 DEF BeginStarted, Appends
  <2> HIDE DEF m
  <2> QED BY <2>1, <2>2 DEF ListStep
<1>2. ASSUME NEW c \in Calls, AppendCharacter(c) PROVE ListStep
  <2> DEFINE m == [call |-> c, turn |-> Len(local[c].said) + 1, seq |-> sequence[date[c]] + 1]
  <2>1. UNCHANGED active
    BY <1>2 DEF AppendCharacter
  <2>2. m.turn # 0
    <3>1. Len(local[c].said) \in Nat
      BY DEF TypeOK, BatchType
    <3> QED BY <3>1
  <2>3. m \in MessageType /\ (UNCHANGED <<messages, sequence>> \/ Appends(c, m))
    BY <1>2, ReplyAppends
  <2> HIDE DEF m
  <2> QED BY <2>1, <2>2, <2>3 DEF ListStep
<1>3. ASSUME NEW c \in Calls,
             Refuse(c) \/ Enter(c) \/ BeginExisting(c) \/ BeginBusy(c) \/ BeginUnreached(c) \/ Interrupt(c) \/ Crash(c)
      PROVE  ListStep
  BY <1>3 DEF Refuse, Enter, BeginExisting, BeginBusy, BeginUnreached, Interrupt, Crash, storeVars, ListStep
<1>4. ASSUME NEW c \in Calls, (\E n \in 1 .. MaxPlan : SavePlan(c, n)) \/ FailGeneration(c) \/ Complete(c)
      PROVE  ListStep
  BY <1>4 DEF SavePlan, FailGeneration, Complete, SaveBatch, ListStep
<1>5. CASE LeaseExpires \/ ClearCheck \/ Tick \/ UNCHANGED vars
  BY <1>5 DEF LeaseExpires, ClearCheck, Tick, vars, storeVars, ListStep
<1>6. CASE ClearToday
  BY <1>6 DEF ClearToday, TypeOK, ListStep
<1> QED BY <1>1, <1>2, <1>3, <1>4, <1>5, <1>6 DEF Next, Proceed, Begin

LEMMA NumbersStep == TypeOK /\ TypeOK' /\ SequenceIsPosition /\ ListStep => SequenceIsPosition'
<1> SUFFICES ASSUME TypeOK, TypeOK', SequenceIsPosition, ListStep, NEW d \in Days
             PROVE  Len(messages'[d]) = sequence'[d] /\ \A i \in DOMAIN messages'[d] : messages'[d][i].seq = i
  BY DEF SequenceIsPosition
<1>1. CASE messages'[d] = messages[d] /\ sequence'[d] = sequence[d]
  BY <1>1 DEF SequenceIsPosition
<1>2. ASSUME NEW e \in Days, ClearScopeDate(e)
      PROVE  \/ messages'[d] = messages[d] /\ sequence'[d] = sequence[d]
             \/ messages'[d] = <<>> /\ sequence'[d] = 0
  BY <1>2 DEF ClearScopeDate, TypeOK
<1>3. ASSUME NEW c \in Calls, NEW m \in MessageType, Appends(c, m)
      PROVE  Len(messages'[d]) = sequence'[d] /\ \A i \in DOMAIN messages'[d] : messages'[d][i].seq = i
  <2>1. CASE d = date[c]
    <3>1. messages'[d] = Append(messages[d], m) /\ sequence'[d] = m.seq /\ m.seq = sequence[d] + 1
      BY <1>3, <2>1 DEF Appends, TypeOK
    <3>2. messages[d] \in Seq(MessageType) /\ Len(messages[d]) = sequence[d]
      BY DEF TypeOK, SequenceIsPosition
    <3> QED BY <3>1, <3>2, AppendsNext DEF SequenceIsPosition
  <2>2. CASE d # date[c]
    BY <1>1, <1>3, <2>2 DEF Appends, TypeOK
  <2> QED BY <2>1, <2>2
<1> QED BY <1>1, <1>2, <1>3 DEF ListStep

LEMMA ListedStep == TypeOK /\ SequenceIsPosition /\ UserMessagesAreListed /\ ListStep => UserMessagesAreListed'
<1> SUFFICES ASSUME TypeOK, SequenceIsPosition, UserMessagesAreListed, ListStep,
                    NEW d \in Days, NEW i \in DOMAIN messages'[d], messages'[d][i].turn = 0
             PROVE  d \in active'
  BY DEF UserMessagesAreListed
<1>1. CASE messages'[d] = messages[d] /\ (d \in active => d \in active')
  BY <1>1 DEF UserMessagesAreListed
<1>2. ASSUME NEW e \in Days, ClearScopeDate(e)
      PROVE  messages'[d] = <<>> \/ (messages'[d] = messages[d] /\ (d \in active => d \in active'))
  BY <1>2 DEF ClearScopeDate, TypeOK
<1>3. ASSUME NEW c \in Calls, NEW m \in MessageType, Appends(c, m),
             active' = IF m.turn = 0 THEN active \union {date[c]} ELSE active
      PROVE  d \in active'
  <2>1. CASE d = date[c]
    <3>1. messages'[d] = Append(messages[d], m)
      BY <1>3, <2>1 DEF Appends, TypeOK
    <3>2. messages[d] \in Seq(MessageType) /\ m.seq = Len(messages[d]) + 1
      BY <1>3, <2>1 DEF Appends, TypeOK, SequenceIsPosition
    <3>3. (i \in DOMAIN messages[d] /\ messages'[d][i] = messages[d][i]) \/ messages'[d][i] = m
      BY <3>1, <3>2
    <3> QED BY <1>3, <2>1, <3>3 DEF UserMessagesAreListed
  <2>2. CASE d # date[c]
    BY <1>1, <1>3, <2>2 DEF Appends, TypeOK
  <2> QED BY <2>1, <2>2
<1> QED BY <1>1, <1>2, <1>3 DEF ListStep

-----------------------------------------------------------------------------
(* The list and the ledger.                                                *)

\* What the list says of message i of day d agrees with the ledger.
Agrees(d, i) ==
  LET m == messages[d][i]
      b == Recorded(m.call)
  IN  /\ d = date[m.call] /\ b.call = m.call
      /\ m.turn > 0 => m.turn \in DOMAIN b.said /\ b.said[m.turn] = m.seq
      /\ m.turn = 0 =>
           /\ b.user = m.seq
           /\ \A t \in DOMAIN b.said :
                \E j \in DOMAIN messages[d] :
                  /\ j > i /\ messages[d][j] = [call |-> m.call, turn |-> t, seq |-> b.said[t]]
                  /\ t > 1 => b.said[t - 1] < j

LEMMA AgreesEverywhere ==
  /\ HistoryAgreesWithLedger <=> \A d \in Days : \A i \in DOMAIN messages[d] : Agrees(d, i)
  /\ HistoryAgreesWithLedger' <=> \A d \in Days : \A i \in DOMAIN messages'[d] : Agrees(d, i)'
  BY DEF HistoryAgreesWithLedger, Agrees

\* The records that exist keep what the list shows of them.
RecordsKept ==
  \A d \in Days, r \in Requests :
    ledger[d][r] # NoBatch =>
      /\ ledger'[d][r].call = ledger[d][r].call /\ ledger'[d][r].said = ledger[d][r].said
      /\ ledger'[d][r].user = ledger[d][r].user

\* The call of a listed message: its record exists, its day and its id are settled.
LEMMA AuthorSettled ==
  ASSUME TypeOK, RInv, [Next]_vars, HistoryAgreesWithLedger, NEW d \in Days, NEW i \in DOMAIN messages[d]
  PROVE  LET k == messages[d][i].call
         IN  /\ k \in Calls /\ date[k] = d /\ req[k] \in Requests
             /\ ledger[d][req[k]] # NoBatch /\ Recorded(k) = ledger[d][req[k]]
             /\ pc[k] \notin {"idle", "begin"}
             /\ date'[k] = d /\ req'[k] = req[k]
<1> DEFINE k == messages[d][i].call
<1>1. k \in Calls
  <2>1. messages[d] \in Seq(MessageType)
    BY DEF TypeOK
  <2>2. messages[d][i] \in MessageType
    BY <2>1
  <2> QED BY <2>2 DEF MessageType
<1>2. Recorded(k).call = k /\ date[k] = d /\ req[k] \in Requests
  BY <1>1 DEF HistoryAgreesWithLedger, TypeOK
<1> HIDE DEF k
<1>3. Recorded(k) # NoBatch /\ Recorded(k) = ledger[d][req[k]]
  BY <1>1, <1>2, NobodyAssumption DEF Recorded, NoBatch
<1>4. pc[k] \notin {"idle", "begin"}
  BY <1>2, <1>3 DEF RInv, RecordsOwned, Recorded
<1>5. date'[k] = d /\ req'[k] = req[k]
  BY <1>1, <1>2, <1>4, CallsMoveOn
<1> QED BY <1>1, <1>2, <1>3, <1>4, <1>5 DEF Recorded, k

\* A step that keeps the records and lists, or empties a list, keeps them in agreement.
LEMMA KeptAgrees ==
  ASSUME TypeOK, RInv, [Next]_vars, HistoryAgreesWithLedger, RecordsKept,
         \A d \in Days : messages'[d] \in {messages[d], <<>>}
  PROVE  HistoryAgreesWithLedger'
<1> SUFFICES ASSUME NEW d \in Days, NEW i \in DOMAIN messages'[d] PROVE Agrees(d, i)'
  BY AgreesEverywhere
<1>1. messages'[d] = messages[d] /\ i \in DOMAIN messages[d]
  OBVIOUS
<1> DEFINE k == messages[d][i].call
<1>2. /\ k \in Calls /\ date[k] = d /\ req[k] \in Requests
      /\ ledger[d][req[k]] # NoBatch /\ Recorded(k) = ledger[d][req[k]]
      /\ date'[k] = d /\ req'[k] = req[k]
  BY <1>1, AuthorSettled
<1> DEFINE n == ledger'[date'[k]][req'[k]]
<1>3. n.call = Recorded(k).call /\ n.said = Recorded(k).said /\ n.user = Recorded(k).user
  BY <1>2 DEF RecordsKept
<1>4. Agrees(d, i)
  BY <1>1, AgreesEverywhere
<1> QED BY <1>1, <1>2, <1>3, <1>4 DEF Agrees, Recorded

\* The script writes back a batch that the list shows no differently.
LEMMA SaveKeeps ==
  ASSUME TypeOK, IInv, RInv, NEW c \in Calls, NEW b \in BatchType, NEW release \in BOOLEAN,
         pc[c] \in {"plan", "speak"}, b.call = local[c].call, b.said = local[c].said,
         b.user = local[c].user, SaveBatch(c, b, release)
  PROVE  RecordsKept /\ UNCHANGED messages
<1>1. CASE UNCHANGED ledger
  BY <1>1 DEF SaveBatch, RecordsKept
<1>2. CASE Holds(c) /\ Store(c, b)
  <2>1. local[c] = Recorded(c) /\ ledger' = [ledger EXCEPT ![date[c]][req[c]] = b]
    BY <1>2, CopyOfHolder DEF Store
  <2> QED BY <2>1 DEF SaveBatch, RecordsKept, Recorded, TypeOK
<1> QED BY <1>1, <1>2 DEF SaveBatch

LEMMA InterruptedUser == ASSUME NEW b \in BatchType PROVE Interrupted(b).user = b.user /\ Interrupted(b).said = b.said
  BY DEF Interrupted, BatchType

\* Every step but a start and a reply leaves the records as the list shows them.
LEMMA OthersKeep ==
  ASSUME TypeOK, IInv, RInv, [Next]_vars,
         \A c \in Calls : ~BeginStarted(c) /\ ~AppendCharacter(c)
  PROVE  RecordsKept /\ \A d \in Days : messages'[d] \in {messages[d], <<>>}
<1>1. ASSUME UNCHANGED <<ledger, messages>>
      PROVE  RecordsKept /\ \A d \in Days : messages'[d] \in {messages[d], <<>>}
  BY <1>1 DEF RecordsKept
<1>2. ASSUME NEW c \in Calls, BeginExisting(c)
      PROVE  RecordsKept /\ \A d \in Days : messages'[d] \in {messages[d], <<>>}
  <2> DEFINE d   == LedgerDay(c)
             old == ledger[d][req[c]]
             b   == IF lease = Nobody THEN Interrupted(old) ELSE old
  <2>1. d \in Days /\ req[c] \in Requests /\ old \in BatchType
    BY <1>2, LedgerDayType DEF BeginExisting, TypeOK
  <2>2. b.call = old.call /\ b.said = old.said /\ b.user = old.user
    BY <2>1, InterruptedType, InterruptedUser
  <2>3. ledger' = [ledger EXCEPT ![d][req[c]] = b] /\ UNCHANGED messages
    BY <1>2 DEF BeginExisting
  <2> HIDE DEF b, d
  <2> QED BY <2>1, <2>2, <2>3 DEF RecordsKept, TypeOK
<1>3. ASSUME NEW c \in Calls, NEW n \in 1 .. MaxPlan, SavePlan(c, n) PROVE RecordsKept /\ UNCHANGED messages
  <2> DEFINE b == [local[c] EXCEPT !.planned = n]
  <2>1. pc[c] = "plan" /\ local[c] \in BatchType /\ SaveBatch(c, b, FALSE)
    BY <1>3 DEF SavePlan, TypeOK
  <2>2. b \in BatchType /\ b.call = local[c].call /\ b.said = local[c].said /\ b.user = local[c].user
    BY <2>1, PlannedFits DEF BatchType
  <2> HIDE DEF b
  <2> QED BY <2>1, <2>2, SaveKeeps
<1>4. ASSUME NEW c \in Calls, FailGeneration(c) PROVE RecordsKept /\ UNCHANGED messages
  <2>1. pc[c] = "speak" /\ local[c] \in BatchType
    BY <1>4 DEF FailGeneration, TypeOK
  <2> QED BY <1>4, <2>1, InterruptedType, InterruptedUser, SaveKeeps DEF FailGeneration
<1>5. ASSUME NEW c \in Calls, Complete(c) PROVE RecordsKept /\ UNCHANGED messages
  <2> DEFINE b == [local[c] EXCEPT !.status = "complete"]
  <2>1. pc[c] = "speak" /\ local[c] \in BatchType /\ SaveBatch(c, b, TRUE)
    BY <1>5 DEF Complete, TypeOK
  <2>2. b \in BatchType /\ b.call = local[c].call /\ b.said = local[c].said /\ b.user = local[c].user
    BY <1>5, <2>1, CompleteFits DEF Complete, BatchType
  <2> HIDE DEF b
  <2> QED BY <2>1, <2>2, SaveKeeps
<1>6. ASSUME NEW c \in Calls, Interrupt(c) PROVE RecordsKept /\ UNCHANGED messages
  <2>1. CASE UNCHANGED ledger
    BY <1>6, <2>1 DEF Interrupt, RecordsKept
  <2>2. CASE ~UNCHANGED ledger
    <3> DEFINE old == Recorded(c)
    <3>1. Holds(c)
      BY <1>6, <2>2 DEF Interrupt
    <3>2. batches[c] = old /\ old.call = c
      BY <3>1, NobodyAssumption DEF Holds, IInv, LeaseNamesOpenBatch
    <3>3. old # NoBatch /\ old \in BatchType
      BY <3>2, NobodyAssumption DEF NoBatch, Recorded, TypeOK
    <3>4. ledger' = [ledger EXCEPT ![date[c]][req[c]] = Interrupted(old)] /\ UNCHANGED messages
      BY <1>6, <2>2, <3>2, <3>3 DEF Interrupt, Store
    <3>5. /\ Interrupted(old).call = old.call /\ Interrupted(old).said = old.said
          /\ Interrupted(old).user = old.user
      BY <3>3, InterruptedType, InterruptedUser
    <3> QED BY <3>4, <3>5 DEF RecordsKept, Recorded, TypeOK
  <2> QED BY <2>1, <2>2
<1>7. ASSUME NEW c \in Calls, Refuse(c) \/ Enter(c) \/ BeginBusy(c) \/ BeginUnreached(c) \/ Crash(c)
      PROVE  UNCHANGED <<ledger, messages>>
  BY <1>7 DEF Refuse, Enter, BeginBusy, BeginUnreached, Crash, storeVars
<1>8. CASE LeaseExpires \/ ClearCheck \/ Tick \/ UNCHANGED vars
  BY <1>1, <1>8 DEF LeaseExpires, ClearCheck, Tick, vars, storeVars
<1>9. CASE ClearToday
  <2>1. UNCHANGED ledger /\ \A d \in Days : messages'[d] \in {messages[d], <<>>}
    BY <1>9 DEF ClearToday, ClearScopeDate, TypeOK
  <2> QED BY <2>1 DEF RecordsKept
<1> QED
  BY <1>1, <1>2, <1>3, <1>4, <1>5, <1>6, <1>7, <1>8, <1>9 DEF Next, Proceed, Begin

\* A new batch: its user message is the last of the list, and the record it writes is
\* of no listed message.
LEMMA StartAgrees ==
  ASSUME TypeOK, TypeOK', IInv, RInv, [Next]_vars, HInv, NEW c \in Calls, BeginStarted(c)
  PROVE  HistoryAgreesWithLedger'
<1> DEFINE n == sequence[date[c]] + 1
           u == [call |-> c, turn |-> 0, seq |-> n]
           b == [call |-> c, status |-> "generating", planned |-> 0, user |-> n, said |-> <<>>]
<1>1. /\ date[c] \in Days /\ req[c] \in Requests /\ n \in Nat /\ u \in MessageType
      /\ ledger \in [Days -> [Requests -> BatchType]]
  <2>1. /\ date[c] \in Days /\ req[c] \in Requests /\ sequence \in [Days -> Nat]
        /\ ledger \in [Days -> [Requests -> BatchType]]
    BY DEF TypeOK
  <2>2. n \in Nat
    BY <2>1
  <2> QED BY <2>1, <2>2 DEF MessageType
<1>2. /\ ledger[date[c]][req[c]] = NoBatch
      /\ ledger' = [ledger EXCEPT ![date[c]][req[c]] = b]
      /\ messages' = [messages EXCEPT ![date[c]] = Append(@, u)]
      /\ UNCHANGED <<date, req>>
  BY DEF BeginStarted, Store, KnownOn, TypeOK
<1>3. /\ messages[date[c]] \in Seq(MessageType) /\ u.seq = Len(messages[date[c]]) + 1
      /\ \A i \in DOMAIN messages[date[c]] : messages[date[c]][i].seq = i
  BY <1>1 DEF TypeOK, HInv, SequenceIsPosition
<1>4. b.call = c /\ b.user = n /\ b.said = <<>> /\ u.call = c /\ u.turn = 0 /\ u.seq = n
  OBVIOUS
<1> HIDE DEF b, u
<1> DEFINE s == messages[date[c]]
<1>5. /\ messages'[date[c]] = Append(s, u)
      /\ DOMAIN s = 1 .. Len(s) /\ DOMAIN Append(s, u) = 1 .. Len(s) + 1 /\ Len(s) \in Nat
      /\ \A i \in DOMAIN s : Append(s, u)[i] = s[i]
      /\ Append(s, u)[Len(s) + 1] = u
  <2>1. messages'[date[c]] = Append(s, u)
    BY <1>1, <1>2 DEF TypeOK
  <2> HIDE DEF s
  <2> QED BY <1>1, <1>3, <2>1, AppendsNext DEF s
<1>6. \A d \in Days : d # date[c] => messages'[d] = messages[d]
  BY <1>1, <1>2 DEF TypeOK
<1>7. ASSUME NEW d \in Days, NEW i \in DOMAIN messages[d] PROVE Agrees(d, i)'
  <2> DEFINE m == messages[d][i]
             k == m.call
  <2>1. /\ k \in Calls /\ date[k] = d /\ req[k] \in Requests
        /\ ledger[d][req[k]] # NoBatch /\ Recorded(k) = ledger[d][req[k]]
    BY <1>7, AuthorSettled DEF HInv
  <2>2. ledger'[d][req[k]] = ledger[d][req[k]]
    BY <1>1, <1>2, <2>1
  <2>3. i \in DOMAIN messages'[d] /\ messages'[d][i] = m
    BY <1>5, <1>6
  <2>4. \A j \in DOMAIN messages[d] : j \in DOMAIN messages'[d] /\ messages'[d][j] = messages[d][j]
    BY <1>5, <1>6
  <2>5. Agrees(d, i)
    BY AgreesEverywhere DEF HInv
  <2> DEFINE a == ledger[d][req[k]]
  <2>6. /\ d = date[k] /\ a.call = k
        /\ m.turn > 0 => m.turn \in DOMAIN a.said /\ a.said[m.turn] = m.seq
        /\ m.turn = 0 =>
             /\ a.user = m.seq
             /\ \A t \in DOMAIN a.said :
                  \E j \in DOMAIN messages[d] :
                    /\ j > i /\ messages[d][j] = [call |-> k, turn |-> t, seq |-> a.said[t]]
                    /\ t > 1 => a.said[t - 1] < j
    BY <2>1, <2>5 DEF Agrees
  <2>7. ledger'[date'[messages'[d][i].call]][req'[messages'[d][i].call]] = a
    BY <1>2, <2>1, <2>2, <2>3
  <2> HIDE DEF a, m
  <2> QED BY <1>2, <2>3, <2>4, <2>6, <2>7 DEF Agrees, Recorded
<1>8. ASSUME NEW d \in Days, NEW i \in Nat, d = date[c], i = Len(s) + 1 PROVE Agrees(d, i)'
  <2>1. messages'[d][i] = u
    BY <1>5, <1>8
  <2>2. ledger'[date'[c]][req'[c]] = b
    BY <1>1, <1>2
  <2>3. DOMAIN b.said = {}
    BY <1>4
  <2>4. messages'[d][i].call = c /\ messages'[d][i].turn = 0 /\ messages'[d][i].seq = n
    BY <1>4, <2>1
  <2>5. d = date'[c] /\ b.call = c /\ b.user = n
    BY <1>2, <1>4, <1>8
  <2> HIDE DEF s, n
  <2> QED BY <2>2, <2>3, <2>4, <2>5 DEF Agrees, Recorded
<1>9. ASSUME NEW d \in Days, NEW i \in DOMAIN messages'[d] PROVE Agrees(d, i)'
  <2>1. CASE i \in DOMAIN messages[d]
    BY <1>7, <2>1
  <2>2. CASE i \notin DOMAIN messages[d]
    <3>1. d = date[c]
      BY <1>6, <2>2
    <3>2. i \in 1 .. Len(s) + 1 /\ i \notin 1 .. Len(s)
      BY <1>5, <2>2, <3>1
    <3>3. i \in Nat /\ i = Len(s) + 1
      <4> HIDE DEF s
      <4> QED BY <1>5, <3>2
    <3> QED BY <1>8, <3>1, <3>3
  <2> QED BY <2>1, <2>2
<1> QED BY <1>9, AgreesEverywhere

\* In list s, the replies a of call k stand after place i in the order of the plan.
Follows(s, a, k, i) ==
  \A t \in DOMAIN a :
    \E j \in DOMAIN s :
      /\ j > i /\ s[j] = [call |-> k, turn |-> t, seq |-> a[t]]
      /\ t > 1 => a[t - 1] < j

\* They do so with one more reply, which is given the next number and place.
LEMMA FollowsNext ==
  ASSUME NEW s \in Seq(MessageType), NEW a \in Seq(Nat), NEW k \in Calls, NEW i \in DOMAIN s,
         \A j \in DOMAIN s : s[j].seq = j,
         Follows(s, a, k, i),
         NEW m \in MessageType, m = [call |-> k, turn |-> Len(a) + 1, seq |-> Len(s) + 1]
  PROVE  Follows(Append(s, m), Append(a, Len(s) + 1), k, i)
<1> DEFINE z == Append(s, m)
           e == Append(a, Len(s) + 1)
<1>1. /\ DOMAIN s = 1 .. Len(s) /\ DOMAIN z = 1 .. Len(s) + 1 /\ Len(s) \in Nat
      /\ \A j \in DOMAIN s : z[j] = s[j]
      /\ z[Len(s) + 1] = m
  BY DEF MessageType
<1>2. /\ DOMAIN a = 1 .. Len(a) /\ DOMAIN e = 1 .. Len(a) + 1 /\ Len(a) \in Nat
      /\ \A t \in DOMAIN a : e[t] = a[t] /\ a[t] \in Nat
      /\ e[Len(a) + 1] = Len(s) + 1
  BY <1>1
<1> HIDE DEF z, e
<1> SUFFICES ASSUME NEW t \in DOMAIN e
             PROVE  \E j \in DOMAIN z :
                      /\ j > i /\ z[j] = [call |-> k, turn |-> t, seq |-> e[t]]
                      /\ t > 1 => e[t - 1] < j
  BY DEF Follows, z, e
<1>3. CASE t \in DOMAIN a
  <2>1. PICK j \in DOMAIN s : /\ j > i /\ s[j] = [call |-> k, turn |-> t, seq |-> a[t]]
                              /\ t > 1 => a[t - 1] < j
    BY <1>3 DEF Follows
  <2>2. j \in DOMAIN z /\ z[j] = s[j] /\ e[t] = a[t]
    BY <1>1, <1>2, <1>3
  <2>3. t > 1 => t - 1 \in DOMAIN a
    BY <1>2, <1>3
  <2> QED BY <1>2, <2>1, <2>2, <2>3
<1>4. CASE t \notin DOMAIN a
  <2>1. t = Len(a) + 1
    BY <1>2, <1>4
  <2>2. Len(s) + 1 \in DOMAIN z /\ Len(s) + 1 > i
    BY <1>1
  <2>3. z[Len(s) + 1] = [call |-> k, turn |-> t, seq |-> e[t]]
    BY <1>1, <1>2, <2>1
  <2>4. ASSUME t > 1 PROVE e[t - 1] < Len(s) + 1
    <3>1. t - 1 \in DOMAIN a
      BY <1>2, <2>1, <2>4
    <3>2. PICK j \in DOMAIN s : s[j] = [call |-> k, turn |-> t - 1, seq |-> a[t - 1]]
      BY <3>1 DEF Follows
    <3>3. a[t - 1] = j /\ e[t - 1] = a[t - 1]
      BY <1>2, <3>1, <3>2
    <3> QED BY <1>1, <3>3
  <2> QED BY <2>2, <2>3, <2>4
<1> QED BY <1>3, <1>4

LEMMA AgreesFollows ==
  ASSUME NEW d \in Days, NEW i \in DOMAIN messages[d], Agrees(d, i)
  PROVE  LET m == messages[d][i]
             b == Recorded(m.call)
         IN  /\ d = date[m.call] /\ b.call = m.call
             /\ m.turn > 0 => m.turn \in DOMAIN b.said /\ b.said[m.turn] = m.seq
             /\ m.turn = 0 => b.user = m.seq /\ Follows(messages[d], b.said, m.call, i)
  BY DEF Agrees, Follows

LEMMA FollowsAgrees ==
  ASSUME NEW d \in Days, NEW i \in Nat, NEW m, NEW b,
         m = messages'[d][i], b = ledger'[date'[m.call]][req'[m.call]],
         d = date'[m.call], b.call = m.call,
         m.turn > 0 => m.turn \in DOMAIN b.said /\ b.said[m.turn] = m.seq,
         m.turn = 0 => b.user = m.seq /\ Follows(messages'[d], b.said, m.call, i)
  PROVE  Agrees(d, i)'
  BY DEF Agrees, Follows, Recorded

\* A reply that reaches Redis: it takes the next place of the list and of its record.
LEMMA ReplyAgrees ==
  ASSUME TypeOK, IInv, RInv, [Next]_vars, HInv, NEW c \in Calls, AppendCharacter(c)
  PROVE  HistoryAgreesWithLedger'
<1> DEFINE n   == sequence[date[c]] + 1
           old == local[c]
           new == [old EXCEPT !.said = Append(@, n)]
           m   == [call |-> c, turn |-> Len(old.said) + 1, seq |-> n]
           s   == messages[date[c]]
<1>1. CASE UNCHANGED <<messages, ledger>>
  <2>1. RecordsKept
    BY <1>1 DEF RecordsKept
  <2> QED BY <1>1, <2>1, KeptAgrees DEF HInv
<1>2. CASE Appends(c, m) /\ Holds(c) /\ ledger' = [ledger EXCEPT ![date[c]][req[c]] = new]
  <2>1. /\ date[c] \in Days /\ req[c] \in Requests /\ pc[c] = "speak"
        /\ ledger \in [Days -> [Requests -> BatchType]]
    BY DEF TypeOK, AppendCharacter
  <2>2. old = Recorded(c) /\ old \in BatchType /\ old.call = c /\ old.said \in Seq(Nat) /\ Len(old.said) \in Nat
    BY <1>2, <2>1, CopyOfHolder
  <2>3. s \in Seq(MessageType) /\ n = Len(s) + 1 /\ Len(s) \in Nat /\ \A i \in DOMAIN s : s[i].seq = i
    BY <2>1 DEF TypeOK, HInv, SequenceIsPosition
  <2>4. new.call = c /\ new.user = old.user /\ new.said = Append(old.said, n)
    BY <2>2 DEF BatchType
  <2>5. m \in MessageType /\ m.call = c /\ m.turn = Len(old.said) + 1 /\ m.seq = n
    BY <1>2 DEF Appends
  <2>6. /\ messages'[date[c]] = Append(s, m) /\ \A d \in Days : d # date[c] => messages'[d] = messages[d]
        /\ UNCHANGED <<date, req>>
    BY <1>2, <2>1 DEF Appends, TypeOK, AppendCharacter
  <2>7. /\ DOMAIN s = 1 .. Len(s) /\ DOMAIN Append(s, m) = 1 .. Len(s) + 1
        /\ \A i \in DOMAIN s : Append(s, m)[i] = s[i]
        /\ Append(s, m)[Len(s) + 1] = m
    BY <2>3, <2>5, AppendsNext
  <2>8. /\ DOMAIN new.said = 1 .. Len(old.said) + 1 /\ DOMAIN old.said = 1 .. Len(old.said)
        /\ \A t \in DOMAIN old.said : new.said[t] = old.said[t]
        /\ new.said[Len(old.said) + 1] = n
    BY <2>2, <2>3, <2>4
  <2>9. ASSUME NEW d \in Days, NEW i \in DOMAIN messages[d]
        PROVE  i \in Nat /\ i \in DOMAIN messages'[d] /\ messages'[d][i] = messages[d][i]
    <3>1. CASE d = date[c]
      <4>1. i \in DOMAIN s /\ messages[d] = s /\ messages'[d] = Append(s, m)
        BY <2>6, <3>1
      <4> HIDE DEF s, m
      <4> QED BY <2>3, <2>7, <4>1
    <3>2. CASE d # date[c]
      BY <2>6, <3>2 DEF TypeOK
    <3> QED BY <3>1, <3>2
  <2>10. ASSUME NEW d \in Days, NEW i \in DOMAIN messages[d] PROVE Agrees(d, i)'
    <3> DEFINE g == messages[d][i]
               k == g.call
    <3>1. /\ k \in Calls /\ date[k] = d /\ req[k] \in Requests
          /\ ledger[d][req[k]] # NoBatch /\ Recorded(k) = ledger[d][req[k]]
      BY AuthorSettled DEF HInv
    <3>2. /\ Recorded(k).call = k
          /\ g.turn > 0 => g.turn \in DOMAIN Recorded(k).said /\ Recorded(k).said[g.turn] = g.seq
          /\ g.turn = 0 => Recorded(k).user = g.seq /\ Follows(messages[d], Recorded(k).said, k, i)
      BY AgreesEverywhere, AgreesFollows DEF HInv
    <3>3. messages'[d][i] = g /\ i \in Nat
      BY <2>9
    <3>4. CASE k = c
      <4>1. ledger'[date'[k]][req'[k]] = new
        BY <1>2, <2>1, <2>6, <3>4
      <4>2. d = date[c]
        BY <3>1, <3>4
      <4>3. g.turn > 0 => g.turn \in DOMAIN new.said /\ new.said[g.turn] = g.seq
        BY <2>2, <2>8, <3>2, <3>4
      <4>4. ASSUME g.turn = 0 PROVE new.user = g.seq /\ Follows(messages'[d], new.said, k, i)
        <5>1. new.user = g.seq /\ Follows(s, old.said, c, i)
          BY <2>2, <2>4, <3>2, <3>4, <4>2, <4>4
        <5>2. i \in DOMAIN s /\ m = [call |-> c, turn |-> Len(old.said) + 1, seq |-> Len(s) + 1]
          BY <2>3, <4>2
        <5> HIDE DEF s, old, m, n, new
        <5>3. Follows(Append(s, m), Append(old.said, Len(s) + 1), c, i)
          BY <2>2, <2>3, <2>5, <5>1, <5>2, FollowsNext
        <5> QED BY <2>3, <2>4, <2>6, <3>4, <4>2, <5>1, <5>3
      <4> HIDE DEF new, g
      <4> QED BY <2>4, <2>6, <3>1, <3>3, <3>4, <4>1, <4>3, <4>4, FollowsAgrees
    <3>5. CASE k # c
      <4>1. ~(d = date[c] /\ req[k] = req[c])
        BY <2>2, <3>1, <3>2, <3>5 DEF Recorded
      <4>2. ledger'[date'[k]][req'[k]] = Recorded(k)
        BY <1>2, <2>1, <2>6, <3>1, <4>1
      <4>3. ASSUME g.turn = 0 PROVE Follows(messages'[d], Recorded(k).said, k, i)
        <5>1. \A j \in DOMAIN messages[d] : j \in DOMAIN messages'[d] /\ messages'[d][j] = messages[d][j]
          BY <2>9
        <5> QED BY <3>2, <4>3, <5>1 DEF Follows
      <4> HIDE DEF g
      <4> QED BY <2>6, <3>1, <3>2, <3>3, <4>2, <4>3, FollowsAgrees
    <3> QED BY <3>4, <3>5
  <2>11. ASSUME NEW d \in Days, NEW i \in Nat, d = date[c], i = Len(s) + 1 PROVE Agrees(d, i)'
    <3>1. messages'[d][i] = m
      BY <2>6, <2>7, <2>11
    <3>2. ledger'[date'[c]][req'[c]] = new
      BY <1>2, <2>1, <2>6
    <3>3. m.turn \in DOMAIN new.said /\ new.said[m.turn] = m.seq /\ m.turn # 0
      BY <2>2, <2>5, <2>8
    <3>4. ledger'[date'[m.call]][req'[m.call]] = new /\ d = date'[m.call] /\ new.call = m.call
      BY <2>4, <2>5, <2>6, <2>11, <3>2
    <3> HIDE DEF m, new, s, n, old
    <3> QED BY <3>1, <3>3, <3>4, FollowsAgrees
  <2>12. ASSUME NEW d \in Days, NEW i \in DOMAIN messages'[d] PROVE Agrees(d, i)'
    <3>1. CASE i \in DOMAIN messages[d]
      BY <2>10, <3>1
    <3>2. CASE i \notin DOMAIN messages[d]
      <4>1. d = date[c]
        BY <2>6, <3>2
      <4>2. i \in 1 .. Len(s) + 1 /\ i \notin 1 .. Len(s)
        BY <2>6, <2>7, <3>2, <4>1
      <4>3. i \in Nat /\ i = Len(s) + 1
        <5> HIDE DEF s
        <5> QED BY <2>3, <4>2
      <4> QED BY <2>11, <4>1, <4>3
    <3> QED BY <3>1, <3>2
  <2> QED BY <2>12, AgreesEverywhere
<1> QED BY <1>1, <1>2, ReplyAppends

-----------------------------------------------------------------------------
LEMMA InitHInv == Init => HInv
  BY DEF Init, HInv, SequenceIsPosition, UserMessagesAreListed, HistoryAgreesWithLedger

LEMMA NextHInv == TypeOK /\ TypeOK' /\ IInv /\ RInv /\ HInv /\ [Next]_vars => HInv'
<1> SUFFICES ASSUME TypeOK, TypeOK', IInv, RInv, HInv, [Next]_vars PROVE HInv'
  OBVIOUS
<1>1. SequenceIsPosition' /\ UserMessagesAreListed'
  BY NextLists, NumbersStep, ListedStep DEF HInv
<1>2. HistoryAgreesWithLedger'
  <2>1. CASE \E c \in Calls : BeginStarted(c)
    BY <2>1, StartAgrees
  <2>2. CASE \E c \in Calls : AppendCharacter(c)
    BY <2>2, ReplyAgrees
  <2>3. CASE \A c \in Calls : ~BeginStarted(c) /\ ~AppendCharacter(c)
    BY <2>3, OthersKeep, KeptAgrees DEF HInv
  <2> QED BY <2>1, <2>2, <2>3
<1> QED BY <1>1, <1>2 DEF HInv

\* The visible list, its counter, the active set and the ledger stay in step.
THEOREM HistoryHolds == Spec => []HInv
<1>1. Init => HInv
  BY InitHInv
<1>2. TypeOK /\ TypeOK' /\ IInv /\ RInv /\ HInv /\ [Next]_vars => HInv'
  BY NextHInv
<1> QED BY <1>1, <1>2, TypeCorrect, InvariantHolds, RecordsHold, PTL DEF Spec

\* The place of a message in the list that a reload renumbers (MessagesForDateScope)
\* is the number its script gave it, also after ClearScopeDate emptied the list.
THEOREM NumbersArePlaces == Spec => []SequenceIsPosition
<1>1. HInv => SequenceIsPosition
  BY DEF HInv
<1> QED BY <1>1, HistoryHolds, PTL

\* The day of a visible user message is in the active set from which midnight's
\* maintenance takes the scopes it archives.
THEOREM ListedForMidnight == Spec => []UserMessagesAreListed
<1>1. HInv => UserMessagesAreListed
  BY DEF HInv
<1> QED BY <1>1, HistoryHolds, PTL

\* The list and the ledger, which appendCharacterScript and beginBatchScript write
\* together, never tell two stories of a batch, across clears and lost leases.
THEOREM OneStory == Spec => []HistoryAgreesWithLedger
<1>1. HInv => HistoryAgreesWithLedger
  BY DEF HInv
<1> QED BY <1>1, HistoryHolds, PTL

-----------------------------------------------------------------------------
(* The promise.                                                            *)

\* A running call has told nothing; one that is cleaning up will return its error.
SInv ==
  \A c \in Calls :
    /\ pc[c] \in {"idle", "begin", "plan", "speak", "crashed"} => answer[c] = NoAnswer
    /\ pc[c] = "interrupt" => \E kind \in {"lease_lost", "unknown"} : answer[c] = Error(kind)

-----------------------------------------------------------------------------
(* What the promise sees of the state.                                     *)

StageOf(p) ==
  CASE p = "begin" -> "asked"
    [] p \in {"plan", "speak", "interrupt"} -> "working"
    [] OTHER -> p

AnswerOf(p, a) ==
  IF p = "interrupt" THEN [kind |-> "none", reply |-> Reply(NoBatch)]
  ELSE [kind |-> a.kind, reply |-> Reply(a.batch)]

Stage  == [c \in Calls |-> StageOf(pc[c])]
Record == [d \in Days |-> [r \in Requests |-> Reply(ledger[d][r])]]
Told   == [c \in Calls |-> AnswerOf(pc[c], answer[c])]

Seen == <<day, Stage, req, date, Record, Told>>

LEMMA StageMoves ==
  ASSUME TypeOK, NEW c \in Calls, NEW p \in Positions, pc' = [pc EXCEPT ![c] = p]
  PROVE  Stage' = [Stage EXCEPT ![c] = StageOf(p)]
  BY DEF TypeOK, Stage

LEMMA ToldMoves ==
  ASSUME TypeOK, NEW c \in Calls, NEW p \in Positions, NEW a,
         pc' = [pc EXCEPT ![c] = p], answer' = [answer EXCEPT ![c] = a]
  PROVE  Told' = [Told EXCEPT ![c] = AnswerOf(p, a)]
  BY DEF TypeOK, Told

LEMMA RecordMoves ==
  ASSUME TypeOK, NEW d \in Days, NEW r \in Requests, NEW b,
         ledger' = [ledger EXCEPT ![d][r] = b]
  PROVE  Record' = [Record EXCEPT ![d][r] = Reply(b)]
  BY DEF TypeOK, Record

Tells(c, kind, b) ==
  /\ Stage' = [Stage EXCEPT ![c] = "done"]
  /\ Told' = [Told EXCEPT ![c] = [kind |-> kind, reply |-> Reply(b)]]

-----------------------------------------------------------------------------
(* The actions of the promise, said of what is seen.                       *)

LEMMA NoReplySeen == Promise!NoReply = Reply(NoBatch)
<1>1. NoBatch.call = Nobody /\ Len(NoBatch.said) = 0 /\ (NoBatch.status \in Terminal) = FALSE
  BY DEF NoBatch, Terminal
<1> QED BY <1>1, Zenon DEF Promise!NoReply, Reply

LEMMA TellSeen ==
  ASSUME NEW c \in Calls, NEW kind, NEW b, Tells(c, kind, b)
  PROVE  Promise!Tell(c, [kind |-> kind, reply |-> Reply(b)])
  BY DEF Tells, Promise!Tell, Stage, StageOf, Told, AnswerOf

LEMMA RefuseSeen ==
  ASSUME NEW c \in Calls, Stage[c] = "idle", Tells(c, "refused", NoBatch),
         UNCHANGED <<day, req, date, Record>>
  PROVE  Promise!Refuse(c)
<1>1. Promise!Tell(c, Promise!Error("refused"))
  BY TellSeen, NoReplySeen DEF Promise!Error
<1> QED BY <1>1 DEF Promise!Refuse, Stage, StageOf, Record

LEMMA KnownSeen ==
  ASSUME TypeOK, RInv, NEW c \in Calls
  PROVE  Promise!KnownOn(c) = KnownOn(c)
<1>1. ASSUME NEW d \in Days, NEW r \in Requests
      PROVE  Reply(ledger[d][r]) = Reply(NoBatch) <=> ledger[d][r] = NoBatch
  <2>1. ledger[d][r] # NoBatch => ledger[d][r].call \in Calls
    BY DEF RInv, RecordsOwned
  <2> QED BY <2>1, NobodyAssumption DEF Reply, NoBatch
<1>2. Promise!Days = Days
  BY DEF Promise!Days, Days
<1>3. req[c] \in Requests
  BY DEF TypeOK
<1> QED BY <1>1, <1>2, <1>3, NoReplySeen DEF Promise!KnownOn, KnownOn

LEMMA TellError ==
  ASSUME NEW c \in Calls, NEW kind, Tells(c, kind, NoBatch)
  PROVE  Promise!Tell(c, Promise!Error(kind))
  BY TellSeen, NoReplySeen DEF Promise!Error

LEMMA TellBatch ==
  ASSUME NEW c \in Calls, NEW b, Tells(c, "batch", b)
  PROVE  Promise!Tell(c, Promise!Batch(Reply(b)))
  BY TellSeen DEF Promise!Batch

LEMMA PutSeen ==
  ASSUME TypeOK, NEW c \in Calls, NEW d \in Days, NEW b, ledger' = [ledger EXCEPT ![d][req[c]] = b]
  PROVE  Promise!Put(d, c, Reply(b))
<1>1. Record' = [Record EXCEPT ![d][req[c]] = Reply(b)]
  BY RecordMoves DEF TypeOK
<1> QED BY <1>1 DEF Promise!Put, Record

LEMMA MineSeen ==
  ASSUME TypeOK, NEW c \in Calls
  PROVE  Promise!Mine(c) = Reply(Recorded(c))
  BY DEF TypeOK, Promise!Mine, Recorded

\* A reply that ended, and one with a message more.
LEMMA EndedReply ==
  ASSUME NEW b, NEW n, n.call = b.call, n.said = b.said, n.status \in Terminal
  PROVE  [Reply(b) EXCEPT !.ended = TRUE] = Reply(n)
<1>1. (n.status \in Terminal) = TRUE
  OBVIOUS
<1>2. PICK e : Reply(b) = [call |-> b.call, replies |-> Len(b.said), ended |-> e]
  BY DEF Reply
<1>3. ASSUME NEW v
      PROVE  [Reply(b) EXCEPT !.ended = v] = [call |-> b.call, replies |-> Len(b.said), ended |-> v]
  BY <1>2
<1>4. [Reply(b) EXCEPT !.ended = TRUE] = [call |-> b.call, replies |-> Len(b.said), ended |-> TRUE]
  BY <1>3, Zenon
<1> QED BY <1>1, <1>4, Zenon DEF Reply

LEMMA LongerReply ==
  ASSUME NEW b, NEW n, n.call = b.call, Len(n.said) = Len(b.said) + 1, n.status = b.status
  PROVE  [Reply(b) EXCEPT !.replies = @ + 1] = Reply(n)
  BY DEF Reply

LEMMA SameReply ==
  ASSUME NEW b, NEW n, n.call = b.call, n.said = b.said, n.status = b.status
  PROVE  Reply(b) = Reply(n)
  BY DEF Reply

LEMMA OpenReply ==
  ASSUME NEW b, b.status = "generating"
  PROVE  ~Reply(b).ended /\ Reply(b).call = b.call /\ Reply(b).replies = Len(b.said)
<1>1. b.status \notin Terminal
  BY DEF Terminal
<1> QED BY <1>1 DEF Reply

LEMMA StageSeen == ASSUME NEW c \in Calls PROVE Stage[c] = StageOf(pc[c])
  BY DEF Stage

\* What a call returns is told; what it prepares while it still works is not.
LEMMA ReturnTells ==
  ASSUME TypeOK, NEW c \in Calls, NEW kind, NEW b, Return(c, [kind |-> kind, batch |-> b])
  PROVE  Tells(c, kind, b)
<1>1. "done" \in Positions /\ StageOf("done") = "done"
      /\ AnswerOf("done", [kind |-> kind, batch |-> b]) = [kind |-> kind, reply |-> Reply(b)]
  BY DEF Positions, StageOf, AnswerOf
<1>2. Stage' = [Stage EXCEPT ![c] = StageOf("done")]
  BY <1>1, StageMoves DEF Return
<1>3. Told' = [Told EXCEPT ![c] = AnswerOf("done", [kind |-> kind, batch |-> b])]
  BY <1>1, ToldMoves DEF Return
<1> QED BY <1>1, <1>2, <1>3 DEF Tells

LEMMA ReturnError ==
  ASSUME TypeOK, NEW c \in Calls, NEW kind, Return(c, Error(kind))
  PROVE  Tells(c, kind, NoBatch)
  BY ReturnTells DEF Error

LEMMA WorkUnseen ==
  ASSUME TypeOK, SInv, NEW c \in Calls, pc[c] \in {"plan", "speak"},
         Go(c, "speak") \/ \E kind \in {"lease_lost", "unknown"} : Fail(c, kind)
  PROVE  UNCHANGED <<Stage, Told>>
<1>1. /\ {"speak", "interrupt"} \subseteq Positions
      /\ StageOf("speak") = StageOf(pc[c]) /\ StageOf("interrupt") = StageOf(pc[c])
  BY DEF Positions, Working, StageOf
<1>2. PICK p \in {"speak", "interrupt"} : pc' = [pc EXCEPT ![c] = p]
  BY DEF Go, Fail
<1>3. Stage' = Stage
  BY <1>1, <1>2, StageMoves, StageSeen DEF Stage
<1>4. answer[c] = NoAnswer
  BY DEF SInv
<1>5. Told[c] = [kind |-> "none", reply |-> Reply(NoBatch)]
  BY <1>4 DEF Told, AnswerOf, NoAnswer
<1>6. CASE Go(c, "speak")
  <2>1. ASSUME NEW k \in Calls PROVE AnswerOf(pc'[k], answer'[k]) = AnswerOf(pc[k], answer[k])
    BY <1>6 DEF Go, AnswerOf, TypeOK
  <2> QED BY <1>3, <2>1 DEF Told
<1>7. CASE \E kind \in {"lease_lost", "unknown"} : Fail(c, kind)
  <2>1. PICK a : pc' = [pc EXCEPT ![c] = "interrupt"] /\ answer' = [answer EXCEPT ![c] = a]
    BY <1>7 DEF Fail
  <2>2. Told' = [Told EXCEPT ![c] = AnswerOf("interrupt", a)]
    BY <1>1, <2>1, ToldMoves
  <2> QED BY <1>3, <1>5, <2>2 DEF AnswerOf, Told
<1> QED BY <1>3, <1>6, <1>7

-----------------------------------------------------------------------------
(* Silence while a call works is inductive.                                *)

LEMMA SilenceStep == TypeOK /\ SInv /\ [Next]_vars => SInv'
<1> SUFFICES ASSUME TypeOK, SInv, [Next]_vars PROVE SInv'
  OBVIOUS
<1>1. ASSUME NEW c \in Calls, NEW p \in Positions, NEW a,
             pc' = [pc EXCEPT ![c] = p], answer' = [answer EXCEPT ![c] = a],
             p \in {"idle", "begin", "plan", "speak", "crashed"} => a = NoAnswer,
             p = "interrupt" => \E kind \in {"lease_lost", "unknown"} : a = Error(kind)
      PROVE  SInv'
  BY <1>1 DEF SInv, TypeOK
<1>2. ASSUME NEW c \in Calls, NEW result, Return(c, result) PROVE SInv'
  BY <1>1, <1>2 DEF Return, Positions
<1>3. ASSUME NEW c \in Calls, NEW kind \in {"lease_lost", "unknown"}, Fail(c, kind) PROVE SInv'
  BY <1>1, <1>3 DEF Fail, Positions, Working
<1>4. ASSUME NEW c \in Calls, NEW p \in {"begin", "plan", "speak"}, Go(c, p),
             pc[c] \in {"idle", "begin", "plan", "speak"}
      PROVE  SInv'
  <2>1. answer' = [answer EXCEPT ![c] = NoAnswer]
    BY <1>4 DEF Go, SInv, TypeOK
  <2>2. p \in Positions
    BY DEF Positions, Working
  <2> QED BY <1>1, <1>4, <2>1, <2>2 DEF Go
<1>5. ASSUME NEW c \in Calls, Refuse(c) \/ Enter(c) \/ BeginExisting(c) \/ BeginBusy(c) \/ BeginUnreached(c)
      PROVE  SInv'
  BY <1>2, <1>4, <1>5 DEF Refuse, Enter, BeginExisting, BeginBusy, BeginUnreached
<1>6. ASSUME NEW c \in Calls, BeginStarted(c) PROVE SInv'
  BY <1>2, <1>4, <1>6 DEF BeginStarted
<1>7. ASSUME NEW c \in Calls, pc[c] \in {"plan", "speak"}, NEW b, NEW release, SaveBatch(c, b, release)
      PROVE  SInv'
  BY <1>2, <1>3, <1>4, <1>7 DEF SaveBatch
<1>8. ASSUME NEW c \in Calls, (\E n \in 1 .. MaxPlan : SavePlan(c, n)) \/ FailGeneration(c) \/ Complete(c)
      PROVE  SInv'
  BY <1>7, <1>8 DEF SavePlan, FailGeneration, Complete
<1>9. ASSUME NEW c \in Calls, AppendCharacter(c) PROVE SInv'
  BY <1>3, <1>4, <1>9 DEF AppendCharacter
<1>10. ASSUME NEW c \in Calls, Interrupt(c) PROVE SInv'
  BY <1>10 DEF Interrupt, Go, SInv, TypeOK
<1>11. ASSUME NEW c \in Calls, Crash(c) PROVE SInv'
  BY <1>1, <1>11 DEF Crash, Positions
<1>12. CASE LeaseExpires \/ ClearCheck \/ ClearToday \/ Tick \/ UNCHANGED vars
  BY <1>12 DEF LeaseExpires, ClearCheck, ClearToday, Tick, callVars, vars, SInv
<1> QED
  BY <1>5, <1>6, <1>8, <1>9, <1>10, <1>11, <1>12 DEF Next, Proceed, Begin

-----------------------------------------------------------------------------
(* Each step, as the promise sees it.                                      *)

Allowed == [Promise!PromiseNext]_(Promise!promiseVars)

LEMMA UnseenAllowed ==
  ASSUME UNCHANGED <<day, req, date, Stage, Record, Told>>
  PROVE  Allowed
  BY DEF Allowed, Promise!promiseVars, Stage, StageOf, Record, Told, AnswerOf

LEMMA CallAllowed == ASSUME NEW c \in Calls, Promise!CallStep(c) PROVE Allowed
  BY DEF Allowed, Promise!PromiseNext

\* The lists, the lease, the copies and the clears are not seen.
LEMMA LedgerUnseen == ASSUME UNCHANGED ledger PROVE UNCHANGED Record
  BY DEF Record

LEMMA RefuseAllowed == ASSUME TypeOK, NEW c \in Calls, Refuse(c) PROVE Allowed
<1>1. Stage[c] = "idle" /\ Tells(c, "refused", NoBatch) /\ UNCHANGED <<day, req, date, Record>>
  BY ReturnError, StageSeen, LedgerUnseen DEF Refuse, StageOf, storeVars
<1> QED BY <1>1, RefuseSeen, CallAllowed DEF Promise!CallStep

LEMMA EnterAllowed == ASSUME TypeOK, SInv, NEW c \in Calls, Enter(c) PROVE Allowed
<1>1. Stage[c] = "idle" /\ UNCHANGED <<day, req, Record>> /\ date' = [date EXCEPT ![c] = day]
  BY StageSeen, LedgerUnseen DEF Enter, StageOf, storeVars
<1>2. Stage' = [Stage EXCEPT ![c] = "asked"]
  BY StageMoves DEF Enter, Go, Positions, Working, StageOf
<1>3. Told' = Told
  <2>1. ASSUME NEW k \in Calls PROVE AnswerOf(pc'[k], answer'[k]) = AnswerOf(pc[k], answer[k])
    BY DEF Enter, Go, AnswerOf, TypeOK
  <2> QED BY <2>1 DEF Told
<1>4. Promise!Ask(c)
  BY <1>1, <1>2, <1>3 DEF Promise!Ask, Stage, StageOf, Record, Told, AnswerOf
<1> QED BY <1>4, CallAllowed DEF Promise!CallStep

LEMMA RepeatAllowed == ASSUME TypeOK, RInv, NEW c \in Calls, BeginExisting(c) PROVE Allowed
<1>1. PICK d \in KnownOn(c) : d = LedgerDay(c)
  BY LedgerDayType DEF BeginExisting
<1>2. PICK old : old = ledger[d][req[c]]
  OBVIOUS
<1>3. PICK b : b = IF lease = Nobody THEN Interrupted(old) ELSE old
  OBVIOUS
<1>4. /\ d \in Days /\ req[c] \in Requests /\ old \in BatchType
      /\ d # date[c] => date[c] \notin KnownOn(c)
  BY <1>1, <1>2 DEF TypeOK, LedgerDay, KnownOn
<1>5. /\ ledger' = [ledger EXCEPT ![d][req[c]] = b] /\ UNCHANGED <<day, req, date>> /\ pc[c] = "begin"
      /\ Return(c, [kind |-> "batch", batch |-> b]) \/ Return(c, Error("unknown"))
  BY <1>1, <1>2, <1>3 DEF BeginExisting
<1>6. PICK x : x = Reply(b)
  OBVIOUS
<1>7. x \in {Reply(old), [Reply(old) EXCEPT !.ended = TRUE]}
  <2>1. CASE b = old
    BY <1>6, <2>1
  <2>2. CASE b # old
    <3>1. b.call = old.call /\ b.said = old.said /\ b.status \in Terminal
      BY <1>3, <1>4, <2>2 DEF Interrupted, BatchType, Terminal
    <3> QED BY <1>6, <3>1, EndedReply
  <2> QED BY <2>1, <2>2
<1>8. Promise!Put(d, c, x)
  BY <1>4, <1>5, <1>6, PutSeen
<1>9. Promise!Tell(c, Promise!Batch(x)) \/ Promise!Tell(c, Promise!Error("unknown"))
  <2>1. CASE Return(c, [kind |-> "batch", batch |-> b])
    BY <1>6, <2>1, ReturnTells, TellBatch
  <2>2. CASE Return(c, Error("unknown"))
    BY <2>2, ReturnError, TellError
  <2> QED BY <1>5, <2>1, <2>2
<1>10. Stage[c] = "asked" /\ Record[d][req[c]] = Reply(old)
  BY <1>2, <1>4, <1>5, StageSeen DEF StageOf, Record
<1>11. d \in Promise!KnownOn(c) /\ (d # date[c] => date[c] \notin Promise!KnownOn(c))
  BY <1>4, KnownSeen
<1>12. Promise!Repeat(c)
  BY <1>5, <1>7, <1>8, <1>9, <1>10, <1>11 DEF Promise!Repeat, Stage, StageOf, Record
<1> QED BY <1>12, CallAllowed DEF Promise!CallStep

LEMMA TurnAwayAllowed ==
  ASSUME TypeOK, RInv, NEW c \in Calls, BeginBusy(c) \/ BeginUnreached(c)
  PROVE  Allowed
<1>1. Stage[c] = "asked" /\ UNCHANGED <<day, req, date, Record>>
  BY StageSeen, LedgerUnseen DEF BeginBusy, BeginUnreached, StageOf, storeVars
<1>2. Tells(c, "unknown", NoBatch) \/ (KnownOn(c) = {} /\ Tells(c, "busy", NoBatch))
  BY ReturnError DEF BeginBusy, BeginUnreached
<1>3. \/ Promise!Tell(c, Promise!Error("unknown"))
      \/ Promise!KnownOn(c) = {} /\ Promise!Tell(c, Promise!Error("busy"))
  BY <1>2, TellError, KnownSeen
<1>4. Promise!TurnAway(c)
  BY <1>1, <1>3 DEF Promise!TurnAway, Stage, StageOf, Record
<1> QED BY <1>4, CallAllowed DEF Promise!CallStep

LEMMA StartAllowed == ASSUME TypeOK, RInv, NEW c \in Calls, BeginStarted(c) PROVE Allowed
<1>1. PICK b : b = [call |-> c, status |-> "generating", planned |-> 0,
                    user |-> sequence[date[c]] + 1, said |-> <<>>]
  OBVIOUS
<1>2. PICK d \in Days : d = date[c]
  BY DEF TypeOK
<1>3. /\ pc[c] = "begin" /\ KnownOn(c) = {} /\ UNCHANGED <<day, req, date>>
      /\ ledger' = [ledger EXCEPT ![d][req[c]] = b]
      /\ Go(c, "plan") \/ Return(c, Error("unknown"))
  BY <1>1, <1>2 DEF BeginStarted, Store
<1>4. Reply(b) = [call |-> c, replies |-> 0, ended |-> FALSE]
  <2>1. b.call = c /\ Len(b.said) = 0 /\ (b.status \in Terminal) = FALSE
    BY <1>1 DEF Terminal
  <2> QED BY <2>1, Zenon DEF Reply
<1>5. Record' = [Record EXCEPT ![d][req[c]] = [call |-> c, replies |-> 0, ended |-> FALSE]]
  BY <1>3, <1>4, RecordMoves DEF TypeOK
<1>6. Stage[c] = "asked" /\ Promise!KnownOn(c) = {}
  BY <1>3, StageSeen, KnownSeen DEF StageOf
<1>7. \/ Stage' = [Stage EXCEPT ![c] = "working"] /\ UNCHANGED Told
      \/ Promise!Tell(c, Promise!Error("unknown"))
  <2>1. CASE Go(c, "plan")
    <3>1. Stage' = [Stage EXCEPT ![c] = "working"]
      BY <2>1, StageMoves DEF Go, Positions, Working, StageOf
    <3>2. ASSUME NEW k \in Calls PROVE AnswerOf(pc'[k], answer'[k]) = AnswerOf(pc[k], answer[k])
      BY <1>3, <2>1 DEF Go, AnswerOf, TypeOK
    <3> QED BY <3>1, <3>2 DEF Told
  <2>2. CASE Return(c, Error("unknown"))
    BY <2>2, ReturnError, TellError
  <2> QED BY <1>3, <2>1, <2>2
<1>8. Promise!Put(date[c], c, [call |-> c, replies |-> 0, ended |-> FALSE])
  BY <1>2, <1>5 DEF Promise!Put, Record
<1>9. Promise!Start(c)
  BY <1>3, <1>6, <1>7, <1>8 DEF Promise!Start, Stage, StageOf, Told, AnswerOf
<1> QED BY <1>9, CallAllowed DEF Promise!CallStep

LEMMA DieAllowed == ASSUME TypeOK, SInv, NEW c \in Calls, Crash(c) PROVE Allowed
<1>1. Stage[c] \in {"asked", "working"} /\ UNCHANGED <<day, req, date, Record>>
  BY StageSeen, LedgerUnseen DEF Crash, Working, StageOf, storeVars
<1>2. Stage' = [Stage EXCEPT ![c] = "crashed"]
  BY StageMoves DEF Crash, Positions, StageOf
<1>3. Told' = Told
  <2>1. ASSUME NEW k \in Calls PROVE AnswerOf(pc'[k], answer'[k]) = AnswerOf(pc[k], answer[k])
    BY DEF Crash, AnswerOf, TypeOK, SInv, Working, NoAnswer
  <2> QED BY <2>1 DEF Told
<1>4. Promise!Die(c)
  BY <1>1, <1>2, <1>3 DEF Promise!Die, Stage, StageOf, Record, Told, AnswerOf
<1> QED BY <1>4, CallAllowed DEF Promise!CallStep

\* The holder of the lease adds a reply; whether it hears of it is not seen.
LEMMA SpeakAllowed ==
  ASSUME TypeOK, IInv, RInv, SInv, NEW c \in Calls, AppendCharacter(c)
  PROVE  Allowed
<1>1. pc[c] = "speak" /\ Len(local[c].said) < local[c].planned /\ UNCHANGED <<day, req, date>>
  BY DEF AppendCharacter
<1>2. UNCHANGED <<Stage, Told>>
  BY <1>1, WorkUnseen DEF AppendCharacter
<1>3. CASE UNCHANGED ledger
  BY <1>1, <1>2, <1>3, LedgerUnseen, UnseenAllowed
<1>4. CASE Holds(c) /\ ~UNCHANGED ledger
  <2>1. PICK n : n = sequence[date[c]] + 1
    OBVIOUS
  <2>2. PICK d \in Days : d = date[c]
    BY DEF TypeOK
  <2>3. PICK old : old = local[c]
    OBVIOUS
  <2>4. PICK b : b = [old EXCEPT !.said = Append(@, n)]
    OBVIOUS
  <2>5. ledger' = [ledger EXCEPT ![d][req[c]] = b]
    BY <1>4, <2>1, <2>2, <2>3, <2>4 DEF AppendCharacter, Store
  <2>6. /\ old = Recorded(c) /\ old \in BatchType /\ old.status = "generating"
        /\ old.said \in Seq(Nat) /\ old.planned \in 0 .. MaxPlan /\ Len(old.said) < old.planned
    <3>1. /\ old = Recorded(c) /\ old \in BatchType /\ old.status = "generating"
          /\ old.said \in Seq(Nat) /\ Len(old.said) < old.planned
      BY <1>1, <1>4, <2>3, CopyOfHolder
    <3> QED BY <3>1 DEF BatchType
  <2>7. b.call = old.call /\ Len(b.said) = Len(old.said) + 1 /\ b.status = old.status
    BY <2>4, <2>6 DEF BatchType
  <2>8. [Reply(old) EXCEPT !.replies = @ + 1] = Reply(b)
    BY <2>7, LongerReply
  <2>9. Promise!Mine(c) = Reply(old) /\ ~Reply(old).ended /\ Reply(old).replies < MaxPlan
    <3>1. Len(old.said) < MaxPlan
      BY <2>6, BoundAssumption
    <3>2. Promise!Mine(c) = Reply(old)
      BY <2>6, MineSeen
    <3>3. ~Reply(old).ended /\ Reply(old).replies = Len(old.said)
      BY <2>6, OpenReply
    <3> QED BY <3>1, <3>2, <3>3
  <2>10. Record' = [Record EXCEPT ![date[c]][req[c]] = [Promise!Mine(c) EXCEPT !.replies = @ + 1]]
    <3>1. Record' = [Record EXCEPT ![d][req[c]] = Reply(b)]
      BY <2>5, RecordMoves DEF TypeOK
    <3>2. [Promise!Mine(c) EXCEPT !.replies = @ + 1] = Reply(b)
      BY <2>8, <2>9, Zenon
    <3> QED BY <2>2, <3>1, <3>2, Zenon
  <2>11. Stage[c] = "working"
    BY <1>1, StageSeen DEF StageOf
  <2>12. Promise!Speak(c)
    BY <1>1, <1>2, <2>9, <2>10, <2>11 DEF Promise!Speak, Promise!Put, Stage, StageOf, Record, Told, AnswerOf
  <2> QED BY <2>12, CallAllowed DEF Promise!CallStep
<1> QED BY <1>3, <1>4 DEF AppendCharacter

LEMMA FinishSeen ==
  ASSUME TypeOK, NEW c \in Calls, NEW old, NEW b, old = Recorded(c), old.status = "generating",
         b.call = old.call, b.said = old.said, b.status \in Terminal,
         pc[c] \in {"plan", "speak"}, UNCHANGED <<day, req, date>>,
         ledger' = [ledger EXCEPT ![date[c]][req[c]] = b],
         Tells(c, "batch", b) \/ UNCHANGED <<Stage, Told>>
  PROVE  Promise!Finish(c)
<1>1. PICK d \in Days : d = date[c]
  BY DEF TypeOK
<1>2. PICK x : x = Reply(b)
  OBVIOUS
<1>3. Promise!Mine(c) = Reply(old)
  BY MineSeen
<1>4. ~Promise!Mine(c).ended
  <2>1. ~Reply(old).ended
    BY OpenReply
  <2> QED BY <1>3, <2>1
<1>5. [Promise!Mine(c) EXCEPT !.ended = TRUE] = x
  <2>1. [Reply(old) EXCEPT !.ended = TRUE] = x
    BY <1>2, EndedReply
  <2> QED BY <1>3, <2>1, Zenon
<1>6. Record' = [Record EXCEPT ![date[c]][req[c]] = [Promise!Mine(c) EXCEPT !.ended = TRUE]]
  <2>1. Record' = [Record EXCEPT ![d][req[c]] = x]
    BY <1>1, <1>2, RecordMoves DEF TypeOK
  <2> QED BY <1>1, <1>5, <2>1, Zenon
<1>7. \/ /\ Stage' = [Stage EXCEPT ![c] = "done"]
         /\ Told' = [Told EXCEPT ![c] = [kind |-> "batch", reply |-> [Promise!Mine(c) EXCEPT !.ended = TRUE]]]
      \/ UNCHANGED <<Stage, Told>>
  BY <1>2, <1>5, Zenon DEF Tells
<1>8. Stage[c] = "working"
  BY StageSeen DEF StageOf
<1> QED
  BY <1>4, <1>6, <1>7, <1>8, Zenon
  DEF Promise!Finish, Promise!Put, Promise!Tell, Promise!Batch, Stage, StageOf, Record, Told, AnswerOf

LEMMA SaveAllowed ==
  ASSUME TypeOK, IInv, RInv, SInv, NEW c \in Calls, NEW b, NEW release \in BOOLEAN,
         pc[c] \in {"plan", "speak"}, b.call = local[c].call, b.said = local[c].said,
         release => b.status \in Terminal, ~release => b.status = local[c].status,
         SaveBatch(c, b, release)
  PROVE  Allowed
<1>1. UNCHANGED <<day, req, date>>
  BY DEF SaveBatch
<1>2. CASE UNCHANGED ledger /\ \E kind \in {"lease_lost", "unknown"} : Fail(c, kind)
  BY <1>1, <1>2, WorkUnseen, LedgerUnseen, UnseenAllowed
<1>3. CASE /\ Holds(c) /\ Store(c, b)
           /\ \/ IF release THEN Return(c, [kind |-> "batch", batch |-> b]) ELSE Go(c, "speak")
              \/ Fail(c, "unknown")
  <2>1. PICK old : old = Recorded(c)
    OBVIOUS
  <2>2. /\ local[c] = old /\ old.status = "generating"
        /\ ledger' = [ledger EXCEPT ![date[c]][req[c]] = b]
    BY <1>3, <2>1, CopyOfHolder DEF Store
  <2>3. CASE release
    <3>1. Tells(c, "batch", b) \/ UNCHANGED <<Stage, Told>>
      BY <1>3, <2>3, ReturnTells, WorkUnseen
    <3>2. Promise!Finish(c)
      BY <1>1, <2>1, <2>2, <2>3, <3>1, FinishSeen
    <3> QED BY <3>2, CallAllowed DEF Promise!CallStep
  <2>4. CASE ~release
    <3>1. UNCHANGED <<Stage, Told>>
      BY <1>3, <2>4, WorkUnseen
    <3>2. Reply(b) = Reply(old)
      BY <2>2, <2>4, SameReply
    <3>3. UNCHANGED Record
      BY <2>1, <2>2, <3>2 DEF Record, Recorded, TypeOK
    <3> QED BY <1>1, <3>1, <3>3, UnseenAllowed
  <2> QED BY <2>3, <2>4
<1> QED BY <1>2, <1>3 DEF SaveBatch

LEMMA SavesAllowed ==
  ASSUME TypeOK, IInv, RInv, SInv, NEW c \in Calls,
         (\E n \in 1 .. MaxPlan : SavePlan(c, n)) \/ FailGeneration(c) \/ Complete(c)
  PROVE  Allowed
<1>1. local[c] \in BatchType
  BY DEF TypeOK
<1>2. ASSUME NEW n \in 1 .. MaxPlan, SavePlan(c, n) PROVE Allowed
  <2>1. PICK b : b = [local[c] EXCEPT !.planned = n]
    OBVIOUS
  <2>2. pc[c] = "plan" /\ SaveBatch(c, b, FALSE)
    BY <1>2, <2>1 DEF SavePlan
  <2>3. b.call = local[c].call /\ b.said = local[c].said /\ b.status = local[c].status
    BY <1>1, <2>1 DEF BatchType
  <2> QED BY <2>2, <2>3, SaveAllowed
<1>3. CASE FailGeneration(c)
  <2>1. PICK b : b = Interrupted(local[c])
    OBVIOUS
  <2>2. pc[c] = "speak" /\ SaveBatch(c, b, TRUE)
    BY <1>3, <2>1 DEF FailGeneration
  <2>3. local[c].status = "generating"
    BY <2>2 DEF IInv, OpenCopies
  <2>4. b.call = local[c].call /\ b.said = local[c].said /\ b.status \in Terminal
    BY <1>1, <2>1, <2>3 DEF Interrupted, BatchType, Terminal
  <2> QED BY <2>2, <2>4, SaveAllowed
<1>4. CASE Complete(c)
  <2>1. PICK b : b = [local[c] EXCEPT !.status = "complete"]
    OBVIOUS
  <2>2. pc[c] = "speak" /\ SaveBatch(c, b, TRUE)
    BY <1>4, <2>1 DEF Complete
  <2>3. b.call = local[c].call /\ b.said = local[c].said /\ b.status \in Terminal
    BY <1>1, <2>1 DEF BatchType, Terminal
  <2> QED BY <2>2, <2>3, SaveAllowed
<1> QED BY <1>2, <1>3, <1>4

\* The cleanup ends its record or leaves it; only now the error is told.
LEMMA GiveUpAllowed ==
  ASSUME TypeOK, IInv, SInv, NEW c \in Calls, Interrupt(c)
  PROVE  Allowed
<1>1. pc[c] = "interrupt" /\ Go(c, "done") /\ UNCHANGED <<day, req, date>>
  BY DEF Interrupt
<1>2. PICK kind \in {"lease_lost", "unknown"} : answer[c] = Error(kind)
  BY <1>1 DEF SInv
<1>3. Tells(c, kind, NoBatch)
  BY <1>1, <1>2, ReturnError DEF Go, Return, TypeOK
<1>4. Promise!Tell(c, Promise!Error(kind))
  BY <1>3, TellError
<1>5. \/ UNCHANGED Record
      \/ Record' = [Record EXCEPT ![date[c]][req[c]] = [Promise!Mine(c) EXCEPT !.ended = TRUE]]
  <2>1. CASE UNCHANGED ledger
    BY <2>1, LedgerUnseen
  <2>2. CASE ~UNCHANGED ledger
    <3>1. PICK old : old = Recorded(c)
      OBVIOUS
    <3>2. PICK b : b = Interrupted(old)
      OBVIOUS
    <3>3. PICK d \in Days : d = date[c]
      BY DEF TypeOK
    <3>4. Holds(c)
      BY <2>2 DEF Interrupt
    <3>5. batches[c] = old /\ old.call = c /\ old.status = "generating"
      BY <3>1, <3>4, NobodyAssumption DEF Holds, IInv, LeaseNamesOpenBatch
    <3>6. old \in BatchType /\ old # NoBatch
      BY <3>1, <3>5, NobodyAssumption DEF Recorded, NoBatch, TypeOK
    <3>7. ledger' = [ledger EXCEPT ![d][req[c]] = b]
      BY <2>2, <3>2, <3>3, <3>5, <3>6 DEF Interrupt, Store
    <3>8. b.call = old.call /\ b.said = old.said /\ b.status \in Terminal
      BY <3>2, <3>5, <3>6 DEF Interrupted, BatchType, Terminal
    <3>9. [Reply(old) EXCEPT !.ended = TRUE] = Reply(b)
      BY <3>8, EndedReply
    <3>10. Promise!Mine(c) = Reply(old)
      BY <3>1, MineSeen
    <3>11. Record' = [Record EXCEPT ![d][req[c]] = Reply(b)]
      BY <3>7, RecordMoves DEF TypeOK
    <3> QED BY <3>3, <3>9, <3>10, <3>11, Zenon
  <2> QED BY <2>1, <2>2
<1>6. Stage[c] = "working"
  BY <1>1, StageSeen DEF StageOf
<1>7. Promise!GiveUp(c)
  BY <1>1, <1>4, <1>5, <1>6, Zenon DEF Promise!GiveUp, Promise!Put, Stage, StageOf, Record
<1> QED BY <1>7, CallAllowed DEF Promise!CallStep

LEMMA QuietAllowed ==
  ASSUME LeaseExpires \/ ClearCheck \/ ClearToday \/ UNCHANGED vars
  PROVE  Allowed
<1>1. UNCHANGED <<day, req, date, ledger, pc, answer>>
  BY DEF LeaseExpires, ClearCheck, ClearToday, callVars, storeVars, vars
<1> QED BY <1>1, UnseenAllowed DEF Stage, Record, Told

LEMMA TickAllowed == ASSUME Tick PROVE Allowed
<1>1. UNCHANGED <<req, date, Stage, Record, Told>> /\ day < LastDay /\ day' = day + 1
  BY DEF Tick, callVars, storeVars, Stage, Record, Told
<1>2. Promise!NextDay
  BY <1>1 DEF Promise!NextDay, Stage, StageOf, Record, Told, AnswerOf
<1> QED BY <1>2 DEF Allowed, Promise!PromiseNext

LEMMA NextAllowed == TypeOK /\ IInv /\ RInv /\ SInv /\ [Next]_vars => Allowed
<1> SUFFICES ASSUME TypeOK, IInv, RInv, SInv, [Next]_vars PROVE Allowed
  OBVIOUS
<1>1. ASSUME NEW c \in Calls, Refuse(c) \/ Enter(c) \/ Crash(c) PROVE Allowed
  BY <1>1, RefuseAllowed, EnterAllowed, DieAllowed
<1>2. ASSUME NEW c \in Calls, Begin(c) PROVE Allowed
  BY <1>2, RepeatAllowed, TurnAwayAllowed, StartAllowed DEF Begin
<1>3. ASSUME NEW c \in Calls, Proceed(c) PROVE Allowed
  BY <1>2, <1>3, SavesAllowed, SpeakAllowed, GiveUpAllowed DEF Proceed
<1>4. CASE LeaseExpires \/ ClearCheck \/ ClearToday \/ Tick \/ UNCHANGED vars
  BY <1>4, QuietAllowed, TickAllowed
<1> QED BY <1>1, <1>3, <1>4 DEF Next

LEMMA InitAllowed == Init => SInv /\ Promise!PromiseInit
<1> SUFFICES ASSUME Init PROVE SInv /\ Promise!PromiseInit
  OBVIOUS
<1>1. SInv
  BY DEF Init, SInv
<1>2. Stage = [c \in Calls |-> "idle"]
  BY DEF Init, Stage, StageOf
<1>3. Record = [d \in Days |-> [r \in Requests |-> Promise!NoReply]]
  BY NoReplySeen DEF Init, Record
<1>4. Told = [c \in Calls |-> Promise!NoAnswer]
  BY NoReplySeen DEF Init, Told, AnswerOf, NoAnswer, Promise!NoAnswer
<1>5. day = 1 /\ req \in [Calls -> Requests] /\ date = [c \in Calls |-> 1]
  BY DEF Init
<1>6. Promise!PromiseInit
  BY <1>2, <1>3, <1>4, <1>5 DEF Promise!PromiseInit, Promise!Days, Days, Stage, StageOf, Record, Told, AnswerOf
<1> QED BY <1>1, <1>6

\* Until Send returns, its caller has been told nothing; its deferred cleanup runs before
\* the error is told.
THEOREM SilenceHolds == Spec => []SInv
<1>1. Init => SInv
  BY InitAllowed
<1> QED BY <1>1, SilenceStep, TypeCorrect, PTL DEF Spec

\* beginBatchScript, the fenced scripts and the deferred cleanup together keep the simple
\* promise that the gateway relies on: one record per id and day, grown by its own call,
\* ended once, and handed out to every repeat.
THEOREM PromiseKept == Spec => ImplementsPromise
<1>1. Init => Promise!PromiseInit
  BY InitAllowed
<1>2. TypeOK /\ IInv /\ RInv /\ SInv /\ [Next]_vars => [Promise!PromiseNext]_(Promise!promiseVars)
  BY NextAllowed DEF Allowed
<1> QED
  BY <1>1, <1>2, TypeCorrect, InvariantHolds, RecordsHold, SilenceHolds, PTL
  DEF Spec, ImplementsPromise, Promise!PromiseSpec
=============================================================================
