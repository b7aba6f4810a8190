------------------------- MODULE DayMaintenanceProofs -------------------------
(***************************************************************************)
(* The midnight maintenance, for every number of runs, calls, request ids, *)
(* speakers and days: the list of the day that ended is not deleted before *)
(* what it owes is archived, and the archive says what the clients saw.    *)
(***************************************************************************)
EXTENDS DayMaintenance, ConversationHistoryProofs

\* What the calls of the scope keep among themselves.
CInv == TypeOK /\ IInv /\ RInv /\ HInv

\* What ClearArchived does to the calls' variables: it may empty the list of day 1.
Emptied ==
  /\ ClearScopeDate(1) \/ UNCHANGED <<messages, sequence, active>>
  /\ UNCHANGED <<day, ledger, batches, lease, callVars, clearing, starts>>

LEMMA RunsEmpty ==
  ASSUME MaintenanceNext \/ UNCHANGED allVars
  PROVE  (StoreStep /\ Next) \/ UNCHANGED vars \/ Emptied
<1>1. ASSUME NEW m \in Runs, StartRun(m) \/ ListScope(m) \/ ReadDay(m) \/ ArchiveTurns(m) \/ StoreSummary(m)
      PROVE  UNCHANGED vars
  BY <1>1 DEF StartRun, ListScope, ReadDay, ArchiveTurns, StoreSummary
<1>2. ASSUME NEW m \in Runs, ClearArchived(m) PROVE Emptied
  BY <1>2 DEF ClearArchived, Emptied
<1>3. UNCHANGED allVars => UNCHANGED vars
  BY DEF allVars
<1> QED BY <1>1, <1>2, <1>3 DEF MaintenanceNext, RunStep, StoreStep

LEMMA OneIsADay == 1 \in Days
  BY BoundAssumption DEF Days

\* Deleting the list, unlike the ledger, disturbs no call.
LEMMA EmptiedKeeps == ASSUME CInv, Emptied PROVE CInv'
<1>1. TypeOK'
  <2>1. <<>> \in Seq(MessageType) /\ 0 \in Nat
    OBVIOUS
  <2>2. messages \in [Days -> Seq(MessageType)] /\ sequence \in [Days -> Nat] /\ active \in SUBSET Days
    BY DEF CInv, TypeOK
  <2>3. messages' \in [Days -> Seq(MessageType)] /\ sequence' \in [Days -> Nat] /\ active' \in SUBSET Days
    BY <2>1, <2>2 DEF Emptied, ClearScopeDate
  <2> QED BY <2>3 DEF Emptied, CInv, TypeOK, callVars
<1>2. IInv'
  BY DEF CInv, IInv, Emptied, callVars, LeaseNamesOpenBatch, OpenCopies, HolderEntered, StartsRecorded,
         NoRegeneration, Recorded, Started
<1>3. RInv'
  BY DEF CInv, RInv, Emptied, callVars, HolderCopies, RecordsOwned, StartsOwned, PlansFit, CleaningFails,
         AnswersNamed, AnswersAreRecorded, Recorded, Holds
<1>4. ListStep
  BY OneIsADay DEF Emptied, ListStep
<1>5. SequenceIsPosition' /\ UserMessagesAreListed'
  BY <1>1, <1>4, NumbersStep, ListedStep DEF CInv, HInv
<1>6. HistoryAgreesWithLedger'
  <2>1. /\ \A d \in Days : messages'[d] \in {messages[d], <<>>}
        /\ UNCHANGED <<ledger, date, req>>
    BY OneIsADay DEF Emptied, ClearScopeDate, CInv, TypeOK, callVars
  <2>2. \A d \in Days : \A i \in DOMAIN messages'[d] : messages'[d] = messages[d]
    BY <2>1
  <2>3. HistoryAgreesWithLedger
    BY DEF CInv, HInv
  <2>4. ASSUME NEW d \in Days, NEW i \in DOMAIN messages'[d] PROVE Agrees(d, i)'
    <3>1. messages'[d] = messages[d] /\ i \in DOMAIN messages[d]
      BY <2>2
    <3> DEFINE m == messages[d][i]
               b == Recorded(m.call)
    <3>2. /\ d = date[m.call] /\ b.call = m.call
          /\ m.turn > 0 => m.turn \in DOMAIN b.said /\ b.said[m.turn] = m.seq
          /\ m.turn = 0 => b.user = m.seq /\ Follows(messages[d], b.said, m.call, i)
      BY <2>3, <3>1, AgreesEverywhere, AgreesFollows
    <3>3. i \in Nat
      BY <3>1 DEF CInv, TypeOK
    <3>4. m = messages'[d][i] /\ b = ledger'[date'[m.call]][req'[m.call]]
      BY <2>1, <3>1 DEF Recorded
    <3> HIDE DEF m, b
    <3> QED BY <2>1, <3>1, <3>2, <3>3, <3>4, FollowsAgrees
  <2> QED BY <2>4, AgreesEverywhere
<1> QED BY <1>1, <1>2, <1>3, <1>5, <1>6 DEF CInv, HInv

LEMMA CallsStep == ASSUME CInv, [Next]_vars PROVE CInv'
  BY NextTypes, NextIInv, NextRInv, NextHInv DEF CInv

-----------------------------------------------------------------------------
(* A message and its record.                                               *)

\* The records that exist keep the number of their user message.
UsersKept ==
  \A d \in Days, r \in Requests : ledger[d][r] # NoBatch => ledger'[d][r].user = ledger[d][r].user

LEMMA NextKeepsUsers == ASSUME CInv, [Next]_vars PROVE UsersKept
<1> USE DEF CInv
<1>1. ASSUME NEW c \in Calls, BeginStarted(c) PROVE UsersKept
  <2>1. ledger[date[c]][req[c]] = NoBatch /\ date[c] \in Days /\ req[c] \in Requests
    BY <1>1 DEF BeginStarted, KnownOn, TypeOK
  <2>2. PICK b : ledger' = [ledger EXCEPT ![date[c]][req[c]] = b]
    BY <1>1 DEF BeginStarted, Store
  <2> QED BY <2>1, <2>2 DEF UsersKept, TypeOK
<1>2. ASSUME NEW c \in Calls, AppendCharacter(c) PROVE UsersKept
  <2> DEFINE n == sequence[date[c]] + 1
             b == [local[c] EXCEPT !.said = Append(@, n)]
  <2>1. UNCHANGED ledger \/ (Holds(c) /\ ledger' = [ledger EXCEPT ![date[c]][req[c]] = b])
    BY <1>2, ReplyAppends
  <2>2. ASSUME Holds(c) PROVE b.user = Recorded(c).user
    <3>1. local[c] = Recorded(c) /\ local[c] \in BatchType
      BY <1>2, <2>2, CopyOfHolder DEF AppendCharacter
    <3> QED BY <3>1 DEF BatchType
  <2>3. date[c] \in Days /\ req[c] \in Requests /\ ledger \in [Days -> [Requests -> BatchType]]
    BY DEF TypeOK
  <2> HIDE DEF b
  <2> SUFFICES ASSUME NEW d \in Days, NEW r \in Requests PROVE ledger'[d][r].user = ledger[d][r].user
    BY DEF UsersKept
  <2>4. CASE UNCHANGED ledger
    BY <2>4
  <2>5. CASE Holds(c) /\ ledger' = [ledger EXCEPT ![date[c]][req[c]] = b]
    <3>1. d = date[c] /\ r = req[c] => ledger'[d][r] = b /\ b.user = ledger[d][r].user
      BY <2>2, <2>3, <2>5 DEF Recorded
    <3>2. ~(d = date[c] /\ r = req[c]) => ledger'[d][r] = ledger[d][r]
      BY <2>3, <2>5
    <3> QED BY <3>1, <3>2
  <2> QED BY <2>1, <2>4, <2>5
<1>3. CASE \A c \in Calls : ~BeginStarted(c) /\ ~AppendCharacter(c)
  BY <1>3, OthersKeep DEF RecordsKept, UsersKept
<1> QED BY <1>1, <1>2, <1>3

\* Message x says what its batch's record says.
Shown(x) ==
  LET b == Recorded(x.call)
  IN  /\ b.call = x.call
      /\ IF x.turn = 0 THEN b.user = x.seq ELSE x.turn \in DOMAIN b.said /\ b.said[x.turn] = x.seq

\* It says so for good: neither the day nor the id of its call, nor what is recorded
\* under them, changes any more.
LEMMA ShownForGood ==
  ASSUME CInv, [Next]_vars, NEW x \in MessageType, Shown(x)
  PROVE  Shown(x)'
<1> DEFINE k == x.call
           b == Recorded(k)
<1>1. k \in Calls /\ date[k] \in Days /\ req[k] \in Requests
  BY DEF MessageType, CInv, TypeOK
<1>2. b.call = k /\ b = ledger[date[k]][req[k]] /\ b \in BatchType
  BY <1>1 DEF Shown, Recorded, CInv, TypeOK
<1>3. b # NoBatch /\ b.call # Nobody
  BY <1>1, <1>2, NobodyAssumption DEF NoBatch
<1>4. pc[k] \notin {"idle", "begin"}
  BY <1>1, <1>2, <1>3 DEF CInv, RInv, RecordsOwned
<1>5. date'[k] = date[k] /\ req'[k] = req[k]
  BY <1>1, <1>4, CallsMoveOn DEF CInv
<1> DEFINE n == ledger'[date[k]][req[k]]
<1>6. n.call = b.call /\ Prefix(b.said, n.said) /\ n \in BatchType
  BY <1>1, <1>2, <1>3, NextGrows, CallsStep DEF CInv, GrowKept, TypeOK
<1>7. n.user = b.user
  BY <1>1, <1>2, <1>3, NextKeepsUsers DEF UsersKept
<1>8. b.said \in Seq(Nat) /\ n.said \in Seq(Nat)
  BY <1>2, <1>6 DEF BatchType
<1>9. ASSUME NEW t \in DOMAIN b.said PROVE t \in DOMAIN n.said /\ n.said[t] = b.said[t]
  BY <1>6, <1>8 DEF Prefix
<1>10. Recorded(k)' = n
  BY <1>5 DEF Recorded
<1>11. /\ b.call = k
       /\ IF x.turn = 0 THEN b.user = x.seq ELSE x.turn \in DOMAIN b.said /\ b.said[x.turn] = x.seq
  BY DEF Shown
<1> HIDE DEF b, n
<1>12. /\ n.call = k
       /\ IF x.turn = 0 THEN n.user = x.seq ELSE x.turn \in DOMAIN n.said /\ n.said[x.turn] = x.seq
  BY <1>6, <1>7, <1>9, <1>11
<1> QED BY <1>10, <1>12 DEF Shown

\* A visible message does, by the agreement of the list with the ledger.
LEMMA VisibleIsShown ==
  ASSUME CInv, NEW d \in Days, NEW x \in Rows(messages[d])
  PROVE  x \in MessageType /\ Shown(x)
<1>1. PICK i \in DOMAIN messages[d] : x = messages[d][i]
  BY DEF Rows
<1>2. messages[d] \in Seq(MessageType)
  BY DEF CInv, TypeOK
<1>3. x \in MessageType
  BY <1>1, <1>2
<1>4. x.turn \in Nat
  BY <1>3 DEF MessageType
<1> QED BY <1>1, <1>3, <1>4 DEF CInv, HInv, HistoryAgreesWithLedger, Shown

\* Two rows of one turn are one row.
LEMMA OneRowPerTurn ==
  ASSUME NEW x \in MessageType, NEW y \in MessageType, Shown(x), Shown(y), SameTurn(x, y)
  PROVE  x = y
<1>1. x.call = y.call /\ x.turn = y.turn
  BY DEF SameTurn
<1>2. x.seq = y.seq
  BY <1>1 DEF Shown
<1> QED BY <1>1, <1>2 DEF MessageType

\* The reload's numbers are the numbers the list already has.
LEMMA NumberedItself == ASSUME CInv PROVE Numbered(messages[1]) = messages[1]
<1>1. messages[1] \in Seq(MessageType) /\ \A i \in DOMAIN messages[1] : messages[1][i].seq = i
  BY OneIsADay DEF CInv, TypeOK, HInv, SequenceIsPosition
<1>2. ASSUME NEW i \in DOMAIN messages[1] PROVE [messages[1][i] EXCEPT !.seq = i] = messages[1][i]
  <2>1. messages[1][i] \in MessageType
    BY <1>1
  <2> QED BY <1>1, <2>1 DEF MessageType
<1>3. messages[1] = [i \in DOMAIN messages[1] |-> messages[1][i]]
  BY <1>1
<1> QED BY <1>2, <1>3 DEF Numbered

-----------------------------------------------------------------------------
(* The runs.                                                               *)

ShownRows(R) == \A x \in R : x \in MessageType /\ Shown(x)

RowsAreShown ==
  /\ ShownRows(owed)
  /\ ShownRows(archive)
  /\ \A m \in Runs : ShownRows(Rows(copy[m]))

\* How far a run is with what the archive is owed, and with what it read.
RunsCover ==
  \A m \in Runs :
    /\ step[m] = "archive" => owed \subseteq archive \union Rows(copy[m])
    /\ step[m] \in {"summarize", "clear"} => owed \subseteq archive
    /\ step[m] = "summarize" => Rows(copy[m]) \subseteq archive

NoneBeforeMidnight == day = 1 => \A m \in Runs : step[m] = "idle"

MInv ==
  /\ step \in [Runs -> Steps]
  /\ copy \in [Runs -> Seq(MessageType)]
  /\ NoneBeforeMidnight
  /\ RowsAreShown
  /\ RunsCover
  /\ summary \subseteq archive
  /\ EndedBatchesAreKept

\* What a run may do to the archive and to what it has read: rows that are shown
\* join the archive, a copy is taken of the list, the summary is made of the archive.
LEMMA RunKeeps ==
  ASSUME CInv, CInv', MInv, UNCHANGED <<day, ledger, req, date, owed>>,
         step' \in [Runs -> Steps], copy' \in [Runs -> Seq(MessageType)], day > 1,
         archive \subseteq archive', \A x \in archive' : x \in archive \/ (x \in MessageType /\ Shown(x)),
         \A m \in Runs : \A x \in Rows(copy'[m]) : x \in MessageType /\ Shown(x),
         \A m \in Runs :
           /\ step'[m] = "archive" => owed \subseteq archive' \union Rows(copy'[m])
           /\ step'[m] \in {"summarize", "clear"} => owed \subseteq archive'
           /\ step'[m] = "summarize" => Rows(copy'[m]) \subseteq archive',
         summary' \subseteq archive',
         \A x \in owed : x \in archive' \/ x \in Rows(messages'[1])
  PROVE  MInv'
<1>1. \A x \in MessageType : Shown(x)' <=> Shown(x)
  BY DEF Shown, Recorded
<1>2. RowsAreShown'
  BY <1>1 DEF MInv, RowsAreShown, ShownRows, Rows
<1>3. RunsCover' /\ EndedBatchesAreKept'
  BY DEF RunsCover, EndedBatchesAreKept, Rows
<1>4. NoneBeforeMidnight'
  BY DEF NoneBeforeMidnight, CInv, TypeOK, Days
<1> QED BY <1>2, <1>3, <1>4 DEF MInv

\* A run that has started has done so after midnight.
LEMMA AfterMidnight ==
  ASSUME CInv, MInv, NEW m \in Runs, step[m] # "idle"
  PROVE  day > 1
<1>1. day \in Nat \ {0} /\ day # 1
  BY DEF MInv, NoneBeforeMidnight, CInv, TypeOK, Days
<1> QED BY <1>1

LEMMA MoveType ==
  ASSUME step \in [Runs -> Steps], NEW m \in Runs, NEW where \in Steps, Move(m, where)
  PROVE  step' \in [Runs -> Steps] /\ step'[m] = where /\ \A o \in Runs : o # m => step'[o] = step[o]
  BY DEF Move

LEMMA RunStepKeeps == ASSUME CInv, MInv, NEW m \in Runs, RunStep(m) PROVE MInv'
<1>s. /\ \A w \in {"idle", "list", "read", "archive", "summarize", "clear", "done"} : w \in Steps
      /\ step \in [Runs -> Steps] /\ copy \in [Runs -> Seq(MessageType)]
  BY DEF Steps, MInv
<1>r. /\ \A x \in archive : x \in MessageType /\ Shown(x)
      /\ \A x \in owed : x \in MessageType /\ Shown(x)
      /\ \A o \in Runs : \A x \in Rows(copy[o]) : x \in MessageType /\ Shown(x)
      /\ summary \subseteq archive
      /\ \A x \in owed : x \in archive \/ x \in Rows(messages[1])
  BY DEF MInv, RowsAreShown, ShownRows, EndedBatchesAreKept
<1>1. CASE StartRun(m) \/ ListScope(m)
  <2>1. /\ \E w \in {"list", "read", "done"} : Move(m, w)
        /\ UNCHANGED <<vars, copy, archive, summary, owed>>
    BY <1>1 DEF StartRun, ListScope
  <2>2. CInv' /\ UNCHANGED <<day, ledger, req, date, owed, messages>>
    BY <2>1, CallsStep DEF vars, storeVars, callVars
  <2>3. day > 1
    BY <1>1, AfterMidnight DEF StartRun, ListScope
  <2>4. step' \in [Runs -> Steps] /\ \A o \in Runs : step'[o] = step[o] \/ step'[o] \in {"list", "read", "done"}
    BY <2>1, <1>s, MoveType
  <2> QED BY <1>s, <1>r, <2>1, <2>2, <2>3, <2>4, RunKeeps DEF MInv, RunsCover
<1>2. CASE ReadDay(m)
  <2> DEFINE s == messages[1]
  <2>1. copy' = [copy EXCEPT ![m] = s] /\ s \in Seq(MessageType)
    BY <1>2, NumberedItself, OneIsADay DEF ReadDay, CInv, TypeOK
  <2>2. /\ Move(m, "done") \/ (s = <<>> /\ Move(m, "clear")) \/ (s # <<>> /\ Move(m, "archive"))
        /\ UNCHANGED <<vars, archive, summary, owed>>
    BY <1>2 DEF ReadDay
  <2>3. CInv' /\ UNCHANGED <<day, ledger, req, date, owed, messages>>
    BY <2>2, CallsStep DEF vars, storeVars, callVars
  <2>4. day > 1
    BY <1>2, AfterMidnight DEF ReadDay
  <2>5. step' \in [Runs -> Steps] /\ \A o \in Runs : o # m => step'[o] = step[o]
    BY <2>2, <1>s, MoveType
  <2>6. copy'[m] = s /\ copy' \in [Runs -> Seq(MessageType)] /\ \A o \in Runs : o # m => copy'[o] = copy[o]
    BY <1>s, <2>1
  <2>7. /\ step'[m] = "archive" => owed \subseteq archive \union Rows(s)
        /\ step'[m] = "clear" => owed \subseteq archive
        /\ step'[m] # "summarize"
    <3>1. step'[m] \in {"done", "clear", "archive"} /\ (step'[m] = "clear" => s = <<>>)
      BY <2>2, <1>s, MoveType
    <3>2. s = <<>> => Rows(s) = {}
      BY DEF Rows
    <3> QED BY <1>r, <3>1, <3>2
  <2>8. \A x \in Rows(s) : x \in MessageType /\ Shown(x)
    BY OneIsADay, VisibleIsShown
  <2>9. \A o \in Runs : \A x \in Rows(copy'[o]) : x \in MessageType /\ Shown(x)
    BY <1>r, <2>6, <2>8
  <2>10. \A o \in Runs :
           /\ step'[o] = "archive" => owed \subseteq archive' \union Rows(copy'[o])
           /\ step'[o] \in {"summarize", "clear"} => owed \subseteq archive'
           /\ step'[o] = "summarize" => Rows(copy'[o]) \subseteq archive'
    BY <2>2, <2>5, <2>6, <2>7 DEF MInv, RunsCover
  <2> HIDE DEF s
  <2> QED BY <1>r, <2>2, <2>3, <2>4, <2>5, <2>6, <2>9, <2>10, RunKeeps
<1>3. CASE ArchiveTurns(m)
  <2>1. /\ \/ /\ archive' = archive \union New(copy[m])
              /\ Move(m, "summarize") \/ Move(m, "done")
           \/ archive' = archive /\ Move(m, "done")
        /\ step[m] = "archive"
        /\ UNCHANGED <<vars, copy, summary, owed>>
    BY <1>3 DEF ArchiveTurns
  <2>2. CInv' /\ UNCHANGED <<day, ledger, req, date, owed, messages>>
    BY <2>1, CallsStep DEF vars, storeVars, callVars
  <2>3. day > 1
    BY <2>1, AfterMidnight
  <2>4. step' \in [Runs -> Steps] /\ step'[m] \in {"summarize", "done"} /\ \A o \in Runs : o # m => step'[o] = step[o]
    BY <2>1, <1>s, MoveType
  <2>5. archive \subseteq archive' /\ \A x \in archive' : x \in archive \/ (x \in MessageType /\ Shown(x))
    BY <1>r, <2>1 DEF New
  <2>6. Rows(copy[m]) \subseteq archive \union New(copy[m])
    <3>1. ASSUME NEW x \in Rows(copy[m]), x \notin New(copy[m]) PROVE x \in archive
      <4>1. PICK y \in archive : SameTurn(x, y)
        BY <3>1 DEF New
      <4> QED BY <1>r, <3>1, <4>1, OneRowPerTurn
    <3> QED BY <3>1
  <2>7. step'[m] = "summarize" => archive' = archive \union New(copy[m])
    <3>1. "summarize" # "done"
      OBVIOUS
    <3> QED BY <2>1, <3>1, <1>s, MoveType
  <2>8. step'[m] = "summarize" => Rows(copy[m]) \subseteq archive' /\ owed \subseteq archive'
    BY <2>1, <2>6, <2>7 DEF MInv, RunsCover
  <2>9. \A o \in Runs :
          /\ step'[o] = "archive" => owed \subseteq archive' \union Rows(copy'[o])
          /\ step'[o] \in {"summarize", "clear"} => owed \subseteq archive'
          /\ step'[o] = "summarize" => Rows(copy'[o]) \subseteq archive'
    BY <2>1, <2>4, <2>5, <2>8 DEF MInv, RunsCover
  <2> QED BY <1>s, <1>r, <2>1, <2>2, <2>3, <2>4, <2>5, <2>9, RunKeeps
<1>4. CASE StoreSummary(m)
  <2>1. /\ summary' = Rows(copy[m]) \/ UNCHANGED summary
        /\ step[m] = "summarize" /\ (Move(m, "clear") \/ Move(m, "done"))
        /\ UNCHANGED <<vars, copy, archive, owed>>
    BY <1>4 DEF StoreSummary, UpsertSummary
  <2>2. CInv' /\ UNCHANGED <<day, ledger, req, date, owed, messages>>
    BY <2>1, CallsStep DEF vars, storeVars, callVars
  <2>3. day > 1
    BY <2>1, AfterMidnight
  <2>4. step' \in [Runs -> Steps] /\ step'[m] \in {"clear", "done"} /\ \A o \in Runs : o # m => step'[o] = step[o]
    BY <2>1, <1>s, MoveType
  <2>5. summary' \subseteq archive'
    BY <1>r, <2>1 DEF MInv, RunsCover
  <2>6. \A o \in Runs :
          /\ step'[o] = "archive" => owed \subseteq archive' \union Rows(copy'[o])
          /\ step'[o] \in {"summarize", "clear"} => owed \subseteq archive'
          /\ step'[o] = "summarize" => Rows(copy'[o]) \subseteq archive'
    BY <2>1, <2>4 DEF MInv, RunsCover
  <2> QED BY <1>s, <1>r, <2>1, <2>2, <2>3, <2>4, <2>5, <2>6, RunKeeps
<1>5. CASE ClearArchived(m)
  <2>1. /\ Emptied /\ step[m] = "clear" /\ Move(m, "done")
        /\ UNCHANGED <<copy, archive, summary, owed>>
    BY <1>5 DEF ClearArchived, Emptied
  <2>2. CInv' /\ UNCHANGED <<day, ledger, req, date, owed>>
    BY <2>1, EmptiedKeeps DEF Emptied, callVars
  <2>3. day > 1
    BY <2>1, AfterMidnight
  <2>4. step' \in [Runs -> Steps] /\ step'[m] = "done" /\ \A o \in Runs : o # m => step'[o] = step[o]
    BY <2>1, <1>s, MoveType
  <2>5. owed \subseteq archive'
    BY <2>1 DEF MInv, RunsCover
  <2>6. \A o \in Runs :
          /\ step'[o] = "archive" => owed \subseteq archive' \union Rows(copy'[o])
          /\ step'[o] \in {"summarize", "clear"} => owed \subseteq archive'
          /\ step'[o] = "summarize" => Rows(copy'[o]) \subseteq archive'
    BY <2>1, <2>4 DEF MInv, RunsCover
  <2> QED BY <1>s, <1>r, <2>1, <2>2, <2>3, <2>4, <2>5, <2>6, RunKeeps
<1> QED BY <1>1, <1>2, <1>3, <1>4, <1>5 DEF RunStep

\* How the steps of the calls move the clock and the list of day 1.
LEMMA NextDay ==
  ASSUME CInv, Next
  PROVE  \/ /\ UNCHANGED day
            /\ \/ clearing = 1 /\ clearing' = 0
               \/ UNCHANGED messages
               \/ \E d \in Days : d # 1 /\ messages' = [messages EXCEPT ![d] = <<>>]
               \/ \E c \in Calls, u \in MessageType : messages' = [messages EXCEPT ![date[c]] = Append(@, u)]
         \/ day' = day + 1 /\ UNCHANGED messages
<1> USE DEF CInv
<1> DEFINE Grown == \E c \in Calls, u \in MessageType : messages' = [messages EXCEPT ![date[c]] = Append(@, u)]
<1>1. ASSUME NEW c \in Calls, BeginStarted(c) PROVE UNCHANGED day /\ Grown
  <2> DEFINE u == [call |-> c, turn |-> 0, seq |-> sequence[date[c]] + 1]
  <2>1. u \in MessageType
    <3>1. sequence[date[c]] + 1 \in Nat
      BY DEF TypeOK
    <3> QED BY <3>1 DEF MessageType
  <2>2. messages' = [messages EXCEPT ![date[c]] = Append(@, u)] /\ UNCHANGED day
    BY <1>1 DEF BeginStarted
  <2> HIDE DEF u
  <2> QED BY <2>1, <2>2
<1>2. ASSUME NEW c \in Calls, AppendCharacter(c) PROVE UNCHANGED day /\ (UNCHANGED messages \/ Grown)
  <2> DEFINE u == [call |-> c, turn |-> Len(local[c].said) + 1, seq |-> sequence[date[c]] + 1]
  <2>1. UNCHANGED day
    BY <1>2 DEF AppendCharacter
  <2>2. u \in MessageType /\ (UNCHANGED messages \/ messages' = [messages EXCEPT ![date[c]] = Append(@, u)])
    BY <1>2, ReplyAppends DEF Appends
  <2> HIDE DEF u
  <2> QED BY <2>1, <2>2
<1>3. ASSUME NEW c \in Calls,
             Refuse(c) \/ Enter(c) \/ BeginExisting(c) \/ BeginBusy(c) \/ BeginUnreached(c) \/ Interrupt(c) \/ Crash(c)
      PROVE  UNCHANGED <<day, messages>>
  BY <1>3 DEF Refuse, Enter, BeginExisting, BeginBusy, BeginUnreached, Interrupt, Crash, storeVars
<1>4. ASSUME NEW c \in Calls, (\E n \in 1 .. MaxPlan : SavePlan(c, n)) \/ FailGeneration(c) \/ Complete(c)
      PROVE  UNCHANGED <<day, messages>>
  BY <1>4 DEF SavePlan, FailGeneration, Complete, SaveBatch
<1>5. CASE LeaseExpires \/ ClearCheck
  BY <1>5 DEF LeaseExpires, ClearCheck, storeVars
<1>6. CASE Tick
  BY <1>6 DEF Tick, storeVars
<1>7. CASE ClearToday
  <2>1. clearing \in Days /\ clearing' = 0 /\ UNCHANGED day
    BY <1>7 DEF ClearToday, TypeOK
  <2>2. messages' = [messages EXCEPT ![clearing] = <<>>] \/ UNCHANGED messages
    BY <1>7 DEF ClearToday, ClearScopeDate
  <2> QED BY <2>1, <2>2
<1> QED BY <1>1, <1>2, <1>3, <1>4, <1>5, <1>6, <1>7 DEF Next, Proceed, Begin

LEMMA StoreStepKeeps == ASSUME CInv, MInv, StoreStep PROVE MInv'
<1>1. CInv' /\ UNCHANGED <<step, copy, archive, summary>> /\ Next
  BY CallsStep DEF StoreStep, runVars
<1>2. \A x \in MessageType : Shown(x) => Shown(x)'
  BY <1>1, ShownForGood
<1>r. /\ \A x \in archive : x \in MessageType /\ Shown(x)
      /\ \A x \in owed : x \in MessageType /\ Shown(x)
      /\ \A o \in Runs : \A x \in Rows(copy[o]) : x \in MessageType /\ Shown(x)
      /\ \A x \in owed : x \in archive \/ x \in Rows(messages[1])
  BY DEF MInv, RowsAreShown, ShownRows, EndedBatchesAreKept
<1>d. messages \in [Days -> Seq(MessageType)] /\ day \in Nat \ {0} /\ day' \in Nat \ {0}
  <2>1. messages \in [Days -> Seq(MessageType)] /\ day \in Days /\ day' \in Days
    BY <1>1 DEF CInv, TypeOK
  <2> QED BY <2>1, BoundAssumption DEF Days
<1>3. NoneBeforeMidnight'
  <2>1. day' = 1 => day = 1
    BY <1>1, <1>d, NextDay
  <2> QED BY <1>1, <2>1 DEF MInv, NoneBeforeMidnight
<1>4. CASE day = 1 /\ day' = 2
  <2>1. messages' = messages
    BY <1>1, <1>4, NextDay
  <2>2. owed' \subseteq Rows(messages[1])
    BY <1>4 DEF StoreStep
  <2>3. \A x \in Rows(messages[1]) : x \in MessageType /\ Shown(x)
    BY OneIsADay, VisibleIsShown
  <2>4. \A m \in Runs : step'[m] = "idle"
    BY <1>1, <1>4 DEF MInv, NoneBeforeMidnight
  <2>5. EndedBatchesAreKept'
    BY <2>1, <2>2 DEF EndedBatchesAreKept, Rows
  <2>6. RowsAreShown'
    BY <1>1, <1>2, <1>r, <2>2, <2>3 DEF RowsAreShown, ShownRows, Rows
  <2> QED BY <1>1, <1>3, <2>4, <2>5, <2>6 DEF MInv, RunsCover
<1>5. CASE ~(day = 1 /\ day' = 2) /\ clearing = 1 /\ clearing' = 0
  <2>1. owed' = {}
    BY <1>5 DEF StoreStep
  <2>2. RowsAreShown'
    BY <1>1, <1>2, <1>r, <2>1 DEF RowsAreShown, ShownRows, Rows
  <2> QED BY <1>1, <1>3, <2>1, <2>2 DEF MInv, RunsCover, EndedBatchesAreKept, Rows
<1>6. CASE ~(day = 1 /\ day' = 2) /\ ~(clearing = 1 /\ clearing' = 0)
  <2>1. owed' = owed
    BY <1>6 DEF StoreStep
  <2>2. Rows(messages[1]) \subseteq Rows(messages'[1])
    <3>1. CASE messages'[1] = messages[1]
      BY <3>1
    <3>2. ASSUME NEW c \in Calls, NEW u \in MessageType, messages' = [messages EXCEPT ![date[c]] = Append(@, u)]
          PROVE  Rows(messages[1]) \subseteq Rows(messages'[1])
      <4>1. messages'[1] = messages[1] \/ messages'[1] = Append(messages[1], u)
        BY <1>d, <3>2, OneIsADay
      <4>2. messages[1] \in Seq(MessageType)
        BY <1>d, OneIsADay
      <4>3. \A i \in DOMAIN messages[1] : i \in DOMAIN messages'[1] /\ messages'[1][i] = messages[1][i]
        BY <4>1, <4>2
      <4> QED BY <4>3 DEF Rows
    <3> QED BY <1>1, <1>6, <1>d, <3>1, <3>2, NextDay, OneIsADay
  <2>3. EndedBatchesAreKept'
    BY <1>1, <1>r, <2>1, <2>2 DEF EndedBatchesAreKept, Rows
  <2>4. RowsAreShown'
    BY <1>1, <1>2, <1>r, <2>1 DEF RowsAreShown, ShownRows, Rows
  <2>5. RunsCover'
    BY <1>1, <2>1 DEF MInv, RunsCover, Rows
  <2> QED BY <1>1, <1>3, <2>3, <2>4, <2>5 DEF MInv
<1> QED BY <1>4, <1>5, <1>6

-----------------------------------------------------------------------------
LEMMA InitMInv == MaintenanceInit => CInv /\ MInv
<1> SUFFICES ASSUME MaintenanceInit PROVE CInv /\ MInv
  OBVIOUS
<1>1. CInv
  <2>1. Init
    BY DEF MaintenanceInit
  <2> QED BY <2>1, InitTypes, InitIInv, InitRInv, InitHInv DEF CInv
<1>2. <<>> \in Seq(MessageType) /\ "idle" \in Steps
  BY DEF Steps
<1>3. \A m \in Runs : step[m] = "idle" /\ Rows(copy[m]) = {}
  BY DEF MaintenanceInit, Rows
<1>4. step \in [Runs -> Steps] /\ copy \in [Runs -> Seq(MessageType)]
  BY <1>2 DEF MaintenanceInit
<1> QED BY <1>1, <1>3, <1>4 DEF MaintenanceInit, MInv, NoneBeforeMidnight, RowsAreShown, ShownRows, RunsCover,
                           EndedBatchesAreKept

LEMMA MaintenanceKeeps == CInv /\ MInv /\ [MaintenanceNext]_allVars => CInv' /\ MInv'
<1> SUFFICES ASSUME CInv, MInv, [MaintenanceNext]_allVars PROVE CInv' /\ MInv'
  OBVIOUS
<1>1. CInv'
  BY RunsEmpty, CallsStep, EmptiedKeeps
<1>2. CASE StoreStep
  BY <1>1, <1>2, StoreStepKeeps
<1>3. ASSUME NEW m \in Runs, RunStep(m) PROVE MInv'
  BY <1>3, RunStepKeeps
<1>4. CASE UNCHANGED allVars
  <2>1. /\ UNCHANGED <<day, messages, ledger, req, date>>
        /\ UNCHANGED <<step, copy, archive, summary, owed>>
    BY <1>4 DEF allVars, runVars, vars, storeVars, callVars
  <2>2. \A x \in MessageType : Shown(x)' <=> Shown(x)
    BY <2>1 DEF Shown, Recorded
  <2>3. RowsAreShown'
    BY <2>1, <2>2 DEF MInv, RowsAreShown, ShownRows, Rows
  <2>4. NoneBeforeMidnight' /\ EndedBatchesAreKept'
    BY <2>1 DEF MInv, NoneBeforeMidnight, EndedBatchesAreKept, Rows
  <2>5. RunsCover'
    BY <2>1 DEF MInv, RunsCover, Rows
  <2>6. step' \in [Runs -> Steps] /\ copy' \in [Runs -> Seq(MessageType)] /\ summary' \subseteq archive'
    BY <2>1 DEF MInv
  <2> QED BY <1>1, <2>3, <2>4, <2>5, <2>6 DEF MInv
<1> QED BY <1>1, <1>2, <1>3, <1>4 DEF MaintenanceNext

\* The maintenance, whose ClearArchived deletes a list that the calls still write,
\* leaves what they keep among themselves, and its runs stay sound beside each other.
THEOREM MaintenanceHolds == MaintenanceSpec => [](CInv /\ MInv)
<1> QED BY InitMInv, MaintenanceKeeps, PTL DEF MaintenanceSpec

\* A message that was visible at midnight, of a batch that had ended, is archived
\* before MaintainDay's ClearArchived takes it out of sight, whichever step of
\* which of the runs fails and whatever is appended meanwhile.
THEOREM MidnightLosesNothing == MaintenanceSpec => []EndedBatchesAreKept
<1>1. MInv => EndedBatchesAreKept
  BY DEF MInv
<1> QED BY <1>1, MaintenanceHolds, PTL

\* ArchiveTurns, on the numbers MessagesForDateScope recomputed, stores each turn with
\* the number its client was shown, and the summary speaks of archived turns only.
THEOREM ArchiveIsFaithful == MaintenanceSpec => []ArchiveMatchesHistory
<1>1. MInv => ArchiveMatchesHistory
  BY DEF MInv, RowsAreShown, ShownRows, Shown, ArchiveMatchesHistory
<1> QED BY <1>1, MaintenanceHolds, PTL
=============================================================================
