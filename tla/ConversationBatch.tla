-------------------------- MODULE ConversationBatch --------------------------
(***************************************************************************)
(* One conversation scope (an owner and a conversation) of the agent: the  *)
(* Redis structures of internal/conversation/structured_store.go and the   *)
(* calls of Application.Send (internal/orchestration/application.go) that  *)
(* read and write them, while the lease that fences a generation expires,  *)
(* Redis replies are lost, agents crash, the user clears the history and   *)
(* midnight (Beijing time) passes.                                         *)
(*                                                                         *)
(* Every Lua script is one atomic step.  A call of Send has an identity of *)
(* its own, which also stands for the two fresh identifiers its BeginBatch *)
(* draws: the batch id and the lease token.  A reply of a character is     *)
(* known by its batch and its place in the plan; its text, and the names   *)
(* and avatars stored with it, are left out.                               *)
(***************************************************************************)
EXTENDS Naturals, Sequences, FiniteSets

CONSTANTS Calls,        \* the calls of Application.Send in this scope
          Requests,     \* the client request ids they may carry
          Nobody,       \* no call: the lease key is absent
          MaxPlan,      \* the most speakers a plan may name (five in planning.go)
          LastDay       \* bound: the last Beijing day of the model

ASSUME NobodyAssumption == Nobody \notin Calls
ASSUME BoundAssumption  == MaxPlan \in Nat \ {0} /\ LastDay \in Nat \ {0}

VARIABLES
  day,        \* the Beijing day of the agents' clock
  messages,   \* per day, the visible list: user and character messages in order
  sequence,   \* per day, the counter the scripts INCR
  ledger,     \* per day and request id, the recorded batch
  batches,    \* the batch keys: the last snapshot saved under each batch id
  lease,      \* the token the lease key holds
  active,     \* the days whose active set lists this scope
  clearing,   \* 0, or the day a ClearScopeToday found idle and is about to clear
  pc,         \* where each call stands
  req,        \* the request id each call carries
  date,       \* the day each call's BeginBatch computed from its clock
  local,      \* each call's own copy of the batch it is generating
  answer,     \* what each call tells its client
  starts      \* history: the calls whose BeginBatch started a batch, in order

storeVars == <<messages, sequence, ledger, batches, lease, active>>
callVars  == <<pc, req, date, local, answer>>
vars      == <<day, storeVars, callVars, clearing, starts>>

Days     == 1 .. LastDay
Statuses == {"none", "generating", "complete", "partial", "failed"}
Terminal == {"complete", "partial", "failed"}

\* A batch as the ledger keeps it.  said holds the sequence number of each
\* character message; InterruptionCode is set exactly on partial and failed.
BatchType == [call : Calls \union {Nobody}, status : Statuses,
              planned : 0 .. MaxPlan, user : Nat, said : Seq(Nat)]
NoBatch == [call |-> Nobody, status |-> "none", planned |-> 0, user |-> 0, said |-> <<>>]

\* A message of the visible list: turn 0 is the user's, turn i the i-th reply.
MessageType == [call : Calls, turn : Nat, seq : Nat]

Working   == {"begin", "plan", "speak", "interrupt"}
Positions == Working \union {"idle", "done", "crashed"}

Kinds    == {"none", "refused", "busy", "lease_lost", "unknown", "batch"}
NoAnswer == [kind |-> "none", batch |-> NoBatch]
Error(kind) == [kind |-> kind, batch |-> NoBatch]

TypeOK ==
  /\ day \in Days
  /\ messages \in [Days -> Seq(MessageType)]
  /\ sequence \in [Days -> Nat]
  /\ ledger \in [Days -> [Requests -> BatchType]]
  /\ batches \in [Calls -> BatchType]
  /\ lease \in Calls \union {Nobody}
  /\ active \in SUBSET Days
  /\ clearing \in {0} \union Days
  /\ pc \in [Calls -> Positions]
  /\ req \in [Calls -> Requests]
  /\ date \in [Calls -> Days]
  /\ local \in [Calls -> BatchType]
  /\ answer \in [Calls -> [kind : Kinds, batch : BatchType]]
  /\ starts \in Seq(Calls)

Init ==
  /\ day = 1
  /\ messages = [d \in Days |-> <<>>]
  /\ sequence = [d \in Days |-> 0]
  /\ ledger = [d \in Days |-> [r \in Requests |-> NoBatch]]
  /\ batches = [c \in Calls |-> NoBatch]
  /\ lease = Nobody
  /\ active = {}
  /\ clearing = 0
  /\ pc = [c \in Calls |-> "idle"]
  /\ req \in [Calls -> Requests]
  /\ date = [c \in Calls |-> 1]
  /\ local = [c \in Calls |-> NoBatch]
  /\ answer = [c \in Calls |-> NoAnswer]
  /\ starts = <<>>

-----------------------------------------------------------------------------
(* How a call moves.                                                       *)

Go(c, where) == pc' = [pc EXCEPT ![c] = where] /\ UNCHANGED answer

\* Return to the caller of Send.
Return(c, result) ==
  /\ pc' = [pc EXCEPT ![c] = "done"]
  /\ answer' = [answer EXCEPT ![c] = result]

\* Return an error once the batch has begun: the deferred cleanup runs first.
Fail(c, kind) ==
  /\ pc' = [pc EXCEPT ![c] = "interrupt"]
  /\ answer' = [answer EXCEPT ![c] = Error(kind)]

\* Faulty variant: an interrupted batch is reset instead of keeping its replies.
InterruptedReset(b) ==
  IF b.status # "generating" THEN b ELSE [b EXCEPT !.status = "failed", !.said = <<>>]

\* What a batch that nobody generates any more has come to.
Interrupted(b) ==
  IF b.status # "generating" THEN b
  ELSE [b EXCEPT !.status = IF b.said = <<>> THEN "failed" ELSE "partial"]

\* Faulty variants of the fence: a lease that expired still counts as one's own;
\* or any lease does, whoever's token it holds.
HoldsUnlessTaken(c) == lease \in {c, Nobody}
HoldsAny(c)         == lease # Nobody

\* The fence of every script that writes for a started batch: GET lease == token.
Holds(c) == lease = c

\* Faulty variant: the ledger is not updated with the batch key.
StoreBatchKeyOnly(c, b) ==
  /\ batches' = [batches EXCEPT ![c] = b]
  /\ UNCHANGED ledger

\* SET of the batch key and HSET of the ledger, as every fenced script does.
Store(c, b) ==
  /\ batches' = [batches EXCEPT ![c] = b]
  /\ ledger' = [ledger EXCEPT ![date[c]][req[c]] = b]

-----------------------------------------------------------------------------
(* Application.Send up to BeginBatch.                                      *)

\* Validation, or the read of the history or the summaries, fails: nothing began.
Refuse(c) ==
  /\ pc[c] = "idle"
  /\ Return(c, Error("refused"))
  /\ UNCHANGED <<day, storeVars, req, date, local, clearing, starts>>

\* The history is read and BeginBatch takes the day from the clock; its script
\* runs in a later step, on the keys of that day.
Enter(c) ==
  /\ pc[c] = "idle"
  /\ date' = [date EXCEPT ![c] = day]
  /\ Go(c, "begin")
  /\ UNCHANGED <<day, storeVars, req, local, clearing, starts>>

\* Faulty variant: only the ledger of the call's own day is asked.
KnownToday(c) == {d \in Days : d = date[c] /\ ledger[d][req[c]] # NoBatch}

\* The days whose ledger beginBatchScript consults and that know the request.
KnownOn(c) == {d \in Days : d \in {date[c], date[c] - 1} /\ ledger[d][req[c]] # NoBatch}

\* The caller's own day is looked at first.
LedgerDay(c) == IF date[c] \in KnownOn(c) THEN date[c] ELSE date[c] - 1

\* Faulty variant: the converged batch is answered but not written back.
BeginExistingUnsaved(c) ==
  /\ pc[c] = "begin"
  /\ KnownOn(c) # {}
  /\ LET old == ledger[LedgerDay(c)][req[c]]
         b   == IF lease = Nobody THEN Interrupted(old) ELSE old
     IN  Return(c, [kind |-> "batch", batch |-> b])
  /\ UNCHANGED <<day, storeVars, req, date, local, clearing, starts>>

\* The request is known: its batch is returned, and converges to failed or
\* partial when no lease is held in the scope.  Only the ledger is rewritten.
BeginExisting(c) ==
  /\ pc[c] = "begin"
  /\ KnownOn(c) # {}
  /\ LET old == ledger[LedgerDay(c)][req[c]]
         b   == IF lease = Nobody THEN Interrupted(old) ELSE old
     IN  /\ ledger' = [ledger EXCEPT ![LedgerDay(c)][req[c]] = b]
         /\ \/ Return(c, [kind |-> "batch", batch |-> b])
            \/ Return(c, Error("unknown"))                  \* the reply is lost
  /\ UNCHANGED <<day, messages, sequence, batches, lease, active, req, date,
                 local, clearing, starts>>

BeginBusy(c) ==
  /\ pc[c] = "begin"
  /\ KnownOn(c) = {}
  /\ lease # Nobody
  /\ Return(c, Error("busy")) \/ Return(c, Error("unknown"))
  /\ UNCHANGED <<day, storeVars, req, date, local, clearing, starts>>

\* A new batch: lease, user message, batch key, ledger entry and active set.
\* When the reply is lost Send returns before its cleanup is deferred, so the
\* lease is left to expire.
BeginStarted(c) ==
  /\ pc[c] = "begin"
  /\ KnownOn(c) = {}
  /\ lease = Nobody
  /\ LET d == date[c]
         n == sequence[d] + 1
         b == [call |-> c, status |-> "generating", planned |-> 0, user |-> n, said |-> <<>>]
     IN  /\ lease' = c
         /\ sequence' = [sequence EXCEPT ![d] = n]
         /\ messages' = [messages EXCEPT ![d] = Append(@, [call |-> c, turn |-> 0, seq |-> n])]
         /\ Store(c, b)
         /\ active' = active \union {d}
         /\ starts' = Append(starts, c)
         /\ \/ Go(c, "plan") /\ local' = [local EXCEPT ![c] = b]
            \/ Return(c, Error("unknown")) /\ UNCHANGED local
  /\ UNCHANGED <<day, req, date, clearing>>

\* BeginBatch never reaches Redis: no batch, no cleanup, an unknown outcome.
BeginUnreached(c) ==
  /\ pc[c] = "begin"
  /\ Return(c, Error("unknown"))
  /\ UNCHANGED <<day, storeVars, req, date, local, clearing, starts>>

-----------------------------------------------------------------------------
(* Application.Send once its batch has begun.                              *)

\* Faulty variant: a finished batch renews the lease instead of dropping it.
LeaseKept(release) == lease

\* DEL of the lease key on release, renewal otherwise.
LeaseAfterSave(release) == IF release THEN Nobody ELSE lease

\* saveBatchScript.  A save that releases the lease is the call's last one: Send
\* is settled and returns the batch.
SaveBatch(c, b, release) ==
  /\ local' = [local EXCEPT ![c] = b]
  /\ \/ /\ Holds(c)
        /\ Store(c, b)
        /\ lease' = LeaseAfterSave(release)
        /\ \/ IF release THEN Return(c, [kind |-> "batch", batch |-> b]) ELSE Go(c, "speak")
           \/ Fail(c, "unknown")                           \* the reply is lost
     \/ /\ ~Holds(c)
        /\ UNCHANGED <<ledger, batches, lease>>
        /\ Fail(c, "lease_lost")
     \/ /\ UNCHANGED <<ledger, batches, lease>>             \* Redis not reached
        /\ Fail(c, "unknown")
  /\ UNCHANGED <<day, messages, sequence, active, req, date, clearing, starts>>

\* The plan is made (one speaker in a direct space, the planner's in a group).
SavePlan(c, n) ==
  /\ pc[c] = "plan"
  /\ SaveBatch(c, [local[c] EXCEPT !.planned = n], FALSE)

\* The next speaker of the plan generates a reply and AppendCharacter stores it.
\* The call's own copy gains the message before the script is sent.
AppendCharacter(c) ==
  /\ pc[c] = "speak"
  /\ Len(local[c].said) < local[c].planned
  /\ LET d     == date[c]
         n     == sequence[d] + 1
         sent  == [local[c] EXCEPT !.said = Append(@, 0)]
         saved == [local[c] EXCEPT !.said = Append(@, n)]
     IN  \/ /\ Holds(c)
            /\ sequence' = [sequence EXCEPT ![d] = n]
            /\ messages' = [messages EXCEPT ![d] =
                              Append(@, [call |-> c, turn |-> Len(saved.said), seq |-> n])]
            /\ Store(c, saved)
            /\ \/ Go(c, "speak") /\ local' = [local EXCEPT ![c] = saved]
               \/ Fail(c, "unknown") /\ local' = [local EXCEPT ![c] = sent]
         \/ /\ ~Holds(c)
            /\ UNCHANGED <<sequence, messages, ledger, batches>>
            /\ Fail(c, "lease_lost") /\ local' = [local EXCEPT ![c] = sent]
         \/ /\ UNCHANGED <<sequence, messages, ledger, batches>>
            /\ Fail(c, "unknown") /\ local' = [local EXCEPT ![c] = sent]
  /\ UNCHANGED <<day, lease, active, req, date, clearing, starts>>

\* The speaker's reply fails or is empty: the batch ends with what it has.
FailGeneration(c) ==
  /\ pc[c] = "speak"
  /\ Len(local[c].said) < local[c].planned
  /\ SaveBatch(c, Interrupted(local[c]), TRUE)

\* Faulty variant: complete after the first reply.
CompleteEarly(c) ==
  /\ pc[c] = "speak"
  /\ Len(local[c].said) > 0
  /\ SaveBatch(c, [local[c] EXCEPT !.status = "complete"], TRUE)

\* Every planned speaker has answered.
Complete(c) ==
  /\ pc[c] = "speak"
  /\ Len(local[c].said) = local[c].planned
  /\ SaveBatch(c, [local[c] EXCEPT !.status = "complete"], TRUE)

\* Faulty variant: the cleanup is retried until it finds the call's own lease.
InterruptInsist(c) ==
  /\ pc[c] = "interrupt"
  /\ Go(c, "done")
  /\ Holds(c)
  /\ Store(c, Interrupted(batches[c]))
  /\ lease' = Nobody
  /\ local' = [local EXCEPT ![c] = NoBatch]
  /\ UNCHANGED <<day, messages, sequence, active, req, date, clearing, starts>>

\* The deferred InterruptBatch: under the fence, it reads what Redis holds (the
\* batch key, else the ledger), ends a batch still generating, drops the lease.
Interrupt(c) ==
  /\ pc[c] = "interrupt"
  /\ Go(c, "done")
  /\ \/ /\ Holds(c)
        /\ LET old == IF batches[c] # NoBatch THEN batches[c] ELSE ledger[date[c]][req[c]]
           IN  IF old.status = "generating" THEN Store(c, Interrupted(old))
               ELSE UNCHANGED <<batches, ledger>>
        /\ lease' = Nobody
     \/ UNCHANGED <<ledger, batches, lease>>           \* lease lost, or not reached
  /\ local' = [local EXCEPT ![c] = NoBatch]
  /\ UNCHANGED <<day, messages, sequence, active, req, date, clearing, starts>>

\* The process that runs the call dies: nothing is cleaned up.
Crash(c) ==
  /\ pc[c] \in Working
  /\ pc' = [pc EXCEPT ![c] = "crashed"]
  /\ answer' = [answer EXCEPT ![c] = NoAnswer]
  /\ local' = [local EXCEPT ![c] = NoBatch]
  /\ UNCHANGED <<day, storeVars, req, date, clearing, starts>>

-----------------------------------------------------------------------------
(* The lease's PX, the user's clear, and the clock.                        *)

\* Faulty variant: BeginBatch sets the lease without a lifetime; only the later
\* renewals give it one.
LeaseExpiresOnceRenewed ==
  /\ lease # Nobody
  /\ batches[lease].planned > 0
  /\ lease' = Nobody
  /\ UNCHANGED <<day, messages, sequence, ledger, batches, active, callVars, clearing, starts>>

\* The 45 s of the lease key run out, whatever its holder is doing.
LeaseExpires ==
  /\ lease # Nobody
  /\ lease' = Nobody
  /\ UNCHANGED <<day, messages, sequence, ledger, batches, active, callVars, clearing, starts>>

\* Faulty variant: only the marker goes.
ClearMarkerOnly(d) ==
  /\ active' = active \ {d}
  /\ UNCHANGED <<messages, sequence>>

\* Faulty variant: the counter is kept when the list is deleted.
ClearListOnly(d) ==
  /\ messages' = [messages EXCEPT ![d] = <<>>]
  /\ active' = active \ {d}
  /\ UNCHANGED sequence

\* DEL of the visible list and of its counter, SREM from the active set; the
\* request ledger stays.
ClearScopeDate(d) ==
  /\ messages' = [messages EXCEPT ![d] = <<>>]
  /\ sequence' = [sequence EXCEPT ![d] = 0]
  /\ active' = active \ {d}

\* ClearScopeToday asks whether the lease exists, then takes the day.
ClearCheck ==
  /\ clearing = 0
  /\ lease = Nobody
  /\ clearing' = day
  /\ UNCHANGED <<day, storeVars, callVars, starts>>

\* ... and clears in a later step, whatever has begun since; or fails.
ClearToday ==
  /\ clearing # 0
  /\ ClearScopeDate(clearing) \/ UNCHANGED <<messages, sequence, active>>
  /\ clearing' = 0
  /\ UNCHANGED <<day, ledger, batches, lease, callVars, starts>>

Tick ==
  /\ day < LastDay
  /\ day' = day + 1
  /\ UNCHANGED <<storeVars, callVars, clearing, starts>>

-----------------------------------------------------------------------------
Begin(c) == BeginExisting(c) \/ BeginBusy(c) \/ BeginStarted(c) \/ BeginUnreached(c)

\* The steps of a running call that do not depend on its client.
Proceed(c) ==
  \/ Begin(c)
  \/ \E n \in 1 .. MaxPlan : SavePlan(c, n)
  \/ AppendCharacter(c)
  \/ FailGeneration(c)
  \/ Complete(c)
  \/ Interrupt(c)

Next ==
  \/ \E c \in Calls : Refuse(c) \/ Enter(c) \/ Proceed(c) \/ Crash(c)
  \/ LeaseExpires \/ ClearCheck \/ ClearToday \/ Tick

Spec == Init /\ [][Next]_vars

\* Every step of a call is bounded by a timeout (500 ms for Redis, 30 s for the
\* model), so a running call moves on until it returns or its process dies; and
\* Redis expires a lease that no call renews.
Running(c) == pc[c] \in Working
Fairness ==
  /\ \A c \in Calls : WF_vars(Proceed(c))
  /\ WF_vars(LeaseExpires /\ ~Running(lease))

LiveSpec == Spec /\ Fairness

-----------------------------------------------------------------------------
(* What must hold.                                                         *)

Started == {starts[i] : i \in DOMAIN starts}

\* The record the ledger keeps of the batch that call c started.
Recorded(c) == ledger[date[c]][req[c]]

\* The lease key names the one batch the ledger still shows as generating for
\* that token, in the same state under its batch key: no lease outlives its
\* batch, and "busy" is only ever said because of an unfinished generation.
LeaseNamesOpenBatch ==
  lease # Nobody =>
    /\ Recorded(lease) = batches[lease]
    /\ Recorded(lease).call = lease
    /\ Recorded(lease).status = "generating"

\* A request id is generated again only under a day that is neither the day of
\* an earlier generation nor the day after it: the ledger of both days is asked,
\* it survives a clear, and no expiry or crash frees the id.
NoRegeneration ==
  \A i, j \in DOMAIN starts :
    i < j /\ req[starts[i]] = req[starts[j]]
      => date[starts[j]] \notin {date[starts[i]], date[starts[i]] + 1}

\* A record that has ended says how the plan went: complete means that every
\* planned speaker answered, failed that none did, partial that some did.
OutcomeFitsPlan ==
  \A c \in Started : LET b == Recorded(c) IN
    /\ b.call = c
    /\ b.status = "complete" => Len(b.said) = b.planned /\ b.planned > 0
    /\ b.status = "partial"  => Len(b.said) \in 1 .. b.planned
    /\ b.status = "failed"   => b.said = <<>>

\* The numbers the visible list shows after a reload (MessagesForDateScope
\* renumbers by position) are the numbers the scripts gave its messages.
SequenceIsPosition ==
  \A d \in Days :
    /\ Len(messages[d]) = sequence[d]
    /\ \A i \in DOMAIN messages[d] : messages[d][i].seq = i

\* Every visible reply is in the record of its batch, at its place in the plan
\* and with its number; and while the user's message is visible, so is every
\* recorded reply, after it and in the order of the plan.
HistoryAgreesWithLedger ==
  \A d \in Days : \A i \in DOMAIN messages[d] :
    LET m == messages[d][i]
        b == Recorded(m.call)
    IN  /\ d = date[m.call] /\ b.call = m.call
        /\ m.turn > 0 => m.turn \in DOMAIN b.said /\ b.said[m.turn] = m.seq
        /\ m.turn = 0 =>
             /\ b.user = m.seq
             /\ \A t \in DOMAIN b.said :
                  \E j \in DOMAIN messages[d] :
                    /\ j > i /\ messages[d][j] = [call |-> m.call, turn |-> t, seq |-> b.said[t]]
                    /\ t > 1 => b.said[t - 1] < j

\* A day on which a user message is visible is listed for the maintenance: what a
\* clear can leave behind unlisted is only the tail of a batch it cut through.
UserMessagesAreListed ==
  \A d \in Days : (\E i \in DOMAIN messages[d] : messages[d][i].turn = 0) => d \in active

Prefix(s, t) == Len(s) <= Len(t) /\ \A i \in DOMAIN s : s[i] = t[i]

\* Answers of one batch never disagree, whoever retried and however slow the
\* generator is: what a client was told of an ended batch is what the ledger
\* records, and what it was shown of an open one is a prefix of that.
AnswersAreRecorded ==
  \A c \in Calls :
    LET b == answer[c].batch
        n == Recorded(b.call)
    IN  pc[c] = "done" /\ answer[c].kind = "batch" =>
          IF b.status \in Terminal THEN n = b ELSE n.call = b.call /\ Prefix(b.said, n.said)

\* An ended record never changes again: a generator that was given up, however
\* late it comes back, cannot add a reply or turn failed into complete.
EndedIsFinal ==
  [][\A d \in Days, r \in Requests :
       ledger[d][r].status \in Terminal => ledger'[d][r] = ledger[d][r]]_vars

\* A reply, once recorded, is never lost or renumbered, and a batch gains at most
\* one reply in a step, while its own call holds the lease.
RepliesOnlyGrow ==
  [][\A d \in Days, r \in Requests :
       LET b == ledger[d][r]
           n == ledger'[d][r]
       IN  b.call # Nobody =>
             /\ n.call = b.call /\ Prefix(b.said, n.said)
             /\ Len(n.said) <= Len(b.said) + 1
             /\ n.said # b.said => lease = b.call]_vars

\* The scope does not stay busy: a lease is given up by its call or expires.
LeaseIsFreed == \A c \in Calls : lease = c ~> lease # c

\* A call that was let in gives its client an answer unless its process dies.
CallsReturn == \A c \in Calls : pc[c] \in Working ~> pc[c] \in {"done", "crashed"}

\* The module ReplyPromise, seen through this state: a call that is cleaning up
\* is still working and has told nothing, and of a batch only its author, its
\* number of replies and whether it has ended are promised.
Reply(b) == [call |-> b.call, replies |-> Len(b.said), ended |-> b.status \in Terminal]

Promise == INSTANCE ReplyPromise WITH
  stage  <- [c \in Calls |->
               CASE pc[c] = "begin" -> "asked"
                 [] pc[c] \in {"plan", "speak", "interrupt"} -> "working"
                 [] OTHER -> pc[c]],
  record <- [d \in Days |-> [r \in Requests |-> Reply(ledger[d][r])]],
  answer <- [c \in Calls |->
               IF pc[c] = "interrupt" THEN [kind |-> "none", reply |-> Reply(NoBatch)]
               ELSE [kind |-> answer[c].kind, reply |-> Reply(answer[c].batch)]]

\* Whatever the lease, the lists and the cleanups do, the calls of a scope see no
\* more than ReplyPromise allows.
ImplementsPromise == Promise!PromiseSpec
=============================================================================
