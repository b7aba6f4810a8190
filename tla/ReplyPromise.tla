----------------------------- MODULE ReplyPromise -----------------------------
(***************************************************************************)
(* What the agent promises those who call Application.Send in one scope,   *)
(* without saying how: one record per request id and day, opened by one    *)
(* call, grown only by that call, ended once, and handed out again to      *)
(* every later call with the same id on that day or the next.  No lease,   *)
(* no list of messages, no plan, no cleanup: ConversationBatch implements  *)
(* this (its PROPERTY ImplementsPromise), QuotaGateway is built on it.     *)
(***************************************************************************)
EXTENDS Naturals

CONSTANTS Calls, Requests, Nobody, MaxPlan, LastDay

VARIABLES
  day,      \* the Beijing day of the agents' clock
  stage,    \* where each call stands
  req,      \* the request id each call carries
  date,     \* the day each call is dated to
  record,   \* per day and request id, what the agent keeps of the reply
  answer    \* what each call was told

promiseVars == <<day, stage, req, date, record, answer>>

Days   == 1 .. LastDay
Stages == {"idle", "asked", "working", "done", "crashed"}

\* A reply: the call that generates it, the character messages so far, and
\* whether it has ended.
ReplyType == [call : Calls \union {Nobody}, replies : 0 .. MaxPlan, ended : BOOLEAN]
NoReply   == [call |-> Nobody, replies |-> 0, ended |-> FALSE]

\* An error is definite when nothing more can come of the call (refused, busy)
\* or the agent says so (lease_lost); after unknown anything may have happened.
Kinds    == {"none", "refused", "busy", "lease_lost", "unknown", "batch"}
NoAnswer == [kind |-> "none", reply |-> NoReply]
Error(kind) == [kind |-> kind, reply |-> NoReply]
Batch(b)    == [kind |-> "batch", reply |-> b]

PromiseTypeOK ==
  /\ day \in Days
  /\ stage \in [Calls -> Stages]
  /\ req \in [Calls -> Requests]
  /\ date \in [Calls -> Days]
  /\ record \in [Days -> [Requests -> ReplyType]]
  /\ answer \in [Calls -> [kind : Kinds, reply : ReplyType]]

PromiseInit ==
  /\ day = 1
  /\ stage = [c \in Calls |-> "idle"]
  /\ req \in [Calls -> Requests]
  /\ date = [c \in Calls |-> 1]
  /\ record = [d \in Days |-> [r \in Requests |-> NoReply]]
  /\ answer = [c \in Calls |-> NoAnswer]

-----------------------------------------------------------------------------
Tell(c, result) ==
  /\ stage' = [stage EXCEPT ![c] = "done"]
  /\ answer' = [answer EXCEPT ![c] = result]

Mine(c) == record[date[c]][req[c]]
Put(d, c, b) == record' = [record EXCEPT ![d][req[c]] = b]

KnownOn(c) == {d \in Days : d \in {date[c], date[c] - 1} /\ record[d][req[c]] # NoReply}

\* The call is turned away before anything of it is recorded.
Refuse(c) ==
  /\ stage[c] = "idle"
  /\ Tell(c, Error("refused"))
  /\ UNCHANGED <<day, req, date, record>>

Ask(c) ==
  /\ stage[c] = "idle"
  /\ stage' = [stage EXCEPT ![c] = "asked"]
  /\ date' = [date EXCEPT ![c] = day]
  /\ UNCHANGED <<day, req, record, answer>>

\* The record is handed out as it stands, or ended first because nobody works
\* on it any more.
Repeat(c) ==
  /\ stage[c] = "asked"
  /\ \E d \in KnownOn(c) :
       /\ d # date[c] => date[c] \notin KnownOn(c)
       /\ \E b \in {record[d][req[c]], [record[d][req[c]] EXCEPT !.ended = TRUE]} :
            /\ Put(d, c, b)
            /\ Tell(c, Batch(b)) \/ Tell(c, Error("unknown"))
  /\ UNCHANGED <<day, req, date>>

TurnAway(c) ==
  /\ stage[c] = "asked"
  /\ Tell(c, Error("unknown")) \/ (KnownOn(c) = {} /\ Tell(c, Error("busy")))
  /\ UNCHANGED <<day, req, date, record>>

\* Only where neither day knows the request is a reply opened.
Start(c) ==
  /\ stage[c] = "asked"
  /\ KnownOn(c) = {}
  /\ Put(date[c], c, [call |-> c, replies |-> 0, ended |-> FALSE])
  /\ \/ stage' = [stage EXCEPT ![c] = "working"] /\ UNCHANGED answer
     \/ Tell(c, Error("unknown"))
  /\ UNCHANGED <<day, req, date>>

\* One more character message, in the call's own open record.
Speak(c) ==
  /\ stage[c] = "working"
  /\ ~Mine(c).ended
  /\ Mine(c).replies < MaxPlan
  /\ Put(date[c], c, [Mine(c) EXCEPT !.replies = @ + 1])
  /\ UNCHANGED <<day, stage, req, date, answer>>

\* The call ends its open record, and may or may not live to tell.
Finish(c) ==
  /\ stage[c] = "working"
  /\ ~Mine(c).ended
  /\ LET b == [Mine(c) EXCEPT !.ended = TRUE]
     IN  /\ Put(date[c], c, b)
         /\ Tell(c, Batch(b)) \/ UNCHANGED <<stage, answer>>
  /\ UNCHANGED <<day, req, date>>

\* The call fails; its record may be ended on the way out, or left as it is.
GiveUp(c) ==
  /\ stage[c] = "working"
  /\ \E kind \in {"lease_lost", "unknown"} : Tell(c, Error(kind))
  /\ Put(date[c], c, [Mine(c) EXCEPT !.ended = TRUE]) \/ UNCHANGED record
  /\ UNCHANGED <<day, req, date>>

Die(c) ==
  /\ stage[c] \in {"asked", "working"}
  /\ stage' = [stage EXCEPT ![c] = "crashed"]
  /\ UNCHANGED <<day, req, date, record, answer>>

NextDay ==
  /\ day < LastDay
  /\ day' = day + 1
  /\ UNCHANGED <<stage, req, date, record, answer>>

CallStep(c) ==
  \/ Refuse(c) \/ Ask(c) \/ Repeat(c) \/ TurnAway(c) \/ Start(c)
  \/ Speak(c) \/ Finish(c) \/ GiveUp(c) \/ Die(c)

PromiseNext == (\E c \in Calls : CallStep(c)) \/ NextDay

PromiseSpec == PromiseInit /\ [][PromiseNext]_promiseVars
=============================================================================
