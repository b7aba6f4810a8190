----------------------------- MODULE QuotaGateway -----------------------------
(***************************************************************************)
(* The gateway's send handlers (webSendConversationMessage and its older   *)
(* alias, internal/gateway/api_handler.go) between the quota of a user and *)
(* the agent: reserve, call, settle with the outcome that the agent's      *)
(* answer amounts to, and answer the client.  DailyQuota is extended; the  *)
(* agent is ReplyPromise, over all the conversations of the user, since a  *)
(* scoped request id names its conversation.  An error of the agent        *)
(* becomes a gRPC code on its side, and an HTTP status in the gateway.     *)
(*                                                                         *)
(* An agent call lives on when the attempt that made it is gone, or when   *)
(* the gateway has stopped waiting for it.                                 *)
(***************************************************************************)
EXTENDS DailyQuota

CONSTANTS Nobody, MaxPlan,
          Overlap,     \* whether a client repeats a request while it is being handled
          LateScripts  \* whether midnight may fall between the computation of a
                       \* window and the script that reserves in it

ASSUME ClientAssumption == Overlap \in BOOLEAN /\ LateScripts \in BOOLEAN
ASSUME AgentAssumption  == MaxPlan \in Nat \ {0}

VARIABLES
  stage, agentDate, record, answer,   \* the agent, see ReplyPromise
  told,                               \* the agent's answer each attempt acts on
  shown                               \* the status each attempt answered its client with

agentVars == <<stage, agentDate, record, answer>>
vars      == <<quotaVars, agentVars, told, shown>>

Agent == INSTANCE ReplyPromise WITH Calls <- Attempts, date <- agentDate

Codes    == {"none", "OK", "InvalidArgument", "ResourceExhausted", "NotFound", "Aborted",
             "FailedPrecondition", "Unknown", "Unavailable"}
Statuses == {"none", "ok", "invalid_request", "unauthorized", "rate_limited",
             "daily_quota_exhausted", "quota_unavailable", "message_too_large",
             "conversation_not_found", "conversation_busy", "agent_error"}

Error(code) == [code |-> code, reply |-> Agent!NoReply]

\* The types of the variables.
GatewayTypeOK ==
  /\ TypeOK
  /\ Agent!PromiseTypeOK
  /\ told \in [Attempts -> [code : Codes, reply : Agent!ReplyType]]
  /\ shown \in [Attempts -> Statuses]

GatewayInit ==
  /\ Init
  /\ Agent!PromiseInit
  /\ told = [a \in Attempts |-> Error("none")]
  /\ shown = [a \in Attempts |-> "none"]

-----------------------------------------------------------------------------
(* What the agent says, what it costs, and what the client is shown.       *)

\* orchestrationStatus: the codes an answer of Send may be turned into.
CodesOf(kind) ==
  CASE kind = "batch" -> {"OK"}
    [] kind = "refused" -> {"InvalidArgument", "ResourceExhausted", "NotFound", "FailedPrecondition"}
    [] kind \in {"busy", "lease_lost"} -> {"Aborted"}
    [] OTHER -> {"Unknown"}

\* Faulty variant: a conversation that is busy may be free in a moment.
DefinitiveUnlessBusy(code) ==
  code \in {"InvalidArgument", "ResourceExhausted", "NotFound", "FailedPrecondition"}

\* definitiveAgentFailure.
Definitive(code) ==
  code \in {"InvalidArgument", "ResourceExhausted", "NotFound", "Aborted", "FailedPrecondition"}

\* Faulty variants: a reply still being generated does not count as delivered;
\* or a batch that ended counts as delivered whatever it holds.
OutcomeOnceEnded(t) ==
  IF t.code = "OK"
  THEN IF ~t.reply.ended THEN "pending" ELSE IF t.reply.replies > 0 THEN "delivered" ELSE "failed"
  ELSE IF Definitive(t.code) THEN "failed" ELSE "pending"

OutcomeEnded(t) ==
  IF t.code = "OK"
  THEN IF t.reply.ended THEN "delivered" ELSE "pending"
  ELSE IF Definitive(t.code) THEN "failed" ELSE "pending"

\* quotaOutcome of a batch, settleAgentError of an error.
OutcomeOf(t) ==
  IF t.code = "OK"
  THEN IF t.reply.replies > 0 THEN "delivered" ELSE IF t.reply.ended THEN "failed" ELSE "pending"
  ELSE IF Definitive(t.code) THEN "failed" ELSE "pending"

\* apiAgentError.
StatusOf(code) ==
  CASE code = "InvalidArgument"   -> "invalid_request"
    [] code = "ResourceExhausted" -> "message_too_large"
    [] code = "NotFound"          -> "conversation_not_found"
    [] code = "Aborted"           -> "conversation_busy"
    [] OTHER                      -> "agent_error"

\* What follows a settlement.  The alias has nothing to show of a batch without replies.
Shows(t) ==
  IF t.code # "OK" THEN {StatusOf(t.code)}
  ELSE IF t.reply.replies > 0 THEN {"ok"} ELSE {"ok", "agent_error"}

ShowStatus(a, status) == shown' = [shown EXCEPT ![a] = status]

Handled(a) == pc[a] \in {"reserve", "granted", "settle", "read"}

\* Turned away before anything is reserved: no session, a body, a length or an
\* id that will not do, or too many messages this minute.
TurnAway(a) ==
  /\ pc[a] = "idle"
  /\ Go(a, "refused")
  /\ \E s \in {"unauthorized", "invalid_request", "message_too_large", "rate_limited"} :
       ShowStatus(a, s)
  /\ UNCHANGED <<day, ledger, req, date, source, outcome, snapshot, agentVars, told>>

\* A message arrives with its request id.
ArriveAtGateway(a) ==
  /\ Overlap \/ \A b \in Attempts : req[b] = req[a] => ~Handled(b)
  /\ Arrive(a)
  /\ UNCHANGED <<agentVars, told, shown>>

\* The agent runs the call of an attempt whose reservation was granted.
AgentStep(a) ==
  /\ source[a] # 0
  /\ Agent!CallStep(a)
  /\ UNCHANGED <<ledger, pc, date, source, outcome, snapshot, told, shown>>

\* The answer, or a transport error in its place, comes back.
Answered(a) ==
  \E t \in {Error("Unavailable")} \union
           (IF stage[a] # "done" THEN {}
            ELSE {[code |-> k, reply |-> answer[a].reply] : k \in CodesOf(answer[a].kind)}) :
    /\ told' = [told EXCEPT ![a] = t]
    /\ BeginSettle(a, OutcomeOf(t))
    /\ UNCHANGED <<agentVars, shown>>

\* reserveQuota answers for itself when it refuses; a read of the quota is all the
\* session endpoint does, and the end of a settlement whose day is over.
ReserveOrRefuse(a) ==
  /\ Reserve(a)
  /\ IF pc'[a] = "granted" THEN UNCHANGED shown
     ELSE ShowStatus(a, IF snapshot' = snapshot THEN "quota_unavailable" ELSE "daily_quota_exhausted")

SettleAndAnswer(a) ==
  /\ Settle(a) \/ Read(a)
  /\ \/ pc'[a] = "settled" /\ \E s \in (IF source[a] = 0 THEN {"ok"} ELSE Shows(told[a])) : ShowStatus(a, s)
     \/ pc'[a] = "refused" /\ ShowStatus(a, "quota_unavailable")
     \/ pc'[a] = "read" /\ UNCHANGED shown

QuotaStep(a) ==
  /\ ReserveOrRefuse(a) \/ SettleAndAnswer(a) \/ ((Look(a) \/ Abandon(a)) /\ UNCHANGED shown)
  /\ UNCHANGED <<agentVars, told>>

Midnight ==
  /\ LateScripts \/ \A a \in Attempts : pc[a] # "reserve"
  /\ Tick
  /\ UNCHANGED <<agentVars, told, shown>>

GatewayNext ==
  \/ \E a \in Attempts : TurnAway(a) \/ ArriveAtGateway(a) \/ AgentStep(a) \/ Answered(a) \/ QuotaStep(a)
  \/ Midnight

GatewaySpec == GatewayInit /\ [][GatewayNext]_vars

-----------------------------------------------------------------------------
(* What must hold.                                                         *)

\* The client was answered with at least one character message.
Delivered(a) == shown[a] = "ok" /\ told[a].reply.replies > 0

\* No more messages are answered on a day's quota than its limit - the purpose of
\* reserving before the agent is called.
DeliveredWithinLimit ==
  \A d \in Days :
    Cardinality({req[a] : a \in {b \in Attempts : Delivered(b) /\ source[b] = d}}) <= Limit

\* An answered message is charged to the hash that reserved it.
DeliveredIsCharged ==
  \A a \in Attempts :
    Delivered(a) /\ ~Expired(source[a]) => ledger[source[a]].entry[req[a]] = "delivered"

\* Nobody is charged for a message that no character answered: behind each charge
\* the agent holds a reply, whatever was lost or repeated on the way.
ChargedForReplies ==
  \A d \in Days, r \in Requests :
    ledger[d].entry[r] = "delivered" => \E e \in Agent!Days : record[e][r].replies > 0

\* A unit is held back only for a message whose fate is open: of a message that is not
\* charged, some attempt is under way, was never answered, or was told of a batch
\* without replies yet or of a failure that says nothing (agent_error,
\* quota_unavailable).  What tells a client that its message was not taken gives the
\* unit back - apiAgentError and definitiveAgentFailure agree.
HeldForOpenMessages ==
  \A d \in Days, r \in Requests :
    ledger[d].entry[r] = "reserved" =>
      \E a \in Attempts :
        /\ req[a] = r
        /\ \/ Handled(a) \/ pc[a] = "gone"
           \/ shown[a] \in {"agent_error", "quota_unavailable"}
           \/ shown[a] = "ok" /\ told[a].code = "OK" /\ ~told[a].reply.ended

\* One message is charged to two days only when it was repeated on the second day
\* after the first: the hash of the day before is asked, and lives that long.  It
\* lives no longer, so a script that runs after its window's day has ended (run
\* quota_late_script) finds it gone and charges once more.
ChargedToNeighboursOnce ==
  \A a, b \in Attempts :
    Delivered(a) /\ Delivered(b) /\ req[a] = req[b] => source[b] # source[a] + 1
=============================================================================
