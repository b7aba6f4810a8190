---------------------------- MODULE WechatChannel ----------------------------
(***************************************************************************)
(* A message of a WeChat user on its way through a gateway: receive        *)
(* (internal/gateway/wechat_handler.go) drops what was seen before, asks   *)
(* the limiter, acknowledges and starts handleAsync, which pushes the      *)
(* agent's reply with the access token (cron.go); good-night greetings are *)
(* pushed in the same way.  WeChat delivers a message again when it misses *)
(* the acknowledgement, and to either gateway during a rollout.  A message *)
(* without a valid signature, or not a text, ends before anything changes. *)
(***************************************************************************)
EXTENDS TokenManager, FiniteSets

CONSTANTS Messages,
          Limit, Window,     \* of the limiter; all messages are one user's
          Budgets            \* bound: the calls, the faults and the lifetime of a behaviour

ASSUME LimiterAssumption == Limit \in Nat \ {0} /\ Window \in Nat \ {0}
ASSUME NoneAssumption    == None \notin Gateways \union Messages
ASSUME BudgetAssumption  == Budgets \subseteq [calls : Nat, faults : Nat, life : Nat]

VARIABLES
  left,        \* bound: the calls that may still begin
  seen,        \* Redis: the ids of the messages seen
  window       \* Redis: the limiter's counter and when it expires

vars == <<now, faults, left, calls, tokenVars, seen, window>>

\* asked, allowed and checked are history variables: when the limiter was asked and
\* whether it allowed the message, and whether the deduper worked.
CallType ==
  [stage   : {"idle", "arrived", "limit", "reply", "get", "fetch", "fetching", "send",
              "refresh", "done"},
   gateway : Optional(Gateways),
   message : Optional(Messages),        \* none for a greeting
   begun   : 0 .. LastTime,             \* when handleAsync began
   token   : Token,
   retried : BOOLEAN,
   texts   : 0 .. 2,                    \* what the user got
   end     : {"open", "seen", "limited", "answered", "failed", "crashed"},
   checked : BOOLEAN,
   asked   : 0 .. LastTime,
   allowed : {"unasked", "yes", "no", "failed"}]

TypeOK ==
  /\ TokenTypeOK
  /\ left \in Nat
  /\ calls \in [Calls -> CallType]
  /\ seen \subseteq Messages
  /\ window \in [count : 0 .. Cardinality(Calls), expires : 0 .. LastTime + Window]

Idle == [stage |-> "idle", gateway |-> None, message |-> None, begun |-> 0, token |-> 0,
         retried |-> FALSE, texts |-> 0, end |-> "open", checked |-> FALSE, asked |-> 0,
         allowed |-> "unasked"]

Init ==
  /\ TokenInit
  /\ \E b \in Budgets : left = b.calls /\ faults = b.faults /\ life = b.life
  /\ calls = [c \in Calls |-> Idle]
  /\ seen = {}
  /\ window = [count |-> 0, expires |-> 0]

-----------------------------------------------------------------------------
Ends(call, end) == [call EXCEPT !.stage = "done", !.end = end, !.token = 0, !.retried = FALSE,
                                !.gateway = None, !.begun = 0]

Becomes(c, call) == calls' = [calls EXCEPT ![c] = call]

Begins(c, call) ==
  /\ calls[c].stage = "idle"
  /\ left > 0 /\ left' = left - 1
  /\ Becomes(c, call)
  /\ UNCHANGED <<now, faults, tokenVars, seen, window>>

\* WeChat delivers a message, for the first time or again.
Deliver(c, g, m) == Begins(c, [Idle EXCEPT !.stage = "arrived", !.gateway = g, !.message = m])

\* RunMaintenanceForDate greets an owner.
Greet(c, g) == Begins(c, [Idle EXCEPT !.stage = "get", !.gateway = g])

\* Faulty variant: a message is dropped when the deduper fails.
DroppedWhenUnsure(call) == Ends(call, "seen")

\* When the deduper fails the message is handled.
HandledWhenUnsure(call) == [call EXCEPT !.stage = "limit"]

\* SeenOrAdd, one SETNX, whose reply may be lost.
SeenOrAdd(c) ==
  LET call == calls[c]
  IN  /\ call.stage = "arrived"
      /\ \/ /\ Becomes(c, IF call.message \in seen THEN Ends([call EXCEPT !.checked = TRUE], "seen")
                          ELSE [call EXCEPT !.stage = "limit", !.checked = TRUE])
            /\ seen' = seen \union {call.message}
            /\ UNCHANGED faults
         \/ /\ Fault
            /\ Becomes(c, HandledWhenUnsure(call))
            /\ seen' \in {seen, seen \union {call.message}}
      /\ UNCHANGED <<now, left, tokenVars, window>>

\* Faulty variants of the script: the window begins anew with every message; or its
\* length is given in seconds where Redis takes milliseconds.
CountedAnew ==
  [count |-> IF now < window.expires THEN window.count + 1 ELSE 1, expires |-> now + Window]
CountedShort ==
  IF now < window.expires THEN [window EXCEPT !.count = @ + 1]
  ELSE [count |-> 1, expires |-> now]

\* fixedWindowAllowScript.
Counted ==
  IF now < window.expires THEN [window EXCEPT !.count = @ + 1]
  ELSE [count |-> 1, expires |-> now + Window]

\* FixedWindowLimiter.Allow, on the count that its script returned.
Allowed(w) == w.count <= Limit

\* allowOpenID, and the acknowledgement; when the limiter fails the message is handled.
Allow(c) ==
  LET call == [calls[c] EXCEPT !.asked = now]
      Handled(allowed) == [call EXCEPT !.stage = "reply", !.begun = now, !.allowed = allowed]
  IN  /\ call.stage = "limit"
      /\ \/ /\ window' = Counted
            /\ Becomes(c, IF Allowed(Counted) THEN Handled("yes")
                          ELSE Ends([call EXCEPT !.allowed = "no"], "limited"))
            /\ UNCHANGED faults
         \/ /\ Fault
            /\ window' \in {window, Counted}
            /\ Becomes(c, Handled("failed"))
      /\ UNCHANGED <<now, left, tokenVars, seen>>

-----------------------------------------------------------------------------
(* handleAsync, whose 30 seconds are for the reply and the push together.  *)

\* The agent answers, or fails and the reply is an apology.
Reply(c) ==
  /\ calls[c].stage = "reply"
  /\ Goes(c, "get", 0)
  /\ UNCHANGED <<now, faults, left, tokenVars, seen, window>>

\* Faulty variant of IsTokenExpiredError: any error will do.
IsSomeError(error) == TRUE

IsTokenExpiredError(error) == error = "expired"

\* pushTextWithTokenRefresh after SendText returned an error.
Failed(call, error) ==
  IF IsTokenExpiredError(error) /\ ~call.retried
  THEN [call EXCEPT !.stage = "refresh", !.token = 0, !.retried = TRUE]
  ELSE Ends(call, "failed")

\* SendText: the push is taken, is taken but the answer is lost, is refused for its
\* token, or fails.
Send(c) ==
  LET call  == calls[c]
      taken == [call EXCEPT !.texts = @ + 1]
  IN  /\ call.stage = "send"
      /\ \/ /\ InTime(c) /\ MayAccept(call.token)
            /\ \/ Becomes(c, Ends(taken, "answered")) /\ UNCHANGED faults
               \/ Becomes(c, Failed(taken, "lost")) /\ Fault
         \/ /\ InTime(c) /\ MayRefuse(call.token)
            /\ Becomes(c, Failed(call, "expired")) /\ UNCHANGED faults
         \/ /\ Fails(c)
            /\ Becomes(c, Failed(call, "other"))
      /\ UNCHANGED <<now, left, tokenVars, seen, window>>

\* The token that Get or Refresh asked for does not come.
FetchFails(c) ==
  /\ calls[c].stage \in {"fetch", "fetching"}
  /\ Fails(c)
  /\ lock' = Unlocked(c)
  /\ Becomes(c, Ends(calls[c], "failed"))
  /\ UNCHANGED <<now, left, life, issued, cache, memory, seen, window>>

\* A gateway dies, and another takes its place.
Crash(g) ==
  /\ Fault
  /\ calls' = [c \in Calls |-> IF calls[c].gateway = g THEN Ends(calls[c], "crashed") ELSE calls[c]]
  /\ memory' = [memory EXCEPT ![g] = Empty]
  /\ lock' = [lock EXCEPT ![g] = None]
  /\ UNCHANGED <<now, left, life, issued, cache, seen, window>>

\* Time passes, but no token takes longer than Transit to arrive, and the agent is
\* not waited for longer than the 30 seconds.
Tick ==
  /\ now < LastTime
  /\ now' = now + 1
  /\ \A c \in Calls :
       /\ calls[c].stage = "fetching" => now < issued[calls[c].token] + Transit
       /\ calls[c].stage = "reply" => now = calls[c].begun
  /\ UNCHANGED <<faults, left, calls, tokenVars, seen, window>>

\* Nothing more to do.
Rest ==
  /\ left = 0 \/ \A c \in Calls : calls[c].stage # "idle"
  /\ \A c \in Calls : calls[c].stage \in {"idle", "done"}
  /\ UNCHANGED vars

TokenStep(c) ==
  /\ GetKept(c) \/ GetCached(c) \/ GetNone(c) \/ Refresh(c) \/ Issue(c) \/ Fetched(c)
  /\ UNCHANGED <<left, seen, window>>

Next ==
  \/ \E c \in Calls :
       \/ \E g \in Gateways : Greet(c, g) \/ \E m \in Messages : Deliver(c, g, m)
       \/ SeenOrAdd(c) \/ Allow(c) \/ Reply(c) \/ TokenStep(c) \/ Send(c) \/ FetchFails(c)
  \/ \E g \in Gateways : Crash(g)
  \/ Tick
  \/ Rest

Spec == Init /\ [][Next]_vars

-----------------------------------------------------------------------------
(* What must hold.                                                         *)

\* A user gets one reply to a message and no push twice, however often WeChat
\* delivers it, to whichever gateway, and whatever is lost: of the deliveries the
\* deduper could check, one is answered.
RepliedOnce ==
  /\ \A c \in Calls : calls[c].texts <= 1
  /\ \A m \in Messages :
       Cardinality({c \in Calls : calls[c].message = m /\ calls[c].checked /\ calls[c].texts > 0}) <= 1

\* A message is left without a reply only if the limiter refused it, its gateway
\* died, or a push failed: no delivery is dropped in favour of another that was
\* not handled.
SilenceHasAReason ==
  \A m \in Messages :
    LET deliveries == {c \in Calls : calls[c].message = m}
    IN  /\ deliveries # {}
        /\ \A c \in deliveries : calls[c].stage = "done" /\ calls[c].texts = 0
        => \E c \in deliveries : calls[c].end \in {"limited", "crashed", "failed"}

\* The limiter lets no more than twice its limit pass in the length of a window,
\* wherever that begins.
AtMostTwicePerWindow ==
  \A t \in 0 .. LastTime :
    Cardinality({c \in Calls : calls[c].allowed = "yes" /\ calls[c].asked \in t .. t + Window - 1})
      <= 2 * Limit

\* It refuses a message only if as many as its limit passed within the length of a
\* window before: who is refused may write again a window later.
RefusedForReason ==
  \A c \in Calls : calls[c].allowed = "no" =>
    Cardinality({d \in Calls : /\ calls[d].allowed \in {"yes", "failed"}
                               /\ calls[d].asked \in calls[c].asked - Window + 1 .. calls[c].asked})
      >= Limit
=============================================================================
