------------------------- MODULE WechatChannelProofs -------------------------
(***************************************************************************)
(* A WeChat message and the access token, for any number of deliveries,    *)
(* messages, calls, gateways and failures, and any lifetime: no gateway    *)
(* keeps a token beyond its life, the deduper lets one delivery of a       *)
(* message pass, and the limiter keeps to its windows.                     *)
(***************************************************************************)
EXTENDS WechatChannel, FiniteSetTheorems, TLAPS

KeptType == [token : Nat, expires : Int]

\* All that is asked of a call: that it has a stage and a token.
Shaped(call) == "stage" \in DOMAIN call /\ "token" \in DOMAIN call

Shapes ==
  /\ now \in Nat /\ life \in Nat /\ issued \in Seq(Nat)
  /\ cache \in KeptType /\ memory \in [Gateways -> KeptType]
  /\ DOMAIN calls = Calls /\ \A c \in Calls : Shaped(calls[c])

\* What is kept, of a token that was given out, is kept within its life, s short of it.
Within(kept, s) ==
  kept.token # 0 =>
    kept.token \in DOMAIN issued /\ kept.expires <= issued[kept.token] + life + Transit - s

\* A token on its way to a gateway was given out no longer ago than Transit.
Underway(call) ==
  call.stage = "fetching" =>
    call.token \in DOMAIN issued /\ now <= issued[call.token] + Transit

TInv == /\ Shapes
        /\ \A g \in Gateways : Within(memory[g], 0)
        /\ Within(cache, Margin)
        /\ \A c \in Calls : Underway(calls[c])

-----------------------------------------------------------------------------
(* What the steps make of a call.                                          *)

LEMMA IdleShape == Shaped(Idle) /\ Idle.stage = "idle"
  BY DEF Idle, Shaped

LEMMA EndsShape ==
  ASSUME NEW call, Shaped(call), NEW end
  PROVE  Shaped(Ends(call, end)) /\ Ends(call, end).stage = "done"
  BY DEF Ends, Shaped

LEMMA FailedShape ==
  ASSUME NEW call, Shaped(call), NEW error
  PROVE  Shaped(Failed(call, error)) /\ Failed(call, error).stage # "fetching"
<1>1. CASE IsTokenExpiredError(error) /\ ~call.retried
  BY <1>1 DEF Failed, Shaped
<1>2. CASE ~(IsTokenExpiredError(error) /\ ~call.retried)
  BY <1>2, EndsShape DEF Failed
<1> QED BY <1>1, <1>2

LEMMA GoesShape ==
  ASSUME Shapes, NEW c \in Calls, NEW s, NEW t, Goes(c, s, t)
  PROVE  \E n : Shaped(n) /\ n.stage = s /\ n.token = t /\ Becomes(c, n)
<1> DEFINE n == [calls[c] EXCEPT !.stage = s, !.token = t]
<1>1. Shaped(n) /\ n.stage = s /\ n.token = t
  BY DEF Shapes, Shaped
<1>2. Becomes(c, n)
  BY DEF Goes, Becomes, Shapes
<1> QED BY <1>1, <1>2

\* The calls after a step that moves one of them: no token sets out that did not
\* arrive in time.
LEMMA OneCall ==
  ASSUME TInv, UNCHANGED <<now, issued>>, NEW c \in Calls,
         NEW n, Shaped(n), n.stage # "fetching", Becomes(c, n)
  PROVE  /\ DOMAIN calls' = Calls
         /\ \A k \in Calls : Shaped(calls'[k])
         /\ \A k \in Calls : Underway(calls[k])'
  BY DEF TInv, Shapes, Underway, Becomes

LEMMA TokensUntouched ==
  ASSUME TInv, UNCHANGED <<now, life, issued, cache, memory>>, NEW c \in Calls,
         NEW n, Shaped(n), n.stage # "fetching", Becomes(c, n)
  PROVE  TInv'
<1>1. /\ DOMAIN calls' = Calls
      /\ \A k \in Calls : Shaped(calls'[k])
      /\ \A k \in Calls : Underway(calls[k])'
  BY OneCall
<1> QED BY <1>1 DEF TInv, Shapes, Within, Shaped

-----------------------------------------------------------------------------
(* Steps that leave the tokens alone.                                      *)

LEMMA BeginsStep ==
  ASSUME TInv, NEW c \in Calls, NEW g \in Gateways,
         Greet(c, g) \/ \E m \in Messages : Deliver(c, g, m)
  PROVE  TInv'
<1>1. PICK n : Shaped(n) /\ n.stage # "fetching" /\ Begins(c, n)
  BY IdleShape DEF Greet, Deliver, Shaped
<1> QED BY <1>1, TokensUntouched DEF Begins, tokenVars

LEMMA SeenStep == ASSUME TInv, NEW c \in Calls, SeenOrAdd(c) PROVE TInv'
<1> DEFINE call == calls[c]
           mark == [call EXCEPT !.checked = TRUE]
<1>1. Shaped(call) /\ Shaped(mark)
  BY DEF TInv, Shapes, Shaped
<1>2. PICK n : Shaped(n) /\ n.stage # "fetching" /\ Becomes(c, n)
  <2>1. Shaped(Ends(mark, "seen")) /\ Ends(mark, "seen").stage = "done"
    BY <1>1, EndsShape
  <2>2. LET n == [call EXCEPT !.stage = "limit", !.checked = TRUE]
        IN  Shaped(n) /\ n.stage = "limit"
    BY <1>1 DEF Shaped
  <2>3. Shaped(HandledWhenUnsure(call)) /\ HandledWhenUnsure(call).stage = "limit"
    BY <1>1 DEF Shaped, HandledWhenUnsure
  <2> QED BY <2>1, <2>2, <2>3 DEF SeenOrAdd
<1> QED BY <1>2, TokensUntouched DEF SeenOrAdd, tokenVars

LEMMA AllowStep == ASSUME TInv, NEW c \in Calls, Allow(c) PROVE TInv'
<1> DEFINE call == [calls[c] EXCEPT !.asked = now]
           no == [call EXCEPT !.allowed = "no"]
           Handled(allowed) == [call EXCEPT !.stage = "reply", !.begun = now, !.allowed = allowed]
<1>1. Shaped(call) /\ Shaped(no)
  BY DEF TInv, Shapes, Shaped
<1>2. \A a : Shaped(Handled(a)) /\ Handled(a).stage = "reply"
  BY <1>1 DEF Shaped
<1>3. Shaped(Ends(no, "limited")) /\ Ends(no, "limited").stage = "done"
  BY <1>1, EndsShape
<1>4. \/ Becomes(c, Handled("yes")) \/ Becomes(c, Handled("failed"))
      \/ Becomes(c, Ends(no, "limited"))
  BY DEF Allow
<1> HIDE DEF Handled, no
<1>5. PICK n : Shaped(n) /\ n.stage # "fetching" /\ Becomes(c, n)
  BY <1>2, <1>3, <1>4
<1> QED BY <1>5, TokensUntouched DEF Allow, tokenVars

LEMMA SendStep == ASSUME TInv, NEW c \in Calls, Send(c) PROVE TInv'
<1> DEFINE call  == calls[c]
           taken == [call EXCEPT !.texts = @ + 1]
<1>1. Shaped(call) /\ Shaped(taken)
  BY DEF TInv, Shapes, Shaped
<1>2. \/ Becomes(c, Ends(taken, "answered")) \/ Becomes(c, Failed(taken, "lost"))
      \/ Becomes(c, Failed(call, "expired")) \/ Becomes(c, Failed(call, "other"))
  BY DEF Send
<1> HIDE DEF taken
<1>3. PICK n : Shaped(n) /\ n.stage # "fetching" /\ Becomes(c, n)
  <2>1. Shaped(Ends(taken, "answered")) /\ Ends(taken, "answered").stage # "fetching"
    BY <1>1, EndsShape
  <2>2. Shaped(Failed(taken, "lost")) /\ Failed(taken, "lost").stage # "fetching"
    BY <1>1, FailedShape
  <2>3. \A e : Shaped(Failed(call, e)) /\ Failed(call, e).stage # "fetching"
    BY <1>1, FailedShape
  <2> QED BY <1>2, <2>1, <2>2, <2>3
<1> QED BY <1>3, TokensUntouched DEF Send, tokenVars

LEMMA FetchFailsStep == ASSUME TInv, NEW c \in Calls, FetchFails(c) PROVE TInv'
<1>1. Shaped(Ends(calls[c], "failed")) /\ Ends(calls[c], "failed").stage = "done"
  BY EndsShape DEF TInv, Shapes
<1> QED BY <1>1, TokensUntouched DEF FetchFails

\* The agent answers; Get finds the token in memory, or finds none at all.
LEMMA ReplyStep ==
  ASSUME TInv, NEW c \in Calls, Reply(c) \/ GetKept(c) \/ GetNone(c)
  PROVE  TInv'
<1>1. UNCHANGED <<now, life, issued, cache, memory>>
  BY DEF Reply, GetKept, GetNone, Fetches, tokenVars
<1>2. PICK s, t : s \in {"get", "send", "fetch"} /\ Goes(c, s, t)
  BY DEF Reply, GetKept, GetNone, Fetches, Hands
<1>3. PICK n : Shaped(n) /\ n.stage = s /\ Becomes(c, n)
  BY <1>2, GoesShape DEF TInv
<1> QED BY <1>1, <1>2, <1>3, TokensUntouched

-----------------------------------------------------------------------------
(* Steps of the tokens.                                                    *)

\* A copy is kept for no longer than the margin that the cache's entry has.
LEMMA GetCachedStep == ASSUME TInv, NEW c \in Calls, GetCached(c) PROVE TInv'
<1> DEFINE copy == [token |-> cache.token, expires |-> now + CopyTime]
<1>1. UNCHANGED <<now, life, issued, cache>> /\ memory' = [memory EXCEPT ![Home(c)] = copy]
  BY DEF GetCached
<1>2. /\ now < cache.expires /\ cache.token # 0
      /\ now \in Nat /\ life \in Nat /\ issued \in Seq(Nat) /\ cache \in KeptType
      /\ memory \in [Gateways -> KeptType]
  BY DEF GetCached, Fresh, TInv, Shapes
<1>3. copy \in KeptType
  BY <1>2, TimeAssumption DEF KeptType
<1>4. Within(copy, 0)
  <2>1. cache.token \in DOMAIN issued
        /\ cache.expires <= issued[cache.token] + life + Transit - Margin
    BY <1>2 DEF TInv, Within
  <2>2. issued[cache.token] \in Nat /\ cache.expires \in Int
    BY <1>2, <2>1 DEF KeptType
  <2>3. now + CopyTime <= issued[cache.token] + life + Transit - 0
    BY <1>2, <2>1, <2>2, TimeAssumption
  <2> QED BY <2>1, <2>3 DEF Within
<1>5. PICK n : Shaped(n) /\ n.stage = "send" /\ Becomes(c, n)
  BY GoesShape DEF GetCached, Hands, TInv
<1>6. /\ DOMAIN calls' = Calls /\ \A k \in Calls : Shaped(calls'[k])
      /\ \A k \in Calls : Underway(calls[k])'
  BY <1>1, <1>5, OneCall
<1> HIDE DEF copy
<1>7. memory' \in [Gateways -> KeptType] /\ \A g \in Gateways : memory'[g] \in {memory[g], copy}
  BY <1>1, <1>2, <1>3
<1>8. \A g \in Gateways : Within(memory[g], 0)'
  BY <1>1, <1>4, <1>7 DEF Within, TInv
<1> QED BY <1>1, <1>2, <1>6, <1>7, <1>8 DEF TInv, Shapes, Shaped, Within

\* What is forgotten is within its life.
LEMMA Forgotten ==
  ASSUME TInv, UNCHANGED <<now, life, issued>>, cache' \in {cache, Empty},
         \E g : memory' = [memory EXCEPT ![g] = Empty],
         DOMAIN calls' = Calls, \A k \in Calls : Shaped(calls'[k]),
         \A k \in Calls : Underway(calls[k])'
  PROVE  TInv'
<1>1. Empty \in KeptType /\ Empty.token = 0
  BY DEF Empty, KeptType
<1>2. memory \in [Gateways -> KeptType] /\ cache \in KeptType
  BY DEF TInv, Shapes
<1>3. memory' \in [Gateways -> KeptType] /\ \A g \in Gateways : memory'[g] \in {memory[g], Empty}
  BY <1>1, <1>2
<1>4. \A g \in Gateways : Within(memory[g], 0)'
  BY <1>1, <1>3 DEF Within, TInv
<1>5. cache' \in KeptType /\ Within(cache, Margin)'
  BY <1>1, <1>2 DEF Within, TInv
<1> QED BY <1>3, <1>4, <1>5 DEF TInv, Shapes, Shaped

LEMMA RefreshStep == ASSUME TInv, NEW c \in Calls, Refresh(c) PROVE TInv'
<1>1. PICK n : Shaped(n) /\ n.stage = "fetch" /\ Becomes(c, n)
  BY GoesShape DEF Refresh, Fetches, TInv
<1>2. UNCHANGED <<now, life, issued>> /\ cache' \in {cache, Empty}
      /\ memory' = [memory EXCEPT ![Home(c)] = Empty]
  BY DEF Refresh, Fetches
<1>3. /\ DOMAIN calls' = Calls /\ \A k \in Calls : Shaped(calls'[k])
      /\ \A k \in Calls : Underway(calls[k])'
  BY <1>1, <1>2, OneCall
<1> QED BY <1>2, <1>3, Forgotten

LEMMA CrashStep == ASSUME TInv, NEW g \in Gateways, Crash(g) PROVE TInv'
<1>1. UNCHANGED <<now, life, issued, cache>> /\ memory' = [memory EXCEPT ![g] = Empty]
      /\ calls' = [c \in Calls |-> IF calls[c].gateway = g THEN Ends(calls[c], "crashed")
                                   ELSE calls[c]]
  BY DEF Crash
<1>2. \A k \in Calls : Shaped(Ends(calls[k], "crashed")) /\ Ends(calls[k], "crashed").stage = "done"
  BY EndsShape DEF TInv, Shapes
<1>3. \A k \in Calls : calls'[k] \in {calls[k], Ends(calls[k], "crashed")}
  BY <1>1
<1>4. \A k \in Calls : Shaped(calls'[k])
  BY <1>2, <1>3 DEF TInv, Shapes
<1>5. \A k \in Calls : Underway(calls[k])'
  BY <1>1, <1>2, <1>3 DEF TInv, Underway
<1>6. DOMAIN calls' = Calls
  BY <1>1
<1> QED BY <1>1, <1>4, <1>5, <1>6, Forgotten

\* A token that is given out is on its way from now on.
LEMMA IssueStep == ASSUME TInv, NEW c \in Calls, Issue(c) PROVE TInv'
<1>1. UNCHANGED <<now, life, cache, memory>> /\ issued' = Append(issued, now)
  BY DEF Issue
<1>2. now \in Nat /\ issued \in Seq(Nat)
  BY DEF TInv, Shapes
<1>3. /\ issued' \in Seq(Nat) /\ Len(issued') \in DOMAIN issued'
      /\ issued'[Len(issued')] = now
      /\ \A t \in DOMAIN issued : t \in DOMAIN issued' /\ issued'[t] = issued[t]
  BY <1>1, <1>2
<1>4. PICK n : Shaped(n) /\ n.stage = "fetching" /\ n.token = Len(issued') /\ Becomes(c, n)
  BY GoesShape DEF Issue, TInv
<1>5. /\ DOMAIN calls' = Calls
      /\ \A k \in Calls : calls'[k] = IF k = c THEN n ELSE calls[k]
  BY <1>4 DEF Becomes, TInv, Shapes
<1>6. \A k \in Calls : Shaped(calls'[k])
  BY <1>4, <1>5 DEF TInv, Shapes
<1>7. \A k \in Calls : Underway(calls[k])'
  <2> SUFFICES ASSUME NEW k \in Calls PROVE Underway(calls[k])'
    OBVIOUS
  <2>1. CASE k = c
    BY <1>1, <1>2, <1>3, <1>4, <1>5, <2>1, TimeAssumption DEF Underway
  <2>2. CASE k # c
    BY <1>1, <1>3, <1>5, <2>2 DEF Underway, TInv
  <2> QED BY <2>1, <2>2
<1>8. (\A g \in Gateways : Within(memory[g], 0)') /\ Within(cache, Margin)'
  BY <1>1, <1>3 DEF Within, TInv
<1> QED BY <1>1, <1>2, <1>3, <1>5, <1>6, <1>7, <1>8 DEF TInv, Shapes, Shaped

\* A token that arrives is kept for its lifetime less the margin.
LEMMA FetchedStep == ASSUME TInv, NEW c \in Calls, Fetched(c) PROVE TInv'
<1>1. PICK t : t = calls[c].token
  OBVIOUS
<1> DEFINE kept == Cached(t, Ttl)
<1>2. UNCHANGED <<now, life, issued>> /\ memory' = [memory EXCEPT ![Home(c)] = kept]
      /\ cache' \in {cache, kept} /\ calls[c].stage = "fetching"
  BY <1>1 DEF Fetched, Stored
<1>3. /\ now \in Nat /\ life \in Nat /\ issued \in Seq(Nat)
      /\ memory \in [Gateways -> KeptType] /\ cache \in KeptType
  BY DEF TInv, Shapes
<1>4. t \in DOMAIN issued /\ now <= issued[t] + Transit
  BY <1>1, <1>2 DEF TInv, Underway
<1>5. t \in Nat /\ issued[t] \in Nat
  BY <1>3, <1>4
<1>6. kept \in KeptType /\ kept.token = t /\ kept.expires = now + (life - Margin)
  BY <1>3, <1>5, TimeAssumption DEF KeptType, Cached, Ttl
<1> HIDE DEF kept
<1>7. Within(kept, 0) /\ Within(kept, Margin)
  <2>1. now + (life - Margin) <= issued[t] + life + Transit - Margin
        /\ now + (life - Margin) <= issued[t] + life + Transit - 0
    BY <1>3, <1>4, <1>5, TimeAssumption
  <2> QED BY <1>4, <1>6, <2>1 DEF Within
<1>8. memory' \in [Gateways -> KeptType] /\ \A g \in Gateways : memory'[g] \in {memory[g], kept}
  BY <1>2, <1>3, <1>6
<1>9. PICK n : Shaped(n) /\ n.stage = "send" /\ Becomes(c, n)
  BY GoesShape DEF Fetched, Hands, TInv
<1>10. /\ DOMAIN calls' = Calls /\ \A k \in Calls : Shaped(calls'[k])
       /\ \A k \in Calls : Underway(calls[k])'
  BY <1>2, <1>9, OneCall
<1>11. \A g \in Gateways : Within(memory[g], 0)'
  BY <1>2, <1>7, <1>8 DEF Within, TInv
<1>12. cache' \in KeptType /\ Within(cache, Margin)'
  BY <1>2, <1>3, <1>6, <1>7 DEF Within, TInv
<1> QED BY <1>2, <1>3, <1>8, <1>10, <1>11, <1>12 DEF TInv, Shapes, Shaped

\* Time waits for a token on its way.
LEMMA TickStep == ASSUME TInv, Tick PROVE TInv'
<1>1. now' = now + 1 /\ now' \in Nat /\ UNCHANGED <<life, issued, cache, memory, calls>>
  BY DEF Tick, tokenVars, TInv, Shapes
<1>2. \A c \in Calls : Underway(calls[c])'
  <2> SUFFICES ASSUME NEW c \in Calls, calls[c].stage = "fetching"
               PROVE  calls[c].token \in DOMAIN issued /\ now + 1 <= issued[calls[c].token] + Transit
    BY <1>1 DEF Underway
  <2>1. PICK t : t = calls[c].token
    OBVIOUS
  <2>2. t \in DOMAIN issued /\ now < issued[t] + Transit
    BY <2>1 DEF Tick, TInv, Underway
  <2>3. now \in Nat /\ issued[t] \in Nat
    BY <2>2 DEF TInv, Shapes
  <2> QED BY <2>1, <2>2, <2>3, TimeAssumption
<1> QED BY <1>1, <1>2 DEF TInv, Shapes, Shaped, Within

-----------------------------------------------------------------------------
(* The theorem.                                                            *)

LEMMA TokensBegin == ASSUME Init PROVE TInv
<1>1. \A c \in Calls : calls[c] = Idle
  BY DEF Init
<1>2. \A c \in Calls : Shaped(calls[c]) /\ Underway(calls[c])
  BY <1>1, IdleShape DEF Underway
<1>3. Empty \in KeptType /\ Empty.token = 0
  BY DEF Empty, KeptType
<1>4. cache = Empty /\ memory = [g \in Gateways |-> Empty] /\ now = 0 /\ issued = <<>>
      /\ DOMAIN calls = Calls
  BY DEF Init, TokenInit
<1>5. life \in Nat
  BY BudgetAssumption DEF Init
<1>6. Within(cache, Margin) /\ \A g \in Gateways : Within(memory[g], 0)
  BY <1>3, <1>4 DEF Within
<1> QED BY <1>2, <1>3, <1>4, <1>5, <1>6 DEF TInv, Shapes

\* The copies of the token that the gateways keep in memory (token.go, Get and
\* fetchLocked) never outlive what the service granted, however the calls interleave.
THEOREM CopiesExpire == Spec => []MemoryWithinLife
<1>1. TInv => MemoryWithinLife
  <2> SUFFICES ASSUME TInv, NEW g \in Gateways, memory[g].token # 0
               PROVE  memory[g].expires <= issued[memory[g].token] + life + Transit
    BY DEF MemoryWithinLife
  <2>1. PICK kept : kept = memory[g]
    OBVIOUS
  <2>2. kept.token \in DOMAIN issued /\ kept.expires <= issued[kept.token] + life + Transit - 0
    BY <2>1 DEF TInv, Within
  <2>3. issued[kept.token] \in Nat /\ life \in Nat
    BY <2>2 DEF TInv, Shapes
  <2> QED BY <2>1, <2>2, <2>3, TimeAssumption
<1>2. TInv /\ [Next]_vars => TInv'
  <2> SUFFICES ASSUME TInv, [Next]_vars PROVE TInv'
    OBVIOUS
  <2>1. CASE UNCHANGED vars
    BY <2>1 DEF vars, tokenVars, TInv, Shapes, Shaped, Within, Underway
  <2>2. ASSUME NEW c \in Calls, NEW g \in Gateways,
               Greet(c, g) \/ \E m \in Messages : Deliver(c, g, m)
        PROVE  TInv'
    BY <2>2, BeginsStep
  <2>3. ASSUME NEW c \in Calls,
               SeenOrAdd(c) \/ Allow(c) \/ Reply(c) \/ Send(c) \/ FetchFails(c)
        PROVE  TInv'
    BY <2>3, SeenStep, AllowStep, ReplyStep, SendStep, FetchFailsStep
  <2>4. ASSUME NEW c \in Calls, TokenStep(c) PROVE TInv'
    BY <2>4, ReplyStep, GetCachedStep, RefreshStep, IssueStep, FetchedStep DEF TokenStep
  <2>5. ASSUME NEW g \in Gateways, Crash(g) PROVE TInv'
    BY <2>5, CrashStep
  <2>6. CASE Tick
    BY <2>6, TickStep
  <2> QED BY <2>1, <2>2, <2>3, <2>4, <2>5, <2>6 DEF Next, Rest
<1> QED BY <1>1, <1>2, TokensBegin, PTL DEF Spec

-----------------------------------------------------------------------------
(* The deduper.                                                            *)

Fields == {"stage", "gateway", "message", "token", "begun", "retried", "texts", "end", "checked", "asked",
           "allowed"}

Formed(call) == DOMAIN call = Fields /\ call.texts \in Nat /\ call.checked \in BOOLEAN

\* The deduper has not been asked about the call, or cannot.
Early(call) == call.stage \in {"idle", "arrived"}

Over(call) == call.stage = "done"

\* The call was not dropped, whether the deduper knew of its message or failed.
Passed(call) == ~Early(call) /\ call.end # "seen"

Outcomes == {"seen", "limited", "answered", "failed", "crashed"}

\* What is true of each call by itself.
Sound(call) ==
  /\ Formed(call)
  /\ ~Over(call) => call.texts = 0 /\ call.end = "open"
  /\ Over(call) => call.end \in Outcomes
  /\ call.texts <= 1
  /\ call.end = "answered" => call.texts = 1
  /\ Early(call) => call.checked = FALSE
  /\ call.stage = "idle" \/ Over(call) => call.gateway = None
  /\ call.stage = "idle" => call.message = None
  /\ call.end = "seen" => call.texts = 0

\* Call m was moved on from where call k stood, past the deduper.
Moved(k, m) ==
  /\ Sound(m)
  /\ ~Early(k) /\ ~Over(k) /\ Passed(m)
  /\ m.message = k.message /\ m.checked = k.checked

-----------------------------------------------------------------------------
(* What the operators make of a call.                                      *)

LEMMA IdleSound == Sound(Idle) /\ Early(Idle) /\ ~Over(Idle) /\ Idle.message = None /\ Idle.end = "open"
  BY DEF Idle, Sound, Formed, Fields, Early, Over

LEMMA EndsIs ==
  ASSUME NEW call, DOMAIN call = Fields, NEW end
  PROVE  LET n == Ends(call, end)
         IN  /\ DOMAIN n = Fields /\ n.stage = "done" /\ n.end = end /\ n.gateway = None
             /\ n.message = call.message /\ n.checked = call.checked /\ n.texts = call.texts
  BY DEF Ends, Fields

\* A call that ends before anything was pushed.
LEMMA EndsMoved ==
  ASSUME NEW call, Sound(call), ~Early(call), ~Over(call), NEW end \in {"limited", "failed", "crashed"}
  PROVE  Moved(call, Ends(call, end))
<1> DEFINE n == Ends(call, end)
<1>1. /\ DOMAIN n = Fields /\ n.stage = "done" /\ n.end = end /\ n.gateway = None
      /\ n.message = call.message /\ n.checked = call.checked /\ n.texts = call.texts
  BY EndsIs DEF Sound, Formed
<1> HIDE DEF n
<1>2. Moved(call, n)
  BY <1>1 DEF Moved, Sound, Formed, Early, Over, Passed, Outcomes
<1> QED BY <1>2 DEF n

\* ... and after it was.
LEMMA PushedMoved ==
  ASSUME NEW call, Sound(call), ~Early(call), ~Over(call), NEW taken,
         DOMAIN taken = Fields, taken.texts = 1, taken.message = call.message,
         taken.checked = call.checked, NEW end \in {"answered", "failed"}
  PROVE  Moved(call, Ends(taken, end))
<1> DEFINE n == Ends(taken, end)
<1>1. /\ DOMAIN n = Fields /\ n.stage = "done" /\ n.end = end /\ n.gateway = None
      /\ n.message = call.message /\ n.checked = call.checked /\ n.texts = 1
  BY EndsIs
<1> HIDE DEF n
<1>2. Moved(call, n)
  BY <1>1 DEF Moved, Sound, Formed, Early, Over, Passed, Outcomes
<1> QED BY <1>2 DEF n

\* A call that goes on.
LEMMA OnMoved ==
  ASSUME NEW call, Sound(call), ~Early(call), ~Over(call), NEW n, DOMAIN n = Fields,
         n.stage \notin {"idle", "arrived", "done"}, n.message = call.message, n.checked = call.checked,
         n.texts = call.texts, n.end = call.end
  PROVE  Moved(call, n)
  BY DEF Moved, Sound, Formed, Early, Over, Passed

LEMMA GoesMoved ==
  ASSUME NEW c \in Calls, DOMAIN calls = Calls, Sound(calls[c]), ~Early(calls[c]), ~Over(calls[c]),
         NEW s \in {"get", "fetch", "fetching", "send"}, NEW t, Goes(c, s, t)
  PROVE  \E n : Moved(calls[c], n) /\ Becomes(c, n)
<1> DEFINE n == [calls[c] EXCEPT !.stage = s, !.token = t]
<1>1. Becomes(c, n)
  BY DEF Goes, Becomes
<1>2. /\ DOMAIN n = Fields /\ n.stage = s /\ n.message = calls[c].message /\ n.checked = calls[c].checked
      /\ n.texts = calls[c].texts /\ n.end = calls[c].end
  BY DEF Sound, Formed, Fields
<1> HIDE DEF n
<1>3. Moved(calls[c], n)
  BY <1>2, OnMoved
<1> QED BY <1>1, <1>3

-----------------------------------------------------------------------------
(* The invariant of the deduper.                                           *)

\* A call that the deduper let pass on its message.
Cleared(call) == Passed(call) /\ call.checked = TRUE /\ call.message # None

DInv ==
  /\ DOMAIN calls = Calls
  /\ \A c \in Calls : Sound(calls[c])
  /\ \A c \in Calls : calls[c].end = "seen" \/ Cleared(calls[c]) => calls[c].message \in seen
  /\ \A c, d \in Calls :
       Cleared(calls[c]) /\ Cleared(calls[d]) /\ calls[c].message = calls[d].message => c = d
  /\ \A m \in seen : \E c \in Calls : calls[c].message = m /\ Passed(calls[c])

\* Whatever happens to calls past the deduper changes none of it.
LEMMA CallsKeep ==
  ASSUME DInv, seen' = seen, DOMAIN calls' = Calls,
         \A c \in Calls :
           \/ calls'[c] = calls[c]
           \/ Moved(calls[c], calls'[c])
           \/ Early(calls[c]) /\ Sound(calls'[c]) /\ calls'[c].end # "seen" /\ ~Cleared(calls'[c])
  PROVE  DInv'
<1>1. \A c \in Calls : Sound(calls'[c])
  BY DEF DInv, Moved
<1>2. \A c \in Calls : Cleared(calls'[c]) => Cleared(calls[c]) /\ calls'[c].message = calls[c].message
  <2> SUFFICES ASSUME NEW c \in Calls, Cleared(calls'[c])
               PROVE  Cleared(calls[c]) /\ calls'[c].message = calls[c].message
    OBVIOUS
  <2>1. ASSUME Moved(calls[c], calls'[c]) PROVE Cleared(calls[c]) /\ calls'[c].message = calls[c].message
    BY <2>1 DEF Moved, Cleared, Passed, Sound, Over, Early, DInv
  <2> QED BY <2>1
<1>3. \A c \in Calls : calls'[c].end = "seen" => calls'[c] = calls[c]
  BY DEF Moved, Passed
<1>4. \A c \in Calls : Passed(calls[c]) => Passed(calls'[c]) /\ calls'[c].message = calls[c].message
  BY DEF Moved, Passed
<1>5. \A c \in Calls : calls'[c].end = "seen" \/ Cleared(calls'[c]) => calls'[c].message \in seen
  BY <1>2, <1>3 DEF DInv
<1>6. \A c, d \in Calls :
        Cleared(calls'[c]) /\ Cleared(calls'[d]) /\ calls'[c].message = calls'[d].message => c = d
  BY <1>2 DEF DInv
<1>7. \A m \in seen : \E c \in Calls : calls'[c].message = m /\ Passed(calls'[c])
  BY <1>4 DEF DInv
<1>8. /\ \A c \in Calls : Early(calls[c])' <=> Early(calls'[c])
      /\ \A c \in Calls : Sound(calls[c])' <=> Sound(calls'[c])
      /\ \A c \in Calls : Passed(calls[c])' <=> Passed(calls'[c])
      /\ \A c \in Calls : Cleared(calls[c])' <=> Cleared(calls'[c])
  BY DEF Early, Sound, Passed, Cleared, Formed, Over
<1> QED BY <1>1, <1>5, <1>6, <1>7, <1>8 DEF DInv

LEMMA MovedKeeps ==
  ASSUME DInv, seen' = seen, NEW c \in Calls, NEW n, Moved(calls[c], n), Becomes(c, n)
  PROVE  DInv'
<1>1. DOMAIN calls' = Calls /\ \A k \in Calls : calls'[k] = IF k = c THEN n ELSE calls[k]
  BY DEF DInv, Becomes
<1> QED BY <1>1, CallsKeep

LEMMA BeginsKeeps ==
  ASSUME DInv, NEW c \in Calls, NEW g \in Gateways, Greet(c, g) \/ \E m \in Messages : Deliver(c, g, m)
  PROVE  DInv'
<1>1. PICK n : /\ Begins(c, n) /\ Sound(n) /\ n.end # "seen" /\ ~Cleared(n)
  <2>1. ASSUME Greet(c, g) PROVE \E n : Begins(c, n) /\ Sound(n) /\ n.end # "seen" /\ ~Cleared(n)
    <3> DEFINE n == [Idle EXCEPT !.stage = "get", !.gateway = g]
    <3>1. /\ DOMAIN n = Fields /\ n.stage = "get" /\ n.message = None /\ n.texts = 0 /\ n.end = "open"
          /\ n.checked = FALSE
      BY DEF Idle, Fields
    <3>2. Begins(c, n)
      BY <2>1 DEF Greet
    <3> HIDE DEF n
    <3>3. n.checked \in BOOLEAN
      BY <3>1
    <3> QED BY <3>1, <3>2, <3>3 DEF Sound, Formed, Early, Over, Cleared
  <2>2. ASSUME NEW m \in Messages, Deliver(c, g, m)
        PROVE  \E n : Begins(c, n) /\ Sound(n) /\ n.end # "seen" /\ ~Cleared(n)
    <3> DEFINE n == [Idle EXCEPT !.stage = "arrived", !.gateway = g, !.message = m]
    <3>1. /\ DOMAIN n = Fields /\ n.stage = "arrived" /\ n.texts = 0 /\ n.end = "open" /\ n.checked = FALSE
      BY DEF Idle, Fields
    <3>2. Begins(c, n)
      BY <2>2 DEF Deliver
    <3> HIDE DEF n
    <3>3. n.checked \in BOOLEAN
      BY <3>1
    <3> QED BY <3>1, <3>2, <3>3 DEF Sound, Formed, Early, Over, Cleared
  <2> QED BY <2>1, <2>2
<1>2. DOMAIN calls' = Calls /\ \A k \in Calls : calls'[k] = IF k = c THEN n ELSE calls[k]
  BY <1>1 DEF DInv, Begins, Becomes
<1>3. Early(calls[c]) /\ seen' = seen
  BY <1>1 DEF Begins, Early
<1> QED BY <1>1, <1>2, <1>3, CallsKeep

\* The deduper is asked: the call is dropped for another that passed, or it is the
\* one that passes, or nobody knows and it passes unchecked.
LEMMA SeenKeeps == ASSUME DInv, NEW c \in Calls, SeenOrAdd(c) PROVE DInv'
<1> DEFINE call == calls[c]
           mark == [call EXCEPT !.checked = TRUE]
           on   == [call EXCEPT !.stage = "limit", !.checked = TRUE]
           un   == HandledWhenUnsure(call)
           out  == Ends(mark, "seen")
<1>1. /\ Sound(call) /\ call.stage = "arrived" /\ DOMAIN call = Fields /\ call.texts = 0 /\ call.end = "open"
      /\ call.checked = FALSE
  BY DEF DInv, SeenOrAdd, Sound, Formed, Over, Early
<1>2. /\ DOMAIN mark = Fields /\ mark.message = call.message /\ mark.texts = 0 /\ mark.checked = TRUE
  BY <1>1 DEF Fields
<1>3. /\ DOMAIN on = Fields /\ on.message = call.message /\ on.texts = 0 /\ on.checked = TRUE
      /\ on.stage = "limit" /\ on.end = "open"
  BY <1>1 DEF Fields
<1>4. /\ DOMAIN un = Fields /\ un.message = call.message /\ un.texts = 0 /\ un.checked = FALSE
      /\ un.stage = "limit" /\ un.end = "open"
  BY <1>1 DEF Fields, HandledWhenUnsure
<1>5. /\ DOMAIN out = Fields /\ out.message = call.message /\ out.texts = 0 /\ out.checked = TRUE
      /\ out.stage = "done" /\ out.end = "seen" /\ out.gateway = None
  <2> HIDE DEF mark
  <2>1. /\ DOMAIN out = Fields /\ out.message = mark.message /\ out.texts = mark.texts
        /\ out.checked = mark.checked
        /\ out.stage = "done" /\ out.end = "seen" /\ out.gateway = None
    BY <1>2, EndsIs
  <2> QED BY <1>2, <2>1
<1>6. \/ call.message \in seen /\ Becomes(c, out) /\ seen' = seen
      \/ call.message \notin seen /\ Becomes(c, on) /\ seen' = seen \union {call.message}
      \/ Becomes(c, un) /\ seen' \in {seen, seen \union {call.message}}
  BY DEF SeenOrAdd
<1> HIDE DEF mark, on, un, out
<1>b. out.checked \in BOOLEAN /\ on.checked \in BOOLEAN /\ un.checked \in BOOLEAN
  BY <1>3, <1>4, <1>5
<1>c. out.checked # FALSE /\ un.checked # TRUE
  BY <1>4, <1>5
<1>7. PICK n : /\ Becomes(c, n) /\ Sound(n) /\ n.message = call.message
               /\ n.end = "seen" \/ Cleared(n) => call.message \in seen'
               /\ Passed(n) \/ seen' = seen
               /\ Cleared(n) => call.message \notin seen
               /\ seen' \in {seen, seen \union {call.message}}
  <2>1. Sound(out) /\ ~Cleared(out)
    BY <1>5, <1>b, <1>c DEF Sound, Formed, Early, Over, Outcomes, Cleared, Passed
  <2>2. Sound(on) /\ Passed(on) /\ on.end # "seen"
    BY <1>3, <1>b, <1>c DEF Sound, Formed, Early, Over, Passed
  <2>3. Sound(un) /\ Passed(un) /\ ~Cleared(un) /\ un.end # "seen"
    BY <1>4, <1>b, <1>c DEF Sound, Formed, Early, Over, Passed, Cleared
  <2> QED BY <1>3, <1>4, <1>5, <1>6, <2>1, <2>2, <2>3
<1>8. DOMAIN calls' = Calls /\ \A k \in Calls : calls'[k] = IF k = c THEN n ELSE calls[k]
  BY <1>7 DEF DInv, Becomes
<1>9. ~Passed(call)
  BY <1>1 DEF Passed, Early
<1> HIDE DEF call
<1>10. \A k \in Calls : Sound(calls'[k])
  BY <1>7, <1>8 DEF DInv
<1>11. \A k \in Calls : calls'[k].end = "seen" \/ Cleared(calls'[k]) => calls'[k].message \in seen'
  BY <1>7, <1>8 DEF DInv
<1>12. \A k, d \in Calls :
        Cleared(calls'[k]) /\ Cleared(calls'[d]) /\ calls'[k].message = calls'[d].message => k = d
  BY <1>7, <1>8 DEF DInv
<1>13. \A m \in seen' : \E k \in Calls : calls'[k].message = m /\ Passed(calls'[k])
  <2> SUFFICES ASSUME NEW m \in seen' PROVE \E k \in Calls : calls'[k].message = m /\ Passed(calls'[k])
    OBVIOUS
  <2>1. CASE m \in seen
    <3>1. PICK k \in Calls : calls[k].message = m /\ Passed(calls[k])
      BY <2>1 DEF DInv
    <3> QED BY <1>8, <1>9, <3>1 DEF call
  <2>2. CASE m \notin seen
    BY <1>7, <1>8, <2>2
  <2> QED BY <2>1, <2>2
<1>14. /\ \A k \in Calls : Sound(calls[k])' <=> Sound(calls'[k])
       /\ \A k \in Calls : Passed(calls[k])' <=> Passed(calls'[k])
       /\ \A k \in Calls : Cleared(calls[k])' <=> Cleared(calls'[k])
  BY DEF Early, Sound, Passed, Cleared, Formed, Over
<1> QED BY <1>8, <1>10, <1>11, <1>12, <1>13, <1>14 DEF DInv

\* The limiter allows a message, refuses it, or fails and it is handled.
LEMMA AllowKeeps == ASSUME DInv, NEW c \in Calls, Allow(c) PROVE DInv'
<1> DEFINE old  == calls[c]
           call == [old EXCEPT !.asked = now]
           no   == [call EXCEPT !.allowed = "no"]
           Handled(allowed) == [call EXCEPT !.stage = "reply", !.begun = now, !.allowed = allowed]
<1>1. Sound(old) /\ ~Early(old) /\ ~Over(old) /\ DOMAIN old = Fields
  <2>1. call.stage = old.stage /\ Sound(old) /\ DOMAIN old = Fields
    BY DEF DInv, Sound, Formed, Fields
  <2> QED BY <2>1 DEF Allow, Early, Over
<1>2. \A a : Moved(old, Handled(a))
  <2> SUFFICES ASSUME NEW a PROVE Moved(old, Handled(a))
    OBVIOUS
  <2> DEFINE n == Handled(a)
  <2>1. /\ DOMAIN n = Fields /\ n.stage = "reply" /\ n.message = old.message /\ n.checked = old.checked
        /\ n.texts = old.texts /\ n.end = old.end
    BY <1>1 DEF Fields
  <2> HIDE DEF n, old
  <2>2. Moved(old, n)
    BY <1>1, <2>1, OnMoved
  <2> QED BY <2>2 DEF n
<1>3. Moved(old, Ends(no, "limited"))
  <2>1. /\ DOMAIN no = Fields /\ no.message = old.message /\ no.checked = old.checked
        /\ no.texts = old.texts
    BY <1>1 DEF Fields
  <2> DEFINE n == Ends(no, "limited")
  <2> HIDE DEF no, old
  <2>2. /\ DOMAIN n = Fields /\ n.stage = "done" /\ n.end = "limited" /\ n.gateway = None
        /\ n.message = no.message /\ n.checked = no.checked /\ n.texts = no.texts
    BY <2>1, EndsIs
  <2> HIDE DEF n
  <2>3. Moved(old, n)
    BY <1>1, <2>1, <2>2 DEF Moved, Sound, Formed, Early, Over, Passed, Outcomes
  <2> QED BY <2>3 DEF n
<1>4. /\ Becomes(c, Handled("yes")) \/ Becomes(c, Handled("failed")) \/ Becomes(c, Ends(no, "limited"))
      /\ seen' = seen
  BY DEF Allow
<1> HIDE DEF Handled, no, old
<1>5. PICK n : Moved(old, n) /\ Becomes(c, n)
  BY <1>2, <1>3, <1>4
<1> QED BY <1>4, <1>5, MovedKeeps DEF old

\* The push is taken, lost, refused or fails: what is retried was not taken.
LEMMA SendKeeps == ASSUME DInv, NEW c \in Calls, Send(c) PROVE DInv'
<1> DEFINE call  == calls[c]
           taken == [call EXCEPT !.texts = @ + 1]
<1>1. Sound(call) /\ ~Early(call) /\ ~Over(call) /\ DOMAIN call = Fields /\ call.texts = 0 /\ call.end = "open"
  BY DEF DInv, Sound, Formed, Early, Over, Send
<1>2. DOMAIN taken = Fields /\ taken.texts = 1 /\ taken.message = call.message /\ taken.checked = call.checked
  BY <1>1 DEF Fields
<1>3. /\ \/ Becomes(c, Ends(taken, "answered")) \/ Becomes(c, Failed(taken, "lost"))
         \/ Becomes(c, Failed(call, "expired")) \/ Becomes(c, Failed(call, "other"))
      /\ seen' = seen
  BY DEF Send
<1> HIDE DEF taken, call
<1>4. Moved(call, Ends(taken, "answered"))
  BY <1>1, <1>2, PushedMoved
<1>5. Moved(call, Failed(taken, "lost"))
  <2>1. Failed(taken, "lost") = Ends(taken, "failed")
    BY DEF Failed, IsTokenExpiredError
  <2> QED BY <1>1, <1>2, <2>1, PushedMoved
<1>6. \A e : Moved(call, Failed(call, e))
  <2> SUFFICES ASSUME NEW e PROVE Moved(call, Failed(call, e))
    OBVIOUS
  <2>1. CASE IsTokenExpiredError(e) /\ ~call.retried
    <3> DEFINE n == [call EXCEPT !.stage = "refresh", !.token = 0, !.retried = TRUE]
    <3>1. /\ DOMAIN n = Fields /\ n.stage = "refresh" /\ n.message = call.message /\ n.checked = call.checked
          /\ n.texts = call.texts /\ n.end = call.end
      BY <1>1 DEF Fields
    <3>2. Failed(call, e) = n
      BY <2>1 DEF Failed
    <3> HIDE DEF n
    <3> QED BY <1>1, <3>1, <3>2, OnMoved
  <2>2. CASE ~(IsTokenExpiredError(e) /\ ~call.retried)
    <3>1. Failed(call, e) = Ends(call, "failed")
      BY <2>2 DEF Failed
    <3> QED BY <1>1, <3>1, EndsMoved
  <2> QED BY <2>1, <2>2
<1>7. PICK n : Moved(call, n) /\ Becomes(c, n)
  BY <1>3, <1>4, <1>5, <1>6
<1> QED BY <1>3, <1>7, MovedKeeps DEF call

LEMMA WaitingKeeps ==
  ASSUME DInv, NEW c \in Calls, Reply(c) \/ TokenStep(c) \/ FetchFails(c)
  PROVE  DInv'
<1>1. Sound(calls[c]) /\ ~Early(calls[c]) /\ ~Over(calls[c]) /\ seen' = seen /\ DOMAIN calls = Calls
  BY DEF DInv, Early, Over, Reply, TokenStep, FetchFails, GetKept, GetCached, GetNone, Refresh, Issue, Fetched
<1>2. (\E s \in {"get", "fetch", "fetching", "send"} : \E t : Goes(c, s, t)) \/ Becomes(c, Ends(calls[c], "failed"))
  BY DEF Reply, TokenStep, FetchFails, GetKept, GetCached, GetNone, Refresh, Issue, Fetched, Fetches, Hands
<1>3. Moved(calls[c], Ends(calls[c], "failed"))
  BY <1>1, EndsMoved
<1>4. PICK n : Moved(calls[c], n) /\ Becomes(c, n)
  BY <1>1, <1>2, <1>3, GoesMoved
<1> QED BY <1>1, <1>4, MovedKeeps

\* The calls of a gateway die with it; a call that is over has none.
LEMMA CrashKeeps == ASSUME DInv, NEW g \in Gateways, Crash(g) PROVE DInv'
<1>1. /\ DOMAIN calls' = Calls /\ seen' = seen
      /\ \A c \in Calls : calls'[c] = IF calls[c].gateway = g THEN Ends(calls[c], "crashed") ELSE calls[c]
  BY DEF Crash
<1>2. ASSUME NEW c \in Calls, calls[c].gateway = g
      PROVE  \/ Moved(calls[c], Ends(calls[c], "crashed"))
             \/ /\ Early(calls[c]) /\ Sound(Ends(calls[c], "crashed"))
                /\ Ends(calls[c], "crashed").end # "seen" /\ ~Cleared(Ends(calls[c], "crashed"))
  <2> DEFINE n == Ends(calls[c], "crashed")
  <2>1. Sound(calls[c]) /\ ~Over(calls[c])
    BY <1>2, NoneAssumption DEF DInv, Sound
  <2>2. /\ DOMAIN n = Fields /\ n.stage = "done" /\ n.end = "crashed" /\ n.gateway = None
        /\ n.checked = calls[c].checked /\ n.texts = calls[c].texts
    BY <2>1, EndsIs DEF Sound, Formed
  <2> HIDE DEF n
  <2>3. CASE Early(calls[c])
    <3>1. n.checked = FALSE /\ n.checked \in BOOLEAN /\ n.texts = 0
      BY <2>1, <2>2, <2>3 DEF Sound
    <3>2. n.checked # TRUE
      BY <3>1
    <3> QED BY <2>2, <2>3, <3>1, <3>2 DEF n, Sound, Formed, Early, Over, Outcomes, Cleared
  <2>4. CASE ~Early(calls[c])
    BY <2>1, <2>4, EndsMoved DEF n
  <2> QED BY <2>3, <2>4 DEF n
<1> QED BY <1>1, <1>2, CallsKeep

-----------------------------------------------------------------------------
LEMMA InitDInv == ASSUME Init PROVE DInv
<1>1. seen = {} /\ DOMAIN calls = Calls /\ \A c \in Calls : calls[c] = Idle
  BY DEF Init
<1> QED BY <1>1, IdleSound DEF DInv, Cleared, Passed

LEMMA NextDInv == DInv /\ [Next]_vars => DInv'
<1> SUFFICES ASSUME DInv, [Next]_vars PROVE DInv'
  OBVIOUS
<1>1. ASSUME UNCHANGED <<calls, seen>> PROVE DInv'
  BY <1>1, CallsKeep DEF DInv
<1>2. ASSUME NEW c \in Calls, NEW g \in Gateways, Greet(c, g) \/ \E m \in Messages : Deliver(c, g, m)
      PROVE  DInv'
  BY <1>2, BeginsKeeps
<1>3. ASSUME NEW c \in Calls,
             SeenOrAdd(c) \/ Allow(c) \/ Reply(c) \/ TokenStep(c) \/ Send(c) \/ FetchFails(c)
      PROVE  DInv'
  BY <1>3, SeenKeeps, AllowKeeps, SendKeeps, WaitingKeeps
<1>4. ASSUME NEW g \in Gateways, Crash(g) PROVE DInv'
  BY <1>4, CrashKeeps
<1>5. CASE Tick \/ Rest \/ UNCHANGED vars
  BY <1>1, <1>5 DEF Tick, Rest, vars
<1> QED BY <1>2, <1>3, <1>4, <1>5 DEF Next

\* MessageDeduper.SeenOrAdd lets at most one call pass on a message, and the set it
\* keeps holds that message then.
THEOREM DeduperHolds == Spec => []DInv
<1> QED BY InitDInv, NextDInv, PTL DEF Spec

\* However often WeChat delivers a message, to whichever gateway, receive and
\* handleAsync push one reply, where the deduper could say what it saw; and the retry
\* with a new token (pushTextWithTokenRefresh) pushes no text that was taken.
THEOREM OneReply == Spec => []RepliedOnce
<1>1. DInv => RepliedOnce
  <2> SUFFICES ASSUME DInv PROVE RepliedOnce
    OBVIOUS
  <2>1. \A c \in Calls : calls[c].texts <= 1
    BY DEF DInv, Sound
  <2>2. ASSUME NEW m \in Messages
        PROVE  Cardinality({c \in Calls : calls[c].message = m /\ calls[c].checked /\ calls[c].texts > 0}) <= 1
    <3> DEFINE R == {c \in Calls : calls[c].message = m /\ calls[c].checked /\ calls[c].texts > 0}
    <3>1. ASSUME NEW c \in R PROVE c \in Calls /\ Cleared(calls[c]) /\ calls[c].message = m
      <4>1. c \in Calls /\ calls[c].message = m /\ calls[c].checked /\ calls[c].texts > 0
        OBVIOUS
      <4>2. Sound(calls[c]) /\ calls[c].checked \in BOOLEAN
        BY <4>1 DEF DInv, Sound, Formed
      <4>3. calls[c].checked = TRUE
        BY <4>1, <4>2
      <4>4. calls[c].texts # 0
        BY <4>1
      <4>5. calls[c].stage = "done" /\ calls[c].end # "seen"
        BY <4>2, <4>4 DEF Sound, Over
      <4> QED BY <4>1, <4>3, <4>5, NoneAssumption DEF Cleared, Passed, Early
    <3>2. \A c, d \in R : c = d
      BY <3>1 DEF DInv
    <3> HIDE DEF R
    <3>3. R = {} \/ \E c : R = {c}
      BY <3>2
    <3>4. Cardinality(R) \in {0, 1}
      BY <3>3, FS_EmptySet, FS_Singleton
    <3> QED BY <3>4 DEF R
  <2> QED BY <2>1, <2>2 DEF RepliedOnce
<1> QED BY <1>1, DeduperHolds, PTL

\* receive drops a delivery only in favour of one that handleAsync took up: a message
\* nobody answers was refused by the limiter, failed, or died with its gateway.
THEOREM SilenceIsExplained == Spec => []SilenceHasAReason
<1>1. DInv => SilenceHasAReason
  <2> SUFFICES ASSUME DInv, NEW m \in Messages, NEW e \in Calls, calls[e].message = m,
                      \A c \in Calls : calls[c].message = m => calls[c].stage = "done" /\ calls[c].texts = 0
               PROVE  \E c \in Calls : calls[c].message = m /\ calls[c].end \in {"limited", "crashed", "failed"}
    BY DEF SilenceHasAReason
  <2>1. PICK c \in Calls : calls[c].message = m /\ calls[c].end # "seen"
    <3>1. CASE calls[e].end = "seen"
      <4>1. m \in seen
        BY <3>1 DEF DInv
      <4> QED BY <4>1 DEF DInv, Passed
    <3>2. CASE calls[e].end # "seen"
      BY <3>2
    <3> QED BY <3>1, <3>2
  <2>2. Sound(calls[c]) /\ Over(calls[c]) /\ calls[c].texts = 0
    BY <2>1 DEF DInv, Over
  <2>3. calls[c].end \in {"limited", "crashed", "failed"}
    BY <2>1, <2>2 DEF Sound, Outcomes
  <2> QED BY <2>1, <2>3
<1> QED BY <1>1, DeduperHolds, PTL

-----------------------------------------------------------------------------
(* The limiter.                                                            *)

(* Counting the limiter's answers.                                         *)

\* The calls cs to which the limiter answered as in A at a time of lo .. hi.
Told(cs, A, lo, hi) == {c \in Calls : cs[c].allowed \in A /\ cs[c].asked \in lo .. hi}
Number(cs, A, lo, hi) == Cardinality(Told(cs, A, lo, hi))

\* The calls that asked the limiter at all.
Heard(cs) == {c \in Calls : cs[c].allowed # "unasked"}

Answers == {"yes", "no", "failed"}

LEMMA ToldFinite ==
  ASSUME NEW cs, IsFiniteSet(Heard(cs)), NEW A \in SUBSET Answers, NEW lo \in Int, NEW hi \in Int
  PROVE  IsFiniteSet(Told(cs, A, lo, hi)) /\ Number(cs, A, lo, hi) \in Nat
<1>1. Told(cs, A, lo, hi) \in SUBSET Heard(cs)
  BY DEF Told, Heard, Answers
<1> QED BY <1>1, FS_Subset, FS_CardinalityType DEF Number

\* A larger span, and more answers that count, hold no fewer calls.
LEMMA NumberWithin ==
  ASSUME NEW cs, IsFiniteSet(Heard(cs)), NEW A \in SUBSET Answers, NEW lo \in Int, NEW hi \in Int,
         NEW S \in SUBSET Told(cs, A, lo, hi)
  PROVE  IsFiniteSet(S) /\ Cardinality(S) \in Nat /\ Cardinality(S) <= Number(cs, A, lo, hi)
  BY ToldFinite, FS_Subset, FS_CardinalityType DEF Number

\* A span is no more than its two parts.
LEMMA NumberSplits ==
  ASSUME NEW cs, IsFiniteSet(Heard(cs)), NEW A \in SUBSET Answers,
         NEW lo \in Int, NEW hi \in Int, NEW b \in Int, NEW e \in Int, NEW m \in Int,
         Told(cs, A, lo, hi) \subseteq Told(cs, A, b, m - 1) \union Told(cs, A, m, e)
  PROVE  Number(cs, A, lo, hi) <= Number(cs, A, b, m - 1) + Number(cs, A, m, e)
<1> DEFINE S == Told(cs, A, b, m - 1)
           T == Told(cs, A, m, e)
           X == Told(cs, A, lo, hi)
<1>1. m - 1 \in Int
  OBVIOUS
<1>2. IsFiniteSet(S) /\ IsFiniteSet(T)
  BY <1>1, ToldFinite
<1>3. X \in SUBSET (S \union T)
  OBVIOUS
<1> HIDE DEF S, T, X
<1>4. IsFiniteSet(S \union T) /\ Cardinality(S \union T) = Cardinality(S) + Cardinality(T) - Cardinality(S \cap T)
  BY <1>2, FS_Union
<1>5. S \cap T \in SUBSET S
  OBVIOUS
<1>6. Cardinality(S \cap T) \in Nat /\ Cardinality(S) \in Nat /\ Cardinality(T) \in Nat
  BY <1>2, <1>5, FS_Subset, FS_CardinalityType
<1>7. Cardinality(X) <= Cardinality(S \union T) /\ Cardinality(X) \in Nat
  BY <1>3, <1>4, FS_Subset, FS_CardinalityType
<1>8. Cardinality(X) <= Cardinality(S) + Cardinality(T)
  BY <1>4, <1>6, <1>7
<1> QED BY <1>8 DEF Number, S, T, X

\* One call more is told a at time n.
LEMMA OneTold ==
  ASSUME NEW cs, NEW ds, IsFiniteSet(Heard(cs)), NEW c \in Calls, NEW a \in Answers, NEW n \in Nat,
         cs[c].allowed = "unasked", ds[c].allowed = a, ds[c].asked = n,
         \A k \in Calls : k # c => ds[k].allowed = cs[k].allowed /\ ds[k].asked = cs[k].asked
  PROVE  /\ IsFiniteSet(Heard(ds))
         /\ \A A \in SUBSET Answers, lo, hi \in Int :
              Number(ds, A, lo, hi) = IF a \in A /\ n \in lo .. hi THEN Number(cs, A, lo, hi) + 1
                                      ELSE Number(cs, A, lo, hi)
<1>1. Heard(ds) = Heard(cs) \union {c}
  BY DEF Heard, Answers
<1>2. IsFiniteSet(Heard(ds))
  BY <1>1, FS_AddElement
<1>3. ASSUME NEW A \in SUBSET Answers, NEW lo \in Int, NEW hi \in Int
      PROVE  Number(ds, A, lo, hi) = IF a \in A /\ n \in lo .. hi THEN Number(cs, A, lo, hi) + 1
                                     ELSE Number(cs, A, lo, hi)
  <2>1. c \notin Told(cs, A, lo, hi)
    BY DEF Told, Answers
  <2>2. CASE a \in A /\ n \in lo .. hi
    <3>1. Told(ds, A, lo, hi) = Told(cs, A, lo, hi) \union {c}
      BY <2>2 DEF Told
    <3> QED BY <2>1, <2>2, <3>1, ToldFinite, FS_AddElement DEF Number
  <2>3. CASE ~(a \in A /\ n \in lo .. hi)
    <3>1. Told(ds, A, lo, hi) = Told(cs, A, lo, hi)
      BY <2>1, <2>3 DEF Told
    <3> QED BY <2>3, <3>1 DEF Number
  <2> QED BY <2>2, <2>3
<1> QED BY <1>2, <1>3

\* The same calls are told the same.
LEMMA SameTold ==
  ASSUME NEW cs, NEW ds,
         \A k \in Calls : ds[k].allowed = cs[k].allowed /\ ds[k].asked = cs[k].asked
  PROVE  /\ Heard(ds) = Heard(cs)
         /\ \A A, lo, hi : Number(ds, A, lo, hi) = Number(cs, A, lo, hi)
  BY DEF Heard, Number, Told

-----------------------------------------------------------------------------
(* The windows: of the calls that were let pass, at most Limit belong to   *)
(* the last window and at most Limit to the length of a window before it.  *)

Passes  == {"yes"}
Served == {"yes", "failed"}

LastSpan(cs, A, w)   == Number(cs, A, w.expires - Window, w.expires - 1)
BeforeSpan(cs, A, w) == Number(cs, A, w.expires - Window - Window + 1, w.expires - Window - 1)

WindowInv(cs, w, t) ==
  /\ IsFiniteSet(Heard(cs))
  /\ w.count \in Nat /\ w.expires \in Nat /\ t \in Nat /\ w.expires <= t + Window
  /\ \A c \in Calls :
       /\ cs[c].asked \in Nat
       /\ cs[c].allowed # "unasked" => cs[c].allowed \in Answers /\ cs[c].asked <= t
       /\ cs[c].allowed = "yes" => cs[c].asked < w.expires
  /\ LastSpan(cs, Passes, w) <= Limit /\ LastSpan(cs, Passes, w) <= w.count
  /\ BeforeSpan(cs, Passes, w) <= Limit
  /\ t < w.expires => LastSpan(cs, Served, w) >= w.count \/ LastSpan(cs, Served, w) >= Limit

\* What fixedWindowAllowScript makes of w at time t.
CountedOn(w, v, t) ==
  \/ t < w.expires /\ v.count = w.count + 1 /\ v.expires = w.expires
  \/ t >= w.expires /\ v.count = 1 /\ v.expires = t + Window

\* The answer that goes with it.
Answered(w, v, t, a) ==
  \/ a = "yes" /\ CountedOn(w, v, t) /\ v.count <= Limit
  \/ a = "no" /\ CountedOn(w, v, t) /\ v.count > Limit
  \/ a = "failed" /\ (v = w \/ CountedOn(w, v, t))

\* Calls cs become ds when call c is told a at time t.
Tells(cs, ds, c, a, t) ==
  /\ cs[c].allowed = "unasked" /\ ds[c].allowed = a /\ ds[c].asked = t
  /\ \A k \in Calls : k # c => ds[k].allowed = cs[k].allowed /\ ds[k].asked = cs[k].asked

\* Telling call c the answer a at time t counts it where a and t belong.
LEMMA TellsCounts ==
  ASSUME NEW cs, NEW ds, IsFiniteSet(Heard(cs)), NEW c \in Calls, NEW a \in Answers, NEW t \in Nat,
         Tells(cs, ds, c, a, t)
  PROVE  /\ IsFiniteSet(Heard(ds))
         /\ \A A \in SUBSET Answers, lo, hi \in Int :
              Number(ds, A, lo, hi) = IF a \in A /\ t \in lo .. hi THEN Number(cs, A, lo, hi) + 1
                                      ELSE Number(cs, A, lo, hi)
<1>1. /\ cs[c].allowed = "unasked" /\ ds[c].allowed = a /\ ds[c].asked = t
      /\ \A k \in Calls : k # c => ds[k].allowed = cs[k].allowed /\ ds[k].asked = cs[k].asked
  BY DEF Tells
<1> QED BY <1>1, OneTold

LEMMA AnswerSets == Passes \in SUBSET Answers /\ Served \in SUBSET Answers
  BY DEF Passes, Served, Answers

LEMMA WindowStep ==
  ASSUME NEW cs, NEW ds, NEW w, NEW v, NEW t, WindowInv(cs, w, t), NEW c \in Calls, NEW a \in Answers,
         Tells(cs, ds, c, a, t), Answered(w, v, t, a)
  PROVE  WindowInv(ds, v, t)
<1> DEFINE e == w.expires
           f == v.expires
<1>1. /\ e \in Nat /\ w.count \in Nat /\ t \in Nat /\ e <= t + Window /\ IsFiniteSet(Heard(cs))
      /\ Limit \in Nat \ {0} /\ Window \in Nat \ {0}
  BY LimiterAssumption DEF WindowInv
<1>2. f \in Nat /\ v.count \in Nat /\ f <= t + Window
  BY <1>1 DEF Answered, CountedOn
<1>3. /\ IsFiniteSet(Heard(ds))
      /\ \A A \in SUBSET Answers, lo, hi \in Int :
           Number(ds, A, lo, hi) = IF a \in A /\ t \in lo .. hi THEN Number(cs, A, lo, hi) + 1
                                   ELSE Number(cs, A, lo, hi)
  BY <1>1, TellsCounts
<1>4. \A k \in Calls :
        /\ ds[k].asked \in Nat
        /\ ds[k].allowed # "unasked" => ds[k].allowed \in Answers /\ ds[k].asked <= t
        /\ ds[k].allowed = "yes" => ds[k].asked < v.expires
  <2> SUFFICES ASSUME NEW k \in Calls
               PROVE  /\ ds[k].asked \in Nat
                      /\ ds[k].allowed # "unasked" => ds[k].allowed \in Answers /\ ds[k].asked <= t
                      /\ ds[k].allowed = "yes" => ds[k].asked < f
    OBVIOUS
  <2>1. CASE k = c
    BY <1>1, <1>2, <2>1 DEF Tells, Answered, CountedOn
  <2>2. CASE k # c
    <3>1. e <= f
      BY <1>1 DEF Answered, CountedOn
    <3>2. /\ cs[k].asked \in Nat
          /\ cs[k].allowed # "unasked" => cs[k].allowed \in Answers /\ cs[k].asked <= t
          /\ cs[k].allowed = "yes" => cs[k].asked < e
      BY DEF WindowInv
    <3> QED BY <1>1, <1>2, <2>2, <3>1, <3>2 DEF Tells
  <2> QED BY <2>1, <2>2
<1>5. \A A \in SUBSET Answers, lo, hi \in Int : Number(cs, A, lo, hi) \in Nat
  BY <1>1, ToldFinite DEF WindowInv
<1>6. CASE f = e /\ ((v.count = w.count /\ a = "failed") \/ (t < e /\ v.count = w.count + 1))
  <2>1. e - Window \in Int /\ e - 1 \in Int /\ e - Window - Window + 1 \in Int /\ e - Window - 1 \in Int
        /\ t \notin (e - Window - Window + 1) .. (e - Window - 1)
        /\ (t < e => t \in (e - Window) .. (e - 1))
    BY <1>1
  <2>2. LastSpan(ds, Passes, v) = IF a = "yes" /\ t < e THEN LastSpan(cs, Passes, w) + 1 ELSE LastSpan(cs, Passes, w)
    BY <1>1, <1>3, <1>6, <2>1, AnswerSets DEF LastSpan, Passes
  <2>3. BeforeSpan(ds, Passes, v) = BeforeSpan(cs, Passes, w)
    BY <1>3, <1>6, <2>1, AnswerSets DEF BeforeSpan
  <2>4. t < e => LastSpan(ds, Served, v) = IF a \in Served THEN LastSpan(cs, Served, w) + 1
                                            ELSE LastSpan(cs, Served, w)
    BY <1>3, <1>6, <2>1, AnswerSets DEF LastSpan
  <2>5. /\ LastSpan(cs, Passes, w) <= Limit /\ LastSpan(cs, Passes, w) <= w.count
        /\ BeforeSpan(cs, Passes, w) <= Limit
        /\ t < e => LastSpan(cs, Served, w) >= w.count \/ LastSpan(cs, Served, w) >= Limit
        /\ LastSpan(cs, Passes, w) \in Nat /\ LastSpan(cs, Served, w) \in Nat
    BY <1>5, <2>1, AnswerSets DEF WindowInv, LastSpan
  <2>6. a = "yes" => v.count = w.count + 1 /\ v.count <= Limit
    BY <1>1, <1>6 DEF Answered, CountedOn
  <2>7. LastSpan(ds, Passes, v) <= Limit /\ LastSpan(ds, Passes, v) <= v.count
    BY <1>1, <1>6, <2>2, <2>5, <2>6
  <2>8. ASSUME t < e PROVE LastSpan(ds, Served, v) >= v.count \/ LastSpan(ds, Served, v) >= Limit
    <3>1. CASE a \in Served
      BY <1>1, <1>6, <2>4, <2>5, <2>8, <3>1
    <3>2. CASE a \notin Served
      <4>1. v.count = w.count + 1 /\ v.count > Limit
        BY <1>1, <1>6, <3>2 DEF Answered, CountedOn, Served
      <4> QED BY <1>1, <2>4, <2>5, <2>8, <3>2, <4>1
    <3> QED BY <3>1, <3>2
  <2> QED BY <1>1, <1>2, <1>3, <1>4, <1>6, <2>3, <2>5, <2>7, <2>8 DEF WindowInv
<1>7. CASE t >= e /\ v.count = 1 /\ f = t + Window /\ a \in Served
  <2>1. /\ f - Window = t /\ f - 1 = t + Window - 1 /\ f - Window - Window + 1 = t - Window + 1
        /\ f - Window - 1 = t - 1
        /\ t \in t .. (t + Window - 1) /\ t \notin (t - Window + 1) .. (t - 1)
        /\ t + Window - 1 \in Int /\ t - Window + 1 \in Int /\ t - 1 \in Int /\ t \in Int
    BY <1>1, <1>7
  <2>2. Told(cs, Passes, t, t + Window - 1) = {}
    BY <1>1, <1>7 DEF Told, Passes, WindowInv
  <2>3. Number(cs, Passes, t, t + Window - 1) = 0
    BY <2>2, FS_EmptySet DEF Number
  <2>4. LastSpan(ds, Passes, v) <= 1
    <3>1. LastSpan(ds, Passes, v) = Number(ds, Passes, t, t + Window - 1)
      BY <2>1 DEF LastSpan
    <3> QED BY <1>3, <2>1, <2>3, <3>1, AnswerSets
  <2>5. LastSpan(ds, Served, v) >= 1
    <3>1. LastSpan(ds, Served, v) = Number(cs, Served, t, t + Window - 1) + 1
      BY <1>3, <1>7, <2>1, AnswerSets DEF LastSpan
    <3>2. Number(cs, Served, t, t + Window - 1) \in Nat
      BY <1>5, <2>1, AnswerSets
    <3> QED BY <3>1, <3>2
  <2>6. BeforeSpan(ds, Passes, v) = Number(cs, Passes, t - Window + 1, t - 1)
    BY <1>3, <2>1, AnswerSets DEF BeforeSpan
  <2>7. Told(cs, Passes, t - Window + 1, t - 1) \subseteq Told(cs, Passes, e - Window, e - 1)
    <3> SUFFICES ASSUME NEW k \in Told(cs, Passes, t - Window + 1, t - 1)
                 PROVE  k \in Told(cs, Passes, e - Window, e - 1)
      OBVIOUS
    <3>1. k \in Calls /\ cs[k].allowed = "yes" /\ cs[k].asked \in (t - Window + 1) .. (t - 1)
      BY DEF Told, Passes
    <3>2. cs[k].asked < e /\ cs[k].asked \in Nat
      BY <3>1 DEF WindowInv
    <3>3. cs[k].asked \in (e - Window) .. (e - 1)
      BY <1>1, <1>7, <3>1, <3>2
    <3> QED BY <3>1, <3>3 DEF Told, Passes
  <2>8. Number(cs, Passes, t - Window + 1, t - 1) <= LastSpan(cs, Passes, w)
        /\ Number(cs, Passes, t - Window + 1, t - 1) \in Nat
    <3>1. e - Window \in Int /\ e - 1 \in Int
      BY <1>1
    <3> QED BY <1>1, <2>7, <3>1, AnswerSets, NumberWithin DEF LastSpan, Number
  <2>9. LastSpan(cs, Passes, w) <= Limit /\ LastSpan(cs, Passes, w) \in Nat
    <3>1. e - Window \in Int /\ e - 1 \in Int
      BY <1>1
    <3> QED BY <1>5, <3>1, AnswerSets DEF WindowInv, LastSpan
  <2>10. BeforeSpan(ds, Passes, v) <= Limit
    BY <1>1, <2>6, <2>8, <2>9
  <2>11. LastSpan(ds, Passes, v) <= Limit
    <3>1. LastSpan(ds, Passes, v) \in Nat
      BY <1>3, <2>1, AnswerSets, ToldFinite DEF LastSpan
    <3> QED BY <1>1, <2>4, <3>1
  <2> QED BY <1>1, <1>2, <1>3, <1>4, <1>7, <2>4, <2>5, <2>10, <2>11 DEF WindowInv
<1>8. \/ f = e /\ ((v.count = w.count /\ a = "failed") \/ (t < e /\ v.count = w.count + 1))
      \/ t >= e /\ v.count = 1 /\ f = t + Window /\ a \in Served
  <2>1. CASE a = "failed" /\ v = w
    <3>1. f = e /\ v.count = w.count
      BY <2>1
    <3> QED BY <2>1, <3>1
  <2>2. CASE CountedOn(w, v, t) /\ a \in {"yes", "failed"}
    BY <1>1, <2>2 DEF CountedOn, Served
  <2>3. CASE CountedOn(w, v, t) /\ v.count > Limit
    <3>1. Limit >= 1
      BY <1>1
    <3> QED BY <1>1, <2>3, <3>1 DEF CountedOn
  <2> QED BY <2>1, <2>2, <2>3 DEF Answered
<1> QED BY <1>6, <1>7, <1>8

AtMostTwice(cs) == \A b \in Int : Number(cs, Passes, b, b + Window - 1) <= 2 * Limit

\* A span that holds the time of the new call holds, before the last window, no more
\* than the length of a window.
LEMMA AtMostTwiceStep ==
  ASSUME NEW cs, NEW ds, NEW w, NEW v, NEW t, WindowInv(cs, w, t), NEW c \in Calls, NEW a \in Answers,
         Tells(cs, ds, c, a, t), Answered(w, v, t, a), AtMostTwice(cs)
  PROVE  AtMostTwice(ds)
<1>1. WindowInv(ds, v, t)
  BY WindowStep
<1> DEFINE f == v.expires
<1>2. /\ f \in Int /\ t \in Nat /\ f <= t + Window /\ IsFiniteSet(Heard(cs)) /\ IsFiniteSet(Heard(ds))
      /\ Limit \in Nat \ {0} /\ Window \in Nat \ {0}
  BY <1>1, LimiterAssumption DEF WindowInv
<1>0. \A A \in SUBSET Answers, lo, hi \in Int :
        Number(ds, A, lo, hi) = IF a \in A /\ t \in lo .. hi THEN Number(cs, A, lo, hi) + 1
                                ELSE Number(cs, A, lo, hi)
  BY <1>2, TellsCounts
<1> SUFFICES ASSUME NEW b \in Int PROVE Number(ds, Passes, b, b + Window - 1) <= 2 * Limit
  BY DEF AtMostTwice
<1>3. b + Window - 1 \in Int /\ f - Window \in Int /\ f - Window - 1 \in Int /\ f - 1 \in Int
      /\ f - Window - Window + 1 \in Int
  BY <1>2
<1>4. CASE b > f - Window - Window /\ b <= f - 1
  <2>1. CASE b > f - Window
    <3>1. Told(ds, Passes, b, b + Window - 1) \subseteq Told(ds, Passes, f - Window, f - 1)
      <4> SUFFICES ASSUME NEW k \in Told(ds, Passes, b, b + Window - 1)
                   PROVE  k \in Told(ds, Passes, f - Window, f - 1)
        OBVIOUS
      <4>1. k \in Calls /\ ds[k].allowed = "yes" /\ ds[k].asked \in b .. (b + Window - 1)
        BY DEF Told, Passes
      <4>2. ds[k].asked < f /\ ds[k].asked \in Nat
        BY <1>1, <4>1 DEF WindowInv
      <4>3. ds[k].asked \in (f - Window) .. (f - 1)
        BY <1>2, <2>1, <4>1, <4>2
      <4> QED BY <4>1, <4>3 DEF Told, Passes
    <3>2. Number(ds, Passes, b, b + Window - 1) <= LastSpan(ds, Passes, v)
          /\ Number(ds, Passes, b, b + Window - 1) \in Nat
      BY <1>2, <1>3, <3>1, AnswerSets, NumberWithin DEF LastSpan, Number
    <3>3. LastSpan(ds, Passes, v) <= Limit /\ LastSpan(ds, Passes, v) \in Nat
      BY <1>1, <1>2, <1>3, AnswerSets, ToldFinite DEF WindowInv, LastSpan
    <3> QED BY <1>2, <3>2, <3>3
  <2>2. CASE b <= f - Window /\ b > f - Window - Window
    <3> DEFINE m == f - Window
    <3>1. Told(ds, Passes, b, b + Window - 1) \subseteq
            Told(ds, Passes, f - Window - Window + 1, m - 1) \union Told(ds, Passes, m, f - 1)
      <4> SUFFICES ASSUME NEW k \in Told(ds, Passes, b, b + Window - 1),
                          k \notin Told(ds, Passes, f - Window - Window + 1, m - 1)
                   PROVE  k \in Told(ds, Passes, m, f - 1)
        OBVIOUS
      <4>1. k \in Calls /\ ds[k].allowed = "yes" /\ ds[k].asked \in b .. (b + Window - 1)
        BY DEF Told, Passes
      <4>2. ds[k].asked < f /\ ds[k].asked \in Nat
        BY <1>1, <4>1 DEF WindowInv
      <4>3. ds[k].asked \notin (f - Window - Window + 1) .. (m - 1)
        BY <4>1 DEF Told, Passes
      <4>4. ds[k].asked \in m .. (f - 1)
        BY <1>2, <2>2, <4>1, <4>2, <4>3
      <4> QED BY <4>1, <4>4 DEF Told, Passes
    <3>2. m \in Int /\ m - 1 = f - Window - 1
      BY <1>2
    <3> HIDE DEF m
    <3>3. Number(ds, Passes, b, b + Window - 1)
            <= Number(ds, Passes, f - Window - Window + 1, m - 1) + Number(ds, Passes, m, f - 1)
      BY <1>2, <1>3, <3>1, <3>2, AnswerSets, NumberSplits
    <3>4. Number(ds, Passes, f - Window - Window + 1, m - 1) = BeforeSpan(ds, Passes, v)
          /\ Number(ds, Passes, m, f - 1) = LastSpan(ds, Passes, v)
      BY <3>2 DEF BeforeSpan, LastSpan, m
    <3>5. /\ BeforeSpan(ds, Passes, v) <= Limit /\ BeforeSpan(ds, Passes, v) \in Nat
          /\ LastSpan(ds, Passes, v) <= Limit /\ LastSpan(ds, Passes, v) \in Nat
      BY <1>1, <1>2, <1>3, AnswerSets, ToldFinite DEF WindowInv, LastSpan, BeforeSpan
    <3>6. Number(ds, Passes, b, b + Window - 1) \in Nat
      BY <1>2, <1>3, AnswerSets, ToldFinite
    <3> QED BY <1>2, <3>3, <3>4, <3>5, <3>6
  <2> QED BY <1>2, <1>4, <2>1, <2>2
<1>5. CASE b <= f - Window - Window \/ b > f - 1
  <2>1. ~(a \in Passes /\ t \in b .. (b + Window - 1))
    <3>1. a = "yes" => t < f
      BY <1>1 DEF WindowInv, Tells
    <3> QED BY <1>2, <1>5, <3>1 DEF Passes
  <2>2. Number(ds, Passes, b, b + Window - 1) = Number(cs, Passes, b, b + Window - 1)
    BY <1>3, <1>0, <2>1, AnswerSets
  <2> QED BY <2>2 DEF AtMostTwice
<1> QED BY <1>2, <1>4, <1>5

Refused(cs) ==
  \A d \in Calls : cs[d].allowed = "no" =>
    Number(cs, Served, cs[d].asked - Window + 1, cs[d].asked) >= Limit

LEMMA RefusedStep ==
  ASSUME NEW cs, NEW ds, NEW w, NEW v, NEW t, WindowInv(cs, w, t), NEW c \in Calls, NEW a \in Answers,
         Tells(cs, ds, c, a, t), Answered(w, v, t, a), Refused(cs)
  PROVE  Refused(ds)
<1> DEFINE e == w.expires
<1>1. /\ e \in Nat /\ w.count \in Nat /\ t \in Nat /\ e <= t + Window /\ IsFiniteSet(Heard(cs))
      /\ Limit \in Nat \ {0} /\ Window \in Nat \ {0}
  BY LimiterAssumption DEF WindowInv
<1>0. \A A \in SUBSET Answers, lo, hi \in Int :
        Number(ds, A, lo, hi) = IF a \in A /\ t \in lo .. hi THEN Number(cs, A, lo, hi) + 1
                                ELSE Number(cs, A, lo, hi)
  BY <1>1, TellsCounts
<1>2. \A lo, hi \in Int : /\ Number(cs, Served, lo, hi) \in Nat /\ Number(ds, Served, lo, hi) \in Nat
                           /\ Number(ds, Served, lo, hi) >= Number(cs, Served, lo, hi)
  <2> SUFFICES ASSUME NEW lo \in Int, NEW hi \in Int
               PROVE  /\ Number(cs, Served, lo, hi) \in Nat /\ Number(ds, Served, lo, hi) \in Nat
                      /\ Number(ds, Served, lo, hi) >= Number(cs, Served, lo, hi)
    OBVIOUS
  <2>1. Number(cs, Served, lo, hi) \in Nat
    BY <1>1, ToldFinite, AnswerSets
  <2>2. Number(ds, Served, lo, hi) \in {Number(cs, Served, lo, hi), Number(cs, Served, lo, hi) + 1}
    BY <1>0, AnswerSets
  <2> QED BY <2>1, <2>2
<1> SUFFICES ASSUME NEW d \in Calls, ds[d].allowed = "no"
             PROVE  Number(ds, Served, ds[d].asked - Window + 1, ds[d].asked) >= Limit
  BY DEF Refused
<1>3. CASE d # c
  <2>1. cs[d].allowed = "no" /\ ds[d].asked = cs[d].asked /\ cs[d].asked \in Nat
    BY <1>3 DEF Tells, WindowInv
  <2>2. Number(cs, Served, cs[d].asked - Window + 1, cs[d].asked) >= Limit
    BY <2>1 DEF Refused
  <2>3. cs[d].asked - Window + 1 \in Int /\ cs[d].asked \in Int
    BY <1>1, <2>1
  <2>4. Number(ds, Served, cs[d].asked - Window + 1, cs[d].asked)
          >= Number(cs, Served, cs[d].asked - Window + 1, cs[d].asked)
        /\ Number(cs, Served, cs[d].asked - Window + 1, cs[d].asked) \in Nat
        /\ Number(ds, Served, cs[d].asked - Window + 1, cs[d].asked) \in Nat
    BY <1>2, <2>3
  <2> QED BY <1>1, <2>1, <2>2, <2>4
<1>4. CASE d = c
  <2>1. a = "no" /\ ds[d].asked = t
    BY <1>4 DEF Tells
  <2>2. CountedOn(w, v, t) /\ v.count > Limit
    BY <2>1 DEF Answered
  <2>3. t < e /\ w.count >= Limit
    BY <1>1, <2>2 DEF CountedOn
  <2>4. e - Window \in Int /\ e - 1 \in Int /\ t - Window + 1 \in Int /\ t \in Int
    BY <1>1
  <2>5. LastSpan(cs, Served, w) >= Limit /\ LastSpan(cs, Served, w) \in Nat
    <3>1. LastSpan(cs, Served, w) \in Nat
      BY <1>2, <2>4 DEF LastSpan
    <3>2. LastSpan(cs, Served, w) >= w.count \/ LastSpan(cs, Served, w) >= Limit
      BY <2>3 DEF WindowInv
    <3> QED BY <1>1, <2>3, <3>1, <3>2
  <2>6. Told(cs, Served, e - Window, e - 1) \subseteq Told(cs, Served, t - Window + 1, t)
    <3> SUFFICES ASSUME NEW k \in Told(cs, Served, e - Window, e - 1)
                 PROVE  k \in Told(cs, Served, t - Window + 1, t)
      OBVIOUS
    <3>1. k \in Calls /\ cs[k].allowed \in Served /\ cs[k].asked \in (e - Window) .. (e - 1)
      BY DEF Told
    <3>2. cs[k].asked <= t /\ cs[k].asked \in Nat
      BY <3>1 DEF WindowInv, Served
    <3>3. cs[k].asked \in (t - Window + 1) .. t
      BY <1>1, <2>3, <3>1, <3>2
    <3> QED BY <3>1, <3>3 DEF Told
  <2>7. LastSpan(cs, Served, w) <= Number(cs, Served, t - Window + 1, t)
        /\ Number(cs, Served, t - Window + 1, t) \in Nat
    BY <1>1, <1>2, <2>4, <2>6, AnswerSets, NumberWithin DEF LastSpan, Number
  <2>8. Number(ds, Served, t - Window + 1, t) >= Number(cs, Served, t - Window + 1, t)
        /\ Number(ds, Served, t - Window + 1, t) \in Nat
    BY <1>2, <2>4
  <2> QED BY <1>1, <2>1, <2>5, <2>7, <2>8
<1> QED BY <1>3, <1>4

-----------------------------------------------------------------------------
(* The invariant of the limiter.                                           *)

Unheard(call) == call.stage \in {"idle", "arrived", "limit"}

LInvOf(cs, w, t) ==
  /\ WindowInv(cs, w, t)
  /\ AtMostTwice(cs)
  /\ Refused(cs)
  /\ \A c \in Calls : /\ Unheard(cs[c]) => cs[c].allowed = "unasked"
                      /\ cs[c].stage = "idle" => cs[c].asked = 0

LInv == LInvOf(calls, window, now)

LEMMA LInvPrimed == LInv' <=> LInvOf(calls', window', now')
  BY DEF LInv, LInvOf, WindowInv, AtMostTwice, Refused, Unheard, Told, Number, Heard, LastSpan, BeforeSpan

\* Steps that do not ask the limiter.
LEMMA NotAsked ==
  ASSUME LInv, UNCHANGED window, now' \in Nat, now' >= now,
         \A k \in Calls : /\ calls'[k].allowed = calls[k].allowed /\ calls'[k].asked = calls[k].asked
                          /\ Unheard(calls'[k]) => Unheard(calls[k])
                          /\ calls'[k].stage = "idle" => calls[k].stage = "idle"
  PROVE  LInv'
<1>1. /\ Heard(calls') = Heard(calls)
      /\ \A A, lo, hi : Number(calls', A, lo, hi) = Number(calls, A, lo, hi)
  BY SameTold
<1>2. WindowInv(calls', window', now')
  <2>1. WindowInv(calls, window, now)
    BY DEF LInv, LInvOf
  <2>2. now \in Nat /\ window.expires \in Nat /\ window.expires <= now + Window
    BY <2>1 DEF WindowInv
  <2>3. window.expires <= now' + Window /\ (now' < window.expires => now < window.expires)
    BY <2>2, LimiterAssumption
  <2>4. \A c \in Calls :
          /\ calls'[c].asked \in Nat
          /\ calls'[c].allowed # "unasked" => calls'[c].allowed \in Answers /\ calls'[c].asked <= now'
          /\ calls'[c].allowed = "yes" => calls'[c].asked < window.expires
    BY <2>1, <2>2 DEF WindowInv
  <2> QED BY <1>1, <2>1, <2>3, <2>4 DEF WindowInv, LastSpan, BeforeSpan
<1>3. AtMostTwice(calls') /\ Refused(calls')
  BY <1>1 DEF LInv, LInvOf, AtMostTwice, Refused
<1>4. \A c \in Calls : /\ Unheard(calls'[c]) => calls'[c].allowed = "unasked"
                       /\ calls'[c].stage = "idle" => calls'[c].asked = 0
  BY DEF LInv, LInvOf
<1> QED BY <1>2, <1>3, <1>4, LInvPrimed DEF LInvOf

\* fixedWindowAllowScript and what Allow makes of its count, or of its failure.
LEMMA AllowAsks ==
  ASSUME DInv, LInv, NEW c \in Calls, Allow(c)
  PROVE  LInv'
<1> DEFINE old  == calls[c]
           call == [old EXCEPT !.asked = now]
           no   == [call EXCEPT !.allowed = "no"]
           Handles(allowed) == [call EXCEPT !.stage = "reply", !.begun = now, !.allowed = allowed]
<1>1. /\ DOMAIN old = Fields /\ DOMAIN calls = Calls /\ old.stage = "limit"
      /\ WindowInv(calls, window, now) /\ AtMostTwice(calls) /\ Refused(calls)
  <2>1. call.stage = "limit"
    BY DEF Allow
  <2>2. DOMAIN old = Fields /\ DOMAIN calls = Calls
    BY DEF DInv, Sound, Formed
  <2>3. old.stage = "limit"
    BY <2>1, <2>2 DEF Fields
  <2> QED BY <2>2, <2>3 DEF LInv, LInvOf
<1>2. old.allowed = "unasked"
  BY <1>1 DEF LInv, LInvOf, Unheard
<1>3. \A a : Handles(a).stage = "reply" /\ Handles(a).allowed = a /\ Handles(a).asked = now
  BY <1>1 DEF Fields
<1>4. /\ Ends(no, "limited").stage = "done" /\ Ends(no, "limited").allowed = "no"
      /\ Ends(no, "limited").asked = now
  BY <1>1 DEF Ends, Fields
<1>5. /\ CountedOn(window, Counted, now)
      /\ Allowed(Counted) <=> Counted.count <= Limit
      /\ Counted.count \in Nat
  <2>1. window.count \in Nat /\ window.expires \in Nat /\ now \in Nat
    BY <1>1 DEF WindowInv
  <2>2. CASE now < window.expires
    BY <2>1, <2>2 DEF Counted, CountedOn, Allowed
  <2>3. CASE ~(now < window.expires)
    BY <2>1, <2>3 DEF Counted, CountedOn, Allowed
  <2> QED BY <2>2, <2>3
<1>6. \/ window' = Counted /\ Allowed(Counted) /\ Becomes(c, Handles("yes"))
      \/ window' = Counted /\ ~Allowed(Counted) /\ Becomes(c, Ends(no, "limited"))
      \/ window' \in {window, Counted} /\ Becomes(c, Handles("failed"))
  BY DEF Allow
<1> HIDE DEF Handles, no
<1> DEFINE Is(n, a) == /\ Becomes(c, n) /\ n.allowed = a /\ n.asked = now
                       /\ n.stage \notin {"idle", "arrived", "limit"}
                       /\ Answered(window, window', now, a)
<1>a. \E a \in Answers : \E n : Is(n, a)
  <2>1. CASE window' = Counted /\ Allowed(Counted) /\ Becomes(c, Handles("yes"))
    <3>1. Answered(window, window', now, "yes")
      BY <1>5, <2>1 DEF Answered
    <3>2. Is(Handles("yes"), "yes") /\ "yes" \in Answers
      BY <1>3, <2>1, <3>1 DEF Answers
    <3> QED BY <3>2
  <2>2. CASE window' = Counted /\ ~Allowed(Counted) /\ Becomes(c, Ends(no, "limited"))
    <3>1. Answered(window, window', now, "no")
      BY <1>5, <2>2, LimiterAssumption DEF Answered
    <3>2. Is(Ends(no, "limited"), "no") /\ "no" \in Answers
      BY <1>4, <2>2, <3>1 DEF Answers
    <3> QED BY <3>2
  <2>3. CASE window' \in {window, Counted} /\ Becomes(c, Handles("failed"))
    <3>1. Answered(window, window', now, "failed")
      BY <1>5, <2>3 DEF Answered
    <3>2. Is(Handles("failed"), "failed") /\ "failed" \in Answers
      BY <1>3, <2>3, <3>1 DEF Answers
    <3> QED BY <3>2
  <2> QED BY <1>6, <2>1, <2>2, <2>3
<1>b. PICK a \in Answers : \E n : Is(n, a)
  BY <1>a
<1>7. PICK n : Is(n, a)
  BY <1>b
<1>8. \A k \in Calls : calls'[k] = IF k = c THEN n ELSE calls[k]
  BY <1>1, <1>7 DEF Becomes
<1>9. Tells(calls, calls', c, a, now)
  BY <1>2, <1>7, <1>8 DEF Tells
<1>10. WindowInv(calls', window', now) /\ AtMostTwice(calls') /\ Refused(calls')
  BY <1>1, <1>7, <1>9, WindowStep, AtMostTwiceStep, RefusedStep
<1>11. \A k \in Calls : /\ Unheard(calls'[k]) => calls'[k].allowed = "unasked"
                        /\ calls'[k].stage = "idle" => calls'[k].asked = 0
  BY <1>7, <1>8 DEF LInv, LInvOf, Unheard
<1>12. now' = now
  BY DEF Allow
<1> QED BY <1>10, <1>11, <1>12, LInvPrimed DEF LInvOf

\* Whatever else a call does changes neither when it asked nor the answer.
Kept(k, n) == /\ n.allowed = k.allowed /\ n.asked = k.asked
              /\ Unheard(n) => Unheard(k)
              /\ n.stage # "idle"

LEMMA KeptKeeps ==
  ASSUME DInv, LInv, UNCHANGED <<window, now>>, NEW c \in Calls, NEW n, Kept(calls[c], n), Becomes(c, n)
  PROVE  LInv'
<1>1. \A k \in Calls : calls'[k] = IF k = c THEN n ELSE calls[k]
  BY DEF DInv, Becomes
<1>2. \A k \in Calls : /\ calls'[k].allowed = calls[k].allowed /\ calls'[k].asked = calls[k].asked
                       /\ Unheard(calls'[k]) => Unheard(calls[k])
                       /\ calls'[k].stage = "idle" => calls[k].stage = "idle"
  BY <1>1 DEF Kept
<1>3. window' = window /\ now' = now /\ now \in Nat
  BY DEF LInv, LInvOf, WindowInv
<1>4. now' \in Nat /\ now' >= now
  BY <1>3
<1> QED BY <1>2, <1>3, <1>4, NotAsked

LEMMA EndsKept ==
  ASSUME NEW k, NEW call, DOMAIN call = Fields, call.allowed = k.allowed, call.asked = k.asked, NEW end
  PROVE  Kept(k, Ends(call, end))
<1> DEFINE n == Ends(call, end)
<1>1. n.stage = "done" /\ n.allowed = call.allowed /\ n.asked = call.asked
  BY DEF Ends, Fields
<1> HIDE DEF n
<1>2. Kept(k, n)
  BY <1>1 DEF Kept, Unheard
<1> QED BY <1>2 DEF n

LEMMA BeginsLInv ==
  ASSUME DInv, LInv, NEW c \in Calls, NEW g \in Gateways, Greet(c, g) \/ \E m \in Messages : Deliver(c, g, m)
  PROVE  LInv'
<1>1. PICK n : Begins(c, n) /\ n.allowed = "unasked" /\ n.asked = 0 /\ n.stage \in {"get", "arrived"}
  <2>1. ASSUME NEW n, n = [Idle EXCEPT !.stage = "get", !.gateway = g]
        PROVE  n.allowed = "unasked" /\ n.asked = 0 /\ n.stage = "get"
    BY <2>1 DEF Idle
  <2>2. ASSUME NEW n, NEW m, n = [Idle EXCEPT !.stage = "arrived", !.gateway = g, !.message = m]
        PROVE  n.allowed = "unasked" /\ n.asked = 0 /\ n.stage = "arrived"
    BY <2>2 DEF Idle
  <2>3. \/ \E n : n = [Idle EXCEPT !.stage = "get", !.gateway = g] /\ Begins(c, n)
        \/ \E m, n : n = [Idle EXCEPT !.stage = "arrived", !.gateway = g, !.message = m] /\ Begins(c, n)
    BY DEF Greet, Deliver
  <2> QED BY <2>1, <2>2, <2>3
<1>2. /\ calls[c].stage = "idle" /\ Becomes(c, n) /\ UNCHANGED window /\ UNCHANGED now
  BY <1>1 DEF Begins
<1>3. calls[c].allowed = "unasked" /\ calls[c].asked = 0
  BY <1>2 DEF LInv, LInvOf, Unheard
<1>4. Kept(calls[c], n)
  BY <1>1, <1>2, <1>3 DEF Kept, Unheard
<1> QED BY <1>2, <1>4, KeptKeeps

LEMMA SeenLInv == ASSUME DInv, LInv, NEW c \in Calls, SeenOrAdd(c) PROVE LInv'
<1> DEFINE call == calls[c]
           mark == [call EXCEPT !.checked = TRUE]
           on   == [call EXCEPT !.stage = "limit", !.checked = TRUE]
           un   == HandledWhenUnsure(call)
<1>1. DOMAIN call = Fields /\ call.stage = "arrived" /\ UNCHANGED <<window, now>>
  BY DEF DInv, Sound, Formed, SeenOrAdd
<1>2. DOMAIN mark = Fields /\ mark.allowed = call.allowed /\ mark.asked = call.asked
  BY <1>1 DEF Fields
<1>3. on.allowed = call.allowed /\ on.asked = call.asked /\ on.stage = "limit"
  BY <1>1 DEF Fields
<1>4. un.allowed = call.allowed /\ un.asked = call.asked /\ un.stage = "limit"
  BY <1>1 DEF Fields, HandledWhenUnsure
<1>5. Becomes(c, Ends(mark, "seen")) \/ Becomes(c, on) \/ Becomes(c, un)
  BY DEF SeenOrAdd
<1> HIDE DEF mark, on, un
<1>6. Kept(call, Ends(mark, "seen")) /\ Kept(call, on) /\ Kept(call, un)
  BY <1>1, <1>2, <1>3, <1>4, EndsKept DEF Kept, Unheard
<1>7. PICK n : Kept(call, n) /\ Becomes(c, n)
  BY <1>5, <1>6
<1> QED BY <1>1, <1>7, KeptKeeps

LEMMA SendLInv == ASSUME DInv, LInv, NEW c \in Calls, Send(c) PROVE LInv'
<1> DEFINE call  == calls[c]
           taken == [call EXCEPT !.texts = @ + 1]
<1>1. DOMAIN call = Fields /\ UNCHANGED <<window, now>>
  BY DEF DInv, Sound, Formed, Send
<1>2. DOMAIN taken = Fields /\ taken.allowed = call.allowed /\ taken.asked = call.asked
  BY <1>1 DEF Fields
<1>3. \/ Becomes(c, Ends(taken, "answered")) \/ Becomes(c, Failed(taken, "lost"))
      \/ Becomes(c, Failed(call, "expired")) \/ Becomes(c, Failed(call, "other"))
  BY DEF Send
<1> HIDE DEF taken, call
<1>4. \A k, e : DOMAIN k = Fields /\ k.allowed = call.allowed /\ k.asked = call.asked => Kept(call, Failed(k, e))
  <2> SUFFICES ASSUME NEW k, NEW e, DOMAIN k = Fields, k.allowed = call.allowed, k.asked = call.asked
               PROVE  Kept(call, Failed(k, e))
    OBVIOUS
  <2>1. CASE IsTokenExpiredError(e) /\ ~k.retried
    <3> DEFINE n == [k EXCEPT !.stage = "refresh", !.token = 0, !.retried = TRUE]
    <3>1. n.stage = "refresh" /\ n.allowed = k.allowed /\ n.asked = k.asked
      BY DEF Fields
    <3>2. Failed(k, e) = n
      BY <2>1 DEF Failed
    <3> HIDE DEF n
    <3>3. Kept(call, n)
      BY <3>1 DEF Kept, Unheard
    <3> QED BY <3>2, <3>3
  <2>2. CASE ~(IsTokenExpiredError(e) /\ ~k.retried)
    <3>1. Failed(k, e) = Ends(k, "failed")
      BY <2>2 DEF Failed
    <3> QED BY <3>1, EndsKept
  <2> QED BY <2>1, <2>2
<1>5. PICK n : Kept(call, n) /\ Becomes(c, n)
  BY <1>1, <1>2, <1>3, <1>4, EndsKept
<1> QED BY <1>1, <1>5, KeptKeeps DEF call

LEMMA WaitingLInv ==
  ASSUME DInv, LInv, NEW c \in Calls, Reply(c) \/ TokenStep(c) \/ FetchFails(c)
  PROVE  LInv'
<1>1. DOMAIN calls[c] = Fields /\ UNCHANGED <<window, now>>
  <2>1. DOMAIN calls[c] = Fields
    BY DEF DInv, Sound, Formed
  <2>2. window' = window /\ now' = now
    BY DEF Reply, TokenStep, FetchFails, GetKept, GetCached, GetNone, Refresh, Issue, Fetched, Fetches
  <2> QED BY <2>1, <2>2
<1>2. (\E s \in {"get", "fetch", "fetching", "send"} : \E t : Goes(c, s, t)) \/ Becomes(c, Ends(calls[c], "failed"))
  BY DEF Reply, TokenStep, FetchFails, GetKept, GetCached, GetNone, Refresh, Issue, Fetched, Fetches, Hands
<1>3. ASSUME NEW s \in {"get", "fetch", "fetching", "send"}, NEW t, Goes(c, s, t)
      PROVE  \E n : Kept(calls[c], n) /\ Becomes(c, n)
  <2> DEFINE n == [calls[c] EXCEPT !.stage = s, !.token = t]
  <2>1. Becomes(c, n)
    BY <1>3 DEF Goes, Becomes
  <2>2. n.stage = s /\ n.allowed = calls[c].allowed /\ n.asked = calls[c].asked
    BY <1>1 DEF Fields
  <2> HIDE DEF n
  <2>3. Kept(calls[c], n)
    BY <2>2 DEF Kept, Unheard
  <2> QED BY <2>1, <2>3
<1>4. Kept(calls[c], Ends(calls[c], "failed"))
  BY <1>1, EndsKept
<1>5. PICK n : Kept(calls[c], n) /\ Becomes(c, n)
  BY <1>2, <1>3, <1>4
<1> QED BY <1>1, <1>5, KeptKeeps

LEMMA CrashLInv == ASSUME DInv, LInv, NEW g \in Gateways, Crash(g) PROVE LInv'
<1>1. /\ window' = window /\ now' = now
      /\ \A c \in Calls : calls'[c] = IF calls[c].gateway = g THEN Ends(calls[c], "crashed") ELSE calls[c]
  BY DEF Crash
<1>2. \A c \in Calls : Kept(calls[c], Ends(calls[c], "crashed"))
  BY EndsKept DEF DInv, Sound, Formed
<1>3. \A k \in Calls : /\ calls'[k].allowed = calls[k].allowed /\ calls'[k].asked = calls[k].asked
                       /\ Unheard(calls'[k]) => Unheard(calls[k])
                       /\ calls'[k].stage = "idle" => calls[k].stage = "idle"
  BY <1>1, <1>2 DEF Kept
<1>4. now' \in Nat /\ now' >= now
  BY <1>1 DEF LInv, LInvOf, WindowInv
<1> QED BY <1>1, <1>3, <1>4, NotAsked

LEMMA TickLInv == ASSUME LInv, Tick PROVE LInv'
<1>1. now \in Nat /\ now' = now + 1 /\ calls' = calls /\ window' = window
  BY DEF Tick, LInv, LInvOf, WindowInv
<1>2. now' \in Nat /\ now' >= now
  BY <1>1
<1> QED BY <1>1, <1>2, NotAsked

LEMMA StillLInv == ASSUME LInv, UNCHANGED vars PROVE LInv'
  BY LInvPrimed DEF vars, LInv

LEMMA InitLInv == ASSUME Init PROVE LInv
<1>1. /\ now = 0 /\ window.count = 0 /\ window.expires = 0
      /\ \A c \in Calls : calls[c].allowed = "unasked" /\ calls[c].asked = 0
  BY DEF Init, TokenInit, Idle
<1>2. IsFiniteSet(Heard(calls))
  <2>1. Heard(calls) = {}
    BY <1>1 DEF Heard
  <2> QED BY <2>1, FS_EmptySet
<1>3. \A lo, hi : Number(calls, Passes, lo, hi) = 0
  <2> SUFFICES ASSUME NEW lo, NEW hi PROVE Number(calls, Passes, lo, hi) = 0
    OBVIOUS
  <2>1. Told(calls, Passes, lo, hi) = {}
    BY <1>1 DEF Told, Passes
  <2> QED BY <2>1, FS_EmptySet DEF Number
<1>4. WindowInv(calls, window, now)
  <2>1. LastSpan(calls, Passes, window) = 0 /\ BeforeSpan(calls, Passes, window) = 0
    BY <1>3 DEF LastSpan, BeforeSpan
  <2>2. window.expires <= now + Window /\ ~(now < window.expires) /\ 0 <= Limit
    BY <1>1, LimiterAssumption
  <2> QED BY <1>1, <1>2, <2>1, <2>2 DEF WindowInv
<1>5. AtMostTwice(calls)
  BY <1>3, LimiterAssumption DEF AtMostTwice
<1>6. Refused(calls)
  BY <1>1 DEF Refused
<1> QED BY <1>1, <1>4, <1>5, <1>6 DEF LInv, LInvOf

LEMMA NextLInv == DInv /\ LInv /\ [Next]_vars => LInv'
<1> SUFFICES ASSUME DInv, LInv, [Next]_vars PROVE LInv'
  OBVIOUS
<1>1. ASSUME NEW c \in Calls, NEW g \in Gateways, Greet(c, g) \/ \E m \in Messages : Deliver(c, g, m)
      PROVE  LInv'
  BY <1>1, BeginsLInv
<1>2. ASSUME NEW c \in Calls,
             SeenOrAdd(c) \/ Allow(c) \/ Reply(c) \/ TokenStep(c) \/ Send(c) \/ FetchFails(c)
      PROVE  LInv'
  BY <1>2, SeenLInv, AllowAsks, SendLInv, WaitingLInv
<1>3. ASSUME NEW g \in Gateways, Crash(g) PROVE LInv'
  BY <1>3, CrashLInv
<1>4. CASE Tick \/ Rest \/ UNCHANGED vars
  BY <1>4, TickLInv, StillLInv DEF Rest
<1> QED BY <1>1, <1>2, <1>3, <1>4 DEF Next

\* FixedWindowLimiter.Allow passes no more than the limit in a window and in the one
\* before it, never more than it counted, and while a window runs its count stands for
\* calls that passed or whose answer failed to arrive, up to the limit.
THEOREM LimiterHolds == Spec => []LInv
<1> QED BY InitLInv, NextLInv, DeduperHolds, InitDInv, NextDInv, PTL DEF Spec

\* The fixed windows of FixedWindowLimiter.Allow let pass no more than twice the limit
\* in the length of a window, wherever it begins, with any number of messages.
THEOREM WindowsBound == Spec => []AtMostTwicePerWindow
<1>1. LInv => AtMostTwicePerWindow
  <2> SUFFICES ASSUME LInv, NEW t \in 0 .. LastTime
               PROVE  Cardinality({c \in Calls : calls[c].allowed = "yes" /\ calls[c].asked \in t .. t + Window - 1})
                        <= 2 * Limit
    BY DEF AtMostTwicePerWindow
  <2>1. {c \in Calls : calls[c].allowed = "yes" /\ calls[c].asked \in t .. t + Window - 1}
          = Told(calls, Passes, t, t + Window - 1)
    BY DEF Told, Passes
  <2>2. t \in Int
    OBVIOUS
  <2> QED BY <2>1, <2>2 DEF LInv, LInvOf, AtMostTwice, Number
<1> QED BY <1>1, LimiterHolds, PTL

\* FixedWindowLimiter.Allow refuses a message only after as many as its limit were
\* handled within the length of a window: whoever waits that long is heard again.
THEOREM RefusalIsEarned == Spec => []RefusedForReason
<1>1. LInv => RefusedForReason
  <2> SUFFICES ASSUME LInv, NEW c \in Calls, calls[c].allowed = "no"
               PROVE  Cardinality({d \in Calls : /\ calls[d].allowed \in {"yes", "failed"}
                                                 /\ calls[d].asked \in calls[c].asked - Window + 1 .. calls[c].asked})
                        >= Limit
    BY DEF RefusedForReason
  <2>1. {d \in Calls : /\ calls[d].allowed \in {"yes", "failed"}
                       /\ calls[d].asked \in calls[c].asked - Window + 1 .. calls[c].asked}
          = Told(calls, Served, calls[c].asked - Window + 1, calls[c].asked)
    BY DEF Told, Served
  <2> QED BY <2>1 DEF LInv, LInvOf, Refused, Number
<1> QED BY <1>1, LimiterHolds, PTL
=============================================================================
