---------------------------- MODULE TokenManager ----------------------------
(***************************************************************************)
(* The WeChat access token (internal/wechat/token.go): each gateway keeps  *)
(* one in memory behind a mutex, and all gateways share one in Redis       *)
(* (redisstore/redis.go).  During a rollout two gateways run.              *)
(*                                                                         *)
(* Time is counted in half minutes.  The mutex is held across the request  *)
(* for a new token, which takes time; between the Redis call that a        *)
(* decision rests on and the return, under the mutex, nothing can be seen. *)
(***************************************************************************)
EXTENDS Integers, Sequences

CONSTANTS Calls, Gateways, None,
          Margin,         \* 60 seconds, taken off a lifetime
          CopyTime,       \* one minute, for which a token of the cache is kept in memory
          Transit,        \* the longest a token takes from the service to the gateway
          LastTime        \* bound: time

ASSUME TimeAssumption ==
  /\ Margin \in Nat /\ CopyTime \in Nat /\ Transit \in Nat /\ LastTime \in Nat
  /\ CopyTime <= Margin

VARIABLES
  now,
  faults,      \* bound: the connections that may still fail, gateways that may still die
  life,        \* service: the lifetime (expires_in) it grants
  issued,      \* service: when it gave out each token; a token is its place here, 0 is none
  cache,       \* Redis: the shared token
  memory,      \* of each gateway: tm.token and tm.expires
  lock,        \* of each gateway: the call that holds tm.mu
  calls        \* what each call of a gateway is doing

tokenVars == <<life, issued, cache, memory, lock>>

Optional(S) == S \union {None}

Token == 0 .. Len(issued)
EntryType == [token : Token, expires : Int]
Empty == [token |-> 0, expires |-> 0]

TokenTypeOK ==
  /\ now \in 0 .. LastTime
  /\ faults \in Nat
  /\ life \in Nat
  /\ issued \in Seq(0 .. LastTime)
  /\ cache \in EntryType
  /\ memory \in [Gateways -> EntryType]
  /\ lock \in [Gateways -> Optional(Calls)]

TokenInit ==
  /\ now = 0
  /\ issued = <<>>
  /\ cache = Empty
  /\ memory = [g \in Gateways |-> Empty]
  /\ lock = [g \in Gateways |-> None]

-----------------------------------------------------------------------------
Fault == faults > 0 /\ faults' = faults - 1

Home(c) == calls[c].gateway

\* The half minute a message's call has may be over, or is not; a greeting's call
\* has no end.
MayBeOver(c) == calls[c].message # None /\ now > calls[c].begun
InTime(c)    == calls[c].message = None \/ now <= calls[c].begun + 1

\* A request fails with its connection or because the time is over.
Fails(c) == IF MayBeOver(c) THEN UNCHANGED faults ELSE Fault

Fresh(entry) == entry.token # 0 /\ now < entry.expires

Free(c) == lock[Home(c)] = None

\* Where a call is and which token it has.
Goes(c, stage, token) == calls' = [calls EXCEPT ![c].stage = stage, ![c].token = token]

\* A token leaves the manager: the push is tried with it.
Hands(c, token) == Goes(c, "send", token)

\* Get finds the token in memory.
GetKept(c) ==
  /\ calls[c].stage = "get" /\ Free(c)
  /\ Fresh(memory[Home(c)])
  /\ Hands(c, memory[Home(c)].token)
  /\ UNCHANGED <<now, faults, tokenVars>>

\* Get finds it in the cache, and keeps a copy.
GetCached(c) ==
  /\ calls[c].stage = "get" /\ Free(c)
  /\ ~Fresh(memory[Home(c)]) /\ Fresh(cache) /\ InTime(c)
  /\ memory' = [memory EXCEPT ![Home(c)] = [token |-> cache.token, expires |-> now + CopyTime]]
  /\ Hands(c, cache.token)
  /\ UNCHANGED <<now, faults, life, issued, cache, lock>>

Fetches(c) ==
  /\ lock' = [lock EXCEPT ![Home(c)] = c]
  /\ Goes(c, "fetch", 0)
  /\ UNCHANGED <<now, life, issued>>

\* Get finds none, or cannot reach the cache.
GetNone(c) ==
  /\ calls[c].stage = "get" /\ Free(c)
  /\ ~Fresh(memory[Home(c)])
  /\ IF Fresh(cache) THEN Fails(c) ELSE UNCHANGED faults
  /\ Fetches(c)
  /\ UNCHANGED <<cache, memory>>

\* Refresh forgets the token; that the cache is cleared is not checked.
Refresh(c) ==
  /\ calls[c].stage = "refresh" /\ Free(c)
  /\ memory' = [memory EXCEPT ![Home(c)] = Empty]
  /\ \/ InTime(c) /\ cache' = Empty /\ UNCHANGED faults
     \/ Fails(c) /\ cache' = cache
  /\ Fetches(c)

\* fetchLocked: the service gives out a token, and lets go of earlier ones.
Issue(c) ==
  /\ calls[c].stage = "fetch" /\ InTime(c)
  /\ issued' = Append(issued, now)
  /\ Goes(c, "fetching", Len(issued'))
  /\ UNCHANGED <<now, faults, life, cache, memory, lock>>

Cached(token, ttl) == [token |-> token, expires |-> now + ttl]

\* Faulty variant: a lifetime of nothing or less is passed to Redis, for which it
\* means that the key stays.
StoredAnyway(token, ttl) ==
  cache' = [token |-> token, expires |-> IF ttl > 0 THEN now + ttl ELSE LastTime + 1]

\* time.Duration(tr.ExpiresIn-60) * time.Second
Ttl == life - Margin

\* The cache is set when there is a time to set it for; a failure is not checked.
Stored(token, ttl) ==
  cache' = IF ttl > 0 THEN Cached(token, ttl) ELSE cache

\* The token arrives.
Fetched(c) ==
  LET token == calls[c].token
      ttl   == Ttl
  IN  /\ calls[c].stage = "fetching" /\ InTime(c)
      /\ memory' = [memory EXCEPT ![Home(c)] = Cached(token, ttl)]
      /\ \/ Stored(token, ttl) /\ UNCHANGED faults
         \/ ttl > 0 /\ cache' = cache /\ Fails(c)
      /\ lock' = [lock EXCEPT ![Home(c)] = None]
      /\ Hands(c, token)
      /\ UNCHANGED <<now, life, issued>>

\* The deferred Unlock, or the death of the process.
Unlocked(c) == [g \in Gateways |-> IF lock[g] = c THEN None ELSE lock[g]]

-----------------------------------------------------------------------------
\* The service: a token counts until its life is over or a later one is given out;
\* then it may still count for a while.
MayAccept(token) == now < issued[token] + life
MayRefuse(token) == token # Len(issued) \/ now >= issued[token] + life
-----------------------------------------------------------------------------
(* What must hold.                                                         *)

\* No gateway hands out a token of its memory later than the life the service
\* granted it, but for the time it took to arrive: the minute taken off a lifetime
\* covers the minute a copy is kept.
MemoryWithinLife ==
  \A g \in Gateways :
    LET kept == memory[g]
    IN  kept.token # 0 =>
          kept.expires <= issued[kept.token] + life + Transit
=============================================================================
