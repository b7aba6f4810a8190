----------------------------- MODULE AuthService -----------------------------
(***************************************************************************)
(* Accounts and sessions (internal/auth, gateway/auth_handler.go) for one  *)
(* e-mail address: the account in PostgreSQL, and in Redis a pending code  *)
(* and a cooldown per purpose, the live sessions, and the set that lists   *)
(* them.  Every command to Redis, to the database and to the mail server   *)
(* is a step: it is executed and answered, executed with its answer lost,  *)
(* or never reached.                                                       *)
(*                                                                         *)
(* A call stands for what it creates: its password, its code, its session. *)
(* What a client types is right or wrong when it is compared.              *)
(***************************************************************************)
EXTENDS Naturals, FiniteSets

CONSTANTS
  Calls,        \* requests of clients, each used once
  Before,       \* the registration and the session of an account that exists from the start
  Nobody,
  MaxAttempts   \* wrong guesses a code survives, plus one (5 in the code)

ASSUME CallsAssumption == Before \notin Calls /\ Nobody \notin Calls \union {Before}
ASSUME AttemptsAssumption == MaxAttempts \in Nat \ {0}

People   == Calls \union {Before}
Purposes == {"register", "reset"}
Ops      == {"register", "resend", "verify", "login", "forgot", "reset", "logout", "admin"}

\* pendingVerification and its time to live in Redis.
PendingType == [code : Calls \union {Nobody}, password : People \union {Nobody},
                attempts : 0 .. MaxAttempts, life : {"none", "timed", "endless"}]
NoCode == [code |-> Nobody, password |-> Nobody, attempts |-> 0, life |-> "none"]

Running   == {"count", "lookup", "copy", "cooldown", "store", "mail", "unmail",
              "check", "ttl", "recount", "create", "find", "update", "list", "revoke",
              "forget", "open", "whose", "close", "close_unlisted"}
Positions == Running \union {"idle", "done", "dead"}
Answers   == {"none", "accepted", "signed_in", "no_content", "invalid_captcha",
              "invalid_code", "invalid_credentials", "email_in_use", "rate_limited",
              "mail_unavailable", "unauthorized", "failed"}

VARIABLES
  account,    \* whose password the account has; Nobody while there is none
  pending,    \* auth:pending:<purpose>:<email>
  cooldown,   \* the purposes whose auth:cooldown key exists
  sessions,   \* auth:session:<digest>
  listed,     \* auth:user_sessions:<id>
  op, pc, answer,
  got,        \* the pending code a call has read
  keys,       \* the sessions a call is about to delete
  proof,      \* the password that a call, or the one that opened a session, was shown
  \* history, for the properties
  mailed,     \* codes that reached the mailbox
  late,       \* sessions opened during a revocation, or with a password replaced meanwhile
  unsure,     \* codes with a guess that overlapped another one, or their own storing, or was lost
  newest      \* the code that was stored last, for each purpose

redisVars == <<pending, cooldown, sessions, listed>>
vars == <<account, redisVars, op, pc, answer, got, keys, proof, mailed, late, unsure, newest>>

TypeOK ==
  /\ account \in People \union {Nobody}
  /\ pending \in [Purposes -> PendingType]
  /\ cooldown \in SUBSET Purposes
  /\ sessions \in SUBSET People /\ listed \in SUBSET People
  /\ op \in [Calls -> Ops \union {"none"}]
  /\ pc \in [Calls -> Positions]
  /\ answer \in [Calls -> Answers]
  /\ got \in [Calls -> PendingType]
  /\ keys \in [Calls -> SUBSET People]
  /\ proof \in [People -> People \union {Nobody}]
  /\ mailed \in SUBSET Calls /\ late \in SUBSET People
  /\ unsure \in SUBSET (Calls \union {Nobody})
  /\ newest \in [Purposes -> Calls \union {Nobody}]

Init ==
  /\ \/ account = Nobody /\ sessions = {}
     \/ account = Before /\ sessions = {Before}
  /\ listed = sessions
  /\ pending = [p \in Purposes |-> NoCode] /\ cooldown = {}
  /\ op = [c \in Calls |-> "none"] /\ pc = [c \in Calls |-> "idle"]
  /\ answer = [c \in Calls |-> "none"]
  /\ got = [c \in Calls |-> NoCode]
  /\ keys = [c \in Calls |-> {}] /\ proof = [s \in People |-> IF s = Before THEN Before ELSE Nobody]
  /\ mailed = {} /\ late = {} /\ unsure = {} /\ newest = [p \in Purposes |-> Nobody]

-----------------------------------------------------------------------------
(* How a call moves and answers *)

Purpose(c) == IF op[c] \in {"register", "resend", "verify"} THEN "register" ELSE "reset"

\* authError and, for a forgotten password, the one answer that covers most outcomes.
Shown(o, a) ==
  IF o = "forgot" /\ a \notin {"invalid_captcha", "mail_unavailable"} THEN "accepted" ELSE a

Go(c, p) == pc' = [pc EXCEPT ![c] = p] /\ UNCHANGED <<op, answer>>
Return(c, a) ==
  /\ pc' = [pc EXCEPT ![c] = "done"]
  /\ answer' = [answer EXCEPT ![c] = Shown(op[c], a)]
  /\ UNCHANGED op

locals == <<got, keys, proof>>
ghosts == <<mailed, late, unsure, newest>>

\* The first step of an operation, before anything shared is touched.
Arrive(c, o, p) ==
  /\ pc[c] = "idle"
  /\ op' = [op EXCEPT ![c] = o]
  /\ pc' = [pc EXCEPT ![c] = p]
  /\ UNCHANGED answer

\* What an operation may answer there: the body cannot be read, the address or the captcha
\* is wrong (consumeCaptcha uses it up by its first answer, right or wrong), the password
\* or the session is not the account's.
EarlyAnswers == [register |-> {"failed", "invalid_captcha"}, resend |-> {"failed"},
                 forgot   |-> {"failed", "invalid_captcha", "accepted"},
                 verify   |-> {"failed"}, reset |-> {"failed", "invalid_code"},
                 login    |-> {"failed", "invalid_captcha", "invalid_credentials"},
                 logout   |-> {"unauthorized"}]
Refuse(c, o, a) ==
  /\ pc[c] = "idle"
  /\ op' = [op EXCEPT ![c] = o]
  /\ pc' = [pc EXCEPT ![c] = "done"]
  /\ answer' = [answer EXCEPT ![c] = a]
TurnAway(c) ==
  /\ \E o \in DOMAIN EarlyAnswers : \E a \in EarlyAnswers[o] : Refuse(c, o, a)
  /\ UNCHANGED <<account, redisVars, locals, ghosts>>

\* Registration, resend, forgotten password, verification and reset go on to their command.
Begin(c) ==
  /\ \/ Arrive(c, "register", "count") \/ Arrive(c, "resend", "copy")
     \/ Arrive(c, "forgot", "lookup")
     \/ Arrive(c, "verify", "check") \/ Arrive(c, "reset", "check")
  /\ UNCHANGED <<account, redisVars, locals, ghosts>>

-----------------------------------------------------------------------------
(* A code is requested *)

\* StartRegistration: the address is in use, or the password is turned into a hash, or something fails.
CountUsers(c) ==
  /\ pc[c] = "count"
  /\ \/ account # Nobody /\ Return(c, "email_in_use") /\ UNCHANGED got
     \/ Return(c, "failed") /\ UNCHANGED got
     \/ /\ account = Nobody
        /\ got' = [got EXCEPT ![c] = [NoCode EXCEPT !.password = c]]
        /\ Go(c, "cooldown")
  /\ UNCHANGED <<account, redisVars, keys, proof, ghosts>>

\* ResendRegistration: the former password under a new code.
Copy(c) ==
  /\ pc[c] = "copy"
  /\ \/ /\ pending["register"] # NoCode
        /\ got' = [got EXCEPT ![c] = [NoCode EXCEPT !.password = pending["register"].password]]
        /\ Go(c, "cooldown")
     \/ Return(c, "invalid_code") /\ UNCHANGED got
  /\ UNCHANGED <<account, redisVars, keys, proof, ghosts>>

\* StartPasswordReset, which does not tell whether there is an account.
Lookup(c) ==
  /\ pc[c] = "lookup"
  /\ \/ account # Nobody /\ Go(c, "cooldown")
     \/ Return(c, "accepted")
  /\ UNCHANGED <<account, redisVars, locals, ghosts>>

(* createPending *)

SetCooldown(c) ==
  /\ pc[c] = "cooldown"
  /\ \/ /\ Purpose(c) \notin cooldown
        /\ cooldown' = cooldown \union {Purpose(c)}
        /\ Go(c, "store") \/ Return(c, "failed")
     \/ /\ Purpose(c) \in cooldown /\ Return(c, "rate_limited")
        /\ UNCHANGED cooldown
     \/ Return(c, "failed") /\ UNCHANGED cooldown
  /\ UNCHANGED <<account, pending, sessions, listed, locals, ghosts>>

\* Calls that have found a guess at code k wrong and not yet written that back.
Guessing(k) == {c \in Calls : pc[c] \in {"ttl", "recount"} /\ got[c].code = k}

\* Faulty variant: a code that is still pending is kept.
StorePendingOnce(c) ==
  /\ pc[c] = "store"
  /\ newest' = [newest EXCEPT ![Purpose(c)] = c]
  /\ pending' = IF pending[Purpose(c)] # NoCode THEN pending ELSE
       [pending EXCEPT ![Purpose(c)] =
          [code |-> c, password |-> got[c].password, attempts |-> 0, life |-> "timed"]]
  /\ Go(c, "mail")
  /\ UNCHANGED <<account, cooldown, sessions, listed, locals, mailed, late, unsure>>

StorePending(c) ==
  /\ pc[c] = "store"
  /\ \/ /\ pending' = [pending EXCEPT ![Purpose(c)] =
                         [code |-> c, password |-> got[c].password, attempts |-> 0, life |-> "timed"]]
        /\ newest' = [newest EXCEPT ![Purpose(c)] = c]
        /\ unsure' = IF \A k \in Calls : Guessing(k) = {} THEN unsure ELSE unsure \union {c}
        /\ Go(c, "mail") \/ Return(c, "failed")
     \/ Return(c, "failed") /\ UNCHANGED <<pending, newest, unsure>>
  /\ UNCHANGED <<account, cooldown, sessions, listed, locals, mailed, late>>

\* SendVerification.  The server may have taken the message although sending it failed,
\* in the last step (QUIT) or by a broken connection.
SendMail(c) ==
  /\ pc[c] = "mail"
  /\ \/ mailed' = mailed \union {c} /\ (Return(c, "accepted") \/ Go(c, "unmail"))
     \/ Go(c, "unmail") /\ UNCHANGED mailed
  /\ UNCHANGED <<account, redisVars, locals, late, unsure, newest>>

\* What is deleted is whatever the keys hold by now.
Unmail(c) ==
  /\ pc[c] = "unmail"
  /\ \/ pending' = [pending EXCEPT ![Purpose(c)] = NoCode] /\ cooldown' = cooldown \ {Purpose(c)}
     \/ UNCHANGED <<pending, cooldown>>
  /\ Return(c, "mail_unavailable")
  /\ UNCHANGED <<account, sessions, listed, locals, ghosts>>

-----------------------------------------------------------------------------
(* A code is presented: verifyPending *)

\* Faulty variant: the copy that is written back does not count the guess.
CheckUncounted(c) ==
  /\ pc[c] = "check"
  /\ LET found  == pending[Purpose(c)]
         usable == found # NoCode /\ found.attempts < MaxAttempts IN
     \/ /\ usable
        /\ got' = [got EXCEPT ![c] = found]
        /\ unsure' = IF Guessing(found.code) = {} THEN unsure ELSE unsure \union {found.code}
        /\ Go(c, "ttl")
     \/ Return(c, "invalid_code") /\ UNCHANGED <<got, unsure>>
  /\ UNCHANGED <<account, redisVars, keys, proof, mailed, late, newest>>

Check(c) ==
  /\ pc[c] = "check"
  /\ LET found  == pending[Purpose(c)]
         usable == found # NoCode /\ found.attempts < MaxAttempts IN
     \/ /\ usable /\ found.code \in mailed
        /\ got' = [got EXCEPT ![c] = found]
        /\ Go(c, IF op[c] = "verify" THEN "create" ELSE "find")
        /\ UNCHANGED unsure
     \/ /\ usable
        /\ got' = [got EXCEPT ![c] = [found EXCEPT !.attempts = @ + 1]]
        /\ unsure' = IF Guessing(found.code) = {} THEN unsure ELSE unsure \union {found.code}
        /\ Go(c, "ttl")
     \/ Return(c, "invalid_code") /\ UNCHANGED <<got, unsure>>
  /\ UNCHANGED <<account, redisVars, keys, proof, mailed, late, newest>>

\* TTL: nothing left when the key is gone or the command failed.
ReadTTL(c) ==
  /\ pc[c] = "ttl"
  /\ \E l \in {pending[Purpose(c)].life, "none"} : got' = [got EXCEPT ![c].life = l]
  /\ Go(c, "recount")
  /\ UNCHANGED <<account, redisVars, keys, proof, ghosts>>

\* SET with the life that TTL reported: without one the key never expires, except that
\* "does not expire" keeps the life of the key it overwrites.
Rewritten(c) ==
  LET now == pending[Purpose(c)] IN
  [got[c] EXCEPT !.life = CASE @ = "timed" -> "timed"
                            [] @ = "endless" /\ now # NoCode -> now.life
                            [] OTHER -> "endless"]

\* The guess is written back, or deletes the code when it was the last one.
Recount(c) ==
  /\ pc[c] = "recount"
  /\ \/ /\ pending' = [pending EXCEPT ![Purpose(c)] =
                         IF got[c].attempts >= MaxAttempts THEN NoCode ELSE Rewritten(c)]
        /\ UNCHANGED unsure
     \/ unsure' = unsure \union {got[c].code} /\ UNCHANGED pending
  /\ Return(c, "invalid_code")
  /\ UNCHANGED <<account, cooldown, sessions, listed, locals, mailed, late, newest>>

-----------------------------------------------------------------------------
(* The account is created or gets another password *)

\* VerifyRegistration: the unique index lets one registration of the address pass.
CreateUser(c) ==
  /\ pc[c] = "create"
  /\ \/ account = Nobody /\ account' = got[c].password
        /\ \/ Go(c, "forget") /\ proof' = [proof EXCEPT ![c] = got[c].password]
           \/ Return(c, "failed") /\ UNCHANGED proof
     \/ account # Nobody /\ Return(c, "email_in_use") /\ UNCHANGED <<account, proof>>
     \/ Return(c, "failed") /\ UNCHANGED <<account, proof>>
  /\ UNCHANGED <<redisVars, got, keys, ghosts>>

\* ResetPassword: the new password is unfit, the account is not found, or it is.
Find(c) ==
  /\ pc[c] = "find"
  /\ \/ Return(c, "failed") /\ got' = [got EXCEPT ![c] = NoCode]
     \/ Return(c, "invalid_code") /\ got' = [got EXCEPT ![c] = NoCode]
     \/ account # Nobody /\ Go(c, "update") /\ UNCHANGED got
  /\ UNCHANGED <<account, redisVars, keys, proof, ghosts>>

UpdatePassword(c) ==
  /\ pc[c] = "update"
  /\ \/ account' = c /\ (Go(c, "list") \/ Return(c, "failed"))
     \/ Return(c, "failed") /\ UNCHANGED account
  /\ proof' = [proof EXCEPT ![c] = c]
  /\ UNCHANGED <<redisVars, got, keys, ghosts>>

(* RevokeAllSessions *)

ListSessions(c) ==
  /\ pc[c] = "list"
  /\ \/ Go(c, "revoke") /\ keys' = [keys EXCEPT ![c] = listed]
     \/ Return(c, "failed") /\ UNCHANGED keys
  /\ UNCHANGED <<account, redisVars, got, proof, ghosts>>

\* Faulty variant: only the set is deleted.
RevokeList(c) ==
  /\ pc[c] = "revoke"
  /\ listed' = {} /\ Go(c, "forget")
  /\ UNCHANGED <<account, pending, cooldown, sessions, locals, ghosts>>

\* Faulty variant: the error of the deletion is ignored.
RevokeUnchecked(c) ==
  /\ pc[c] = "revoke"
  /\ \/ sessions' = sessions \ keys[c] /\ listed' = {}
     \/ UNCHANGED <<sessions, listed>>
  /\ Go(c, "forget")
  /\ UNCHANGED <<account, pending, cooldown, locals, ghosts>>

Revoke(c) ==
  /\ pc[c] = "revoke"
  /\ \/ /\ sessions' = sessions \ keys[c] /\ listed' = {}
        /\ Go(c, "forget") \/ Return(c, "failed")
     \/ Return(c, "failed") /\ UNCHANGED <<sessions, listed>>
  /\ UNCHANGED <<account, pending, cooldown, locals, ghosts>>

\* The code is used up, its command's errors are ignored.
Forget(c) ==
  /\ pc[c] = "forget"
  /\ pending' = [pending EXCEPT ![Purpose(c)] = NoCode] \/ UNCHANGED pending
  /\ Go(c, "open")
  /\ UNCHANGED <<account, cooldown, sessions, listed, locals, ghosts>>

\* EnsureAdmin (cmd/seed-admin): one transaction that creates the account or replaces its
\* password, and leaves the sessions alone.
EnsureAdmin(c) ==
  /\ \/ account' = c /\ (Refuse(c, "admin", "no_content") \/ Refuse(c, "admin", "failed"))
     \/ Refuse(c, "admin", "failed") /\ UNCHANGED account
  /\ UNCHANGED <<redisVars, locals, ghosts>>

-----------------------------------------------------------------------------
(* Sessions *)

\* Login compares the password typed with the account's as it reads it.
Login(c) ==
  /\ account # Nobody
  /\ Arrive(c, "login", "open")
  /\ proof' = [proof EXCEPT ![c] = account]
  /\ UNCHANGED <<account, redisVars, got, keys, ghosts>>

\* createSession: one transaction stores the session and lists it.
OpenSession(c) ==
  /\ pc[c] = "open"
  /\ \/ /\ sessions' = sessions \union {c} /\ listed' = listed \union {c}
        /\ late' = IF proof[c] # account \/ \E d \in Calls : pc[d] = "revoke"
                   THEN late \union {c} ELSE late
        /\ Return(c, "signed_in") \/ Return(c, "failed")
     \/ Return(c, "failed") /\ UNCHANGED <<sessions, listed, late>>
  /\ UNCHANGED <<account, pending, cooldown, locals, mailed, unsure, newest>>

\* CurrentUser: the session is looked up, and then its account, which is never deleted.
CurrentUser(s) == s \in sessions

\* requireUser lets a live session's request through to Logout.
RequireUser(c, s) ==
  /\ CurrentUser(s)
  /\ Arrive(c, "logout", "whose")
  /\ keys' = [keys EXCEPT ![c] = {s}]
  /\ UNCHANGED <<account, redisVars, got, proof, ghosts>>

\* Logout asks again whose session it is, to take it off the list; an error means nobody's.
ReadOwner(c) ==
  /\ pc[c] = "whose"
  /\ \/ keys[c] \subseteq sessions /\ Go(c, "close")
     \/ Go(c, "close_unlisted")
  /\ UNCHANGED <<account, redisVars, locals, ghosts>>

Close(c) ==
  /\ pc[c] \in {"close", "close_unlisted"}
  /\ \/ /\ sessions' = sessions \ keys[c]
        /\ listed' = IF pc[c] = "close" THEN listed \ keys[c] ELSE listed
        /\ Return(c, "no_content") \/ Return(c, "failed")
     \/ Return(c, "failed") /\ UNCHANGED <<sessions, listed>>
  /\ UNCHANGED <<account, pending, cooldown, locals, ghosts>>

-----------------------------------------------------------------------------
(* Lifetimes and crashes *)

CodeExpires(p) ==
  /\ pending[p].life = "timed"
  /\ pending' = [pending EXCEPT ![p] = NoCode]
  /\ UNCHANGED <<account, cooldown, sessions, listed, op, pc, answer, locals, ghosts>>

CooldownExpires(p) ==
  /\ p \in cooldown
  /\ cooldown' = cooldown \ {p}
  /\ UNCHANGED <<account, pending, sessions, listed, op, pc, answer, locals, ghosts>>

SessionExpires(s) ==
  /\ s \in sessions
  /\ sessions' = sessions \ {s}
  /\ UNCHANGED <<account, pending, cooldown, listed, op, pc, answer, locals, ghosts>>

\* The set's life is renewed with every session, so it ends after the last one it lists.
ListExpires ==
  /\ listed # {} /\ listed \intersect sessions = {}
  /\ listed' = {}
  /\ UNCHANGED <<account, pending, cooldown, sessions, op, pc, answer, locals, ghosts>>

\* The process dies, or the client hangs up and the rest of the call's commands fail.
Die(c) ==
  /\ pc[c] \in Running
  /\ pc' = [pc EXCEPT ![c] = "dead"]
  /\ unsure' = IF pc[c] \in {"ttl", "recount"} THEN unsure \union {got[c].code} ELSE unsure
  /\ UNCHANGED <<account, redisVars, op, answer, locals, mailed, late, newest>>

Next ==
  \/ \E c \in Calls :
       \/ TurnAway(c) \/ Begin(c) \/ Login(c) \/ EnsureAdmin(c)
       \/ \E s \in People : RequireUser(c, s)
       \/ CountUsers(c) \/ Copy(c) \/ Lookup(c)
       \/ SetCooldown(c) \/ StorePending(c) \/ SendMail(c) \/ Unmail(c)
       \/ Check(c) \/ ReadTTL(c) \/ Recount(c)
       \/ CreateUser(c) \/ Find(c) \/ UpdatePassword(c)
       \/ ListSessions(c) \/ Revoke(c) \/ Forget(c)
       \/ OpenSession(c) \/ ReadOwner(c) \/ Close(c) \/ Die(c)
  \/ \E p \in Purposes : CodeExpires(p) \/ CooldownExpires(p)
  \/ \E s \in People : SessionExpires(s)
  \/ ListExpires

Spec == Init /\ [][Next]_vars

-----------------------------------------------------------------------------
(* Properties *)

\* A session that the user's set does not list, and that RevokeAllSessions would therefore
\* leave alone, was opened between the two commands of an earlier revocation or with a
\* password that had been replaced in between.
SessionsAreListed == sessions \subseteq listed \union late

\* After a password reset that was answered with success, no session opened with an earlier
\* password is live, but for those opened during its revocation or by a login that had
\* compared the password before it was replaced (ResetPassword, RevokeAllSessions).  A
\* registration finds no session.  Only seed-admin, or a reset that failed after it had
\* stored the password, leave others.
StaleSessionsHaveAReason ==
  \A s \in sessions \ late :
    proof[s] # account =>
      op[account] = "admin" \/ (op[account] = "reset" /\ answer[account] # "signed_in")

\* Every wrong guess at a code is counted (verifyPending), unless two guesses overlapped or
\* the count could not be written.
GuessesAreCounted ==
  \A p \in Purposes : LET k == pending[p].code IN
    k \in Calls \ unsure /\ Guessing(k) = {} =>
      pending[p].attempts =
        Cardinality({c \in Calls : answer[c] = "invalid_code" /\ got[c].code = k})

\* The pending code is the one that was stored last: an earlier code does not come back
\* (createPending, verifyPending), unless a wrong guess was being written back meanwhile.
NewestCodeCounts ==
  \A p \in Purposes :
    pending[p].code \in {Nobody, newest[p]} \/ newest[p] \in unsure

\* The mails say that a code is valid for 10 minutes (mailer.go:65, 76): a pending code
\* that was mailed has a lifetime.
CodesExpire ==
  \A p \in Purposes : pending[p].code \in mailed => pending[p].life # "endless"
=============================================================================
