-------------------------- MODULE AuthServiceProofs --------------------------
(***************************************************************************)
(* Proofs about AuthService, for any number of calls and any mixture of    *)
(* operations, and any number of guesses a code survives.                  *)
(***************************************************************************)
EXTENDS AuthService, FiniteSetTheorems, TLAPS

LEMMA NoCodeType == NoCode \in PendingType
BY AttemptsAssumption DEF NoCode, PendingType

\* What is stored, copied and written back is a pending code again.
LEMMA PasswordType ==
  ASSUME NEW w \in People \union {Nobody}
  PROVE  [NoCode EXCEPT !.password = w] \in PendingType
BY AttemptsAssumption DEF NoCode, PendingType

LEMMA StoredType ==
  ASSUME NEW c \in Calls, NEW g \in PendingType
  PROVE  [code |-> c, password |-> g.password, attempts |-> 0, life |-> "timed"] \in PendingType
BY AttemptsAssumption DEF PendingType

LEMMA CountedType ==
  ASSUME NEW g \in PendingType, g.attempts < MaxAttempts
  PROVE  [g EXCEPT !.attempts = @ + 1] \in PendingType
BY AttemptsAssumption DEF PendingType

LEMMA LifeType ==
  ASSUME NEW g \in PendingType, NEW l \in {"none", "timed", "endless"}
  PROVE  [g EXCEPT !.life = l] \in PendingType
BY DEF PendingType

LEMMA PurposeType == ASSUME NEW c \in Calls PROVE Purpose(c) \in Purposes
BY DEF Purpose, Purposes

LEMMA RewrittenType ==
  ASSUME TypeOK, NEW c \in Calls
  PROVE  Rewritten(c) \in PendingType
<1> DEFINE now == pending[Purpose(c)]
           l == CASE got[c].life = "timed" -> "timed"
                  [] got[c].life = "endless" /\ now # NoCode -> now.life
                  [] OTHER -> "endless"
<1>1. now \in PendingType /\ got[c] \in PendingType
  BY PurposeType DEF TypeOK
<1>2. l \in {"none", "timed", "endless"}
  BY <1>1 DEF PendingType
<1>3. Rewritten(c) = [got[c] EXCEPT !.life = l]
  BY <1>1 DEF Rewritten, PendingType
<1> HIDE DEF now, l
<1> QED BY <1>1, <1>2, <1>3, LifeType

-----------------------------------------------------------------------------
(* Type correctness.                                                       *)

LEMMA GoType ==
  ASSUME TypeOK, NEW c \in Calls, NEW p \in Positions, Go(c, p)
  PROVE  pc' \in [Calls -> Positions] /\ op' = op /\ answer' = answer
BY DEF TypeOK, Go

LEMMA ReturnType ==
  ASSUME TypeOK, NEW c \in Calls, NEW a \in Answers, Return(c, a)
  PROVE  pc' \in [Calls -> Positions] /\ op' = op /\ answer' \in [Calls -> Answers]
BY DEF TypeOK, Return, Shown, Positions, Answers

\* The positions, operations and answers of a step.
Control ==
  /\ pc \in [Calls -> Positions] /\ op \in [Calls -> Ops \union {"none"}]
  /\ answer \in [Calls -> Answers]

LEMMA ControlStep == TypeOK /\ [Next]_vars => Control'
<1> SUFFICES ASSUME TypeOK, [Next]_vars PROVE Control'
  OBVIOUS
<1> USE DEF TypeOK, Control
<1> USE DEF Positions, Running, Answers, Ops, Arrive, Refuse, Go, Return, Shown
<1>1. ASSUME NEW c \in Calls, TurnAway(c) PROVE Control'
  BY <1>1 DEF TurnAway, EarlyAnswers
<1>2. ASSUME NEW c \in Calls, Begin(c) PROVE Control'
  BY <1>2 DEF Begin
<1>3. ASSUME NEW c \in Calls, Login(c) \/ EnsureAdmin(c) \/ \E s \in People : RequireUser(c, s)
      PROVE  Control'
  BY <1>3 DEF Login, EnsureAdmin, RequireUser
<1>4. ASSUME NEW c \in Calls, CountUsers(c) \/ Copy(c) \/ Lookup(c) PROVE Control'
  BY <1>4 DEF CountUsers, Copy, Lookup
<1>5. ASSUME NEW c \in Calls, SetCooldown(c) \/ StorePending(c) \/ SendMail(c) \/ Unmail(c)
      PROVE  Control'
  BY <1>5 DEF SetCooldown, StorePending, SendMail, Unmail
<1>6. ASSUME NEW c \in Calls, Check(c) \/ ReadTTL(c) \/ Recount(c) PROVE Control'
  BY <1>6 DEF Check, ReadTTL, Recount
<1>7. ASSUME NEW c \in Calls, CreateUser(c) \/ Find(c) \/ UpdatePassword(c) PROVE Control'
  BY <1>7 DEF CreateUser, Find, UpdatePassword
<1>8. ASSUME NEW c \in Calls, ListSessions(c) \/ Revoke(c) \/ Forget(c) PROVE Control'
  BY <1>8 DEF ListSessions, Revoke, Forget
<1>9. ASSUME NEW c \in Calls, OpenSession(c) \/ ReadOwner(c) \/ Close(c) \/ Die(c) PROVE Control'
  BY <1>9 DEF OpenSession, ReadOwner, Close, Die
<1>10. CASE \E p \in Purposes : CodeExpires(p) \/ CooldownExpires(p)
  BY <1>10 DEF CodeExpires, CooldownExpires
<1>11. CASE ListExpires \/ \E s \in People : SessionExpires(s)
  BY <1>11 DEF ListExpires, SessionExpires
<1>12. CASE UNCHANGED vars
  BY <1>12 DEF vars
<1> QED BY <1>1, <1>2, <1>3, <1>4, <1>5, <1>6, <1>7, <1>8, <1>9, <1>10, <1>11, <1>12 DEF Next

\* The codes in Redis and the copies calls made of them.
Codes == pending \in [Purposes -> PendingType] /\ got \in [Calls -> PendingType]

LEMMA CodesStep == TypeOK /\ [Next]_vars => Codes'
<1> SUFFICES ASSUME TypeOK, [Next]_vars PROVE Codes'
  OBVIOUS
<1>t. Codes /\ account \in People \union {Nobody}
  BY DEF TypeOK, Codes
<1>p. Calls \subseteq People
  BY DEF People
<1> USE DEF Codes
<1>1. ASSUME NEW c \in Calls,
             \/ TurnAway(c) \/ Begin(c) \/ Login(c) \/ EnsureAdmin(c) \/ Lookup(c) \/ SetCooldown(c)
             \/ SendMail(c) \/ UpdatePassword(c) \/ ListSessions(c) \/ Revoke(c) \/ OpenSession(c)
             \/ ReadOwner(c) \/ Close(c) \/ Die(c) \/ CreateUser(c) \/ \E s \in People : RequireUser(c, s)
      PROVE  pending' = pending /\ got' = got
  BY <1>1 DEF TurnAway, Begin, Login, EnsureAdmin, RequireUser, Lookup, SetCooldown, SendMail,
              UpdatePassword, ListSessions, Revoke, OpenSession, ReadOwner, Close, Die, CreateUser,
              redisVars, locals
<1>2. ASSUME NEW c \in Calls, CountUsers(c) PROVE Codes'
  BY <1>t, <1>p, <1>2, PasswordType DEF CountUsers, redisVars
<1>3. ASSUME NEW c \in Calls, Copy(c) PROVE Codes'
  <2>1. pending["register"].password \in People \union {Nobody}
    BY <1>t DEF PendingType, Purposes
  <2> QED BY <1>t, <1>3, <2>1, PasswordType DEF Copy, redisVars
<1>4. ASSUME NEW c \in Calls, StorePending(c) PROVE Codes'
  BY <1>t, <1>4, StoredType, PurposeType DEF StorePending, locals
<1>5. ASSUME NEW c \in Calls, Unmail(c) \/ Forget(c) PROVE Codes'
  BY <1>t, <1>5, NoCodeType, PurposeType DEF Unmail, Forget, locals
<1>6. ASSUME NEW c \in Calls, Check(c) PROVE Codes'
  <2> DEFINE found == pending[Purpose(c)]
  <2>1. found \in PendingType
    BY <1>t, PurposeType
  <2>2. pending' = pending
    BY <1>6 DEF Check, redisVars
  <2>3. \/ got' = got \/ got' = [got EXCEPT ![c] = found]
        \/ found.attempts < MaxAttempts /\ got' = [got EXCEPT ![c] = [found EXCEPT !.attempts = @ + 1]]
    BY <1>6 DEF Check
  <2> HIDE DEF found
  <2> QED BY <1>t, <2>1, <2>2, <2>3, CountedType
<1>7. ASSUME NEW c \in Calls, ReadTTL(c) PROVE Codes'
  <2>1. \A l \in {pending[Purpose(c)].life, "none"} : l \in {"none", "timed", "endless"}
    BY <1>t, PurposeType DEF PendingType
  <2>2. PICK l \in {pending[Purpose(c)].life, "none"} : got' = [got EXCEPT ![c].life = l]
    BY <1>7 DEF ReadTTL
  <2>3. [got[c] EXCEPT !.life = l] \in PendingType
    BY <1>t, <2>1, LifeType
  <2>4. got' = [got EXCEPT ![c] = [got[c] EXCEPT !.life = l]]
    BY <1>t, <2>2
  <2> QED BY <1>t, <1>7, <2>3, <2>4 DEF ReadTTL, redisVars
<1>8. ASSUME NEW c \in Calls, Recount(c) PROVE Codes'
  BY <1>t, <1>8, NoCodeType, RewrittenType, PurposeType DEF Recount, locals
<1>9. ASSUME NEW c \in Calls, Find(c) PROVE Codes'
  BY <1>t, <1>9, NoCodeType DEF Find, redisVars
<1>10. CASE \E p \in Purposes : CodeExpires(p) \/ CooldownExpires(p)
  BY <1>t, <1>10, NoCodeType DEF CodeExpires, CooldownExpires, locals
<1>11. CASE ListExpires \/ \E s \in People : SessionExpires(s)
  BY <1>t, <1>11 DEF ListExpires, SessionExpires, locals
<1>12. CASE UNCHANGED vars
  BY <1>t, <1>12 DEF vars, redisVars
<1> QED BY <1>t, <1>1, <1>2, <1>3, <1>4, <1>5, <1>6, <1>7, <1>8, <1>9, <1>10, <1>11, <1>12 DEF Next

\* The account, the sessions and the rest.
Rest ==
  /\ account \in People \union {Nobody} /\ cooldown \in SUBSET Purposes
  /\ sessions \in SUBSET People /\ listed \in SUBSET People
  /\ keys \in [Calls -> SUBSET People] /\ proof \in [People -> People \union {Nobody}]
  /\ mailed \in SUBSET Calls /\ late \in SUBSET People
  /\ newest \in [Purposes -> Calls \union {Nobody}]

LEMMA RestStep == TypeOK /\ [Next]_vars => Rest'
<1> SUFFICES ASSUME TypeOK, [Next]_vars PROVE Rest'
  OBVIOUS
<1>t. Rest /\ Calls \subseteq People
  BY DEF TypeOK, Rest, People
<1> USE DEF Rest
<1>1. ASSUME NEW c \in Calls,
             \/ TurnAway(c) \/ Begin(c) \/ CountUsers(c) \/ Copy(c) \/ Lookup(c) \/ Check(c)
             \/ ReadTTL(c) \/ Recount(c) \/ Find(c) \/ Forget(c) \/ ReadOwner(c) \/ Die(c)
      PROVE  UNCHANGED <<account, cooldown, sessions, listed, keys, proof, mailed, late, newest>>
  BY <1>1 DEF TurnAway, Begin, CountUsers, Copy, Lookup, Check, ReadTTL, Recount, Find, Forget,
              ReadOwner, Die, redisVars, locals, ghosts
<1>2. ASSUME NEW c \in Calls, Login(c) \/ EnsureAdmin(c) \/ \E s \in People : RequireUser(c, s)
      PROVE  Rest'
  BY <1>t, <1>2 DEF Login, EnsureAdmin, RequireUser, redisVars, locals, ghosts
<1>3. ASSUME NEW c \in Calls, SetCooldown(c) \/ StorePending(c) \/ SendMail(c) \/ Unmail(c)
      PROVE  Rest'
  BY <1>t, <1>3, PurposeType
     DEF SetCooldown, StorePending, SendMail, Unmail, redisVars, locals, ghosts
<1>4. ASSUME NEW c \in Calls, CreateUser(c) PROVE Rest'
  <2>1. got[c].password \in People \union {Nobody}
    BY DEF TypeOK, PendingType
  <2> QED BY <1>t, <1>4, <2>1 DEF CreateUser, redisVars, ghosts
<1>5. ASSUME NEW c \in Calls, UpdatePassword(c) PROVE Rest'
  BY <1>t, <1>5 DEF UpdatePassword, redisVars, ghosts
<1>6. ASSUME NEW c \in Calls, ListSessions(c) \/ Revoke(c) \/ OpenSession(c) \/ Close(c) PROVE Rest'
  BY <1>t, <1>6 DEF ListSessions, Revoke, OpenSession, Close, redisVars, locals, ghosts
<1>7. CASE \E p \in Purposes : CodeExpires(p) \/ CooldownExpires(p)
  BY <1>t, <1>7 DEF CodeExpires, CooldownExpires, locals, ghosts
<1>8. CASE ListExpires \/ \E s \in People : SessionExpires(s)
  BY <1>t, <1>8 DEF ListExpires, SessionExpires, locals, ghosts
<1>9. CASE UNCHANGED vars
  BY <1>t, <1>9 DEF vars, redisVars
<1> QED BY <1>t, <1>1, <1>2, <1>3, <1>4, <1>5, <1>6, <1>7, <1>8, <1>9 DEF Next

LEMMA UnsureStep == TypeOK /\ [Next]_vars => unsure' \in SUBSET (Calls \union {Nobody})
<1> SUFFICES ASSUME TypeOK, [Next]_vars PROVE unsure' \in SUBSET (Calls \union {Nobody})
  OBVIOUS
<1>t. /\ unsure \in SUBSET (Calls \union {Nobody})
      /\ \A p \in Purposes : pending[p].code \in Calls \union {Nobody}
      /\ \A c \in Calls : got[c].code \in Calls \union {Nobody}
  BY DEF TypeOK, PendingType
<1>1. ASSUME NEW c \in Calls, StorePending(c) PROVE unsure' \in SUBSET (Calls \union {Nobody})
  BY <1>t, <1>1 DEF StorePending
<1>2. ASSUME NEW c \in Calls, Check(c) PROVE unsure' \in SUBSET (Calls \union {Nobody})
  BY <1>t, <1>2, PurposeType DEF Check
<1>3. ASSUME NEW c \in Calls, Recount(c) \/ Die(c) PROVE unsure' \in SUBSET (Calls \union {Nobody})
  BY <1>t, <1>3 DEF Recount, Die
<1>4. ASSUME NEW c \in Calls,
             \/ TurnAway(c) \/ Begin(c) \/ Login(c) \/ EnsureAdmin(c) \/ (\E s \in People : RequireUser(c, s))
             \/ CountUsers(c) \/ Copy(c) \/ Lookup(c) \/ SetCooldown(c) \/ SendMail(c) \/ Unmail(c)
             \/ ReadTTL(c) \/ CreateUser(c) \/ Find(c) \/ UpdatePassword(c) \/ ListSessions(c)
             \/ Revoke(c) \/ Forget(c) \/ OpenSession(c) \/ ReadOwner(c) \/ Close(c)
      PROVE  unsure' = unsure
  BY <1>4 DEF TurnAway, Begin, Login, EnsureAdmin, RequireUser, CountUsers, Copy, Lookup,
              SetCooldown, SendMail, Unmail, ReadTTL, CreateUser, Find, UpdatePassword,
              ListSessions, Revoke, Forget, OpenSession, ReadOwner, Close, ghosts
<1>5. CASE \/ \E p \in Purposes : CodeExpires(p) \/ CooldownExpires(p)
           \/ ListExpires \/ \E s \in People : SessionExpires(s)
  BY <1>t, <1>5 DEF CodeExpires, CooldownExpires, ListExpires, SessionExpires, ghosts
<1>6. CASE UNCHANGED vars
  BY <1>t, <1>6 DEF vars
<1> QED BY <1>t, <1>1, <1>2, <1>3, <1>4, <1>5, <1>6 DEF Next

LEMMA TypeInit == Init => TypeOK
BY NoCodeType DEF Init, TypeOK, People, Positions, Running, Answers, Ops

LEMMA TypeStep == TypeOK /\ [Next]_vars => TypeOK'
<1> SUFFICES ASSUME TypeOK, [Next]_vars PROVE TypeOK'
  OBVIOUS
<1>1. Control' /\ Codes' /\ Rest' /\ unsure' \in SUBSET (Calls \union {Nobody})
  BY ControlStep, CodesStep, RestStep, UnsureStep
<1> QED BY <1>1 DEF TypeOK, Control, Codes, Rest

\* Every variable keeps its type, whatever the operations do to each other.
THEOREM TypeCorrect == Spec => []TypeOK
BY TypeInit, TypeStep, PTL DEF Spec

-----------------------------------------------------------------------------
(* Sessions that a revocation misses.                                      *)

\* What a revocation is about to delete, or late, is every session there is.
RevokersKnow ==
  \A d \in Calls : pc[d] = "revoke" => sessions \subseteq keys[d] \union late

Listed == SessionsAreListed /\ RevokersKnow

\* A position that changes for one call does not make another one revoke.
LEMMA Elsewhere ==
  ASSUME TypeOK, NEW c \in Calls, NEW p, pc' = [pc EXCEPT ![c] = p], p # "revoke"
  PROVE  \A d \in Calls : pc'[d] = "revoke" => pc[d] = "revoke" /\ d # c
BY DEF TypeOK

LEMMA ListedStep == TypeOK /\ Listed /\ [Next]_vars => Listed'
<1> SUFFICES ASSUME TypeOK, Listed, [Next]_vars PROVE Listed'
  OBVIOUS
<1> USE DEF Listed, SessionsAreListed, RevokersKnow
<1>t. keys \in [Calls -> SUBSET People] /\ pc \in [Calls -> Positions]
  BY DEF TypeOK
<1>1. ASSUME NEW c \in Calls,
             \/ TurnAway(c) \/ Begin(c) \/ Login(c) \/ EnsureAdmin(c) \/ CountUsers(c) \/ Copy(c) \/ Lookup(c)
             \/ SetCooldown(c) \/ StorePending(c) \/ SendMail(c) \/ Unmail(c) \/ Check(c) \/ ReadTTL(c)
             \/ Recount(c) \/ CreateUser(c) \/ Find(c) \/ UpdatePassword(c) \/ Forget(c) \/ ReadOwner(c)
             \/ Die(c)
      PROVE  Listed'
  <2>1. UNCHANGED <<sessions, listed, late, keys>>
    BY <1>1 DEF TurnAway, Begin, Login, EnsureAdmin, CountUsers, Copy, Lookup, SetCooldown,
                StorePending, SendMail, Unmail, Check, ReadTTL, Recount, CreateUser, Find,
                UpdatePassword, Forget, ReadOwner, Die, redisVars, locals, ghosts
  <2>2. \E p : p # "revoke" /\ pc' = [pc EXCEPT ![c] = p]
    BY <1>1 DEF TurnAway, Begin, Login, EnsureAdmin, CountUsers, Copy, Lookup, SetCooldown,
                StorePending, SendMail, Unmail, Check, ReadTTL, Recount, CreateUser, Find,
                UpdatePassword, Forget, ReadOwner, Die, Arrive, Refuse, Go, Return
  <2> QED BY <2>1, <2>2, Elsewhere
<1>2. ASSUME NEW c \in Calls, NEW s \in People, RequireUser(c, s) PROVE Listed'
  <2>1. UNCHANGED <<sessions, listed, late>> /\ \A d \in Calls \ {c} : keys'[d] = keys[d]
    BY <1>t, <1>2 DEF RequireUser, redisVars, ghosts
  <2>2. pc' = [pc EXCEPT ![c] = "whose"]
    BY <1>2 DEF RequireUser, Arrive
  <2> QED BY <2>1, <2>2, Elsewhere
<1>3. ASSUME NEW c \in Calls, ListSessions(c) PROVE Listed'
  <2>1. UNCHANGED <<sessions, listed, late>>
    BY <1>3 DEF ListSessions, redisVars, ghosts
  <2>2. CASE pc' = [pc EXCEPT ![c] = "revoke"] /\ keys' = [keys EXCEPT ![c] = listed]
    BY <1>t, <2>1, <2>2
  <2>3. CASE pc' = [pc EXCEPT ![c] = "done"] /\ keys' = keys
    BY <2>1, <2>3, Elsewhere
  <2> QED BY <1>3, <2>2, <2>3 DEF ListSessions, Go, Return
<1>4. ASSUME NEW c \in Calls, Revoke(c) PROVE Listed'
  <2>1. /\ UNCHANGED <<late, keys>>
        /\ \/ sessions' = sessions \ keys[c] /\ listed' = {}
           \/ UNCHANGED <<sessions, listed>>
    BY <1>4 DEF Revoke, locals, ghosts
  <2>2. \E p : p # "revoke" /\ pc' = [pc EXCEPT ![c] = p]
    BY <1>4 DEF Revoke, Go, Return
  <2>3. sessions \subseteq keys[c] \union late
    BY <1>4 DEF Revoke
  <2> QED BY <2>1, <2>2, <2>3, Elsewhere
<1>5. ASSUME NEW c \in Calls, OpenSession(c) PROVE Listed'
  <2>1. /\ keys' = keys /\ pc' = [pc EXCEPT ![c] = "done"]
        /\ \/ /\ sessions' = sessions \union {c} /\ listed' = listed \union {c}
              /\ late \subseteq late'
              /\ ((\E d \in Calls : pc[d] = "revoke") => c \in late')
           \/ UNCHANGED <<sessions, listed, late>>
    BY <1>5 DEF OpenSession, Return, locals
  <2> QED BY <2>1, Elsewhere
<1>6. ASSUME NEW c \in Calls, Close(c) PROVE Listed'
  <2>1. /\ UNCHANGED <<late, keys>> /\ pc' = [pc EXCEPT ![c] = "done"]
        /\ \/ sessions' = sessions \ keys[c] /\ (listed' = listed \ keys[c] \/ listed' = listed)
           \/ UNCHANGED <<sessions, listed>>
    BY <1>6 DEF Close, Return, locals, ghosts
  <2> QED BY <2>1, Elsewhere
<1>7. CASE \/ \E p \in Purposes : CodeExpires(p) \/ CooldownExpires(p)
           \/ ListExpires \/ \E s \in People : SessionExpires(s)
  BY <1>7 DEF CodeExpires, CooldownExpires, ListExpires, SessionExpires, locals, ghosts
<1>8. CASE UNCHANGED vars
  BY <1>8 DEF vars, redisVars
<1> QED BY <1>1, <1>2, <1>3, <1>4, <1>5, <1>6, <1>7, <1>8 DEF Next

LEMMA ListedInvariant == Spec => [](TypeOK /\ Listed)
<1>1. Init => Listed
  BY DEF Init, Listed, SessionsAreListed, RevokersKnow
<1> QED BY <1>1, TypeInit, TypeStep, ListedStep, PTL DEF Spec

\* RevokeAllSessions knows every session but those opened while a revocation was under way
\* or with a password that had been replaced: the set and the sessions change in the same
\* transactions, and a revocation that has read the set either deletes a session or finds
\* it marked as late.
THEOREM ListedCorrect == Spec => []SessionsAreListed
<1>1. Listed => SessionsAreListed
  BY DEF Listed
<1> QED BY <1>1, ListedInvariant, PTL

-----------------------------------------------------------------------------
(* Sessions that outlive a password.                                       *)

\* The steps each operation goes through, as far as the argument needs them.
Stages ==
  \A c \in Calls :
    /\ pc[c] = "idle" => op[c] = "none"
    /\ pc[c] = "count" => op[c] = "register"
    /\ pc[c] = "lookup" => op[c] = "forgot"
    /\ pc[c] = "check" => op[c] \in {"verify", "reset"}
    /\ pc[c] = "create" => op[c] = "verify"
    /\ pc[c] \in {"find", "update", "list", "revoke"} => op[c] = "reset"
    /\ pc[c] # "done" => answer[c] = "none"
    /\ c \in sessions => pc[c] = "done"

LEMMA StagesStep == TypeOK /\ Stages /\ [Next]_vars => Stages'
<1> SUFFICES ASSUME TypeOK, Stages, [Next]_vars PROVE Stages'
  OBVIOUS
<1>t. /\ pc \in [Calls -> Positions] /\ op \in [Calls -> Ops \union {"none"}]
      /\ answer \in [Calls -> Answers]
  BY DEF TypeOK
<1> USE DEF Stages
<1>1. ASSUME NEW c \in Calls,
             TurnAway(c) \/ Begin(c) \/ Login(c) \/ EnsureAdmin(c) \/ \E s \in People : RequireUser(c, s)
      PROVE  Stages'
  BY <1>t, <1>1 DEF TurnAway, Begin, Login, EnsureAdmin, RequireUser, Arrive, Refuse, redisVars
<1>2. ASSUME NEW c \in Calls, CountUsers(c) \/ Copy(c) \/ Lookup(c) PROVE Stages'
  BY <1>t, <1>2 DEF CountUsers, Copy, Lookup, Go, Return, redisVars
<1>3. ASSUME NEW c \in Calls, SetCooldown(c) \/ StorePending(c) \/ SendMail(c) \/ Unmail(c)
      PROVE  Stages'
  BY <1>t, <1>3 DEF SetCooldown, StorePending, SendMail, Unmail, Go, Return, redisVars
<1>4. ASSUME NEW c \in Calls, Check(c) \/ ReadTTL(c) \/ Recount(c) PROVE Stages'
  BY <1>t, <1>4 DEF Check, ReadTTL, Recount, Go, Return, redisVars
<1>5. ASSUME NEW c \in Calls, CreateUser(c) \/ Find(c) \/ UpdatePassword(c) PROVE Stages'
  BY <1>t, <1>5 DEF CreateUser, Find, UpdatePassword, Go, Return, redisVars
<1>6. ASSUME NEW c \in Calls, ListSessions(c) \/ Revoke(c) \/ Forget(c) PROVE Stages'
  BY <1>t, <1>6 DEF ListSessions, Revoke, Forget, Go, Return, redisVars
<1>7. ASSUME NEW c \in Calls, OpenSession(c) \/ ReadOwner(c) \/ Close(c) \/ Die(c) PROVE Stages'
  BY <1>t, <1>7 DEF OpenSession, ReadOwner, Close, Die, Go, Return, Running, redisVars
<1>8. CASE \/ \E p \in Purposes : CodeExpires(p) \/ CooldownExpires(p)
           \/ ListExpires \/ \E s \in People : SessionExpires(s)
  BY <1>8 DEF CodeExpires, CooldownExpires, ListExpires, SessionExpires
<1>9. CASE UNCHANGED vars
  BY <1>9 DEF vars, redisVars
<1> QED BY <1>1, <1>2, <1>3, <1>4, <1>5, <1>6, <1>7, <1>8, <1>9 DEF Next

\* The passwords that may become an account's are those of registrations.
Registered == {c \in Calls : op[c] = "register"}
Carries(c) == Purpose(c) = "register" /\ pc[c] \in {"cooldown", "store", "ttl", "recount", "create"}
PasswordsKnown ==
  /\ pending["register"] # NoCode => pending["register"].password \in Registered
  /\ \A c \in Calls : Carries(c) => got[c].password \in Registered


LEMMA PasswordsStep == TypeOK /\ Stages /\ PasswordsKnown /\ [Next]_vars => PasswordsKnown'
<1> SUFFICES ASSUME TypeOK, Stages, PasswordsKnown, [Next]_vars PROVE PasswordsKnown'
  OBVIOUS
<1>t. /\ pc \in [Calls -> Positions] /\ op \in [Calls -> Ops \union {"none"}]
      /\ pending \in [Purposes -> PendingType] /\ got \in [Calls -> PendingType]
  BY DEF TypeOK
<1>o. ASSUME NEW c \in Calls, op[c] # "none" PROVE op'[c] = op[c]
  <2>1. pc[c] # "idle"
    BY <1>o DEF Stages
  <2> QED BY <1>t, <2>1 DEF Next, vars, TurnAway, Begin, Login, EnsureAdmin, RequireUser, CountUsers,
       Copy, Lookup, SetCooldown, StorePending, SendMail, Unmail, Check, ReadTTL, Recount, CreateUser,
       Find, UpdatePassword, ListSessions, Revoke, Forget, OpenSession, ReadOwner, Close, Die,
       CodeExpires, CooldownExpires, SessionExpires, ListExpires, Arrive, Refuse, Go, Return
<1>n. Registered \subseteq Registered'
  BY <1>o DEF Registered
<1>k. ASSUME UNCHANGED <<pending, got>>,
             \A d \in Calls : Carries(d)' => Carries(d)
      PROVE  PasswordsKnown'
  BY <1>k, <1>n DEF PasswordsKnown
<1>1. ASSUME NEW c \in Calls,
             TurnAway(c) \/ Begin(c) \/ Login(c) \/ EnsureAdmin(c) \/ \E s \in People : RequireUser(c, s)
      PROVE  PasswordsKnown'
  <2>1. UNCHANGED <<pending, got>>
    BY <1>1 DEF TurnAway, Begin, Login, EnsureAdmin, RequireUser, redisVars, locals
  <2>2. \A d \in Calls : Carries(d)' => Carries(d)
    BY <1>t, <1>1 DEF Carries, Purpose, TurnAway, Begin, Login, EnsureAdmin, RequireUser, Arrive, Refuse
  <2> QED BY <1>k, <2>1, <2>2
<1>2. ASSUME NEW c \in Calls, Lookup(c) \/ SetCooldown(c) \/ SendMail(c) PROVE PasswordsKnown'
  <2>1. UNCHANGED <<pending, got>>
    BY <1>2 DEF Lookup, SetCooldown, SendMail, redisVars, locals
  <2>2. pc[c] = "lookup" => op[c] = "forgot"
    BY DEF Stages
  <2>3. \A d \in Calls : Carries(d)' => Carries(d)
    BY <1>t, <1>2, <2>2 DEF Carries, Purpose, Lookup, SetCooldown, SendMail, Go, Return
  <2> QED BY <1>k, <2>1, <2>3
<1>3. ASSUME NEW c \in Calls,
             \/ CreateUser(c) \/ UpdatePassword(c) \/ ListSessions(c) \/ Revoke(c) \/ OpenSession(c)
             \/ ReadOwner(c) \/ Close(c) \/ Die(c)
      PROVE  PasswordsKnown'
  <2>1. UNCHANGED <<pending, got>>
    BY <1>3 DEF CreateUser, UpdatePassword, ListSessions, Revoke, OpenSession, ReadOwner, Close, Die,
                redisVars, locals
  <2>2. \A d \in Calls : Carries(d)' => Carries(d)
    BY <1>t, <1>3 DEF Carries, Purpose, CreateUser, UpdatePassword, ListSessions, Revoke, OpenSession,
                      ReadOwner, Close, Die, Go, Return
  <2> QED BY <1>k, <2>1, <2>2
<1>4. ASSUME NEW c \in Calls, CountUsers(c) PROVE PasswordsKnown'
  <2>1. op[c] = "register" /\ pending' = pending /\ op' = op
    BY <1>4 DEF CountUsers, Stages, Go, Return, redisVars
  <2>2. \A d \in Calls \ {c} : got'[d] = got[d] /\ pc'[d] = pc[d]
    BY <1>t, <1>4 DEF CountUsers, Go, Return
  <2>3. pc'[c] = "cooldown" \/ pc'[c] = "done"
    BY <1>t, <1>4 DEF CountUsers, Go, Return
  <2>4. pc'[c] = "cooldown" => got'[c].password = c
    BY <1>t, <1>4 DEF CountUsers, Go, Return, NoCode
  <2> QED BY <2>1, <2>2, <2>3, <2>4, <1>n DEF PasswordsKnown, Carries, Purpose, Registered
<1>5. ASSUME NEW c \in Calls, Copy(c) PROVE PasswordsKnown'
  <2>1. pending' = pending /\ op' = op
    BY <1>5 DEF Copy, Go, Return, redisVars
  <2>2. \A d \in Calls \ {c} : got'[d] = got[d] /\ pc'[d] = pc[d]
    BY <1>t, <1>5 DEF Copy, Go, Return
  <2>3. \/ pc'[c] = "done"
        \/ pending["register"] # NoCode /\ got'[c].password = pending["register"].password
    BY <1>t, <1>5 DEF Copy, Go, Return, NoCode
  <2> QED BY <2>1, <2>2, <2>3, <1>n DEF PasswordsKnown, Carries, Purpose
<1>6. ASSUME NEW c \in Calls, StorePending(c) PROVE PasswordsKnown'
  <2>1. got' = got /\ op' = op
    BY <1>6 DEF StorePending, Go, Return, locals
  <2>2. \A d \in Calls : Carries(d)' => Carries(d)
    BY <1>t, <1>6 DEF Carries, Purpose, StorePending, Go, Return
  <2>3. \/ pending'["register"] = pending["register"]
        \/ Purpose(c) = "register" /\ pending'["register"].password = got[c].password
    BY <1>t, <1>6, PurposeType DEF StorePending, Purposes
  <2>4. Purpose(c) = "register" => got[c].password \in Registered
    BY <1>6 DEF StorePending, PasswordsKnown, Carries
  <2> QED BY <2>1, <2>2, <2>3, <2>4, <1>n DEF PasswordsKnown
<1>7. ASSUME NEW c \in Calls, Unmail(c) \/ Forget(c) PROVE PasswordsKnown'
  <2>1. got' = got /\ op' = op
    BY <1>7 DEF Unmail, Forget, Go, Return, locals
  <2>2. \A d \in Calls : Carries(d)' => Carries(d)
    BY <1>t, <1>7 DEF Carries, Purpose, Unmail, Forget, Go, Return
  <2>3. pending'["register"] \in {pending["register"], NoCode}
    BY <1>t, <1>7, PurposeType DEF Unmail, Forget, Purposes
  <2> QED BY <2>1, <2>2, <2>3, <1>n DEF PasswordsKnown
<1>8. ASSUME NEW c \in Calls, Check(c) PROVE PasswordsKnown'
  <2>1. pending' = pending /\ op' = op
    BY <1>8 DEF Check, Go, Return, redisVars
  <2>2. \A d \in Calls \ {c} : got'[d] = got[d] /\ pc'[d] = pc[d]
    BY <1>t, <1>8 DEF Check, Go, Return
  <2>3. \/ pc'[c] = "done"
        \/ pending[Purpose(c)] # NoCode /\ got'[c].password = pending[Purpose(c)].password
    BY <1>t, <1>8, PurposeType DEF Check, Go, Return, PendingType
  <2> QED BY <2>1, <2>2, <2>3, <1>n DEF PasswordsKnown, Carries, Purpose
<1>9. ASSUME NEW c \in Calls, ReadTTL(c) PROVE PasswordsKnown'
  <2>1. pending' = pending /\ op' = op
    BY <1>9 DEF ReadTTL, Go, redisVars
  <2>2. \A d \in Calls : Carries(d)' => Carries(d)
    BY <1>t, <1>9 DEF Carries, Purpose, ReadTTL, Go
  <2>3. \A d \in Calls : got'[d].password = got[d].password
    BY <1>t, <1>9 DEF ReadTTL, PendingType
  <2> QED BY <2>1, <2>2, <2>3, <1>n DEF PasswordsKnown
<1>10. ASSUME NEW c \in Calls, Recount(c) PROVE PasswordsKnown'
  <2>1. got' = got /\ op' = op
    BY <1>10 DEF Recount, Return, locals
  <2>2. \A d \in Calls : Carries(d)' => Carries(d)
    BY <1>t, <1>10 DEF Carries, Purpose, Recount, Return
  <2>3. Rewritten(c).password = got[c].password
    BY <1>t DEF Rewritten, PendingType
  <2>4. \/ pending'["register"] \in {pending["register"], NoCode}
        \/ Purpose(c) = "register" /\ pending'["register"] = Rewritten(c)
    BY <1>t, <1>10, PurposeType DEF Recount, Purposes
  <2>5. Purpose(c) = "register" => got[c].password \in Registered
    BY <1>10 DEF Recount, PasswordsKnown, Carries
  <2> QED BY <2>1, <2>2, <2>3, <2>4, <2>5, <1>n DEF PasswordsKnown
<1>11. ASSUME NEW c \in Calls, Find(c) PROVE PasswordsKnown'
  <2>1. pending' = pending /\ op' = op
    BY <1>11 DEF Find, Go, Return, redisVars
  <2>2. \A d \in Calls \ {c} : got'[d] = got[d] /\ pc'[d] = pc[d]
    BY <1>t, <1>11 DEF Find, Go, Return
  <2>3. pc'[c] \in {"done", "update"}
    BY <1>t, <1>11 DEF Find, Go, Return
  <2> QED BY <2>1, <2>2, <2>3, <1>n DEF PasswordsKnown, Carries, Purpose
<1>12. CASE \E p \in Purposes : CodeExpires(p) \/ CooldownExpires(p)
  <2>1. /\ UNCHANGED <<got, op, pc>>
        /\ pending'["register"] \in {pending["register"], NoCode}
    BY <1>t, <1>12 DEF CodeExpires, CooldownExpires, locals, Purposes
  <2> QED BY <2>1, <1>n DEF PasswordsKnown, Carries, Purpose
<1>13. CASE ListExpires \/ (\E s \in People : SessionExpires(s)) \/ UNCHANGED vars
  <2>1. UNCHANGED <<pending, got, op, pc>>
    BY <1>13 DEF ListExpires, SessionExpires, vars, redisVars, locals
  <2> QED BY <2>1, <1>n DEF PasswordsKnown, Carries, Purpose
<1> QED BY <1>1, <1>2, <1>3, <1>4, <1>5, <1>6, <1>7, <1>8, <1>9, <1>10, <1>11, <1>12, <1>13 DEF Next

\* Where the account's password comes from, and since when every session knows it.
Fresh == \A s \in sessions \ late : proof[s] = account
Settled ==
  \/ account = Before
  \/ account \in Calls /\ op[account] = "register"
  \/ account \in Calls /\ op[account] = "reset"
     /\ (pc[account] \in {"forget", "open"} \/ answer[account] = "signed_in")

Origin ==
  /\ account = Nobody =>
       sessions = {} /\ \A c \in Calls : pc[c] \notin {"update", "list", "revoke", "forget", "open"}
  /\ account \in Calls => op[account] \in {"register", "reset", "admin"}
  /\ Settled => Fresh

\* The steps that leave the account and the list of who knows its password alone.
Quiet(c) ==
  \/ TurnAway(c) \/ Begin(c) \/ (\E s \in People : RequireUser(c, s)) \/ CountUsers(c) \/ Copy(c)
  \/ Lookup(c) \/ SetCooldown(c) \/ StorePending(c) \/ SendMail(c) \/ Unmail(c) \/ Check(c)
  \/ ReadTTL(c) \/ Recount(c) \/ Find(c) \/ ListSessions(c) \/ ReadOwner(c) \/ Die(c) \/ Forget(c)

LEMMA OpKept ==
  ASSUME TypeOK, [Next]_vars, NEW c \in Calls, pc[c] # "idle"
  PROVE  op'[c] = op[c]
<1>t. op \in [Calls -> Ops \union {"none"}]
  BY DEF TypeOK
<1> QED BY <1>t DEF Next, vars, TurnAway, Begin, Login, EnsureAdmin, RequireUser, CountUsers,
     Copy, Lookup, SetCooldown, StorePending, SendMail, Unmail, Check, ReadTTL, Recount, CreateUser,
     Find, UpdatePassword, ListSessions, Revoke, Forget, OpenSession, ReadOwner, Close, Die,
     CodeExpires, CooldownExpires, SessionExpires, ListExpires, Arrive, Refuse, Go, Return

LEMMA OriginStep ==
  TypeOK /\ Listed /\ Stages /\ PasswordsKnown /\ Origin /\ [Next]_vars => Origin'
<1> SUFFICES ASSUME TypeOK, Listed, Stages, PasswordsKnown, Origin, [Next]_vars PROVE Origin'
  OBVIOUS
<1>t. /\ pc \in [Calls -> Positions] /\ op \in [Calls -> Ops \union {"none"}]
      /\ answer \in [Calls -> Answers] /\ proof \in [People -> People \union {Nobody}]
      /\ Calls \subseteq People /\ Before \notin Calls /\ Nobody \notin Calls /\ Nobody # Before
  BY CallsAssumption DEF TypeOK, People
<1>o. account \in Calls => op'[account] = op[account]
  BY OpKept DEF Origin, Stages

\* The case of a step that opens no session and leaves the account and the proofs alone.
<1>k. ASSUME account' = account, sessions' \subseteq sessions, late \subseteq late',
             \A s \in sessions : proof'[s] = proof[s],
             account = Nobody => \A c \in Calls : pc'[c] \notin {"update", "list", "revoke", "forget", "open"},
             Settled' => Settled
      PROVE  Origin'
  BY <1>k, <1>o DEF Origin, Fresh
<1>1. ASSUME NEW c \in Calls, Quiet(c) PROVE Origin'
  <2>1. UNCHANGED <<account, sessions, late, proof>>
    BY <1>1 DEF Quiet, TurnAway, Begin, RequireUser, CountUsers, Copy, Lookup, SetCooldown,
       StorePending, SendMail, Unmail, Check, ReadTTL, Recount, Find, ListSessions, ReadOwner, Die,
       Forget, redisVars, locals, ghosts
  <2>2. /\ \A d \in Calls \ {c} : pc'[d] = pc[d] /\ answer'[d] = answer[d]
        /\ answer'[c] # "signed_in" \/ answer'[c] = answer[c]
    BY <1>t, <1>1 DEF Quiet, TurnAway, Begin, RequireUser, CountUsers, Copy, Lookup, SetCooldown,
       StorePending, SendMail, Unmail, Check, ReadTTL, Recount, Find, ListSessions, ReadOwner, Die,
       Forget, Arrive, Refuse, EarlyAnswers, Go, Return, Shown
  <2>3. /\ pc'[c] = "update" => account # Nobody
        /\ pc'[c] = "revoke" => pc[c] = "list"
        /\ pc'[c] = "open" => pc[c] = "forget"
        /\ pc'[c] \notin {"list", "forget"}
    BY <1>t, <1>1 DEF Quiet, TurnAway, Begin, RequireUser, CountUsers, Copy, Lookup, SetCooldown,
       StorePending, SendMail, Unmail, Check, ReadTTL, Recount, Find, ListSessions, ReadOwner, Die,
       Forget, Arrive, Refuse, Go, Return
  <2>4. Settled' => Settled
    BY <1>o, <2>1, <2>2, <2>3 DEF Settled, Origin
  <2>5. account = Nobody =>
          \A d \in Calls : pc'[d] \notin {"update", "list", "revoke", "forget", "open"}
    BY <2>2, <2>3 DEF Origin
  <2> QED BY <1>k, <2>1, <2>4, <2>5
<1>2. ASSUME NEW c \in Calls, Login(c) PROVE Origin'
  <2>1. /\ account # Nobody /\ UNCHANGED <<account, sessions, late, answer>>
        /\ pc[c] = "idle" /\ op'[c] = "login"
        /\ \A d \in Calls \ {c} : pc'[d] = pc[d]
        /\ \A s \in People \ {c} : proof'[s] = proof[s]
    BY <1>t, <1>2 DEF Login, Arrive, redisVars, ghosts
  <2>2. c \notin sessions /\ op[c] = "none"
    BY <2>1 DEF Stages
  <2>3. \A s \in sessions : proof'[s] = proof[s]
    BY <2>1, <2>2 DEF TypeOK
  <2>4. Settled' => Settled
    BY <1>o, <2>1, <2>2 DEF Settled, Origin
  <2> QED BY <1>k, <2>1, <2>3, <2>4
<1>3. ASSUME NEW c \in Calls, EnsureAdmin(c) PROVE Origin'
  <2>1. /\ UNCHANGED <<sessions, late, proof>>
        /\ account' = c \/ account' = account
        /\ pc[c] = "idle" /\ op'[c] = "admin" /\ answer'[c] # "signed_in"
        /\ pc'[c] = "done"
        /\ \A d \in Calls \ {c} : pc'[d] = pc[d] /\ answer'[d] = answer[d]
    BY <1>t, <1>3 DEF EnsureAdmin, Refuse, redisVars, locals, ghosts
  <2>2. op[c] = "none"
    BY <2>1 DEF Stages
  <2>3. CASE account' = c
    BY <1>t, <2>1, <2>3 DEF Origin, Settled
  <2>4. CASE account' = account
    <3>1. Settled' => Settled
      BY <1>o, <2>1, <2>2, <2>4 DEF Settled, Origin
    <3>2. account = Nobody =>
            \A d \in Calls : pc'[d] \notin {"update", "list", "revoke", "forget", "open"}
      BY <2>1 DEF Origin
    <3> QED BY <1>k, <2>1, <2>4, <3>1, <3>2
  <2> QED BY <2>1, <2>3, <2>4
<1>4. ASSUME NEW c \in Calls, CreateUser(c) PROVE Origin'
  <2>1. /\ UNCHANGED <<sessions, late, op>> /\ pc[c] = "create" /\ op[c] = "verify"
        /\ c \notin sessions
        /\ pc'[c] \in {"forget", "done"} /\ (pc'[c] = "forget" => account = Nobody /\ account' = got[c].password)
        /\ answer'[c] # "signed_in" \/ answer'[c] = answer[c]
        /\ \A d \in Calls \ {c} : pc'[d] = pc[d] /\ answer'[d] = answer[d]
        /\ \A s \in People \ {c} : proof'[s] = proof[s]
        /\ \/ account' = account
           \/ account = Nobody /\ account' = got[c].password
    BY <1>t, <1>4 DEF CreateUser, Stages, Go, Return, Shown, redisVars, ghosts
  <2>2. got[c].password \in Registered
    BY <2>1 DEF PasswordsKnown, Carries, Purpose
  <2>3. CASE account = Nobody /\ account' = got[c].password
    <3>1. sessions' = {}
      BY <2>1, <2>3 DEF Origin
    <3>2. account' \in Calls /\ op'[account'] = "register"
      BY <2>1, <2>2, <2>3 DEF Registered
    <3> QED BY <1>t, <3>1, <3>2 DEF Origin, Fresh
  <2>4. CASE account' = account /\ pc'[c] = "done"
    <3>1. Settled' => Settled
      BY <1>o, <2>1, <2>4 DEF Settled, Origin
    <3>2. account = Nobody =>
            \A d \in Calls : pc'[d] \notin {"update", "list", "revoke", "forget", "open"}
      BY <2>1, <2>4 DEF Origin
    <3>3. \A s \in sessions : proof'[s] = proof[s]
      BY <2>1 DEF TypeOK
    <3> QED BY <1>k, <2>1, <2>4, <3>1, <3>2, <3>3
  <2> QED BY <2>1, <2>3, <2>4
<1>5. ASSUME NEW c \in Calls, UpdatePassword(c) PROVE Origin'
  <2>1. /\ UNCHANGED <<sessions, late, op>> /\ op[c] = "reset" /\ account # Nobody
        /\ c \notin sessions /\ answer[c] = "none"
        /\ pc'[c] \in {"list", "done"} /\ answer'[c] # "signed_in"
        /\ \A d \in Calls \ {c} : pc'[d] = pc[d] /\ answer'[d] = answer[d]
        /\ \A s \in People \ {c} : proof'[s] = proof[s]
        /\ account' = account \/ account' = c
    BY <1>t, <1>5 DEF UpdatePassword, Stages, Origin, Go, Return, Shown, redisVars, ghosts
  <2>2. \A s \in sessions : proof'[s] = proof[s]
    BY <2>1 DEF TypeOK
  <2>3. CASE account' = c
    BY <1>t, <2>1, <2>3 DEF Origin, Settled
  <2>4. CASE account' = account
    <3>1. Settled' => Settled
      BY <1>o, <2>1, <2>4 DEF Settled, Origin
    <3> QED BY <1>k, <2>1, <2>2, <2>4, <3>1
  <2> QED BY <2>1, <2>3, <2>4
<1>6. ASSUME NEW c \in Calls, Revoke(c) PROVE Origin'
  <2>1. /\ UNCHANGED <<account, late, proof, op>> /\ pc[c] = "revoke" /\ op[c] = "reset"
        /\ answer'[c] # "signed_in" /\ sessions' \subseteq sessions
        /\ \A d \in Calls \ {c} : pc'[d] = pc[d] /\ answer'[d] = answer[d]
        /\ \/ pc'[c] = "done"
           \/ pc'[c] = "forget" /\ sessions' = sessions \ keys[c]
    BY <1>t, <1>6 DEF Revoke, Stages, Go, Return, Shown, locals, ghosts
  <2>2. account # Nobody
    BY <2>1 DEF Origin
  <2>3. CASE pc'[c] = "forget" /\ sessions' = sessions \ keys[c]
    <3>1. sessions' \subseteq late'
      BY <2>1, <2>3 DEF Listed, RevokersKnow
    <3> QED BY <1>o, <2>1, <2>2, <3>1 DEF Origin, Fresh
  <2>4. CASE pc'[c] = "done"
    <3>1. Settled' => Settled
      BY <1>o, <2>1, <2>4 DEF Settled, Origin
    <3> QED BY <1>k, <2>1, <2>2, <3>1
  <2> QED BY <2>1, <2>3, <2>4
<1>7. ASSUME NEW c \in Calls, OpenSession(c) PROVE Origin'
  <2>1. /\ UNCHANGED <<account, proof, op>> /\ pc[c] = "open" /\ account # Nobody
        /\ pc'[c] = "done" /\ late \subseteq late'
        /\ \A d \in Calls \ {c} : pc'[d] = pc[d] /\ answer'[d] = answer[d]
        /\ \/ sessions' = sessions /\ answer'[c] # "signed_in"
           \/ sessions' = sessions \union {c} /\ (proof[c] = account \/ c \in late')
    BY <1>t, <1>7 DEF OpenSession, Origin, Return, Shown, locals, ghosts
  <2>2. Settled' => Settled
    BY <1>o, <2>1 DEF Settled, Origin
  <2>3. Fresh => Fresh'
    BY <2>1 DEF Fresh
  <2> QED BY <1>o, <2>1, <2>2, <2>3 DEF Origin
<1>8. ASSUME NEW c \in Calls, Close(c) PROVE Origin'
  <2>1. /\ UNCHANGED <<account, late, proof, op>> /\ sessions' \subseteq sessions
        /\ pc'[c] = "done" /\ answer'[c] # "signed_in"
        /\ \A d \in Calls \ {c} : pc'[d] = pc[d] /\ answer'[d] = answer[d]
    BY <1>t, <1>8 DEF Close, Return, Shown, locals, ghosts
  <2>2. Settled' => Settled
    BY <1>o, <2>1 DEF Settled, Origin
  <2>3. account = Nobody =>
          \A d \in Calls : pc'[d] \notin {"update", "list", "revoke", "forget", "open"}
    BY <2>1 DEF Origin
  <2> QED BY <1>k, <2>1, <2>2, <2>3
<1>9. CASE \/ \E p \in Purposes : CodeExpires(p) \/ CooldownExpires(p)
           \/ ListExpires \/ (\E s \in People : SessionExpires(s)) \/ UNCHANGED vars
  <2>1. UNCHANGED <<account, late, proof, op, pc, answer>> /\ sessions' \subseteq sessions
    BY <1>9 DEF CodeExpires, CooldownExpires, ListExpires, SessionExpires, vars, redisVars, locals, ghosts
  <2>2. Settled' => Settled
    BY <2>1 DEF Settled
  <2> QED BY <1>k, <2>1, <2>2 DEF Origin
<1> QED
  BY <1>1, <1>2, <1>3, <1>4, <1>5, <1>6, <1>7, <1>8, <1>9 DEF Next, Quiet

LEMMA OriginInit == Init => Listed /\ Stages /\ PasswordsKnown /\ Origin
BY CallsAssumption DEF Init, Listed, SessionsAreListed, RevokersKnow, Stages, PasswordsKnown,
   Carries, Origin, Settled, Fresh, People, Purposes

\* Sessions opened with an earlier password outlive a reset only for a reason: a reset that
\* answers with success has revoked every session but the late ones.
THEOREM StaleCorrect == Spec => []StaleSessionsHaveAReason
<1> DEFINE I == TypeOK /\ Listed /\ Stages /\ PasswordsKnown /\ Origin
<1>1. Init => I
  BY TypeInit, OriginInit
<1>2. I /\ [Next]_vars => I'
  BY TypeStep, ListedStep, StagesStep, PasswordsStep, OriginStep
<1>3. I => StaleSessionsHaveAReason
  BY DEF TypeOK, People, Origin, Settled, Fresh, StaleSessionsHaveAReason
<1> QED BY <1>1, <1>2, <1>3, PTL DEF Spec

-----------------------------------------------------------------------------
(* An earlier code does not come back.                                     *)

\* A guess that is being written back is of the newest code, or the newest code is unsure.
CopiesAreNewest ==
  /\ \A p \in Purposes : pending[p] # NoCode => pending[p].code \in Calls
  /\ \A c \in Calls : pc[c] \in {"ttl", "recount"} =>
       got[c].code \in Calls /\ (got[c].code = newest[Purpose(c)] \/ newest[Purpose(c)] \in unsure)

Newest == NewestCodeCounts /\ CopiesAreNewest

LEMMA NewestStep == TypeOK /\ Stages /\ Newest /\ [Next]_vars => Newest'
<1> SUFFICES ASSUME TypeOK, Stages, Newest, [Next]_vars PROVE Newest'
  OBVIOUS
<1> USE DEF Newest, NewestCodeCounts, CopiesAreNewest
<1>t. /\ pc \in [Calls -> Positions] /\ op \in [Calls -> Ops \union {"none"}]
      /\ pending \in [Purposes -> PendingType] /\ got \in [Calls -> PendingType]
      /\ newest \in [Purposes -> Calls \union {Nobody}] /\ Nobody \notin Calls
      /\ NoCode.code = Nobody
  BY CallsAssumption DEF TypeOK, NoCode
<1>o. \A c \in Calls : pc[c] \in {"ttl", "recount"} => op'[c] = op[c] /\ Purpose(c)' = Purpose(c)
  BY OpKept DEF Purpose

\* The case of a step that at most deletes codes, and starts no guess.
<1>k. ASSUME \A p \in Purposes : pending'[p] \in {pending[p], NoCode},
             newest' = newest, unsure \subseteq unsure',
             \A c \in Calls : pc'[c] \in {"ttl", "recount"} =>
               pc[c] \in {"ttl", "recount"} /\ got'[c].code = got[c].code
      PROVE  Newest'
  BY <1>k, <1>t, <1>o
<1>1. ASSUME NEW c \in Calls,
             \/ TurnAway(c) \/ Begin(c) \/ Login(c) \/ EnsureAdmin(c) \/ (\E s \in People : RequireUser(c, s))
             \/ CountUsers(c) \/ Copy(c) \/ Lookup(c) \/ SetCooldown(c) \/ SendMail(c) \/ Unmail(c)
             \/ CreateUser(c) \/ Find(c) \/ UpdatePassword(c) \/ ListSessions(c)
             \/ Revoke(c) \/ Forget(c) \/ OpenSession(c) \/ ReadOwner(c) \/ Close(c) \/ Die(c)
      PROVE  Newest'
  <2>1. newest' = newest /\ unsure \subseteq unsure' /\ \A d \in Calls \ {c} : got'[d] = got[d]
    BY <1>t, <1>1 DEF TurnAway, Begin, Login, EnsureAdmin, RequireUser, CountUsers, Copy, Lookup,
       SetCooldown, SendMail, Unmail, CreateUser, Find, UpdatePassword, ListSessions, Revoke,
       Forget, OpenSession, ReadOwner, Close, Die, locals, ghosts
  <2>2. pc'[c] \notin {"ttl", "recount"} /\ \A d \in Calls \ {c} : pc'[d] = pc[d]
    BY <1>t, <1>1 DEF TurnAway, Begin, Login, EnsureAdmin, RequireUser, CountUsers, Copy, Lookup,
       SetCooldown, SendMail, Unmail, CreateUser, Find, UpdatePassword, ListSessions, Revoke,
       Forget, OpenSession, ReadOwner, Close, Die, Arrive, Refuse, Go, Return
  <2>3. \A p \in Purposes : pending'[p] \in {pending[p], NoCode}
    BY <1>t, <1>1 DEF TurnAway, Begin, Login, EnsureAdmin, RequireUser, CountUsers, Copy, Lookup,
       SetCooldown, SendMail, Unmail, CreateUser, Find, UpdatePassword, ListSessions, Revoke,
       Forget, OpenSession, ReadOwner, Close, Die, redisVars
  <2> QED BY <1>k, <2>1, <2>2, <2>3
<1>2. ASSUME NEW c \in Calls, StorePending(c) PROVE Newest'
  <2> DEFINE p == Purpose(c)
  <2>1. /\ p \in Purposes /\ pc[c] = "store" /\ got' = got
        /\ pc'[c] \notin {"ttl", "recount"} /\ \A d \in Calls \ {c} : pc'[d] = pc[d]
    BY <1>t, <1>2, PurposeType DEF StorePending, Go, Return, locals
  <2>2. CASE UNCHANGED <<pending, newest, unsure>>
    BY <1>k, <2>1, <2>2
  <2>3. CASE /\ newest' = [newest EXCEPT ![p] = c]
             /\ pending' = [pending EXCEPT ![p] = [code |-> c, password |-> got[c].password,
                                                   attempts |-> 0, life |-> "timed"]]
             /\ unsure' = IF \A k \in Calls : Guessing(k) = {} THEN unsure ELSE unsure \union {c}
    <3>1. /\ \A q \in Purposes \ {p} : pending'[q] = pending[q] /\ newest'[q] = newest[q]
          /\ pending'[p].code = c /\ pending'[p] # NoCode /\ newest'[p] = c
          /\ unsure \subseteq unsure'
      BY <1>t, <2>1, <2>3
    <3>2. ASSUME NEW d \in Calls, pc'[d] \in {"ttl", "recount"}
          PROVE  /\ got'[d].code \in Calls
                 /\ got'[d].code = newest'[Purpose(d)'] \/ newest'[Purpose(d)'] \in unsure'
      <4>1. d # c /\ pc[d] \in {"ttl", "recount"} /\ got'[d] = got[d]
        BY <2>1, <3>2
      <4>2. Purpose(d)' = Purpose(d) /\ got[d].code \in Calls /\ Purpose(d) \in Purposes
        BY <4>1, <1>o, PurposeType
      <4>3. CASE Purpose(d) = p
        <5>1. d \in Guessing(got[d].code)
          BY <4>1 DEF Guessing
        <5>2. c \in unsure'
          BY <2>3, <4>2, <5>1
        <5> QED BY <3>1, <4>1, <4>2, <4>3, <5>2
      <4>4. CASE Purpose(d) # p
        BY <3>1, <4>1, <4>2, <4>4
      <4> QED BY <4>3, <4>4
    <3> HIDE DEF p
    <3> QED BY <3>1, <3>2, <2>1
  <2> QED BY <1>2, <2>2, <2>3 DEF StorePending
<1>3. ASSUME NEW c \in Calls, Check(c) PROVE Newest'
  <2> DEFINE found == pending[Purpose(c)]
  <2>1. /\ pending' = pending /\ newest' = newest /\ unsure \subseteq unsure' /\ op' = op
        /\ \A d \in Calls \ {c} : pc'[d] = pc[d] /\ got'[d] = got[d]
    BY <1>t, <1>3 DEF Check, Go, Return, redisVars
  <2>2. CASE pc'[c] \notin {"ttl", "recount"}
    BY <1>k, <2>1, <2>2
  <2>3. CASE found # NoCode /\ got' = [got EXCEPT ![c] = [found EXCEPT !.attempts = @ + 1]]
    <3>1. got'[c].code = found.code
      BY <1>t, <2>3, PurposeType DEF PendingType
    <3>2. found.code \in Calls /\ (found.code = newest[Purpose(c)] \/ newest[Purpose(c)] \in unsure)
      BY <1>t, <2>3, PurposeType
    <3>3. Purpose(c)' = Purpose(c)
      BY <2>1 DEF Purpose
    <3> QED BY <1>t, <1>o, <2>1, <3>1, <3>2, <3>3
  <2>4. \/ pc'[c] \notin {"ttl", "recount"}
        \/ found # NoCode /\ got' = [got EXCEPT ![c] = [found EXCEPT !.attempts = @ + 1]]
    BY <1>t, <1>3 DEF Check, Go, Return
  <2> QED BY <2>2, <2>3, <2>4
<1>4. ASSUME NEW c \in Calls, ReadTTL(c) PROVE Newest'
  <2>1. /\ pending' = pending /\ newest' = newest /\ unsure' = unsure
        /\ pc[c] = "ttl" /\ \A d \in Calls \ {c} : pc'[d] = pc[d]
    BY <1>t, <1>4 DEF ReadTTL, Go, redisVars, ghosts
  <2>2. \A d \in Calls : got'[d].code = got[d].code
    BY <1>t, <1>4 DEF ReadTTL, PendingType
  <2> QED BY <1>k, <2>1, <2>2
<1>5. ASSUME NEW c \in Calls, Recount(c) PROVE Newest'
  <2>1. /\ newest' = newest /\ unsure \subseteq unsure' /\ got' = got /\ pc[c] = "recount"
        /\ pc'[c] \notin {"ttl", "recount"} /\ \A d \in Calls \ {c} : pc'[d] = pc[d]
    BY <1>t, <1>5 DEF Recount, Return, locals
  <2>2. Rewritten(c).code = got[c].code
    BY <1>t DEF Rewritten, PendingType
  <2>3. /\ \A q \in Purposes \ {Purpose(c)} : pending'[q] = pending[q]
        /\ pending'[Purpose(c)] \in {pending[Purpose(c)], NoCode, Rewritten(c)}
    BY <1>t, <1>5, PurposeType DEF Recount
  <2>4. /\ got[c].code \in Calls
        /\ got[c].code = newest[Purpose(c)] \/ newest[Purpose(c)] \in unsure
    BY <2>1
  <2> QED BY <1>t, <1>o, <2>1, <2>2, <2>3, <2>4
<1>6. CASE \E p \in Purposes : CodeExpires(p) \/ CooldownExpires(p)
  <2>1. /\ UNCHANGED <<newest, unsure, pc, got>>
        /\ \A p \in Purposes : pending'[p] \in {pending[p], NoCode}
    BY <1>t, <1>6 DEF CodeExpires, CooldownExpires, locals, ghosts
  <2> QED BY <1>k, <2>1
<1>7. CASE ListExpires \/ (\E s \in People : SessionExpires(s)) \/ UNCHANGED vars
  <2>1. UNCHANGED <<pending, newest, unsure, pc, got>>
    BY <1>7 DEF ListExpires, SessionExpires, vars, redisVars, locals, ghosts
  <2> QED BY <1>k, <2>1
<1> QED BY <1>1, <1>2, <1>3, <1>4, <1>5, <1>6, <1>7 DEF Next

\* The code that can be presented is the one that was mailed last, unless a wrong guess at
\* an earlier one was being written back while it was stored.
THEOREM NewestCorrect == Spec => []NewestCodeCounts
<1>1. Init => Stages /\ Newest
  BY OriginInit DEF Init, Newest, NewestCodeCounts, CopiesAreNewest, NoCode
<1>2. TypeOK /\ Stages /\ Newest /\ [Next]_vars => Stages' /\ Newest'
  BY StagesStep, NewestStep
<1>3. Newest => NewestCodeCounts
  BY DEF Newest
<1> QED BY <1>1, <1>2, <1>3, TypeCorrect, PTL DEF Spec

-----------------------------------------------------------------------------
(* Guesses are counted.                                                    *)

Stored(k) == pc[k] \in {"mail", "unmail", "done", "dead"}

\* Nobody holds a code before it was stored, and it belongs to the purpose of its call.
Placed ==
  /\ \A c \in Calls : pc[c] \in {"idle", "copy", "check"} => got[c].code = Nobody
  /\ \A c \in Calls : got[c].code \in Calls => Stored(got[c].code)
  /\ \A p \in Purposes :
       pending[p].code \in Calls => Stored(pending[p].code) /\ Purpose(pending[p].code) = p
  /\ \A c \in Calls : pc[c] \in {"ttl", "recount"} =>
       /\ op[c] \in {"verify", "reset"}
       /\ got[c].code \in Calls => Purpose(got[c].code) = Purpose(c)

\* A code's place survives a step that starts no guess and brings no code.
LEMMA PlacesKept ==
  ASSUME TypeOK, Placed, [Next]_vars,
         \A p \in Purposes : pending'[p].code \in {pending[p].code, Nobody},
         \A c \in Calls : got'[c].code \in {got[c].code, Nobody},
         \A c \in Calls : pc'[c] \in {"ttl", "recount"} =>
           pc[c] \in {"ttl", "recount"} /\ got'[c].code = got[c].code,
         \A c \in Calls : pc'[c] \in {"idle", "copy", "check"} => pc[c] \in {"idle", "copy", "check"},
         \A k \in Calls : Stored(k) => Stored(k)'
  PROVE  Placed'
<1>1. Nobody \notin Calls
  BY CallsAssumption
<1>2. \A k \in Calls : Stored(k) => Purpose(k)' = Purpose(k)
  BY OpKept DEF Stored, Purpose
<1>3. \A c \in Calls : pc[c] \in {"ttl", "recount"} => op'[c] = op[c] /\ Purpose(c)' = Purpose(c)
  BY OpKept DEF Purpose
<1>4. \A c \in Calls : got'[c].code \in Calls => Stored(got[c].code)'
  BY <1>1 DEF Placed, Stored, Purpose
<1>5. \A p \in Purposes : pending'[p].code \in Calls =>
        Stored(pending[p].code)' /\ Purpose(pending[p].code)' = p
  BY <1>1, <1>2 DEF Placed, Stored, Purpose
<1>6. \A c \in Calls : pc'[c] \in {"ttl", "recount"} =>
        op'[c] \in {"verify", "reset"} /\ (got'[c].code \in Calls => Purpose(got[c].code)' = Purpose(c)')
  BY <1>1, <1>2, <1>3 DEF Placed, Stored, Purpose
<1>7. \A c \in Calls : pc'[c] \in {"idle", "copy", "check"} => got'[c].code = Nobody
  BY DEF Placed
<1> QED BY <1>4, <1>5, <1>6, <1>7 DEF Placed

LEMMA StoredKept ==
  ASSUME TypeOK, [Next]_vars, NEW k \in Calls, Stored(k)
  PROVE  Stored(k)'
<1>t. pc \in [Calls -> Positions]
  BY DEF TypeOK
<1> QED BY <1>t DEF Stored, Next, vars, TurnAway, Begin, Login, EnsureAdmin, RequireUser, CountUsers,
     Copy, Lookup, SetCooldown, StorePending, SendMail, Unmail, Check, ReadTTL, Recount, CreateUser,
     Find, UpdatePassword, ListSessions, Revoke, Forget, OpenSession, ReadOwner, Close, Die,
     CodeExpires, CooldownExpires, ListExpires, SessionExpires, Arrive, Refuse, Go, Return

LEMMA PlacedStep == TypeOK /\ Stages /\ Newest /\ Placed /\ [Next]_vars => Placed'
<1> SUFFICES ASSUME TypeOK, Stages, Newest, Placed, [Next]_vars PROVE Placed'
  OBVIOUS
<1>t. /\ pc \in [Calls -> Positions] /\ op \in [Calls -> Ops \union {"none"}]
      /\ pending \in [Purposes -> PendingType] /\ got \in [Calls -> PendingType]
      /\ Nobody \notin Calls /\ NoCode.code = Nobody
  BY CallsAssumption DEF TypeOK, NoCode
<1>s. \A k \in Calls : Stored(k) => Stored(k)'
  BY StoredKept
<1>u. \A k \in Calls : Stored(k) => Purpose(k)' = Purpose(k)
  BY OpKept DEF Stored, Purpose
<1>1. ASSUME NEW c \in Calls,
             \/ TurnAway(c) \/ Begin(c) \/ Login(c) \/ EnsureAdmin(c) \/ (\E s \in People : RequireUser(c, s))
             \/ CountUsers(c) \/ Copy(c) \/ Lookup(c) \/ SetCooldown(c) \/ SendMail(c) \/ Unmail(c)
             \/ CreateUser(c) \/ Find(c) \/ UpdatePassword(c) \/ ListSessions(c)
             \/ Revoke(c) \/ Forget(c) \/ OpenSession(c) \/ ReadOwner(c) \/ Close(c) \/ Die(c)
      PROVE  Placed'
  <2>1. /\ \A d \in Calls \ {c} : got'[d] = got[d] /\ pc'[d] = pc[d]
        /\ got'[c].code \in {got[c].code, Nobody}
    BY <1>t, <1>1 DEF TurnAway, Begin, Login, EnsureAdmin, RequireUser, CountUsers, Copy, Lookup,
       SetCooldown, SendMail, Unmail, CreateUser, Find, UpdatePassword, ListSessions, Revoke,
       Forget, OpenSession, ReadOwner, Close, Die, Arrive, Refuse, Go, Return, locals, NoCode
  <2>2. /\ pc'[c] \notin {"ttl", "recount"}
        /\ pc'[c] \in {"idle", "copy", "check"} => pc[c] = "idle"
    BY <1>t, <1>1 DEF TurnAway, Begin, Login, EnsureAdmin, RequireUser, CountUsers, Copy, Lookup,
       SetCooldown, SendMail, Unmail, CreateUser, Find, UpdatePassword, ListSessions, Revoke,
       Forget, OpenSession, ReadOwner, Close, Die, Arrive, Refuse, Go, Return
  <2>3. \A p \in Purposes : pending'[p] \in {pending[p], NoCode}
    BY <1>t, <1>1 DEF TurnAway, Begin, Login, EnsureAdmin, RequireUser, CountUsers, Copy, Lookup,
       SetCooldown, SendMail, Unmail, CreateUser, Find, UpdatePassword, ListSessions, Revoke,
       Forget, OpenSession, ReadOwner, Close, Die, redisVars
  <2>4. \A p \in Purposes : pending'[p].code \in {pending[p].code, Nobody}
    BY <1>t, <2>3
  <2>5. \A d \in Calls : got'[d].code \in {got[d].code, Nobody}
    BY <2>1
  <2>6. \A d \in Calls : pc'[d] \in {"ttl", "recount"} =>
          pc[d] \in {"ttl", "recount"} /\ got'[d].code = got[d].code
    BY <2>1, <2>2
  <2>7. \A d \in Calls : pc'[d] \in {"idle", "copy", "check"} => pc[d] \in {"idle", "copy", "check"}
    BY <2>1, <2>2
  <2> QED BY <1>s, <2>4, <2>5, <2>6, <2>7, PlacesKept
<1>2. ASSUME NEW c \in Calls, StorePending(c) PROVE Placed'
  <2> DEFINE p == Purpose(c)
  <2>1. /\ p \in Purposes /\ pc[c] = "store" /\ got' = got /\ op' = op
        /\ pc'[c] \in {"mail", "done"} /\ \A d \in Calls \ {c} : pc'[d] = pc[d]
    BY <1>t, <1>2, PurposeType DEF StorePending, Go, Return, locals
  <2>2. CASE pending' = pending
    <3>1. \A q \in Purposes : pending'[q].code \in {pending[q].code, Nobody}
      BY <2>2
    <3>2. \A d \in Calls : got'[d].code \in {got[d].code, Nobody}
      BY <2>1
    <3>3. \A d \in Calls : pc'[d] \in {"ttl", "recount"} =>
            pc[d] \in {"ttl", "recount"} /\ got'[d].code = got[d].code
      BY <2>1
    <3>4. \A d \in Calls : pc'[d] \in {"idle", "copy", "check"} => pc[d] \in {"idle", "copy", "check"}
      BY <2>1
    <3> QED BY <1>s, <3>1, <3>2, <3>3, <3>4, PlacesKept
  <2>3. CASE pending' = [pending EXCEPT ![p] = [code |-> c, password |-> got[c].password,
                                                attempts |-> 0, life |-> "timed"]]
    <3>1. Stored(c)' /\ Purpose(c)' = p
      BY <2>1 DEF Stored, Purpose
    <3>2. pending'[p].code = c /\ \A q \in Purposes \ {p} : pending'[q] = pending[q]
      BY <1>t, <2>1, <2>3
    <3>3. \A d \in Calls : pc'[d] \in {"ttl", "recount"} => pc[d] = pc'[d] /\ op'[d] = op[d] /\ Purpose(d)' = Purpose(d)
      BY <2>1 DEF Purpose
    <3>4. \A d \in Calls : pc'[d] \in {"idle", "copy", "check"} => pc[d] = pc'[d]
      BY <2>1
    <3> HIDE DEF p
    <3>5. \A q \in Purposes : pending'[q].code \in Calls =>
            Stored(pending[q].code)' /\ Purpose(pending[q].code)' = q
      BY <1>s, <1>u, <3>1, <3>2 DEF Placed, Stored, Purpose
    <3>6. \A d \in Calls : pc'[d] \in {"ttl", "recount"} =>
            op'[d] \in {"verify", "reset"} /\ (got'[d].code \in Calls => Purpose(got[d].code)' = Purpose(d)')
      BY <1>u, <2>1, <3>3 DEF Placed, Stored, Purpose
    <3>7. \A d \in Calls : got'[d].code \in Calls => Stored(got[d].code)'
      BY <1>s, <2>1 DEF Placed, Stored, Purpose
    <3>8. \A d \in Calls : pc'[d] \in {"idle", "copy", "check"} => got'[d].code = Nobody
      BY <2>1, <3>4 DEF Placed
    <3> QED BY <3>5, <3>6, <3>7, <3>8 DEF Placed
  <2> QED BY <1>2, <2>2, <2>3 DEF StorePending
<1>3. ASSUME NEW c \in Calls, Check(c) PROVE Placed'
  <2> DEFINE found == pending[Purpose(c)]
  <2>1. /\ pending' = pending /\ op' = op /\ pc[c] = "check" /\ Purpose(c) \in Purposes
        /\ op[c] \in {"verify", "reset"}
        /\ \A d \in Calls \ {c} : pc'[d] = pc[d] /\ got'[d] = got[d]
        /\ pc'[c] \in {"create", "find", "ttl", "done"}
    BY <1>t, <1>3, PurposeType DEF Check, Stages, Go, Return, redisVars
  <2>2. got'[c].code \in {got[c].code, found.code} /\ (pc'[c] = "ttl" => got'[c].code = found.code)
    BY <1>t, <1>3, PurposeType DEF Check, Go, Return, PendingType
  <2>3. found.code \in Calls => Stored(found.code) /\ Purpose(found.code) = Purpose(c)
    BY <2>1 DEF Placed
  <2>4. \A d \in Calls : Purpose(d)' = Purpose(d)
    BY <2>1 DEF Purpose
  <2> HIDE DEF found
  <2>5. \A q \in Purposes : pending'[q].code \in Calls =>
          Stored(pending[q].code)' /\ Purpose(pending[q].code)' = q
    BY <1>s, <1>u, <2>1 DEF Placed, Stored, Purpose
  <2>6. \A d \in Calls : pc'[d] \in {"ttl", "recount"} =>
          op'[d] \in {"verify", "reset"} /\ (got'[d].code \in Calls => Purpose(got[d].code)' = Purpose(d)')
    BY <2>1, <2>2, <2>3, <2>4 DEF Placed, Stored, Purpose
  <2>7. \A d \in Calls : got'[d].code \in Calls => Stored(got[d].code)'
    BY <1>s, <2>1, <2>2, <2>3 DEF Placed, Stored, Purpose
  <2>8. \A d \in Calls : pc'[d] \in {"idle", "copy", "check"} => got'[d].code = Nobody
    BY <2>1 DEF Placed
  <2> QED BY <2>5, <2>6, <2>7, <2>8 DEF Placed
<1>4. ASSUME NEW c \in Calls, ReadTTL(c) PROVE Placed'
  <2>1. pending' = pending /\ pc[c] = "ttl" /\ pc'[c] = "recount"
        /\ \A d \in Calls \ {c} : pc'[d] = pc[d]
    BY <1>t, <1>4 DEF ReadTTL, Go, redisVars
  <2>2. \A d \in Calls : got'[d].code = got[d].code
    BY <1>t, <1>4 DEF ReadTTL, PendingType
  <2>3. \A p \in Purposes : pending'[p].code \in {pending[p].code, Nobody}
    BY <2>1
  <2>4. \A d \in Calls : got'[d].code \in {got[d].code, Nobody}
    BY <2>2
  <2>5. \A d \in Calls : pc'[d] \in {"ttl", "recount"} =>
          pc[d] \in {"ttl", "recount"} /\ got'[d].code = got[d].code
    BY <2>1, <2>2
  <2>6. \A d \in Calls : pc'[d] \in {"idle", "copy", "check"} => pc[d] \in {"idle", "copy", "check"}
    BY <2>1
  <2> QED BY <1>s, <2>3, <2>4, <2>5, <2>6, PlacesKept
<1>5. ASSUME NEW c \in Calls, Recount(c) PROVE Placed'
  <2> DEFINE p == Purpose(c)
  <2>1. /\ got' = got /\ op' = op /\ pc[c] = "recount" /\ pc'[c] = "done" /\ p \in Purposes
        /\ \A d \in Calls \ {c} : pc'[d] = pc[d]
    BY <1>t, <1>5, PurposeType DEF Recount, Return, locals
  <2>2. Rewritten(c).code = got[c].code
    BY <1>t DEF Rewritten, PendingType
  <2>3. /\ \A q \in Purposes \ {p} : pending'[q] = pending[q]
        /\ pending'[p] \in {pending[p], NoCode, Rewritten(c)}
    BY <1>t, <1>5, PurposeType DEF Recount
  <2>4. \A d \in Calls : Purpose(d)' = Purpose(d)
    BY <2>1 DEF Purpose
  <2>5. pending'[p].code \in {pending[p].code, Nobody, got[c].code}
    BY <1>t, <2>2, <2>3
  <2> HIDE DEF p
  <2>6. \A q \in Purposes : pending'[q].code \in Calls =>
          Stored(pending[q].code)' /\ Purpose(pending[q].code)' = q
    <3>1. got[c].code \in Calls => Stored(got[c].code) /\ Purpose(got[c].code) = p
      BY <2>1 DEF Placed, p
    <3>2. pending[p].code \in Calls => Stored(pending[p].code) /\ Purpose(pending[p].code) = p
      BY <2>1 DEF Placed
    <3>3. ASSUME NEW k \in Calls, k = pending'[p].code PROVE Stored(k)' /\ Purpose(k)' = p
      BY <1>s, <1>t, <2>4, <2>5, <3>1, <3>2, <3>3
    <3>4. ASSUME NEW q \in Purposes \ {p}, NEW k \in Calls, k = pending'[q].code
          PROVE  Stored(k)' /\ Purpose(k)' = q
      BY <1>s, <2>3, <2>4, <3>4 DEF Placed
    <3>5. \A q \in Purposes : \A k \in Calls : k = pending'[q].code => Stored(k)' /\ Purpose(k)' = q
      BY <3>3, <3>4
    <3> QED BY <3>5 DEF Stored, Purpose
  <2>7. \A d \in Calls : pc'[d] \in {"ttl", "recount"} =>
          op'[d] \in {"verify", "reset"} /\ (got'[d].code \in Calls => Purpose(got[d].code)' = Purpose(d)')
    BY <2>1, <2>4 DEF Placed, Stored, Purpose
  <2>8. \A d \in Calls : got'[d].code \in Calls => Stored(got[d].code)'
    BY <1>s, <2>1 DEF Placed, Stored, Purpose
  <2>9. \A d \in Calls : pc'[d] \in {"idle", "copy", "check"} => got'[d].code = Nobody
    BY <2>1 DEF Placed
  <2> QED BY <2>6, <2>7, <2>8, <2>9 DEF Placed
<1>6. CASE \/ \E p \in Purposes : CodeExpires(p) \/ CooldownExpires(p)
           \/ ListExpires \/ (\E s \in People : SessionExpires(s)) \/ UNCHANGED vars
  <2>1. /\ UNCHANGED <<pc, got>>
        /\ \A p \in Purposes : pending'[p] \in {pending[p], NoCode}
    BY <1>t, <1>6 DEF CodeExpires, CooldownExpires, ListExpires, SessionExpires, vars, redisVars,
       locals, ghosts
  <2>2. \A p \in Purposes : pending'[p].code \in {pending[p].code, Nobody}
    BY <1>t, <2>1
  <2> QED BY <1>s, <2>1, <2>2, PlacesKept
<1> QED BY <1>1, <1>2, <1>3, <1>4, <1>5, <1>6 DEF Next

Wrong(k) == {c \in Calls : answer[c] = "invalid_code" /\ got[c].code = k}

\* Of a code that is not unsure, the pending copy has counted the guesses that were
\* answered, and a guess that is being written back, which is the only one, counts itself too.
Counted ==
  /\ \A k \in Calls : IsFiniteSet(Wrong(k))
  /\ \A p \in Purposes, k \in Calls \ unsure :
       pending[p].code = k => pending[p].attempts = Cardinality(Wrong(k))
  /\ \A c \in Calls, k \in Calls \ unsure :
       c \in Guessing(k) => got[c].attempts = Cardinality(Wrong(k)) + 1 /\ Guessing(k) = {c}

\* The counts survive a step that answers no guess, starts none, and at most deletes codes.
LEMMA CountsKept ==
  ASSUME Counted, unsure \subseteq unsure',
         \A p \in Purposes : pending'[p] \in {pending[p], NoCode},
         \A k \in Calls : Wrong(k)' = Wrong(k) /\ Guessing(k)' \subseteq Guessing(k),
         \A k \in Calls : \A c \in Guessing(k)' : got'[c].attempts = got[c].attempts
  PROVE  Counted'
<1>t. NoCode.code \notin Calls
  BY CallsAssumption DEF NoCode
<1>1. \A k \in Calls : IsFiniteSet(Wrong(k))'
  BY DEF Counted
<1>2. ASSUME NEW p \in Purposes, NEW k \in Calls \ unsure', pending'[p].code = k
      PROVE  pending'[p].attempts = Cardinality(Wrong(k)')
  BY <1>t, <1>2 DEF Counted
<1>3. ASSUME NEW c \in Calls, NEW k \in Calls \ unsure', c \in Guessing(k)'
      PROVE  got'[c].attempts = Cardinality(Wrong(k)') + 1 /\ Guessing(k)' = {c}
  <2>1. k \in Calls \ unsure /\ c \in Guessing(k) /\ Wrong(k)' = Wrong(k) /\ Guessing(k)' \subseteq Guessing(k)
    BY <1>3
  <2>2. got[c].attempts = Cardinality(Wrong(k)) + 1 /\ Guessing(k) = {c}
    BY <2>1 DEF Counted
  <2>3. got'[c].attempts = got[c].attempts
    BY <1>3
  <2> QED BY <1>3, <2>1, <2>2, <2>3
<1> QED BY <1>1, <1>2, <1>3 DEF Counted

\* The same for a step of one call that is not answered "invalid_code" about a code it holds.
LEMMA CallCountsKept ==
  ASSUME TypeOK, Stages, Counted, unsure \subseteq unsure',
         \A p \in Purposes : pending'[p] \in {pending[p], NoCode},
         NEW c \in Calls, pc[c] # "done",
         \A d \in Calls \ {c} : pc'[d] = pc[d] /\ got'[d] = got[d] /\ answer'[d] = answer[d],
         \/ pc'[c] \notin {"ttl", "recount"}
         \/ pc[c] = "ttl" /\ got'[c].code = got[c].code /\ got'[c].attempts = got[c].attempts,
         answer'[c] = "invalid_code" => got'[c].code = Nobody
  PROVE  Counted'
<1>t. Nobody \notin Calls /\ answer[c] = "none"
  BY CallsAssumption DEF Stages
<1>1. ASSUME NEW k \in Calls PROVE Wrong(k)' = Wrong(k)
  <2>1. \A d \in Calls : d \in Wrong(k)' <=> d \in Wrong(k)
    BY <1>t DEF Wrong
  <2> QED BY <2>1 DEF Wrong
<1>2. ASSUME NEW k \in Calls PROVE Guessing(k)' \subseteq Guessing(k)
  BY DEF Guessing
<1>3. ASSUME NEW k \in Calls, NEW d \in Guessing(k)' PROVE got'[d].attempts = got[d].attempts
  BY <1>3 DEF Guessing
<1> QED BY <1>1, <1>2, <1>3, CountsKept

LEMMA CountedStep == TypeOK /\ Stages /\ Newest /\ Placed /\ Counted /\ [Next]_vars => Counted'
<1> SUFFICES ASSUME TypeOK, Stages, Newest, Placed, Counted, [Next]_vars PROVE Counted'
  OBVIOUS
<1>t. /\ pc \in [Calls -> Positions] /\ op \in [Calls -> Ops \union {"none"}]
      /\ answer \in [Calls -> Answers]
      /\ pending \in [Purposes -> PendingType] /\ got \in [Calls -> PendingType]
      /\ Nobody \notin Calls /\ NoCode.code = Nobody
  BY CallsAssumption DEF TypeOK, NoCode
<1>1. ASSUME NEW c \in Calls,
             \/ TurnAway(c) \/ Begin(c) \/ Login(c) \/ EnsureAdmin(c) \/ (\E s \in People : RequireUser(c, s))
             \/ CountUsers(c) \/ Copy(c) \/ Lookup(c) \/ SetCooldown(c) \/ SendMail(c) \/ Unmail(c)
             \/ CreateUser(c) \/ Find(c) \/ UpdatePassword(c) \/ ListSessions(c)
             \/ Revoke(c) \/ Forget(c) \/ OpenSession(c) \/ ReadOwner(c) \/ Close(c) \/ Die(c)
      PROVE  Counted'
  <2>1. \A d \in Calls \ {c} : got'[d] = got[d] /\ pc'[d] = pc[d] /\ answer'[d] = answer[d]
    BY <1>t, <1>1 DEF TurnAway, Begin, Login, EnsureAdmin, RequireUser, CountUsers, Copy, Lookup,
       SetCooldown, SendMail, Unmail, CreateUser, Find, UpdatePassword, ListSessions, Revoke,
       Forget, OpenSession, ReadOwner, Close, Die, Arrive, Refuse, Go, Return, locals
  <2>2. pc'[c] \notin {"ttl", "recount"} /\ pc[c] # "done"
    BY <1>t, <1>1 DEF TurnAway, Begin, Login, EnsureAdmin, RequireUser, CountUsers, Copy, Lookup,
       SetCooldown, SendMail, Unmail, CreateUser, Find, UpdatePassword, ListSessions, Revoke,
       Forget, OpenSession, ReadOwner, Close, Die, Arrive, Refuse, Go, Return, Running
  <2>3. \A p \in Purposes : pending'[p] \in {pending[p], NoCode}
    BY <1>t, <1>1 DEF TurnAway, Begin, Login, EnsureAdmin, RequireUser, CountUsers, Copy, Lookup,
       SetCooldown, SendMail, Unmail, CreateUser, Find, UpdatePassword, ListSessions, Revoke,
       Forget, OpenSession, ReadOwner, Close, Die, redisVars
  <2>4. unsure \subseteq unsure'
    BY <1>1 DEF TurnAway, Begin, Login, EnsureAdmin, RequireUser, CountUsers, Copy, Lookup,
       SetCooldown, SendMail, Unmail, CreateUser, Find, UpdatePassword, ListSessions, Revoke,
       Forget, OpenSession, ReadOwner, Close, Die, ghosts
  <2>5. answer'[c] = "invalid_code" => got'[c].code = Nobody
    <3>1. CASE TurnAway(c) \/ Copy(c)
      <4>1. pc[c] \in {"idle", "copy"} /\ got[c].code = Nobody
        BY <3>1 DEF TurnAway, Refuse, Copy, Placed
      <4>2. got'[c].code \in {got[c].code, Nobody}
        BY <1>t, <3>1 DEF TurnAway, Copy, locals, NoCode
      <4> QED BY <4>1, <4>2
    <3>2. CASE Find(c)
      BY <1>t, <3>2 DEF Find, Stages, Go
    <3>3. CASE \/ Begin(c) \/ Login(c) \/ EnsureAdmin(c) \/ (\E s \in People : RequireUser(c, s))
               \/ CountUsers(c) \/ Lookup(c) \/ SetCooldown(c) \/ SendMail(c) \/ Unmail(c)
               \/ CreateUser(c) \/ UpdatePassword(c) \/ ListSessions(c)
               \/ Revoke(c) \/ Forget(c) \/ OpenSession(c) \/ ReadOwner(c) \/ Close(c) \/ Die(c)
      <4>1. answer'[c] = answer[c] \/ answer'[c] # "invalid_code"
        BY <1>t, <3>3 DEF Begin, Login, EnsureAdmin, RequireUser, CountUsers, Lookup,
           SetCooldown, SendMail, Unmail, CreateUser, UpdatePassword, ListSessions, Revoke,
           Forget, OpenSession, ReadOwner, Close, Die, Arrive, Refuse, Go, Return, Shown
      <4>2. answer[c] = "none"
        BY <2>2 DEF Stages
      <4> QED BY <4>1, <4>2
    <3> QED BY <1>1, <3>1, <3>2, <3>3
  <2> QED BY <2>1, <2>2, <2>3, <2>4, <2>5, CallCountsKept
<1>2. ASSUME NEW c \in Calls, StorePending(c) PROVE Counted'
  <2> DEFINE p == Purpose(c)
  <2>1. /\ p \in Purposes /\ pc[c] = "store" /\ got' = got /\ unsure \subseteq unsure'
        /\ pc'[c] \in {"mail", "done"} /\ answer'[c] # "invalid_code" /\ answer[c] = "none"
        /\ \A d \in Calls \ {c} : pc'[d] = pc[d] /\ answer'[d] = answer[d]
    BY <1>t, <1>2, PurposeType DEF StorePending, Stages, Go, Return, Shown, locals
  <2>2. CASE pending' = pending
    <3>1. \A q \in Purposes : pending'[q] \in {pending[q], NoCode}
      BY <2>2
    <3> QED BY <2>1, <3>1, CallCountsKept
  <2>3. CASE pending' = [pending EXCEPT ![p] = [code |-> c, password |-> got[c].password,
                                                attempts |-> 0, life |-> "timed"]]
    <3>1. pending'[p].code = c /\ pending'[p].attempts = 0 /\ \A q \in Purposes \ {p} : pending'[q] = pending[q]
      BY <1>t, <2>1, <2>3
    <3>2. ASSUME NEW k \in Calls PROVE Wrong(k)' = Wrong(k)
      <4>1. \A d \in Calls : d \in Wrong(k)' <=> d \in Wrong(k)
        BY <2>1 DEF Wrong
      <4> QED BY <4>1 DEF Wrong
    <3>3. ASSUME NEW k \in Calls PROVE Guessing(k)' = Guessing(k)
      <4>1. \A d \in Calls : d \in Guessing(k)' <=> d \in Guessing(k)
        BY <2>1 DEF Guessing
      <4> QED BY <4>1 DEF Guessing
    <3>4. Wrong(c) = {}
      BY <2>1 DEF Wrong, Placed, Stored
    <3>5. Cardinality(Wrong(c)) = 0
      BY <3>4, FS_EmptySet
    <3> HIDE DEF p
    <3>6. \A k \in Calls : IsFiniteSet(Wrong(k)')
      BY <3>2 DEF Counted
    <3>7. ASSUME NEW q \in Purposes, NEW k \in Calls \ unsure', pending'[q].code = k
          PROVE  pending'[q].attempts = Cardinality(Wrong(k)')
      <4>1. CASE q = p
        BY <3>1, <3>2, <3>5, <3>7, <4>1
      <4>2. CASE q # p
        BY <2>1, <3>1, <3>2, <3>7, <4>2 DEF Counted
      <4> QED BY <4>1, <4>2
    <3>8. ASSUME NEW d \in Calls, NEW k \in Calls \ unsure', d \in Guessing(k)'
          PROVE  got'[d].attempts = Cardinality(Wrong(k)') + 1 /\ Guessing(k)' = {d}
      <4>1. k \in Calls \ unsure /\ d \in Guessing(k) /\ Wrong(k)' = Wrong(k) /\ Guessing(k)' = Guessing(k)
        BY <2>1, <3>2, <3>3, <3>8
      <4>2. got[d].attempts = Cardinality(Wrong(k)) + 1 /\ Guessing(k) = {d}
        BY <4>1 DEF Counted
      <4> QED BY <2>1, <4>1, <4>2
    <3> QED BY <3>6, <3>7, <3>8 DEF Counted
  <2> QED BY <1>2, <2>2, <2>3 DEF StorePending
<1>3. ASSUME NEW c \in Calls, Check(c) PROVE Counted'
  <2> DEFINE found == pending[Purpose(c)]
  <2>1. /\ pending' = pending /\ pc[c] = "check" /\ unsure \subseteq unsure' /\ found \in PendingType
        /\ Purpose(c) \in Purposes /\ answer[c] = "none" /\ got[c].code = Nobody
        /\ \A d \in Calls \ {c} : pc'[d] = pc[d] /\ got'[d] = got[d] /\ answer'[d] = answer[d]
    BY <1>t, <1>3, PurposeType DEF Check, Stages, Placed, Go, Return, redisVars
  <2>2. \/ /\ pc'[c] \in {"create", "find"} /\ answer'[c] = "none"
        \/ /\ pc'[c] = "done" /\ got'[c] = got[c]
        \/ /\ pc'[c] = "ttl" /\ answer'[c] = "none"
           /\ got' = [got EXCEPT ![c] = [found EXCEPT !.attempts = @ + 1]]
           /\ unsure' = IF Guessing(found.code) = {} THEN unsure ELSE unsure \union {found.code}
    BY <1>t, <1>3, <2>1 DEF Check, Go, Return
  <2>3. \A q \in Purposes : pending'[q] \in {pending[q], NoCode}
    BY <2>1
  <2>4. CASE pc'[c] # "ttl"
    <3>1. pc'[c] \notin {"ttl", "recount"} /\ (answer'[c] = "invalid_code" => got'[c].code = Nobody)
      BY <2>1, <2>2, <2>4
    <3> QED BY <2>1, <2>3, <3>1, CallCountsKept
  <2>5. CASE pc'[c] = "ttl"
    <3>1. /\ answer'[c] = "none" /\ got'[c].code = found.code /\ got'[c].attempts = found.attempts + 1
          /\ unsure' = IF Guessing(found.code) = {} THEN unsure ELSE unsure \union {found.code}
      BY <1>t, <2>1, <2>2, <2>5 DEF PendingType
    <3>2. ASSUME NEW k \in Calls PROVE Wrong(k)' = Wrong(k)
      <4>1. \A d \in Calls : d \in Wrong(k)' <=> d \in Wrong(k)
        BY <2>1, <3>1 DEF Wrong
      <4> QED BY <4>1 DEF Wrong
    <3>3. ASSUME NEW k \in Calls, k # found.code PROVE Guessing(k)' = Guessing(k)
      <4>1. \A d \in Calls : d \in Guessing(k)' <=> d \in Guessing(k)
        BY <2>1, <3>1, <3>3 DEF Guessing
      <4> QED BY <4>1 DEF Guessing
    <3>4. ASSUME Guessing(found.code) = {}, NEW k \in Calls, k = found.code PROVE Guessing(k)' = {c}
      <4>1. \A d \in Calls : d \in Guessing(k)' <=> d = c
        BY <2>1, <2>5, <3>1, <3>4 DEF Guessing
      <4>2. Guessing(k)' \subseteq Calls
        BY DEF Guessing
      <4> QED BY <4>1, <4>2
    <3>5. \A k \in Calls : IsFiniteSet(Wrong(k)')
      BY <3>2 DEF Counted
    <3>6. ASSUME NEW q \in Purposes, NEW k \in Calls \ unsure', pending'[q].code = k
          PROVE  pending'[q].attempts = Cardinality(Wrong(k)')
      BY <2>1, <3>2, <3>6 DEF Counted
    <3> HIDE DEF found
    <3>7. ASSUME NEW d \in Calls, NEW k \in Calls \ unsure', d \in Guessing(k)'
          PROVE  got'[d].attempts = Cardinality(Wrong(k)') + 1 /\ Guessing(k)' = {d}
      <4>1. CASE k = found.code
        <5>1. Guessing(found.code) = {} /\ k \notin unsure
          BY <3>1, <3>7, <4>1
        <5>2. Guessing(k)' = {c} /\ d = c
          BY <3>4, <3>7, <4>1, <5>1
        <5>3. found.attempts = Cardinality(Wrong(k))
          BY <2>1, <4>1, <5>1 DEF Counted, found
        <5> QED BY <3>1, <3>2, <5>2, <5>3
      <4>2. CASE k # found.code
        <5>1. k \in Calls \ unsure /\ d \in Guessing(k) /\ Guessing(k)' = Guessing(k) /\ Wrong(k)' = Wrong(k)
          BY <2>1, <3>2, <3>3, <3>7, <4>2
        <5>2. got[d].attempts = Cardinality(Wrong(k)) + 1 /\ Guessing(k) = {d}
          BY <5>1 DEF Counted
        <5>3. d # c
          BY <2>1, <5>1 DEF Guessing
        <5> QED BY <2>1, <5>1, <5>2, <5>3
      <4> QED BY <4>1, <4>2
    <3> QED BY <3>5, <3>6, <3>7 DEF Counted
  <2> QED BY <2>4, <2>5
<1>4. ASSUME NEW c \in Calls, ReadTTL(c) PROVE Counted'
  <2>1. /\ pending' = pending /\ unsure' = unsure /\ pc[c] = "ttl" /\ pc'[c] = "recount"
        /\ got'[c].code = got[c].code /\ got'[c].attempts = got[c].attempts
        /\ answer'[c] = "none"
        /\ \A d \in Calls \ {c} : pc'[d] = pc[d] /\ got'[d] = got[d] /\ answer'[d] = answer[d]
    BY <1>t, <1>4 DEF ReadTTL, Stages, Go, redisVars, ghosts, PendingType
  <2>2. \A p \in Purposes : pending'[p] \in {pending[p], NoCode}
    BY <2>1
  <2> QED BY <2>1, <2>2, CallCountsKept
<1>5. ASSUME NEW c \in Calls, Recount(c) PROVE Counted'
  <2> DEFINE p == Purpose(c)
  <2>g. PICK g \in Calls : g = got[c].code
    BY <1>5 DEF Recount, Newest, CopiesAreNewest
  <2>1. /\ got' = got /\ op' = op /\ pc[c] = "recount" /\ pc'[c] = "done" /\ p \in Purposes
        /\ answer[c] = "none" /\ answer'[c] = "invalid_code"
        /\ Purpose(g) = p
        /\ \A d \in Calls \ {c} : pc'[d] = pc[d] /\ answer'[d] = answer[d]
    BY <1>t, <1>5, <2>g, PurposeType DEF Recount, Return, Shown, Stages, Placed, locals
  <2>2. Rewritten(c).code = g /\ Rewritten(c).attempts = got[c].attempts
    BY <1>t, <2>g DEF Rewritten, PendingType
  <2>3. /\ \A q \in Purposes \ {p} : pending'[q] = pending[q]
        /\ unsure \subseteq unsure'
        /\ \/ pending'[p] \in {NoCode, Rewritten(c)}
           \/ pending'[p] = pending[p] /\ g \in unsure'
    BY <1>t, <1>5, <2>g, PurposeType DEF Recount
  <2>4. c \in Guessing(g) /\ c \notin Wrong(g)
    BY <2>1, <2>g DEF Guessing, Wrong
  <2> HIDE DEF p
  <2>5. ASSUME NEW k \in Calls, k # g PROVE Wrong(k)' = Wrong(k)
    <3>1. \A d \in Calls : d \in Wrong(k)' <=> d \in Wrong(k)
      BY <2>1, <2>5, <2>g DEF Wrong
    <3> QED BY <3>1 DEF Wrong
  <2>6. ASSUME NEW k \in Calls PROVE Guessing(k)' = Guessing(k) \ {c}
    <3>1. \A d \in Calls : d \in Guessing(k)' <=> d \in Guessing(k) \ {c}
      BY <2>1 DEF Guessing
    <3> QED BY <3>1 DEF Guessing
  <2>7. Wrong(g)' = Wrong(g) \union {c}
    <3>1. \A d \in Calls : d \in Wrong(g)' <=> d \in Wrong(g) \union {c}
      BY <2>1, <2>g DEF Wrong
    <3> QED BY <3>1, <2>1 DEF Wrong
  <2>8. IsFiniteSet(Wrong(g)) /\ \A k \in Calls : IsFiniteSet(Wrong(k))
    BY <2>1 DEF Counted
  <2>9. IsFiniteSet(Wrong(g)') /\ Cardinality(Wrong(g)') = Cardinality(Wrong(g)) + 1
    BY <2>4, <2>7, <2>8, FS_AddElement
  <2>10. ASSUME NEW k \in Calls PROVE IsFiniteSet(Wrong(k)')
    <3>1. CASE k = g
      BY <2>9, <3>1
    <3>2. CASE k # g
      BY <2>5, <2>8, <3>2
    <3> QED BY <3>1, <3>2
  <2>11. ASSUME NEW q \in Purposes, NEW k \in Calls \ unsure', pending'[q].code = k
         PROVE  pending'[q].attempts = Cardinality(Wrong(k)')
    <3>1. CASE k = g
      <4>1. g \notin unsure /\ got[c].attempts = Cardinality(Wrong(g)) + 1
        BY <2>1, <2>3, <2>4, <2>11, <3>1 DEF Counted
      <4>2. q = p
        <5>1. SUFFICES ASSUME q # p PROVE FALSE
          OBVIOUS
        <5>2. pending[q].code = g
          BY <2>3, <2>11, <3>1, <5>1
        <5>3. Purpose(g) = q
          BY <2>1, <5>2 DEF Placed
        <5> QED BY <2>1, <5>1, <5>3
      <4>3. pending'[p] = Rewritten(c)
        BY <1>t, <2>3, <2>11, <3>1, <4>2
      <4> QED BY <2>2, <2>9, <3>1, <4>1, <4>2, <4>3
    <3>2. CASE k # g
      <4>1. pending'[q] = pending[q] /\ k \notin unsure
        BY <1>t, <2>2, <2>3, <2>11, <3>2
      <4> QED BY <2>5, <2>11, <3>2, <4>1 DEF Counted
    <3> QED BY <3>1, <3>2
  <2>12. ASSUME NEW d \in Calls, NEW k \in Calls \ unsure', d \in Guessing(k)'
         PROVE  got'[d].attempts = Cardinality(Wrong(k)') + 1 /\ Guessing(k)' = {d}
    <3>1. k \in Calls \ unsure /\ d \in Guessing(k) /\ d # c /\ Guessing(k)' = Guessing(k) \ {c}
      BY <2>3, <2>6, <2>12
    <3>2. got[d].attempts = Cardinality(Wrong(k)) + 1 /\ Guessing(k) = {d}
      BY <3>1 DEF Counted
    <3>3. k # g
      BY <2>4, <3>1, <3>2
    <3> QED BY <2>1, <2>5, <3>1, <3>2, <3>3
  <2> QED BY <2>10, <2>11, <2>12 DEF Counted
<1>6. CASE \/ \E p \in Purposes : CodeExpires(p) \/ CooldownExpires(p)
           \/ ListExpires \/ (\E s \in People : SessionExpires(s)) \/ UNCHANGED vars
  <2>1. /\ UNCHANGED <<pc, got, answer, unsure>>
        /\ \A p \in Purposes : pending'[p] \in {pending[p], NoCode}
    BY <1>t, <1>6 DEF CodeExpires, CooldownExpires, ListExpires, SessionExpires, vars, redisVars,
       locals, ghosts
  <2>2. \A k \in Calls : Wrong(k)' = Wrong(k) /\ Guessing(k)' = Guessing(k)
    BY <2>1 DEF Wrong, Guessing
  <2> QED BY <2>1, <2>2, CountsKept
<1> QED BY <1>1, <1>2, <1>3, <1>4, <1>5, <1>6 DEF Next

\* Every wrong guess is counted by the pending code, unless guesses overlapped or one was
\* lost, whatever calls come in between.
THEOREM GuessesCount == Spec => []GuessesAreCounted
<1> DEFINE I == Stages /\ Newest /\ Placed /\ Counted
<1>1. Init => I
  <2> SUFFICES ASSUME Init PROVE I
    OBVIOUS
  <2>1. Stages /\ Newest
    BY OriginInit DEF Init, Newest, NewestCodeCounts, CopiesAreNewest, NoCode
  <2>2. Placed
    BY CallsAssumption DEF Init, Placed, NoCode
  <2>3. \A k : Wrong(k) = {} /\ Guessing(k) = {}
    BY DEF Init, Wrong, Guessing
  <2>4. Counted
    BY <2>3, FS_EmptySet, CallsAssumption DEF Init, Counted, NoCode
  <2> QED BY <2>1, <2>2, <2>4
<1>2. TypeOK /\ I /\ [Next]_vars => I'
  BY StagesStep, NewestStep, PlacedStep, CountedStep
<1>3. I => GuessesAreCounted
  BY DEF Counted, Wrong, GuessesAreCounted
<1> QED BY <1>1, <1>2, <1>3, TypeCorrect, PTL DEF Spec
=============================================================================
