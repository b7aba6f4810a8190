# A TLA+ verification of Anime-Companion-AI

Anime-Companion-AI is a chat service in Go: a user writes to one or several anime
characters on a web page or through WeChat, a language model answers in their
voices, and the day's conversation is archived and summarised at midnight (Beijing
time). This directory models the parts of it whose correctness depends on the order
in which several processes act, checks the models with TLC and proves the central
facts with TLAPS.

1. [The system](#1-the-system)
2. [Modules and the code they model](#2-modules-and-the-code-they-model)
3. [Runs: what is checked, with which bounds](#3-runs-what-is-checked-with-which-bounds)
4. [Fairness](#4-fairness)
5. [Proofs](#5-proofs)
6. [Findings](#6-findings)
7. [What is not modelled](#7-what-is-not-modelled)
8. [Plan](#8-plan)

## 1. The system

    browser / WeChat ──HTTP──> gateway ──gRPC──> agent ──HTTP──> language model
                                 │  │              │  │
                                 │  └── Redis ─────┘  │      (conversations, quota, sessions, limits)
                                 └───── PostgreSQL ───┘      (users, archive, summaries)

Gateway and agent are two deployments of one replica each with `maxSurge: 1`
(`deploy/k3s/base/applications.yaml`), so two processes of each kind overlap during
a rollout. Redis commands time out after 500 ms and are never retried by the client
library; a command that timed out may or may not have been executed.

| component | code | state it keeps | operations |
| --- | --- | --- | --- |
| Conversation store | `internal/conversation/structured_store.go` | per scope and Beijing day, in Redis: list of visible messages, sequence counter, ledger of batches by request id, one key per batch; per scope the lease; per day the set of active scopes | `BeginBatch`, `SavePlan`, `AppendCharacter`, `CompleteBatch`, `InterruptBatch`, `ClearScopeToday`, `MessagesForDateScope`, `ActiveScopes`, each a Lua script or one command |
| Send application | `internal/orchestration/application.go` | the call's own copy of its batch, a deferred cleanup | `Send`, `ClearToday`, `TodayHistory` |
| Speaker planning, context window, reply | `internal/orchestration/planning.go`, `context.go`, `deepseek.go` | none between messages | choice and repair of the plan; selection of the history under a budget; cutting the reply out of what the model wrote |
| Daily quota | `internal/quota/quota.go` | per user and Beijing day one Redis hash: an entry per request (reserved, delivered), counters, a revision | `Reserve`, `Settle`, `Snapshot` |
| Gateway send handlers | `internal/gateway/quota_handler.go`, `api_handler.go` | none between requests | reserve, call the agent, settle by its answer |
| Agent gRPC server | `internal/agent/server.go` | none | maps errors of the application to codes |
| Maintenance and archive | `internal/orchestration/maintenance.go`, `internal/memory/repo.go`, `internal/gateway/cron.go` | PostgreSQL: archived turns (unique per turn id and per scope, date and number), one summary per scope and day | `MaintainDay`: read, archive, summarise, clear |
| Accounts and sessions | `internal/auth/service.go`, `internal/gateway/auth_handler.go` | Redis: captchas, per purpose (registration, reset) a pending code and a cooldown, sessions, the set of a user's sessions; PostgreSQL: users | registration, resend, verification, login, forgotten and reset password, logout, seeding of an administrator |
| Mailer | `internal/auth/mailer.go` | none | `SendVerification` |
| WeChat channel | `internal/gateway/wechat_handler.go`, `dedupe.go`, `internal/wechat/token.go` | Redis: seen message ids, access token | deliver a message once, push, refresh the token |
| Rate limiter | `internal/redisstore/redis.go` | Redis: counter of a fixed window | `Allow`, `SeenOrAdd` |
| Web client | `internal/webui/static/app.js` | the space and session being shown, the submission each space waits for | log in and out, switch, send, clear |
| Rest | chat model, summariser, wiring, migrations, release scripts | | |

How they interact. The gateway reserves a unit of the user's quota, calls the agent,
and charges or gives back the unit by what the agent answered. The agent begins a
batch in Redis (which takes the scope's lease for 45 s), asks the model for one
speaker after the other, appends each reply by a script that first compares the
lease with the batch's token, and ends the batch. A repeated request id is answered
from the ledger. At midnight the gateway's cron asks the agent to archive every
scope of the day that ended.

What is hard, and what correctness means there:

* *Repeats.* A client that saw a timeout repeats the request while the first
  generation is still going on, after its process died, or over midnight. It must
  get the batch of the first one, never a second one, and what it is told about an
  ended batch must stay true.
* *Fencing.* A generator that was given up (lease expired) may come back and write.
  It must not change a batch that was reported as ended.
* *Lost replies of Redis.* A script may have run although the call failed; cleanup
  then works from a copy that is behind the store.
* *Two steps where one was meant.* `ClearScopeToday` looks at the lease and clears
  later; `Send` reads its clock before the script runs; the quota's window is
  computed before its script runs.
* *Sharing.* Attempts with one request id share a quota reservation; counters, entries
  and revisions must still add up, and a charge must stand for a reply.
* *Midnight.* The ledgers of two days are asked, the hash of a day expires at the
  second midnight, and two cron runs may archive one day while a batch that began
  before midnight goes on.
* *The language model.* A planner names strangers, repeats or nobody, and a speaker
  writes under other speakers' labels: whatever it says, the plan must be usable and
  nobody's words may be put into another's mouth.
* *Late answers.* On the page every request suspends its handler: its answer may find
  another space, another session or a newer list displayed.
* *Caches of caches.* A token is kept in Redis and copied into two gateways' memories,
  each with its own lifetime, while a mutex is held over requests that may fail.
* *Codes and sessions.* A code is read, compared, counted and written back by separate
  commands, each of which may fail; a reset revokes the sessions it finds while
  logins add new ones.
* *Progress.* A scope answers "busy" while its lease is held; a dead agent must not
  keep it busy.

`PROJECT.json` lists each hazard at the line where it bites, with the properties
that would show it going wrong.

## 2. Modules and the code they model

`PROJECT.json` ("map") gives the source lines of every definition. An operator whose
comment begins "Faulty variant" is not part of any model: it is a plausible bug, put in
the place of the definition it precedes to see that the properties notice.

    ConversationBatch ──ImplementsPromise──> ReplyPromise <──INSTANCE (Agent)── QuotaGateway
          ^                                                                        │
          └──EXTENDS── DayMaintenance                        DailyQuota <──EXTENDS─┘

    SpeakerTurn ──EXTENDS──> SpeakerPlan          WechatChannel ──EXTENDS──> TokenManager
         └──INSTANCE──> ContextWindow, ReplyText

    AuthService          WebClient

The proofs about a module stand in a module of their own that extends it:

    ConversationBatchProofs <── ConversationHistoryProofs <── DayMaintenanceProofs
    QuotaGatewayProofs      SpeakerTurnProofs      WechatChannelProofs
    AuthServiceProofs       WebClientProofs

### ConversationBatch: one scope of the agent

State. `messages`, `sequence`, `ledger`, `batches`, `lease` and `active` are the Redis
keys of `structuredKeys`, per Beijing day where the keys are; `pc`, `req`, `date`, `local`
and `answer` belong to the calls of `Application.Send`: where a call stands, the request
id it carries, the day its `BeginBatch` computed, its own copy of the batch, and what
it told its caller. `clearing` holds a `ClearScopeToday` between its two Redis
commands. `starts` is a history variable.

| action | code |
| --- | --- |
| `Refuse` | validation, history or summaries fail before `BeginBatch` |
| `Enter` | `BeginBatch` reads the clock and computes its keys |
| `BeginExisting`, `BeginBusy`, `BeginStarted`, `BeginUnreached` | `beginBatchScript` and the branches of `Send` on its result |
| `SavePlan` | the plan is stored, the lease renewed |
| `AppendCharacter` | `appendCharacterScript`, the caller's copy included |
| `FailGeneration`, `Complete` | the batch ends and its lease is released in one save |
| `Interrupt` | the deferred `InterruptBatch` |
| `Crash`, `LeaseExpires`, `ClearCheck`, `ClearToday`, `Tick` | environment: death of the process, the 45 s of the lease, the user's clear, midnight |

Every script is one step, as in Redis. Each has three outcomes: executed and answered,
executed with the reply lost, not reached; for the caller the last two are one error
(`unknown`). A call's identity doubles as the batch id and the lease token it draws.
`LeaseExpires` may happen at any moment: that a generator stalls for longer than
45 s needs no further assumption. Texts, names and avatars are left out; of the
interruption code only what the status already says is kept; the 72 h lifetime of
the keys exceeds the days of the model.

### ReplyPromise: what the agent promises

The same calls without leases, lists, plans or cleanups: one record per request id and
day, opened by one call, grown by that call only, ended once, and handed out to every
later call with the same id on that day or the next. `ConversationBatch` implements it
under the mapping at its end (`Promise`): "plan", "speak" and "interrupt" are
"working", an answer prepared while the cleanup is still to run is not told yet, and of
a batch only author, number of replies and whether it ended are visible.

### DailyQuota: one user's quota

`ledger[d]` is the hash of day `d`, explicit in its entries, counters and revision.
`Arrive` and `BeginSettle` are the reads of the clock that compute a window;
`ReserveKnown`, `ReserveExhausted`, `ReserveNew` are the branches of `reserveScript`;
`Settle` is `settleScript` followed, when the day has changed, by `Read`
(`snapshotScript`). `Keep` is `EXPIREAT`, which deletes at once when its moment has
passed. Attempts with one request id share a reservation, die (`Abandon`), lose
Redis's replies, and settle with any outcome: the outcome is restricted by the module
below, so what is proved here holds whatever the agent answers. Administrators bypass
Redis.

### QuotaGateway: the send handlers between quota and agent

Extends DailyQuota with an agent that is an instance of ReplyPromise over all the
conversations of the user. An error passes through three tables: the agent makes a
gRPC code of it (`CodesOf`, `orchestrationStatus`), the gateway decides by the code
whether the message certainly was not taken (`Definitive`, `definitiveAgentFailure`)
and so what becomes of the reservation (`OutcomeOf`: `quotaOutcome` and
`settleAgentError`), and shows the client a status (`StatusOf`, `apiAgentError`).
`shown` is that status: `TurnAway` stands for everything that ends a request before the
quota is asked, `ReserveOrRefuse` and `SettleAndAnswer` are DailyQuota's steps with
the answer the handler gives after them. The agent's call outlives the attempt that made it, and a transport error may take
the place of its answer at any time. Two constants say what the environment does:
`Overlap`, whether a client repeats a request while it is being handled, and
`LateScripts`, whether midnight may fall between a window and its script.

### DayMaintenance: archiving the day

Extends ConversationBatch with runs of `MaintainDay` for day 1: list, read, archive (one
transaction; `ON CONFLICT DO NOTHING` on the turn id, failure on a second turn with
the same number), summarise, clear. Every step may fail, or succeed with its answer
lost, and ends the run. `owed` is a history variable: the visible messages of the
batches that had ended at midnight.

### SpeakerPlan, ContextWindow, ReplyText and SpeakerTurn: what Send computes

The three functions `Send` calls between its saves. `SpeakerPlan` is `planSpeakers` of a group
space: `Ask` is the planner's answer, a list of any names or a failure, `Take` and
`Keep` the loop that cleans it, `Mention` and `Default` the fallbacks. A message is the
sequence of names it mentions; how aliases are found in it is left out.
`ContextWindow` is `selectHistoryBatches`: the loop that cuts the history into batches
and the one that takes batches from the end while they fit; a message is its batch and
its estimated tokens. `ReplyText` is `normalizeCharacterReply`, applied to what the model
wrote before it is recorded and again whenever the list is read; a text is a sequence
of marks (words, the speaker's own label, another's label, a line break), each with
its place, so that one can see later which were kept. `SpeakerTurn` calls them one
after the other for one message after the other; the locals of a function that
returned are dropped, and `left` counts the speakers still to be asked.

### WebClient: the chat page

One tab of `app.js`. An operation is one click with the requests its handler makes, and
holds what the handler captured before it suspended (`space`, `version`, the id of a
submission). The server's steps come between the request and its answer; the handler
goes on (`OnLogin` to `OnLogout`) when the answer arrives. `page` is the script's state
and what it displays, each function of the script an operator on it (`LoginShown`,
`Selected`, `Pending`, `Released`, ...). Of the server there is what its answers show: the
sessions it accepts, a list of messages per user and space, and the submission a space
is handling. `inOrder` is chosen once: whether answers arrive in the order they were
given. A request can fail (`Fail`), be refused with the cookie deleted because its session is
unknown or cannot be looked up (`Reject`), or succeed with a body that cannot be read
(`CutShort`): `api` then makes `{}` of it, which `selectSpace` and the reload after a
submission show as an empty transcript without a notice, and `showChat` as no spaces.
`Midnight` empties the server's lists under the page; `gone` remembers what they held.
`Emptied` is what `OnClear` does to the transcript:
the handler compares the space it captured with the one on display and nothing else, so
a clear that a former session began may empty the transcript of the next user until the
history is read again (it says nothing of the other user, and the server's list is
untouched). `ShownIsCurrent` names these two ways to an empty transcript, and says that
there is no third without a notice and no other list that differs from the server's. After a login the model's buttons are
free at once where the page re-renders them a moment later, so it allows a few more
clicks than the page.

### TokenManager and WechatChannel: a message of a WeChat user

`TokenManager` is the access token: `memory` per gateway, `cache` in Redis, `lock` the mutex,
`issued` and `life` the service that grants tokens. `GetKept`, `GetCached`, `GetNone` are the
branches of `Get`; `Refresh` forgets the token first; `Issue`, `Fetched` and `FetchFails`
are `fetchLocked`, during which the mutex is held. `WechatChannel` brings a message there:
`Deliver` (again, to either gateway), `SeenOrAdd` and `Allow` with a reply that may be lost
(both let the message pass then), `Reply` the agent, `Send` the push with its one retry
after a refused token. Good-night greetings (`Greet`) take the same way without the
deduper, and without an end to their context. Time is counted in half minutes: 60
seconds off a lifetime (`Margin`) and a copy kept for a minute (`CopyTime`) are both 2,
the 30 seconds of a message's context end between one and two ticks after it began
(`InTime`, `MayBeOver`). `life`, the lifetime the service grants, is chosen once.

### AuthService: accounts and sessions of one address

`account` is the row in PostgreSQL; `pending`, `cooldown`, `sessions` and `listed` are the
Redis keys of one address. A call carries out one operation (`op`) and stands for what
it creates: `account` is the call whose password the account has, a code or session is
the call that stored it. Every command is a step with three outcomes (executed,
executed with its answer lost, not reached); the last two are errors to the caller.

| action | code |
| --- | --- |
| `TurnAway` (`EarlyAnswers`) | the answers an operation may give before it touches anything shared |
| `CountUsers`, `Copy`, `Lookup` | `StartRegistration`, `ResendRegistration`, `StartPasswordReset` up to `createPending` |
| `SetCooldown`, `StorePending`, `SendMail`, `Unmail` | `createPending`; the mail may have arrived although sending it failed |
| `Check`, `ReadTTL`, `Recount` | `verifyPending`: right, or wrong and counted by a copy that is written back with the lifetime read in between (`Rewritten`) |
| `CreateUser`, `Forget`, `OpenSession` | `VerifyRegistration` |
| `Find`, `UpdatePassword`, `ListSessions`, `Revoke`, `Forget`, `OpenSession` | `ResetPassword` with `RevokeAllSessions` |
| `Login`, `OpenSession` | `Login`; the password is compared with the account as it was read |
| `RequireUser`, `ReadOwner`, `Close` | the middleware and `Logout` |
| `EnsureAdmin` | `cmd/seed-admin` |
| `CodeExpires`, `CooldownExpires`, `SessionExpires`, `ListExpires`, `Die` | lifetimes; death of the process or a client that hangs up |

`proof` is the password a session was opened with. The rest is history: `mailed`, the codes
that reached the mailbox; `late`, the sessions opened while a revocation was between its
two commands or with a password that was replaced after the login had read it; `unsure`,
the codes with a guess that overlapped another one, overlapped the storing of the
code, or whose count was lost; `newest`, the code stored last. The properties
exempt `late` and `unsure`, so what they do not say is as much a result: only those two
interleavings leave a session or an old code behind.

## 3. Runs: what is checked, with which bounds

| run | bounds | shows |
| --- | --- | --- |
| `conversation_batch` | 2 calls over 2 days, one plan of 2 on the first day and plans of 1 otherwise; or 3 calls on one day with plans of 1, two at work at a time and no clear once the third has entered; 2 request ids | ended batches say how their plan went (`OutcomeFitsPlan`); numbers are positions (`SequenceIsPosition`); what is visible is recorded, in order (`HistoryAgreesWithLedger`), and listed for the maintenance (`UserMessagesAreListed`); recorded replies are never lost or renumbered (`RepliesOnlyGrow`); a request is not generated again on the day of an earlier generation or the day after it (`NoRegeneration`; a call that computed its day before midnight may still begin after one that computed it later, under the earlier day); the lease names an open batch (`LeaseNamesOpenBatch`), answers agree with what is recorded and so with each other (`AnswersAreRecorded`), an ended record is final (`EndedIsFinal`); and the whole implements ReplyPromise (`ImplementsPromise`) |
| `conversation_live` | 2 calls, 2 request ids, 1 day | the scope never stays busy (`LeaseIsFreed`), each call answers or dies (`CallsReturn`) |
| `daily_quota` | 3 attempts, 2 request ids, limit 1, 3 days | counters are those of the entries and within the limit (`LedgerAddsUp`); a charge is final (`DeliveredIsFinal`); revisions order the snapshots (`SnapshotsAgree`) |
| `quota_gateway` | 2 attempts, limit 1, 2 request ids over 2 days or one over 3, no overlap, no late script | no more messages are answered than the limit (`DeliveredWithinLimit`); nobody is charged for nothing (`ChargedForReplies`); an answered message is charged (`DeliveredIsCharged`), and once when it is repeated on the next day (`ChargedToNeighboursOnce`); a unit is held only for a message whose fate is open, so that a status which says that the message was not taken also gave the unit back (`HeldForOpenMessages`) |
| `quota_overlap` | 3 attempts, 2 request ids, 1 day, overlap; only the agent's answers go wrong (`Undisturbed`) | violation, see Findings |
| `quota_late_script` | 2 attempts, 1 request id, 3 days, late scripts | violation, see Findings |
| `day_maintenance` | 1 maintenance run and 2 calls that enter on day 1, with plans of 1, or 2 runs and 1 call with a plan of 2; 2 request ids, 2 days | whatever step fails and however runs overlap, an ended batch stays visible or is archived (`EndedBatchesAreKept`), and archived numbers are the ones the clients saw (`ArchiveMatchesHistory`) |
| `speaker_turn` | 3 participants and a stranger, lists of at most 5, plans of 2; histories of 5 messages of at most 2 tokens, budgets to 6; texts of at most 6 marks | every plan is usable (`PlanIsUsable`) and is the planner's list at its first mentions (`PlanFollowsList`); a speaker is shown the longest end of the history that fits (`WindowIsLongest`); a reply holds the speaker's own words only (`WordsAreTheCharacters`) and is listed as it was answered (`ListedAsSent`); loops end or go on (deadlock) |
| `web_client` | 2 users, 2 spaces, ten budgets of clicks, failures and midnights (MCWebClient), up to three submissions, or two logins with a clear and a submission | what is displayed belongs to the space and user the page is on (`ShownBelongsHere`); a space waits for at most one submission (`OneSubmissionPerSpace`) and is locked only for a reason (`LockedForReason`); once everything has arrived in order the page shows the server's list, but for submissions given up and what a midnight took out since, or an error, or nothing because the list could not be read or a clear of a former user's session emptied it (`ShownIsCurrent`) |
| `wechat_channel` | 2 gateways; 2 calls with 1 fault, 3 calls without, or 2 calls with 2 faults and lives within the margin; at most 1 greeting; 3 messages, limit 1, window 2, time to 3 | one reply to a message (`RepliedOnce`), silence for a reason only (`SilenceHasAReason`), no token kept beyond its life (`MemoryWithinLife`), the limiter's two sides (`AtMostTwicePerWindow`, `RefusedForReason`); no failure leaves the mutex locked (deadlock) |
| `auth_service` | 3 or 4 calls, mixed as one of seven menus (MCAuthService): registrations with a resend and guesses, two resets, a reset with a login, a logout or a seeding, or two logins with those two; codes survive one wrong guess | a revocation finds every session but `late` ones (`SessionsAreListed`); after an answered reset no session of an earlier password lives (`StaleSessionsHaveAReason`); every wrong guess counts (`GuessesAreCounted`); an earlier code does not come back (`NewestCodeCounts`) |
| `auth_code_life` | the same | violation, see Findings |

Why these bounds are enough for the cases meant. Several runs are a union of two smaller
instances, cut out of one configuration by a `CONSTRAINT` of the MC module: either
dimension is explored to its full size while the other is small. The constraints leave
out whole behaviours, by what has entered, was planned or reached by then, so the
states they allow are explored as in an instance of its own. Two calls on one request id give
original and repeat; on two ids they contend for the lease. The third call is needed
only when a repeat, a stalled generator and a holder of the lease meet. A plan of
two is the least that makes "partial" and the order of replies differ from "failed"
and "complete". Three days are the least on which "the day before" can differ from
"some day before" and on which hashes of the quota expire; for the conversation the
second day suffices, and the theorems cover any number. A limit of
one is reached by one reservation, so a second request is at the ceiling. A list of
five names holds a repeat, a stranger and one name too many at once; five messages make
three batches, one of which is cut; six marks hold a label within a label's block. The
page needs a former submission, a present one and an answer still on its way, which the
budgets allow. Three deliveries give one that passes, one that is refused and one in the
next window. A forgotten password takes one call, its reset a second one, and the third is what
may overlap the revocation: another reset, a login, a logout or a seeding; a wrong guess that is written
back needs a second guess, and a resend to compete with. Calls, attempts and runs are each used once: a retry is another call.
Symmetry over interchangeable model values is used in the runs without liveness; no
property distinguishes them. The type invariants of ConversationBatch, DailyQuota,
QuotaGateway, AuthService and SpeakerPlan are proved (section 5); the runs spend their time on
the other properties.

Deadlock is checked in `speaker_turn` and `wechat_channel`, whose models go on for ever
or come to an explicit rest. The others stop when their calls or clicks are used up, and
the last day is reached where there are days; their progress is the subject of `conversation_live`.

## 4. Fairness

`LiveSpec` assumes weak fairness of two things. `Proceed(c)`: every step of a running
call is bounded (500 ms for Redis without retries, 30 s for the model), so the call
moves on until it returns or its process dies. `LeaseExpires` once the holder is not
running: Redis removes a key whose `PX` has passed, and nobody renews it any more.
Nothing is assumed of clients, of clears, of the clock, nor that a process survives.

## 5. Proofs

The proofs hold for every value of the constants, under the assumptions named in the
modules: `NobodyAssumption`, `NoneAssumption` and `CallsAssumption` (a placeholder such as
`Nobody` or `None` is none of the things it stands in for the lack of),
`BoundAssumption` and `AgentAssumption` (a plan may name at least one speaker, there is at least one
day), `LimitAssumption` and `LimiterAssumption` (limits, windows and days positive),
`RequestsAssumption` (the request ids of a model are finitely many, which counting them
needs), `ClientAssumption` (the two switches of the environment are Booleans),
`AttemptsAssumption` (a code survives at least one guess), `TimeAssumption` (a copy of the
token is kept no longer than the margin taken off its lifetime), `FirstAssumption` (the
page opens on one of its spaces), `NamesAssumption` and `SizeAssumption` (below), and
`WindowAssumption`, `MarksAssumption` and `BudgetAssumption`, which only type the bounds. Every theorem about a
`Spec` rests on an invariant that holds initially and is kept by every step; the last step of each is PTL.

### `ConversationBatchProofs`

* `TypeCorrect`: `TypeOK` is inductive by itself; its interest is that the list, the
  counter and the records keep their shapes in every branch of every script.
* `InvariantHolds`: the inductive invariant `IInv` is `LeaseNamesOpenBatch`,
  `NoRegeneration` and three facts these need. `OpenCopies`: a call past
  `BeginBatch` works on a copy of its own batch that says "generating". `HolderEntered`:
  the holder of the lease is past `BeginBatch`, so that its day no longer changes.
  `StartsRecorded`: what was started stays on record under the day and id of its call,
  which is why the ledger is found by a repeat. From it follow `LeaseIsExclusive` and
  `NeverRegenerated`.
* `OutcomeIsFinal`: only two kinds of step write to the ledger; `BeginExisting` leaves
  an ended record as it is, and a fenced script writes only under its own lease, which
  by `LeaseNamesOpenBatch` names a record that has not ended.
* `RecordsHold`, by the lemma `LedgerStep`: a step leaves the ledger alone, opens a batch under an
  id that was unknown (`Opens`), ends an abandoned one (`Converges`), or is a save of the
  lease's holder that adds at most one reply (`Saves`). The invariant `RInv`: the holder of
  the lease works on exactly what the store holds (`HolderCopies`), which makes its next
  save an extension of the last one; a record stands under the day and id of the call
  that opened it, and of no other (`RecordsOwned`, `StartsOwned`); record and copies fit
  their plans (`PlansFit`); and what calls on their way out will say (`CleaningFails`,
  `AnswersNamed`).
* `RepliesAreKept`, `AnswersStand` and `OutcomesFit` follow. The second is an
  invariant of answers only together with the first: an answer is a prefix of the
  record, and stays one because the record only grows.

### `ConversationHistoryProofs`

`ListStep`: a step leaves the visible list alone, empties it, or appends the message with
the next number.

* `NumbersArePlaces`, `ListedForMidnight`: each by `ListStep` alone.
* `OneStory`: what is visible is recorded, in the same order. `Agrees(d, i)` says it of
  one message; a save keeps what it said (`RecordsKept`), and the author of a visible
  message has left "begin", so its day and id are settled (`AuthorSettled`). The new
  reply agrees because the previous one of the batch does (`Follows`).
* `PromiseKept`, the refinement: `Spec => ImplementsPromise`. What the promise sees of a state
  is `Seen`: the day, the calls' stages, requests and days, and of records and answers what
  `Reply` leaves. Each action is shown to be one of the promise's, or to leave `Seen`
  unchanged: `BeginExisting` is `Repeat`, `BeginBusy` and `BeginUnreached` are `TurnAway`,
  `BeginStarted` is `Start`, `AppendCharacter` is `Speak`, the final saves and `FailGeneration`
  are `Finish`, the deferred `Interrupt` is `GiveUp`, and plans, clears, leases and the step
  into the cleanup are stutters. Besides `RInv` it needs `SInv`: a call that has not
  returned has told nothing, and one in its cleanup will return an error.

### `DayMaintenanceProofs`

`MaintenanceHolds`, on the proofs above: the conversation's invariants survive `ClearArchived`, which
empties a list they speak of (`CInv`), and beside them `MInv` is inductive. `RunsCover`: a
run past its archive step has put everything owed into the archive, and one past its
read either holds it or finds it there. `RowsAreShown`: rows of the archive and copies of
runs carry numbers their clients saw. `NoneBeforeMidnight`: no run begins while the
day goes on. `MidnightLosesNothing` and `ArchiveIsFaithful` follow, for any number of runs that
overlap and fail anywhere.

### `QuotaGatewayProofs`

Of the hashes alone (DailyQuota):

* `InvariantHolds` for `TypeOK /\ LedgerAddsUp`. Neither part is inductive alone: that
  `reserved - 1` is a natural number is known only because the counter counts the
  entries, one of which is being taken away. The lemmas `ReservedWellFormed`,
  `ChargedWellFormed`, `ReleasedWellFormed` say so for the three changes of a hash, by
  the cardinality of a set with one element more or less. `TypeCorrect` and
  `CeilingHolds` follow.
* `ChargeIsFinal` and `RevisionIsFaithful`: every step changes at most one hash, by one
  of those three changes (`LedgerStep`).
* `SnapshotsInOrder`, by `SnapInv`: a snapshot is never ahead of the living hash (`Behind`), and every
  hash, fresh or begun again after it expired, passes through the same first two revisions
  (`Early`).

With gateways and agent around them:

* `GatewayInvariant` for `GInv`, whatever clients and scripts do: `Tells` (what an attempt was told
  fits where it stands and what the agent recorded), `ReservedAreAwaited` (behind every held unit
  an attempt still waits, died, or was told that the quota is unavailable),
  `RepliesAreRecorded`. `GatewayTypeCorrect`, `NobodyPaysForSilence` and `HeldUnitsAreOpen` follow.
* `AnsweredIsCharged` assumes that no client repeats a request while it is handled
  (`~Overlap`), `LimitIsKept` and `NotChargedTwice` also that no midnight falls between a
  window and its script (`~LateScripts`). Neither hypothesis can be dropped: the runs
  `quota_overlap` and `quota_late_script` show the properties violated without them. The
  invariants are `TInv` (`OneAtATime`, `ClaimsAreCovered`) and `DInv` (`InTime`,
  `ClaimedWithinLimit`, `NeighboursDiffer`).

### `SpeakerTurnProofs`

`SizeAssumption` (a plan may name at least one speaker) and `NamesAssumption` (the default
speaker takes part) are granted by the registry. What is proved of each function holds
of the turn, since the functions leave each other's variables alone (`PlanRunsInside`,
`TextRunsInside`, `WindowRunsInside`). Induction theorems with an operator parameter being out of
reach, what speaks of the first, last, least or greatest place rests on `LeastNumber`,
which follows from the well-foundedness of the numbers' order.

* `PlanIsAlwaysUsable`, by `TypeOK`, `PlanIsUsable` and `KeptIsUsable`, which says of the list under
  construction what is claimed of the finished one; `ListIsFollowed`, by `KeptFollows`: the part
  of the planner's list already read has been filtered faithfully.
* `NobodyIsMisquoted` and `ListIsUnchanged`: what `normalizeCharacterReply` returns is trimmed and
  is either a block of the text that stands under the speaker's own label or, if there is
  none, what stands under nobody's (`HisPiece`, `NormalizedIs`).
* `WindowsAreLongest`. The tokens of a range are a fold over a sequence; `SumIs` shows that
  folds over all ranges of a history are the differences of one function of places, so
  that sums add and grow (`SumsAdd`). `WindowInv` says that the batches cut so far tile
  the history up to `start` (`Row`), later that they tile what lies before the window, of
  which `remaining` is what the budget leaves. When the last batch does not fit, every
  longer end either splits a batch or holds it and exceeds the budget as well.

### `AuthServiceProofs`

* `TypeCorrect`, by the control (`Control`), the codes (`Codes`) and the rest of the state.
* `ListedCorrect`: a session that the set does not list is `late`. Besides it needs
  `RevokersKnow`: a revocation about to delete the set has read every session in it,
  except `late` ones.
* `StaleCorrect`: needs that a call past `Check` has the kind of operation its position
  says (`Stages`), that the password a code carries is one of a registration
  (`PasswordsKnown`), and `Origin`: unless a reset is on its way or has failed, or an
  administrator was seeded (`Settled`), every live session that is not `late` carries
  the account's password (`Fresh`).
* `NewestCorrect`: the copy that a wrong guess writes back is of the newest code unless
  that code is `unsure` (`CopiesAreNewest`).
* `GuessesCount`, by `Counted`: a code that is not `unsure` has as many attempts as wrong
  guesses were answered, one more in the copy of the one guess under way; and `Placed`,
  which says at which stages a call is such a guess.

### `WechatChannelProofs`

* `CopiesExpire`, by `TInv`, which says of the cache what is claimed of the memories, but short
  of the margin (`Within(cache, Margin)`), since that is what a copy of a minute may use
  up, and of a token on its way that it set out no longer ago than `Transit`. It holds
  also when the service grants a lifetime shorter than the margin.
* `DeduperHolds`: of the calls with one message that the deduper could check, one passed, and a
  message is in its set only if a call passed (`DInv`). `OneReply` and
  `SilenceIsExplained` follow.
* `LimiterHolds`: of the calls let pass, at most the limit were counted in the window that
  `expires` marks and at most the limit within the length of a window before it, and
  while a window runs its count stands for calls that were let pass or whose answer
  failed (`LInv`). `WindowsBound` and `RefusalIsEarned` follow.

### `WebClientProofs`

`PageHolds` for `WInv`. `ShapeOf`: the page and its operations keep their fields. `SubmitOf`: a pending
submission is under way for its space in this session, and an unfinished submission of
this session is the pending one. `ViewOf`: a read whose answer may still be displayed was
sent with the session the browser has now, if it has one, and what is displayed is of
that session's user and the current space. `ShownBelongs`, `OneAtATime` and `LockHasAReason`
follow, for answers in any order.

`AnswersAreTracked` for `UInv`, which says three things more. `AnswersWait`: when answers arrive in
order, the row holds each answer that has not arrived, once. `KeepsTrack`: sessions
belong to users, the submission a space handles is one of its own that is unanswered or
was given up, and a list holds messages of its space's submissions. `Current`: for the
user of the cookie and the space on display, (1) an operation is still to be answered
whose answer will be displayed or become an error, or a submission's answer is on its
way that will have the list read again; or (2) an error is displayed or on its way; or
(3) the last answer in the row that will be displayed fits the server's list (`Fits`: it
agrees but for submissions given up and for what midnights took out, or it is one of the
two empty transcripts that `ShownIsCurrent` names); or (4) there is no such answer and what
is displayed fits. `CurrentAnswered` carries it over an answer given, `CurrentArrived` over one that
arrives and `CurrentStays` over all else. What makes it hold is that a clear and a
submission that has not ended exclude each other on the server, that whatever else adds to a
list was either given up by the page or is still awaited, and that an answer which cannot be
read shows nothing and says so in `unread`. With nothing under way only
the displayed error and (4) are left, which is `ShownIsCurrent` (`TranscriptIsCurrent`).

### Model-checked only

Liveness (`LeaseIsFreed`, `CallsReturn`), which is outside the prover's reach. Every safety property of
a passing run is stated by a theorem of section 5.

## 6. Findings

* `quota_overlap`: attempts with one request id share one reservation. When one of them
  fails definitively (for instance because the history could not be read, which the agent
  reports as `FailedPrecondition`, or with a lost lease) it gives
  the reservation back while the other is still being answered under it; that one's
  settlement then finds no reservation and is ignored, and the unit goes to another
  message. The page draws a fresh id for every submission and never repeats one, so it takes
  another client of the interface, one that repeats an id while it is being handled.
* `quota_late_script`: the hash of a day expires at the very midnight up to which the
  next day's window asks for it. A repeat whose window is computed just before that
  midnight, and whose script runs just after it, is charged a second time.
* `auth_code_life`: a wrong guess is written back with the lifetime that a `TTL` command
  reported, whose error is ignored. When the command fails, or the code expires before it
  runs, the code is stored without any expiry, although its mail said 10 minutes. It
  is then valid until it is used or guessed at wrongly often enough.

Neither the code nor its documents claim what the following would say, so they are
entries in "hazards" and not findings: a clear that a former session began empties the
transcript shown to the next user of the tab; an answer that is cut short empties it without
a notice; replies of a batch that runs over midnight may be
deleted unarchived; a scope whose maintenance failed is not tried again; replies that
became visible before their call failed are charged only if the client repeats.

## 7. What is not modelled

The wording of prompts, replies and mails, the estimate of tokens and the search of
aliases. The connection between what `Send` reads before it has the lease and what it
shows the model. The migration of keys that predate scopes (`migrateLegacyScope`), a
script of its own before a batch begins or the history is read, which finds something
only on the day of the upgrade. The purge of summaries older than
a week, and the fact that a scope whose maintenance failed is not tried again, which
are one statement each. Redis failing as a whole. Scripts that Redis executes after the
client gave up *and* after later commands of the same client (the model lets a lost
reply's script run at its own step). The captcha as a key that exactly one request
uses up (`GETDEL`): it is right or wrong. A second tab, registration and captchas on
the page.

Process wiring, configuration, health probes and shutdown: their effect on the
components, a call that dies at any point, is in every model. Conversions to and from
protobuf, HTTP and XML. The language model and the summariser, external calls that
answer or fail. Database migrations (their unique indexes are in DayMaintenance and
AuthService) and release and backup scripts, one-off tools outside the running program.
Branches the deployed program never takes: the agent without an application, the
gateway without accounts, the turn functions of `redis_store.go`.

## 8. Plan

Done: the modules of section 2, their runs, and proofs of every safety property the
passing runs check, the refinement included.

What would come next, the most important first:

1. The history that `Send` reads before `BeginBatch` takes the lease, as the input of
   ContextWindow: it may miss a batch that ended in between.
2. The migration of keys that predate scopes, against calls of both versions during
   a rollout.
3. Captchas as keys, and a second tab of WebClient.
