------------------------------ MODULE WebClient ------------------------------
(***************************************************************************)
(* The chat page (internal/webui/static/app.js): one browser tab whose     *)
(* handlers suspend at every request, so that clicks and other answers     *)
(* come in between, and the little of the server that its answers show:    *)
(* sessions (gateway/auth_handler.go), and per user and space a list of    *)
(* messages and the submission being handled.                              *)
(*                                                                         *)
(* An operation is one click and the requests its handler makes one after  *)
(* the other.  Its id also names the session a login opens and the request *)
(* id of a submission.  Layout, captchas and registration are left out.    *)
(***************************************************************************)
EXTENDS Naturals, Sequences

CONSTANTS Users, Spaces,
          FirstSpace,     \* spaces[0], selected when the chat opens
          None,           \* no user, space, operation or session
          Budgets         \* bound: the most clicks of each kind, failures and
                          \* midnights a behaviour has

Counted == {"login", "select", "submit", "clear", "logout", "fail", "midnight"}

ASSUME FirstAssumption  == FirstSpace \in Spaces
ASSUME BudgetAssumption == Budgets \subseteq [Counted -> Nat]

Ops == Nat \ {0}

ASSUME NoneAssumption   == None \notin Users \union Spaces \union Ops

VARIABLES
  page,        \* what the script keeps and displays
  cookie,      \* the session the browser sends along
  ops,         \* the operations begun, with what their handlers captured
  left,        \* bound: the clicks, failures and midnights left
  inOrder,     \* do answers arrive in the order they were given?
  answers,     \* if so, the operations whose request is answered, oldest answer first
  sessions,    \* server: the sessions it accepts
  store,       \* server: today's messages of each space
  working,     \* server: the submission each space is handling
  gone         \* history variable: the messages that midnights took out of the lists

serverVars == <<sessions, store, working, gone>>
vars       == <<page, cookie, ops, left, inOrder, answers, serverVars>>

Optional(S) == S \union {None}
Messages == Ops \X {"asked", "answered"}

\* unread is a history variable: the list shown could not be read.
ViewType == [user : Optional(Users), space : Optional(Spaces), messages : SUBSET Messages,
             unread : BOOLEAN]

\* chosen is a history variable: has a space been selected since the chat opened?
PageType == [panel          : {"boot", "login", "chat"},
             buttons        : BOOLEAN,                      \* renderSpaces has found spaces
             current        : Optional(Spaces),
             sessionVersion : Nat,
             viewVersion    : Nat,
             pending        : [Spaces -> Optional(Ops)],    \* pendingSpaces
             shown          : ViewType,                     \* the transcript
             notice         : BOOLEAN,                      \* an error is displayed
             chosen         : BOOLEAN]

OpType == [kind    : {"boot", "login", "open", "select", "submit", "reload", "clear", "logout"},
           status  : {"sent", "answered", "done"},
           boot    : BOOLEAN,            \* begun by boot, not by a click
           user    : Optional(Users),    \* who logs in
           space   : Optional(Spaces),
           version : Nat,                \* the version its handler captured
           token   : Optional(Ops),      \* the session the request was sent with
           ok      : BOOLEAN,
           expired : BOOLEAN,            \* a 401 that deletes the cookie
           unread  : BOOLEAN,            \* a success, with a body that api takes for {}
           warns   : BOOLEAN,            \* the batch is partial or failed, or unknown
           data    : SUBSET Messages]

TypeOK ==
  /\ page \in PageType
  /\ cookie \in Optional(Ops)
  /\ ops \in Seq(OpType)
  /\ left \in [Counted -> Nat]
  /\ answers \in Seq(Ops)
  /\ inOrder \in BOOLEAN
  /\ sessions \subseteq Ops
  /\ store \in [Users -> [Spaces -> SUBSET Messages]]
  /\ working \in [Users -> [Spaces -> Optional(Ops)]]
  /\ gone \subseteq Messages

Blank == [user |-> None, space |-> None, messages |-> {}, unread |-> FALSE]

UserOf(token) == IF token = None THEN None ELSE ops[token].user

-----------------------------------------------------------------------------
(* The functions of the script, on the page's state.                       *)

\* showLogin.  What the transcript shows stays there.
LoginShown(p) ==
  [p EXCEPT !.panel = "login", !.sessionVersion = @ + 1, !.viewVersion = @ + 1,
            !.current = None, !.pending = [s \in Spaces |-> None], !.chosen = FALSE]

\* showChat, up to its request.
ChatShown(p) ==
  [p EXCEPT !.panel = "chat", !.sessionVersion = @ + 1,
            !.pending = [s \in Spaces |-> None], !.chosen = FALSE]

\* selectSpace, up to its request.
Selected(p, s) ==
  [p EXCEPT !.current = s, !.viewVersion = @ + 1, !.shown = Blank, !.notice = FALSE,
            !.chosen = TRUE]

\* Faulty variant of clearPending: the request is not compared.
ReleasedAnyway(p, s, c) == [p EXCEPT !.pending[s] = None]

\* setPending.
Pending(p, s, c) == [p EXCEPT !.pending[s] = c]

\* clearPending.
Released(p, s, c) == IF p.pending[s] = c THEN [p EXCEPT !.pending[s] = None] ELSE p

\* showNotice(error).
Alerted(p) == [p EXCEPT !.notice = TRUE]

\* api, up to its answer.
Request(kind, token) ==
  [kind |-> kind, status |-> "sent", boot |-> FALSE, user |-> None, space |-> None,
   version |-> 0, token |-> token, ok |-> FALSE, expired |-> FALSE,
   unread |-> FALSE, warns |-> FALSE, data |-> {}]

SelectRequest(s) ==
  [Request("select", cookie) EXCEPT !.space = s, !.version = page'.viewVersion]

\* historyController.abort: an answer that is being read becomes {}.
Aborted(o) ==
  [i \in DOMAIN o |->
     IF o[i].kind # "select" \/ o[i].status = "done" THEN o[i]
     ELSE IF o[i].status = "sent" THEN [o[i] EXCEPT !.status = "done", !.token = None]
     ELSE [o[i] EXCEPT !.data = {}, !.unread = TRUE]]

-----------------------------------------------------------------------------
(* The user.                                                               *)

Spend(what) == left[what] > 0 /\ left' = [left EXCEPT ![what] = @ - 1]

Begin(click) ==
  /\ Spend(click)
  /\ UNCHANGED <<cookie, answers, inOrder, serverVars>>

ClickLogin(u) ==
  /\ page.panel = "login"
  /\ Begin("login")
  /\ ops' = Append(ops, [Request("login", cookie) EXCEPT !.user = u])
  /\ UNCHANGED page

ClickSpace(s) ==
  /\ page.panel = "chat" /\ page.buttons
  /\ Begin("select")
  /\ page' = Selected(page, s)
  /\ ops' = Append(Aborted(ops), SelectRequest(s))

\* The composer is disabled while its space is pending.
ClickSend ==
  /\ page.panel = "chat" /\ page.current # None
  /\ page.pending[page.current] = None
  /\ Begin("submit")
  /\ page' = Pending([page EXCEPT !.notice = FALSE], page.current, Len(ops) + 1)
  /\ ops' = Append(ops, [Request("submit", cookie) EXCEPT
                           !.space = page.current, !.version = page.sessionVersion])

ClickClear ==
  /\ page.panel = "chat" /\ page.current # None
  /\ page.pending[page.current] = None
  /\ Begin("clear")
  /\ ops' = Append(ops, [Request("clear", cookie) EXCEPT !.space = page.current])
  /\ UNCHANGED page

ClickLogout ==
  /\ page.panel = "chat"
  /\ Begin("logout")
  /\ ops' = Append(ops, Request("logout", cookie))
  /\ UNCHANGED page

-----------------------------------------------------------------------------
(* The server.                                                             *)

Answer(c, rec) ==
  /\ ops' = [ops EXCEPT ![c] = rec]
  /\ answers' = IF inOrder THEN Append(answers, c) ELSE answers
  /\ UNCHANGED <<page, cookie, inOrder>>

\* An answer may get lost on its way.
Heard(ok) == IF ok THEN UNCHANGED left ELSE Spend("fail")

Answered(c, ok) == [ops[c] EXCEPT !.status = "answered", !.ok = ok]

\* A connection, the limiter or the server fails, a password is wrong, or the page
\* gives up: a submission that is being handled goes on.
Fail(c) ==
  /\ ops[c].status = "sent"
  /\ Spend("fail")
  /\ Answer(c, Answered(c, FALSE))
  /\ UNCHANGED serverVars

\* requireUser, before anything is handled: without a session that counts there is no
\* answer but 401, and none with one if the session cannot be looked up.
Reject(c) ==
  /\ ops[c].status = "sent" /\ ops[c].kind # "login"
  /\ \A u \in Users, s \in Spaces : working[u][s] # c
  /\ Heard(ops[c].token \notin sessions)
  /\ Answer(c, [Answered(c, FALSE) EXCEPT !.expired = ops[c].token # None])
  /\ UNCHANGED serverVars

Serving(c) == ops[c].status = "sent" /\ ops[c].token \in sessions

\* Login and logout change the sessions, whether or not their answer arrives.
ServeSession(c) ==
  /\ \/ /\ ops[c].status = "sent" /\ ops[c].kind = "login"
        /\ sessions' = sessions \union {c}
     \/ /\ Serving(c) /\ ops[c].kind = "logout"
        /\ sessions' = sessions \ {ops[c].token}
  /\ \E heard \in BOOLEAN : Heard(heard) /\ Answer(c, Answered(c, heard))
  /\ UNCHANGED <<store, working, gone>>

\* ListConversationMessages and DeleteConversationMessages of the agent.
Listed(u, s)  == store[u][s]
Cleared(u, s) == [store EXCEPT ![u][s] = {}]

\* The session, the spaces, the messages of a space.
ServeRead(c) ==
  /\ Serving(c)
  /\ \/ ops[c].kind \in {"boot", "open"} /\ Answer(c, Answered(c, TRUE))
     \/ /\ ops[c].kind \in {"select", "reload"}
        /\ Answer(c, [Answered(c, TRUE) EXCEPT !.data = Listed(UserOf(ops[c].token), ops[c].space)])
  /\ UNCHANGED <<left, serverVars>>

\* The answer is a success, but its body cannot be read to the end.  (For a login, the
\* session and a clear that makes no difference.)
CutShort(c) ==
  /\ Serving(c) /\ ops[c].kind \in {"open", "select", "reload"}
  /\ Spend("fail")
  /\ Answer(c, [Answered(c, TRUE) EXCEPT !.unread = TRUE, !.data = {}])
  /\ UNCHANGED serverVars

Space(c) == working[UserOf(ops[c].token)][ops[c].space]

\* A space that is handling a submission is busy for the next one and for a clear.
Refuse(c) ==
  /\ Serving(c) /\ ops[c].kind \in {"submit", "clear"}
  /\ Space(c) \notin {None, c}
  /\ Answer(c, Answered(c, FALSE))
  /\ UNCHANGED <<left, serverVars>>

ServeClear(c) ==
  LET u == UserOf(ops[c].token)
      s == ops[c].space
  IN  /\ Serving(c) /\ ops[c].kind = "clear" /\ Space(c) = None
      /\ store' = Cleared(u, s)
      /\ \E heard \in BOOLEAN : Heard(heard) /\ Answer(c, Answered(c, heard))
      /\ UNCHANGED <<sessions, working, gone>>

ServeSubmit(c) ==
  LET u == UserOf(ops[c].token)
      s == ops[c].space
  IN  /\ Serving(c) /\ ops[c].kind = "submit" /\ Space(c) = None
      /\ store' = [store EXCEPT ![u][s] = @ \union {<<c, "asked">>}]
      /\ working' = [working EXCEPT ![u][s] = c]
      /\ UNCHANGED <<page, cookie, ops, left, inOrder, answers, sessions, gone>>

\* Replies are filed under the day of their question.
Replies(u, s, c) == IF <<c, "asked">> \in store[u][s] THEN {<<c, "answered">>} ELSE {}

\* The submission ends, without replies if its batch failed; if the page still waits,
\* it hears.
FinishSubmit(u, s) ==
  LET c == working[u][s]
  IN  /\ c # None
      /\ working' = [working EXCEPT ![u][s] = None]
      /\ \E replied, warns \in BOOLEAN :
           /\ replied \/ warns
           /\ Heard(~warns)
           /\ store' = [store EXCEPT ![u][s] = @ \union (IF replied THEN Replies(u, s, c) ELSE {})]
           /\ IF ops[c].status = "sent" /\ ops[c].kind = "submit"
              THEN Answer(c, [Answered(c, TRUE) EXCEPT !.warns = warns])
              ELSE UNCHANGED <<page, cookie, ops, inOrder, answers>>
      /\ UNCHANGED <<sessions, gone>>

\* Lists are kept by day.
Midnight ==
  /\ Spend("midnight")
  /\ store' = [u \in Users |-> [s \in Spaces |-> {}]]
  /\ gone' = gone \union UNION {store[u][s] : u \in Users, s \in Spaces}
  /\ UNCHANGED <<page, cookie, ops, inOrder, answers, sessions, working>>

-----------------------------------------------------------------------------
(* The rest of each handler, when the answer of its request arrives.       *)

\* The browser obeys Set-Cookie before the script goes on.
Arrive(c) ==
  /\ ops[c].status = "answered"
  /\ IF inOrder THEN c = Head(answers) /\ answers' = Tail(answers) ELSE UNCHANGED answers
  /\ cookie' = IF ops[c].kind = "login" /\ ops[c].ok THEN c
               ELSE IF ops[c].expired \/ (ops[c].kind = "logout" /\ ops[c].ok) THEN None
               ELSE cookie
  /\ UNCHANGED <<left, inOrder, serverVars>>

\* The handler returns; what it had captured is gone.
Done(o, c) ==
  [o EXCEPT ![c].status = "done", ![c].token = None, ![c].expired = FALSE,
            ![c].unread = FALSE, ![c].warns = FALSE, ![c].data = {}]

\* boot and the login form: showChat, or its failure.
OnLogin(c) ==
  /\ ops[c].kind \in {"boot", "login"} /\ Arrive(c)
  /\ IF ops[c].ok
     THEN /\ page' = ChatShown(page)
          /\ ops' = [ops EXCEPT ![c] = [Request("open", cookie') EXCEPT
                                          !.boot = ops[c].boot, !.user = ops[c].user]]
     ELSE IF ops[c].boot THEN page' = LoginShown(page) /\ ops' = Done(Aborted(ops), c)
     ELSE UNCHANGED page /\ ops' = Done(ops, c)

\* The rest of showChat.  {} has no spaces, and none is selected.  Only boot goes back
\* to the login when it fails.
OnOpen(c) ==
  /\ ops[c].kind = "open" /\ Arrive(c)
  /\ IF ops[c].ok /\ ops[c].unread
     THEN page' = [page EXCEPT !.buttons = FALSE] /\ ops' = Done(ops, c)
     ELSE IF ops[c].ok
     THEN /\ page' = Selected([page EXCEPT !.buttons = TRUE], FirstSpace)
          /\ ops' = [Aborted(ops) EXCEPT ![c] = [SelectRequest(FirstSpace) EXCEPT
                                                   !.token = cookie', !.user = ops[c].user]]
     ELSE IF ops[c].boot THEN page' = LoginShown(page) /\ ops' = Done(Aborted(ops), c)
     ELSE UNCHANGED page /\ ops' = Done(ops, c)

\* {} has no messages.
View(c) ==
  [user |-> UserOf(ops[c].token), space |-> ops[c].space, messages |-> ops[c].data,
   unread |-> ops[c].unread]

Shows(c) == [page EXCEPT !.shown = View(c)]

SameView(c) == ops[c].version = page.viewVersion /\ page.current = ops[c].space

OnSelect(c) ==
  /\ ops[c].kind = "select" /\ Arrive(c)
  /\ page' = IF ~SameView(c) THEN page
             ELSE IF ops[c].ok THEN Shows(c) ELSE Alerted(page)
  /\ ops' = Done(ops, c)

\* Faulty variant: the session is not compared.
SameSessionAnyway(c) == page.current = ops[c].space

SameSession(c) == ops[c].version = page.sessionVersion /\ page.current = ops[c].space

\* The list is read again when the submission is answered.
OnSubmit(c) ==
  LET s == ops[c].space
  IN  /\ ops[c].kind = "submit" /\ Arrive(c)
      /\ IF ops[c].ok /\ SameSession(c)
         THEN /\ UNCHANGED page
              /\ ops' = [ops EXCEPT ![c] = [Request("reload", cookie') EXCEPT
                                              !.space = s, !.version = ops[c].version,
                                              !.warns = ops[c].warns]]
         ELSE /\ page' = Released(IF SameSession(c) THEN Alerted(page) ELSE page, s, c)
              /\ ops' = Done(ops, c)

\* The list is shown, and a notice unless the batch of the submission was completed.
Reloaded(c) == IF ops[c].warns THEN Alerted(Shows(c)) ELSE Shows(c)

\* Faulty variant: an early return forgets what finally does.
OnReloadReturning(c) ==
  /\ ops[c].kind = "reload" /\ Arrive(c)
  /\ page' = IF ~SameSession(c) THEN page
             ELSE Released(IF ops[c].ok THEN Reloaded(c) ELSE Alerted(page),
                           ops[c].space, c)
  /\ ops' = Done(ops, c)

OnReload(c) ==
  /\ ops[c].kind = "reload" /\ Arrive(c)
  /\ page' = Released(IF ~SameSession(c) THEN page
                      ELSE IF ops[c].ok THEN Reloaded(c) ELSE Alerted(page),
                      ops[c].space, c)
  /\ ops' = Done(ops, c)

\* An empty transcript, for whose list was cleared.
Emptied(c) == [View(c) EXCEPT !.messages = {}, !.unread = FALSE]

\* The session is not compared.
OnClear(c) ==
  /\ ops[c].kind = "clear" /\ Arrive(c)
  /\ page' = IF ~ops[c].ok THEN Alerted(page)
             ELSE IF page.current = ops[c].space THEN [page EXCEPT !.shown = Emptied(c)] ELSE page
  /\ ops' = Done(ops, c)

OnLogout(c) ==
  /\ ops[c].kind = "logout" /\ Arrive(c)
  /\ page' = LoginShown(page)
  /\ ops' = Done(Aborted(ops), c)

-----------------------------------------------------------------------------
\* The tab is opened, with or without a session of an earlier visit.
Init ==
  /\ page = [panel |-> "boot", buttons |-> FALSE, current |-> None, sessionVersion |-> 0,
             viewVersion |-> 0, pending |-> [s \in Spaces |-> None], shown |-> Blank,
             notice |-> FALSE, chosen |-> FALSE]
  /\ cookie \in {None, 1}
  /\ \E u \in Users :
       ops = <<[Request("boot", cookie) EXCEPT !.boot = TRUE, !.user = IF cookie = 1 THEN u ELSE None]>>
  /\ answers = <<>>
  /\ left \in Budgets
  /\ inOrder \in BOOLEAN
  /\ sessions = {cookie} \ {None}
  /\ store = [u \in Users |-> [s \in Spaces |-> {}]]
  /\ working = [u \in Users |-> [s \in Spaces |-> None]]
  /\ gone = {}

User ==
  \/ \E u \in Users : ClickLogin(u)
  \/ \E s \in Spaces : ClickSpace(s)
  \/ ClickSend \/ ClickClear \/ ClickLogout

Server ==
  \/ \E c \in DOMAIN ops :
       \/ Fail(c) \/ Reject(c) \/ ServeSession(c) \/ ServeRead(c)
       \/ CutShort(c) \/ Refuse(c) \/ ServeClear(c) \/ ServeSubmit(c)
  \/ \E u \in Users, s \in Spaces : FinishSubmit(u, s)
  \/ Midnight

Handlers ==
  \E c \in DOMAIN ops :
    \/ OnLogin(c) \/ OnOpen(c) \/ OnSelect(c) \/ OnSubmit(c) \/ OnReload(c)
    \/ OnClear(c) \/ OnLogout(c)

Next == User \/ Server \/ Handlers

Spec == Init /\ [][Next]_vars

-----------------------------------------------------------------------------
(* What must hold.                                                         *)

Live(c) == ops[c].status # "done"
Submission(c) == ops[c].kind \in {"submit", "reload"}

\* Whatever answers come late, and whoever logged in meanwhile: once a space has
\* been selected the transcript shows this space of this user or nothing.
ShownBelongsHere ==
  page.panel = "chat" /\ page.chosen /\ page.shown.messages # {} =>
    /\ page.shown.space = page.current
    /\ cookie # None => page.shown.user = UserOf(cookie)

\* A session has one submission per space under way: an answer for a former session
\* does not unlock the composer of the present one.
OneSubmissionPerSpace ==
  \A c, d \in DOMAIN ops :
    /\ Submission(c) /\ Submission(d) /\ Live(c) /\ Live(d)
    /\ ops[c].space = ops[d].space /\ ops[c].version = ops[d].version
    => c = d

\* A locked composer is waiting for a submission of this session: every way out of
\* the handler unlocks it.
LockedForReason ==
  \A s \in Spaces :
    LET c == page.pending[s]
    IN  c # None =>
          /\ Submission(c) /\ Live(c) /\ ops[c].space = s
          /\ ops[c].version = page.sessionVersion

\* The page has stopped waiting for this submission: its answer went to a former
\* session, or never came.
GivenUp(c) ==
  ops[c].version # page.sessionVersion \/ (ops[c].kind = "submit" /\ ~ops[c].ok)

\* When nothing is under way, and answers arrived in the order they were given, the
\* transcript is the list of the server, but for what submissions given up may have
\* added to it and what a midnight has taken out since; or an error is displayed.  An
\* empty transcript may stand for any list in two cases: the answer could not be read
\* (api makes {} of it, and no handler asks), or a clear that a former user's session
\* began has emptied it (OnClear does not ask whose answer it is).
ShownIsCurrent ==
  /\ inOrder /\ page.panel = "chat" /\ page.chosen /\ cookie # None
  /\ \A c \in DOMAIN ops : ~Live(c)
  /\ \A u \in Users, s \in Spaces : working[u][s] = None
  => LET there == store[UserOf(cookie)][page.current]
         shown == page.shown
     IN  \/ page.notice
         \/ shown.messages = {} /\ (shown.unread \/ shown.user \notin {None, UserOf(cookie)})
         \/ /\ shown.messages \subseteq there \union gone
            /\ \A m \in there \ shown.messages : GivenUp(m[1])
=============================================================================
