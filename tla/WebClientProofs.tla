--------------------------- MODULE WebClientProofs ---------------------------
(***************************************************************************)
(* The chat page, for any number of users, spaces, clicks and failures and *)
(* any order of the answers: what is displayed belongs to the user and the *)
(* space, and the composer is locked exactly while a submission of this    *)
(* session is under way.  For answers in order: the transcript is, or will *)
(* be once they have arrived, the list of the server, but for midnights    *)
(* and for the two ways in which ShownIsCurrent says it may be empty.      *)
(***************************************************************************)
EXTENDS WebClient, TLAPS

OpFields == {"kind", "status", "boot", "user", "space", "version", "token", "ok", "expired",
             "unread", "warns", "data"}
PageFields == {"panel", "buttons", "current", "sessionVersion", "viewVersion", "pending", "shown",
               "notice", "chosen"}

IsSeq(o) == \E S : o \in Seq(S)

ShapeOf(p, o) ==
  /\ IsSeq(o) /\ \A c \in DOMAIN o : DOMAIN o[c] = OpFields
  /\ DOMAIN p = PageFields /\ DOMAIN p.pending = Spaces
  /\ p.current \in Optional(Spaces) /\ p.sessionVersion \in Nat /\ p.viewVersion \in Nat

-----------------------------------------------------------------------------
(* Submissions.  (p, k and o stand for the page, the cookie and the        *)
(* operations, p2, k2 and q for what a step makes of them.)                *)

Submits(r) == r.kind \in {"submit", "reload"} /\ r.status # "done"

SubmitOf(p, o) ==
  /\ \A s \in Spaces :
       p.pending[s] # None =>
         /\ p.pending[s] \in DOMAIN o /\ Submits(o[p.pending[s]])
         /\ o[p.pending[s]].space = s /\ o[p.pending[s]].version = p.sessionVersion
  /\ \A c \in DOMAIN o :
       Submits(o[c]) =>
         /\ o[c].space \in Spaces /\ o[c].version \in Nat /\ o[c].version <= p.sessionVersion
         /\ o[c].version = p.sessionVersion => p.pending[o[c].space] = c
  /\ \A c, d \in DOMAIN o :
       Submits(o[c]) /\ Submits(o[d]) /\ o[c].space = o[d].space /\ o[c].version = o[d].version => c = d
  /\ \A c \in DOMAIN o : Submits(o[c]) => o[c].user = None

\* No submission begins.
NoneBegins(o, q) ==
  /\ DOMAIN o \subseteq DOMAIN q
  /\ \A c \in DOMAIN q : Submits(q[c]) =>
       /\ c \in DOMAIN o /\ Submits(o[c])
       /\ q[c].space = o[c].space /\ q[c].version = o[c].version /\ q[c].user = o[c].user

\* Submissions that end are released, in the same session.
LEMMA SubmitsGoOn ==
  ASSUME NEW p, NEW o, NEW p2, NEW q, None \notin DOMAIN o, SubmitOf(p, o), NoneBegins(o, q),
         p2.sessionVersion = p.sessionVersion,
         \A s \in Spaces : p2.pending[s] = IF p.pending[s] # None /\ Submits(q[p.pending[s]])
                                           THEN p.pending[s] ELSE None
  PROVE  SubmitOf(p2, q)
<1>1. \A s \in Spaces :
        p2.pending[s] # None =>
          /\ p2.pending[s] \in DOMAIN q /\ Submits(q[p2.pending[s]])
          /\ q[p2.pending[s]].space = s /\ q[p2.pending[s]].version = p2.sessionVersion
  BY DEF SubmitOf, NoneBegins
<1>2. ASSUME NEW c \in DOMAIN q, Submits(q[c])
      PROVE  /\ q[c].space \in Spaces /\ q[c].version \in Nat /\ q[c].version <= p2.sessionVersion
             /\ q[c].version = p2.sessionVersion => p2.pending[q[c].space] = c
  <2>1. c \in DOMAIN o /\ Submits(o[c]) /\ q[c].space = o[c].space /\ q[c].version = o[c].version
    BY <1>2 DEF NoneBegins
  <2>2. /\ o[c].space \in Spaces /\ o[c].version \in Nat /\ o[c].version <= p.sessionVersion
        /\ o[c].version = p.sessionVersion => p.pending[o[c].space] = c
    BY <2>1 DEF SubmitOf
  <2>3. ASSUME NEW t \in Spaces, p.pending[t] = c PROVE p2.pending[t] = c
    BY <1>2, <2>1, <2>3
  <2>4. o[c].version = p.sessionVersion => p2.pending[o[c].space] = c
    BY <2>2, <2>3
  <2> QED BY <2>1, <2>2, <2>4
<1>3. \A c, d \in DOMAIN q :
        Submits(q[c]) /\ Submits(q[d]) /\ q[c].space = q[d].space /\ q[c].version = q[d].version => c = d
  BY DEF SubmitOf, NoneBegins
<1>4. \A c \in DOMAIN q : Submits(q[c]) => q[c].user = None
  BY DEF SubmitOf, NoneBegins
<1> QED BY <1>1, <1>2, <1>3, <1>4 DEF SubmitOf

\* Another session begins: it waits for nothing.
LEMMA SessionBegins ==
  ASSUME NEW p, NEW o, NEW p2, NEW q, SubmitOf(p, o), NoneBegins(o, q), p.sessionVersion \in Nat,
         p2.sessionVersion = p.sessionVersion + 1, \A s \in Spaces : p2.pending[s] = None
  PROVE  SubmitOf(p2, q)
<1>1. ASSUME NEW c \in DOMAIN q, Submits(q[c])
      PROVE  /\ q[c].space \in Spaces /\ q[c].version \in Nat /\ q[c].version <= p2.sessionVersion
             /\ q[c].version # p2.sessionVersion
  BY <1>1 DEF SubmitOf, NoneBegins
<1>2. \A c, d \in DOMAIN q :
        Submits(q[c]) /\ Submits(q[d]) /\ q[c].space = q[d].space /\ q[c].version = q[d].version => c = d
  BY DEF SubmitOf, NoneBegins
<1>3. \A c \in DOMAIN q : Submits(q[c]) => q[c].user = None
  BY DEF SubmitOf, NoneBegins
<1> QED BY <1>1, <1>2, <1>3 DEF SubmitOf

\* A submission begins where none is waited for.
LEMMA SubmissionBegins ==
  ASSUME NEW p, NEW o, NEW p2, NEW q, SubmitOf(p, o), NEW s \in Spaces, NEW n, n \notin DOMAIN o, n # None,
         None \notin DOMAIN o, p.pending[s] = None, p.sessionVersion \in Nat, p2.sessionVersion = p.sessionVersion,
         \A t \in Spaces : p2.pending[t] = IF t = s THEN n ELSE p.pending[t],
         DOMAIN q = DOMAIN o \union {n}, \A c \in DOMAIN o : q[c] = o[c],
         Submits(q[n]), q[n].space = s, q[n].version = p.sessionVersion, q[n].user = None
  PROVE  SubmitOf(p2, q)
<1>1. \A t \in Spaces :
        p2.pending[t] # None =>
          /\ p2.pending[t] \in DOMAIN q /\ Submits(q[p2.pending[t]])
          /\ q[p2.pending[t]].space = t /\ q[p2.pending[t]].version = p2.sessionVersion
  BY DEF SubmitOf
<1>2. ASSUME NEW c \in DOMAIN q, Submits(q[c])
      PROVE  /\ q[c].space \in Spaces /\ q[c].version \in Nat /\ q[c].version <= p2.sessionVersion
             /\ q[c].version = p2.sessionVersion => p2.pending[q[c].space] = c
  <2>1. CASE c = n
    BY <2>1
  <2>2. CASE c # n
    <3>1. c \in DOMAIN o /\ q[c] = o[c] /\ Submits(o[c])
      BY <1>2, <2>2
    <3>2. /\ o[c].space \in Spaces /\ o[c].version \in Nat /\ o[c].version <= p.sessionVersion
          /\ o[c].version = p.sessionVersion => p.pending[o[c].space] = c
      BY <3>1 DEF SubmitOf
    <3>3. o[c].version = p.sessionVersion => o[c].space # s
      BY <3>1, <3>2
    <3> QED BY <3>1, <3>2, <3>3
  <2> QED BY <2>1, <2>2
<1>3. ASSUME NEW c \in DOMAIN q, NEW d \in DOMAIN q, Submits(q[c]), Submits(q[d]),
             q[c].space = q[d].space, q[c].version = q[d].version
      PROVE  c = d
  BY <1>2, <1>3 DEF SubmitOf
<1>4. \A c \in DOMAIN q : Submits(q[c]) => q[c].user = None
  BY DEF SubmitOf
<1> QED BY <1>1, <1>2, <1>3, <1>4 DEF SubmitOf

-----------------------------------------------------------------------------
(* The transcript.                                                         *)

\* A select or a reload whose answer may still be displayed was sent with the session
\* that the browser now has, if it has one.
ViewOf(p, k, o) ==
  /\ k \in Optional(DOMAIN o)
  /\ \A c \in DOMAIN o : o[c].status # "done" => o[c].token \in Optional(DOMAIN o)
  /\ \A c \in DOMAIN o :
       o[c].status # "done" /\ o[c].kind = "reload" =>
         /\ o[c].version \in Nat /\ o[c].version <= p.sessionVersion
         /\ o[c].version = p.sessionVersion /\ k # None => o[c].token = k
  /\ \A c \in DOMAIN o :
       o[c].status # "done" /\ o[c].kind = "select" =>
         /\ o[c].version \in Nat /\ o[c].version <= p.viewVersion
         /\ o[c].version = p.viewVersion /\ p.chosen /\ k # None => o[c].token = k
  /\ p.chosen /\ p.shown.messages # {} =>
       /\ p.shown.space = p.current
       /\ k # None => p.shown.user = o[k].user

\* The session of the browser is the one it had, or none.
Keeps(k, k2) == k2 \in {k, None}

\* The users of the operations stay, and so do their tokens as long as they are under way.
UsersStay(o, q) ==
  /\ DOMAIN o \subseteq DOMAIN q
  /\ \A c \in DOMAIN o : q[c].user = o[c].user
  /\ \A c \in DOMAIN q : q[c].status # "done" => q[c].token \in Optional(DOMAIN q)

\* Reads under way were under way before, or begin now: a select with version v, a
\* reload with version u, both with the session k2.
ReadsGoOn(o, q, k2, v, u) ==
  /\ \A c \in DOMAIN q : q[c].status # "done" /\ q[c].kind = "select" =>
       \/ /\ c \in DOMAIN o /\ o[c].status # "done" /\ o[c].kind = "select"
          /\ q[c].version = o[c].version /\ q[c].token = o[c].token
       \/ q[c].version = v /\ q[c].token = k2
  /\ \A c \in DOMAIN q : q[c].status # "done" /\ q[c].kind = "reload" =>
       \/ /\ c \in DOMAIN o /\ o[c].status # "done" /\ o[c].kind = "reload"
          /\ q[c].version = o[c].version /\ q[c].token = o[c].token
       \/ q[c].version = u /\ q[c].token = k2

LEMMA ViewStep ==
  ASSUME NEW p, NEW k, NEW o, NEW p2, NEW k2, NEW q, ViewOf(p, k, o), UsersStay(o, q),
         k2 \in Optional(DOMAIN q), ReadsGoOn(o, q, k2, p2.viewVersion, p2.sessionVersion),
         p.sessionVersion \in Nat, p2.sessionVersion \in Nat, p.viewVersion \in Nat, p2.viewVersion \in Nat,
         \/ p2.sessionVersion = p.sessionVersion /\ Keeps(k, k2)
         \/ p2.sessionVersion > p.sessionVersion,
         p2.viewVersion >= p.viewVersion,
         p2.chosen => \/ p.chosen /\ p2.viewVersion = p.viewVersion /\ Keeps(k, k2)
                      \/ p2.viewVersion > p.viewVersion,
         p2.chosen /\ p2.shown.messages # {} =>
           \/ p.chosen /\ p2.shown = p.shown /\ p2.current = p.current /\ Keeps(k, k2)
           \/ p2.shown.space = p2.current /\ (k2 # None => p2.shown.user = q[k2].user)
  PROVE  ViewOf(p2, k2, q)
<1>1. ASSUME NEW c \in DOMAIN q, q[c].status # "done", q[c].kind = "reload"
      PROVE  /\ q[c].version \in Nat /\ q[c].version <= p2.sessionVersion
             /\ q[c].version = p2.sessionVersion /\ k2 # None => q[c].token = k2
  <2>1. CASE q[c].version = p2.sessionVersion /\ q[c].token = k2
    BY <2>1
  <2>2. CASE /\ c \in DOMAIN o /\ o[c].status # "done" /\ o[c].kind = "reload"
             /\ q[c].version = o[c].version /\ q[c].token = o[c].token
    <3>1. /\ o[c].version \in Nat /\ o[c].version <= p.sessionVersion
          /\ o[c].version = p.sessionVersion /\ k # None => o[c].token = k
      BY <2>2 DEF ViewOf
    <3>2. o[c].version <= p2.sessionVersion
      BY <3>1
    <3>3. o[c].version = p2.sessionVersion => p2.sessionVersion = p.sessionVersion
      BY <3>1
    <3> QED BY <2>2, <3>1, <3>2, <3>3 DEF Keeps
  <2> QED BY <1>1, <2>1, <2>2 DEF ReadsGoOn
<1>2. ASSUME NEW c \in DOMAIN q, q[c].status # "done", q[c].kind = "select"
      PROVE  /\ q[c].version \in Nat /\ q[c].version <= p2.viewVersion
             /\ q[c].version = p2.viewVersion /\ p2.chosen /\ k2 # None => q[c].token = k2
  <2>1. CASE q[c].version = p2.viewVersion /\ q[c].token = k2
    BY <2>1
  <2>2. CASE /\ c \in DOMAIN o /\ o[c].status # "done" /\ o[c].kind = "select"
             /\ q[c].version = o[c].version /\ q[c].token = o[c].token
    <3>1. /\ o[c].version \in Nat /\ o[c].version <= p.viewVersion
          /\ o[c].version = p.viewVersion /\ p.chosen /\ k # None => o[c].token = k
      BY <2>2 DEF ViewOf
    <3>2. o[c].version <= p2.viewVersion
      BY <3>1
    <3>3. o[c].version = p2.viewVersion => p2.viewVersion = p.viewVersion
      BY <3>1
    <3> QED BY <2>2, <3>1, <3>2, <3>3 DEF Keeps
  <2> QED BY <1>2, <2>1, <2>2 DEF ReadsGoOn
<1>3. p2.chosen /\ p2.shown.messages # {} =>
        /\ p2.shown.space = p2.current
        /\ k2 # None => p2.shown.user = q[k2].user
  <2>1. k # None => k \in DOMAIN o
    BY DEF ViewOf, Optional
  <2> QED BY <2>1 DEF ViewOf, Keeps, UsersStay
<1> QED BY <1>1, <1>2, <1>3 DEF ViewOf, UsersStay

-----------------------------------------------------------------------------
(* What the operators make of the operations.                              *)

Shaped(o) == IsSeq(o) /\ \A c \in DOMAIN o : DOMAIN o[c] = OpFields

LEMMA ShapedDomain ==
  ASSUME NEW o, Shaped(o)
  PROVE  /\ DOMAIN o = 1 .. Len(o) /\ Len(o) \in Nat /\ Len(o) + 1 \notin DOMAIN o
         /\ DOMAIN o \subseteq Ops /\ None \notin DOMAIN o /\ Len(o) + 1 # None
<1>1. PICK S : o \in Seq(S)
  BY DEF Shaped, IsSeq
<1>2. DOMAIN o = 1 .. Len(o) /\ Len(o) \in Nat
  BY <1>1
<1> QED BY <1>2, NoneAssumption DEF Ops

LEMMA Appended ==
  ASSUME NEW o, Shaped(o), NEW e, DOMAIN e = OpFields
  PROVE  LET q == Append(o, e)
         IN  /\ Shaped(q) /\ DOMAIN q = DOMAIN o \union {Len(o) + 1}
             /\ q[Len(o) + 1] = e /\ \A i \in DOMAIN o : q[i] = o[i]
<1>1. PICK S : o \in Seq(S)
  BY DEF Shaped, IsSeq
<1> DEFINE T == S \union {e}
           q == Append(o, e)
<1>2. o \in Seq(T) /\ e \in T
  BY <1>1
<1>3. /\ q \in Seq(T) /\ Len(q) = Len(o) + 1
      /\ q[Len(o) + 1] = e /\ \A i \in 1 .. Len(o) : q[i] = o[i]
  BY <1>2
<1>4. DOMAIN q = 1 .. (Len(o) + 1) /\ DOMAIN o = 1 .. Len(o) /\ Len(o) \in Nat
  BY <1>2, <1>3
<1>5. DOMAIN q = DOMAIN o \union {Len(o) + 1}
  BY <1>4
<1>6. IsSeq(q)
  BY <1>3 DEF IsSeq
<1> QED BY <1>3, <1>4, <1>5, <1>6 DEF Shaped

LEMMA Changed ==
  ASSUME NEW o, Shaped(o), NEW c \in DOMAIN o, NEW e, DOMAIN e = OpFields
  PROVE  LET q == [o EXCEPT ![c] = e]
         IN  /\ Shaped(q) /\ DOMAIN q = DOMAIN o
             /\ \A i \in DOMAIN o : q[i] = IF i = c THEN e ELSE o[i]
<1>1. PICK S : o \in Seq(S)
  BY DEF Shaped, IsSeq
<1> DEFINE T == S \union {e}
           q == [o EXCEPT ![c] = e]
<1>2. o \in Seq(T) /\ e \in T
  BY <1>1
<1>3. q \in Seq(T)
  BY <1>2
<1>4. IsSeq(q)
  BY <1>3 DEF IsSeq
<1> QED BY <1>4 DEF Shaped

\* An operation goes on as what it was, or is over.
Same(r, n) ==
  /\ DOMAIN n = OpFields /\ n.user = r.user /\ n.kind = r.kind /\ n.space = r.space /\ n.version = r.version
  /\ n.status # "done" => r.status # "done" /\ n.token = r.token

Carries(o, q) ==
  /\ Shaped(q) /\ DOMAIN q = DOMAIN o /\ \A i \in DOMAIN o : Same(o[i], q[i])

LEMMA AbortedIs ==
  ASSUME NEW o, Shaped(o)
  PROVE  Carries(o, Aborted(o)) /\ \A i \in DOMAIN o : o[i].kind # "select" => Aborted(o)[i] = o[i]
<1> DEFINE a == Aborted(o)
<1>1. DOMAIN a = DOMAIN o
  BY DEF Aborted
<1>2. \A i \in DOMAIN o : DOMAIN a[i] = OpFields /\ Same(o[i], a[i]) /\ (o[i].kind # "select" => a[i] = o[i])
  <2> SUFFICES ASSUME NEW i \in DOMAIN o
               PROVE  DOMAIN a[i] = OpFields /\ Same(o[i], a[i]) /\ (o[i].kind # "select" => a[i] = o[i])
    OBVIOUS
  <2>1. DOMAIN o[i] = OpFields
    BY DEF Shaped
  <2>2. a[i] = IF o[i].kind # "select" \/ o[i].status = "done" THEN o[i]
               ELSE IF o[i].status = "sent" THEN [o[i] EXCEPT !.status = "done", !.token = None]
               ELSE [o[i] EXCEPT !.data = {}, !.unread = TRUE]
    BY DEF Aborted
  <2> HIDE DEF a
  <2>3. CASE a[i] = o[i]
    BY <2>1, <2>3 DEF Same
  <2>4. CASE a[i] = [o[i] EXCEPT !.status = "done", !.token = None] /\ o[i].kind = "select"
    BY <2>1, <2>4 DEF Same, OpFields
  <2>5. CASE a[i] = [o[i] EXCEPT !.data = {}, !.unread = TRUE] /\ o[i].kind = "select"
    BY <2>1, <2>5 DEF Same, OpFields
  <2> QED BY <2>2, <2>3, <2>4, <2>5
<1>3. IsSeq(a)
  <2>1. a \in [1 .. Len(o) -> {a[i] : i \in DOMAIN o}] /\ Len(o) \in Nat
    BY <1>1, ShapedDomain DEF Aborted
  <2> DEFINE T == {a[i] : i \in DOMAIN o}
  <2> HIDE DEF a, T
  <2>2. a \in Seq(T)
    BY <2>1 DEF T
  <2> QED BY <2>2 DEF IsSeq
<1> QED BY <1>1, <1>2, <1>3 DEF Carries, Shaped

LEMMA DoneIs ==
  ASSUME NEW o, Shaped(o), NEW c \in DOMAIN o
  PROVE  /\ Carries(o, Done(o, c)) /\ Done(o, c)[c].status = "done"
         /\ \A i \in DOMAIN o : i # c => Done(o, c)[i] = o[i]
<1> DEFINE e == [o[c] EXCEPT !.status = "done", !.token = None, !.expired = FALSE,
                        !.unread = FALSE, !.warns = FALSE, !.data = {}]
<1>1. Done(o, c) = [o EXCEPT ![c] = e]
  BY DEF Done
<1>2. DOMAIN o[c] = OpFields
  BY DEF Shaped
<1>3. DOMAIN e = OpFields /\ Same(o[c], e) /\ e.status = "done"
  BY <1>2 DEF Same, OpFields
<1> HIDE DEF e
<1>4. LET q == [o EXCEPT ![c] = e]
      IN  /\ Shaped(q) /\ DOMAIN q = DOMAIN o
          /\ \A i \in DOMAIN o : q[i] = IF i = c THEN e ELSE o[i]
  BY <1>3, Changed
<1>5. \A i \in DOMAIN o : Same(o[i], o[i])
  BY DEF Same, Shaped
<1> QED BY <1>1, <1>3, <1>4, <1>5 DEF Carries

LEMMA CarriesOn ==
  ASSUME NEW o, NEW q, NEW r, Carries(o, q), Carries(q, r)
  PROVE  Carries(o, r)
  BY DEF Carries, Same

-----------------------------------------------------------------------------
(* The invariant, and the steps that only carry operations on.             *)

WInv == ShapeOf(page, ops) /\ SubmitOf(page, ops) /\ ViewOf(page, cookie, ops)

LEMMA WInvPrimed == WInv' <=> ShapeOf(page', ops') /\ SubmitOf(page', ops') /\ ViewOf(page', cookie', ops')
  BY DEF WInv, ShapeOf, SubmitOf, ViewOf, IsSeq, Submits, Optional

LEMMA WShaped ==
  ASSUME WInv
  PROVE  /\ Shaped(ops) /\ DOMAIN page = PageFields /\ DOMAIN page.pending = Spaces
         /\ page.current \in Optional(Spaces) /\ page.sessionVersion \in Nat /\ page.viewVersion \in Nat
  BY DEF WInv, ShapeOf, Shaped

LEMMA CarriesNone ==
  ASSUME NEW p, NEW k, NEW o, NEW q, ViewOf(p, k, o), Carries(o, q)
  PROVE  /\ NoneBegins(o, q) /\ UsersStay(o, q)
         /\ \A k2, v, u : ReadsGoOn(o, q, k2, v, u)
<1>1. NoneBegins(o, q)
  BY DEF NoneBegins, Carries, Same, Submits
<1>2. UsersStay(o, q)
  BY DEF UsersStay, Carries, Same, ViewOf
<1>3. \A k2, v, u : ReadsGoOn(o, q, k2, v, u)
  BY DEF ReadsGoOn, Carries, Same
<1> QED BY <1>1, <1>2, <1>3

\* The page stays where it is; submissions that end are released.
LEMMA CarriedStep ==
  ASSUME WInv, Carries(ops, ops'), Keeps(cookie, cookie'), DOMAIN page' = PageFields,
         page'.current = page.current, page'.sessionVersion = page.sessionVersion,
         page'.viewVersion = page.viewVersion, page'.chosen = page.chosen,
         DOMAIN page'.pending = Spaces,
         \A s \in Spaces : page'.pending[s] = IF page.pending[s] # None /\ Submits(ops'[page.pending[s]])
                                              THEN page.pending[s] ELSE None,
         page.chosen /\ page'.shown.messages # {} =>
           \/ page'.shown = page.shown
           \/ page'.shown.space = page.current /\ (cookie' # None => page'.shown.user = ops'[cookie'].user)
  PROVE  WInv'
<1>1. ShapeOf(page', ops')
  BY WShaped DEF ShapeOf, Carries, Shaped
<1>2. ViewOf(page, cookie, ops) /\ SubmitOf(page, ops)
  BY DEF WInv
<1>3. NoneBegins(ops, ops') /\ UsersStay(ops, ops')
      /\ ReadsGoOn(ops, ops', cookie', page'.viewVersion, page'.sessionVersion)
  BY <1>2, CarriesNone
<1>4. SubmitOf(page', ops')
  BY <1>2, <1>3, WShaped, ShapedDomain, SubmitsGoOn
<1>5. cookie' \in Optional(DOMAIN ops')
  BY <1>2 DEF ViewOf, Carries, Keeps, Optional
<1>6. page.sessionVersion \in Nat /\ page.viewVersion \in Nat
      /\ page'.viewVersion >= page.viewVersion
  BY WShaped
<1>7. page'.chosen /\ page'.shown.messages # {} =>
           \/ page.chosen /\ page'.shown = page.shown /\ page'.current = page.current /\ Keeps(cookie, cookie')
           \/ page'.shown.space = page'.current /\ (cookie' # None => page'.shown.user = ops'[cookie'].user)
  OBVIOUS
<1>8. ViewOf(page', cookie', ops')
  BY <1>2, <1>3, <1>5, <1>6, <1>7, ViewStep
<1> QED BY <1>1, <1>4, <1>8, WInvPrimed

\* The login is displayed.
LEMMA LoginStep ==
  ASSUME WInv, Carries(ops, ops'), Keeps(cookie, cookie'), page' = LoginShown(page)
  PROVE  WInv'
<1>1. /\ DOMAIN page' = PageFields /\ DOMAIN page'.pending = Spaces /\ page'.current = None
      /\ page'.sessionVersion = page.sessionVersion + 1 /\ page'.viewVersion = page.viewVersion + 1
      /\ page'.chosen = FALSE /\ \A s \in Spaces : page'.pending[s] = None
      /\ page.sessionVersion \in Nat /\ page.viewVersion \in Nat
  BY WShaped DEF LoginShown, PageFields
<1>2. ShapeOf(page', ops')
  BY <1>1 DEF ShapeOf, Carries, Shaped, Optional
<1>3. ViewOf(page, cookie, ops) /\ SubmitOf(page, ops)
  BY DEF WInv
<1>4. NoneBegins(ops, ops') /\ UsersStay(ops, ops')
      /\ ReadsGoOn(ops, ops', cookie', page'.viewVersion, page'.sessionVersion)
  BY <1>3, CarriesNone
<1>5. SubmitOf(page', ops')
  BY <1>1, <1>3, <1>4, SessionBegins
<1>6. cookie' \in Optional(DOMAIN ops')
  BY <1>3 DEF ViewOf, Carries, Keeps, Optional
<1>7. page'.sessionVersion > page.sessionVersion /\ page'.viewVersion >= page.viewVersion
      /\ page'.sessionVersion \in Nat /\ page'.viewVersion \in Nat
  BY <1>1
<1>8. ~page'.chosen
  BY <1>1
<1>9. ViewOf(page', cookie', ops')
  BY <1>1, <1>3, <1>4, <1>6, <1>7, <1>8, ViewStep
<1> QED BY <1>2, <1>5, <1>9, WInvPrimed

-----------------------------------------------------------------------------
(* The server.                                                             *)

LEMMA AnswerKeeps ==
  ASSUME WInv, NEW c \in DOMAIN ops, NEW rec, Answer(c, rec), Same(ops[c], rec), Submits(ops[c]) => Submits(rec)
  PROVE  WInv'
<1>1. ops' = [ops EXCEPT ![c] = rec] /\ page' = page /\ cookie' = cookie
  BY DEF Answer
<1>2. LET q == [ops EXCEPT ![c] = rec]
      IN  /\ Shaped(q) /\ DOMAIN q = DOMAIN ops
          /\ \A i \in DOMAIN ops : q[i] = IF i = c THEN rec ELSE ops[i]
  BY WShaped, Changed DEF Same
<1>3. Shaped(ops') /\ DOMAIN ops' = DOMAIN ops /\ \A i \in DOMAIN ops : ops'[i] = IF i = c THEN rec ELSE ops[i]
  BY <1>1, <1>2
<1>4. Carries(ops, ops')
  BY <1>3, WShaped DEF Carries, Same, Shaped
<1>5. \A s \in Spaces : page.pending[s] # None => Submits(ops'[page.pending[s]])
  BY <1>3 DEF WInv, SubmitOf
<1> QED BY <1>1, <1>4, <1>5, WShaped, CarriedStep DEF Keeps

\* The answers there are.
Answers(c, ok, x) ==
  {Answered(c, ok), [Answered(c, ok) EXCEPT !.expired = x], [Answered(c, ok) EXCEPT !.data = x],
   [Answered(c, ok) EXCEPT !.unread = x, !.data = {}], [Answered(c, ok) EXCEPT !.warns = x]}

LEMMA AnsweredIs ==
  ASSUME WInv, NEW c \in DOMAIN ops, ops[c].status = "sent", NEW ok, NEW x, NEW rec,
         rec \in Answers(c, ok, x)
  PROVE  Same(ops[c], rec) /\ (Submits(ops[c]) => Submits(rec))
<1>1. DOMAIN ops[c] = OpFields
  BY WShaped DEF Shaped
<1>2. CASE rec = Answered(c, ok)
  BY <1>1, <1>2 DEF Answered, Same, Submits, OpFields
<1>3. CASE rec = [Answered(c, ok) EXCEPT !.expired = x]
  BY <1>1, <1>3 DEF Answered, Same, Submits, OpFields
<1>4. CASE rec = [Answered(c, ok) EXCEPT !.data = x]
  BY <1>1, <1>4 DEF Answered, Same, Submits, OpFields
<1>5. CASE rec = [Answered(c, ok) EXCEPT !.unread = x, !.data = {}]
  BY <1>1, <1>5 DEF Answered, Same, Submits, OpFields
<1>6. CASE rec = [Answered(c, ok) EXCEPT !.warns = x]
  BY <1>1, <1>6 DEF Answered, Same, Submits, OpFields
<1> QED BY <1>2, <1>3, <1>4, <1>5, <1>6 DEF Answers

LEMMA StillKeeps == ASSUME WInv, UNCHANGED <<page, cookie, ops>> PROVE WInv'
  BY WInvPrimed DEF WInv

LEMMA ServerKeeps == ASSUME WInv, Server PROVE WInv'
<1>1. ASSUME NEW c \in DOMAIN ops,
             \/ Fail(c) \/ Reject(c) \/ ServeSession(c) \/ ServeRead(c) \/ CutShort(c) \/ Refuse(c)
             \/ ServeClear(c)
      PROVE  WInv'
  <2>1. ops[c].status = "sent"
    BY <1>1 DEF Fail, Reject, ServeSession, ServeRead, CutShort, Refuse, ServeClear, Serving
  <2>2. PICK ok, x, rec :
          /\ rec \in Answers(c, ok, x)
          /\ Answer(c, rec)
    BY <1>1 DEF Fail, Reject, ServeSession, ServeRead, CutShort, Refuse, ServeClear, Answers
  <2> QED BY <2>1, <2>2, AnsweredIs, AnswerKeeps
<1>2. ASSUME NEW c \in DOMAIN ops, ServeSubmit(c) PROVE WInv'
  BY <1>2, StillKeeps DEF ServeSubmit
<1>3. ASSUME NEW u \in Users, NEW s \in Spaces, FinishSubmit(u, s) PROVE WInv'
  <2> DEFINE c == working[u][s]
  <2>1. CASE UNCHANGED <<page, cookie, ops, inOrder, answers>>
    BY <2>1, StillKeeps
  <2>2. ASSUME NEW warns \in BOOLEAN, ops[c].status = "sent", ops[c].kind = "submit",
               Answer(c, [Answered(c, TRUE) EXCEPT !.warns = warns])
        PROVE  WInv'
    <3> DEFINE e == [Answered(c, TRUE) EXCEPT !.warns = warns]
    <3>1. CASE c \in DOMAIN ops
      <4>1. e \in Answers(c, TRUE, warns)
        BY DEF Answers
      <4> QED BY <2>2, <3>1, <4>1, AnsweredIs, AnswerKeeps
    <3>2. CASE c \notin DOMAIN ops
      <4>1. ops' = [ops EXCEPT ![c] = e] /\ page' = page /\ cookie' = cookie
        BY <2>2 DEF Answer
      <4>2. PICK S : ops \in Seq(S)
        BY WShaped DEF Shaped, IsSeq
      <4> HIDE DEF e, c
      <4>3. ops = [i \in DOMAIN ops |-> ops[i]]
        BY <4>2
      <4>4. [ops EXCEPT ![c] = e] = [i \in DOMAIN ops |-> ops[i]]
        BY <3>2
      <4>5. ops' = ops
        BY <4>1, <4>3, <4>4
      <4> QED BY <4>1, <4>5, StillKeeps
    <3> QED BY <3>1, <3>2
  <2> QED BY <1>3, <2>1, <2>2 DEF FinishSubmit
<1>4. CASE Midnight
  BY <1>4, StillKeeps DEF Midnight
<1> QED BY <1>1, <1>2, <1>3, <1>4 DEF Server

-----------------------------------------------------------------------------
(* Steps at which an operation begins or goes on as another.               *)

Puts(o, q, n, e) ==
  /\ Shaped(q) /\ DOMAIN q = DOMAIN o \union {n} /\ q[n] = e
  /\ \A i \in DOMAIN o : i # n => q[i] = o[i]

LEMMA AppendPuts ==
  ASSUME NEW o, Shaped(o), NEW e, DOMAIN e = OpFields
  PROVE  Puts(o, Append(o, e), Len(o) + 1, e)
  BY Appended DEF Puts

LEMMA ChangePuts ==
  ASSUME NEW o, Shaped(o), NEW c \in DOMAIN o, NEW e, DOMAIN e = OpFields
  PROVE  Puts(o, [o EXCEPT ![c] = e], c, e)
<1> DEFINE q == [o EXCEPT ![c] = e]
<1>1. /\ Shaped(q) /\ DOMAIN q = DOMAIN o
      /\ \A i \in DOMAIN o : q[i] = IF i = c THEN e ELSE o[i]
  BY Changed
<1> HIDE DEF q
<1>2. Puts(o, q, c, e)
  BY <1>1 DEF Puts
<1> QED BY <1>2 DEF q

LEMMA CarriesSelf == ASSUME NEW o, Shaped(o) PROVE Carries(o, o)
  BY DEF Carries, Same, Shaped

LEMMA PutsIs ==
  ASSUME NEW p, NEW k, NEW o, NEW a, NEW q, NEW n, NEW e, ViewOf(p, k, o), Carries(o, a), Puts(a, q, n, e),
         n \in DOMAIN o => e.user = o[n].user, e.token \in Optional(DOMAIN q)
  PROVE  /\ UsersStay(o, q)
         /\ (Submits(e) => n \in DOMAIN o /\ Submits(o[n]) /\ e.space = o[n].space /\ e.version = o[n].version)
              => NoneBegins(o, q)
         /\ \A k2, v, u : /\ e.kind = "select" => e.version = v /\ e.token = k2
                          /\ e.kind = "reload" => e.version = u /\ e.token = k2
                          => ReadsGoOn(o, q, k2, v, u)
<1>1. DOMAIN a = DOMAIN o /\ DOMAIN q = DOMAIN o \union {n} /\ q[n] = e
      /\ \A i \in DOMAIN o : i # n => Same(o[i], q[i])
  BY DEF Carries, Puts
<1>2. UsersStay(o, q)
  <2>1. \A c \in DOMAIN o : q[c].user = o[c].user
    BY <1>1 DEF Same
  <2>2. \A c \in DOMAIN q : q[c].status # "done" => q[c].token \in Optional(DOMAIN q)
    <3> SUFFICES ASSUME NEW c \in DOMAIN q, q[c].status # "done" PROVE q[c].token \in Optional(DOMAIN q)
      OBVIOUS
    <3>1. CASE c = n
      BY <1>1, <3>1
    <3>2. CASE c # n
      <4>1. c \in DOMAIN o /\ o[c].status # "done" /\ q[c].token = o[c].token
        BY <1>1, <3>2 DEF Same
      <4> QED BY <1>1, <4>1 DEF ViewOf, Optional
    <3> QED BY <3>1, <3>2
  <2> QED BY <1>1, <2>1, <2>2 DEF UsersStay
<1>3. ASSUME Submits(e) => n \in DOMAIN o /\ Submits(o[n]) /\ e.space = o[n].space /\ e.version = o[n].version
      PROVE  NoneBegins(o, q)
  BY <1>1, <1>3 DEF NoneBegins, Same, Submits
<1>4. ASSUME NEW k2, NEW v, NEW u, e.kind = "select" => e.version = v /\ e.token = k2,
             e.kind = "reload" => e.version = u /\ e.token = k2
      PROVE  ReadsGoOn(o, q, k2, v, u)
  BY <1>1, <1>4 DEF ReadsGoOn, Same
<1> QED BY <1>2, <1>3, <1>4

\* The page does nothing else.
LEMMA PutStep ==
  ASSUME WInv, UNCHANGED page, Keeps(cookie, cookie'), NEW n, NEW e, Puts(ops, ops', n, e),
         n \in DOMAIN ops => e.user = ops[n].user /\ (Submits(ops[n]) => Submits(e)),
         e.token \in Optional(DOMAIN ops'),
         Submits(e) => n \in DOMAIN ops /\ Submits(ops[n]) /\ e.space = ops[n].space /\ e.version = ops[n].version,
         e.kind # "select", e.kind = "reload" => e.version = page.sessionVersion /\ e.token = cookie'
  PROVE  WInv'
<1>1. page' = page
  OBVIOUS
<1>2. ShapeOf(page', ops')
  BY <1>1, WShaped DEF ShapeOf, Puts, Shaped
<1>3. ViewOf(page, cookie, ops) /\ SubmitOf(page, ops) /\ Carries(ops, ops)
  BY WShaped, CarriesSelf DEF WInv
<1>4. UsersStay(ops, ops') /\ NoneBegins(ops, ops')
      /\ ReadsGoOn(ops, ops', cookie', page'.viewVersion, page'.sessionVersion)
  BY <1>1, <1>3, PutsIs
<1>5. \A s \in Spaces : page.pending[s] # None => Submits(ops'[page.pending[s]])
  BY <1>3 DEF SubmitOf, Puts
<1>6. SubmitOf(page', ops')
  BY <1>1, <1>3, <1>4, <1>5, WShaped, ShapedDomain, SubmitsGoOn
<1>7. cookie' \in Optional(DOMAIN ops')
  BY <1>3 DEF ViewOf, Puts, Keeps, Optional
<1>8. page.sessionVersion \in Nat /\ page.viewVersion \in Nat /\ page'.viewVersion >= page.viewVersion
  BY <1>1, WShaped
<1>9. ViewOf(page', cookie', ops')
  BY <1>1, <1>3, <1>4, <1>7, <1>8, ViewStep
<1> QED BY <1>2, <1>6, <1>9, WInvPrimed

\* A space is selected.
LEMMA SelectStep ==
  ASSUME WInv, NEW a, Carries(ops, a), \A i \in DOMAIN ops : Submits(ops[i]) => a[i] = ops[i],
         NEW n, NEW e, Puts(a, ops', n, e), n \in DOMAIN ops => e.user = ops[n].user /\ ~Submits(ops[n]),
         e.kind = "select", e.version = page'.viewVersion, e.token = cookie', Keeps(cookie, cookie'),
         NEW s \in Spaces, page' = Selected(page, s) \/ page' = Selected([page EXCEPT !.buttons = TRUE], s)
  PROVE  WInv'
<1>1. /\ DOMAIN page' = PageFields /\ page'.pending = page.pending /\ page'.current = s
      /\ page'.sessionVersion = page.sessionVersion /\ page'.viewVersion = page.viewVersion + 1
      /\ page'.shown = Blank /\ page.sessionVersion \in Nat /\ page.viewVersion \in Nat
      /\ DOMAIN page.pending = Spaces
  BY WShaped DEF Selected, PageFields
<1>2. ShapeOf(page', ops')
  BY <1>1 DEF ShapeOf, Puts, Shaped, Optional
<1>3. ViewOf(page, cookie, ops) /\ SubmitOf(page, ops)
  BY DEF WInv
<1>4. cookie' \in Optional(DOMAIN ops')
  BY <1>3 DEF ViewOf, Puts, Keeps, Optional, Carries
<1>5. UsersStay(ops, ops') /\ NoneBegins(ops, ops')
      /\ ReadsGoOn(ops, ops', cookie', page'.viewVersion, page'.sessionVersion)
  BY <1>3, <1>4, PutsIs DEF Submits
<1>6. \A t \in Spaces : page.pending[t] # None => Submits(ops'[page.pending[t]])
  BY <1>3 DEF SubmitOf, Puts, Carries
<1>7. SubmitOf(page', ops')
  BY <1>1, <1>3, <1>5, <1>6, WShaped, ShapedDomain, SubmitsGoOn
<1>8. page'.viewVersion \in Nat /\ page'.viewVersion > page.viewVersion /\ page'.viewVersion >= page.viewVersion
  BY <1>1
<1>9. page'.shown.messages = {}
  BY <1>1 DEF Blank
<1>10. ViewOf(page', cookie', ops')
  BY <1>1, <1>3, <1>4, <1>5, <1>8, <1>9, ViewStep
<1> QED BY <1>2, <1>7, <1>10, WInvPrimed

\* The chat is displayed, for whoever logged in.
LEMMA ChatStep ==
  ASSUME WInv, page' = ChatShown(page), NEW c \in DOMAIN ops, NEW e, Puts(ops, ops', c, e),
         e.kind = "open", e.user = ops[c].user, e.token = cookie', cookie' \in Optional(DOMAIN ops)
  PROVE  WInv'
<1>1. /\ DOMAIN page' = PageFields /\ DOMAIN page'.pending = Spaces /\ page'.current = page.current
      /\ page'.sessionVersion = page.sessionVersion + 1 /\ page'.viewVersion = page.viewVersion
      /\ page'.chosen = FALSE /\ \A s \in Spaces : page'.pending[s] = None
      /\ page.sessionVersion \in Nat /\ page.viewVersion \in Nat /\ page.current \in Optional(Spaces)
  BY WShaped DEF ChatShown, PageFields
<1>2. ShapeOf(page', ops')
  BY <1>1 DEF ShapeOf, Puts, Shaped
<1>3. ViewOf(page, cookie, ops) /\ SubmitOf(page, ops) /\ Carries(ops, ops)
  BY WShaped, CarriesSelf DEF WInv
<1>4. cookie' \in Optional(DOMAIN ops')
  BY DEF Puts, Optional
<1>5. UsersStay(ops, ops') /\ NoneBegins(ops, ops')
      /\ ReadsGoOn(ops, ops', cookie', page'.viewVersion, page'.sessionVersion)
  BY <1>3, <1>4, PutsIs DEF Submits
<1>6. SubmitOf(page', ops')
  BY <1>1, <1>3, <1>5, SessionBegins
<1>7. page'.sessionVersion > page.sessionVersion /\ page'.viewVersion >= page.viewVersion
      /\ page'.sessionVersion \in Nat /\ page'.viewVersion \in Nat /\ ~page'.chosen
  BY <1>1
<1>8. ViewOf(page', cookie', ops')
  BY <1>1, <1>3, <1>4, <1>5, <1>7, ViewStep
<1> QED BY <1>2, <1>6, <1>8, WInvPrimed

-----------------------------------------------------------------------------
(* The user.                                                               *)

LEMMA RequestIs ==
  ASSUME NEW kind, NEW token
  PROVE  LET r == Request(kind, token)
         IN  DOMAIN r = OpFields /\ r.kind = kind /\ r.status = "sent" /\ r.token = token /\ r.user = None
  BY DEF Request, OpFields

\* A click that sends a request and changes nothing on the page.
LEMMA ClickStep ==
  ASSUME WInv, UNCHANGED <<page, cookie>>, NEW e, ops' = Append(ops, e), DOMAIN e = OpFields,
         e.kind \in {"login", "clear", "logout"}, e.token = cookie
  PROVE  WInv'
<1>1. Puts(ops, ops', Len(ops) + 1, e) /\ Len(ops) + 1 \notin DOMAIN ops
  BY WShaped, AppendPuts, ShapedDomain
<1>2. e.token \in Optional(DOMAIN ops')
  BY <1>1 DEF WInv, ViewOf, Puts, Optional
<1>3. page' = page /\ Keeps(cookie, cookie')
  BY DEF Keeps
<1>4. ~Submits(e) /\ e.kind # "select" /\ e.kind # "reload"
  BY DEF Submits
<1> QED BY <1>1, <1>2, <1>3, <1>4, PutStep

LEMMA ClickSpaceKeeps == ASSUME WInv, NEW s \in Spaces, ClickSpace(s) PROVE WInv'
<1> DEFINE a == Aborted(ops)
           r == Request("select", cookie)
           e == [r EXCEPT !.space = s, !.version = page'.viewVersion]
<1>1. page' = Selected(page, s) /\ ops' = Append(a, e) /\ cookie' = cookie
  BY DEF ClickSpace, Begin, SelectRequest
<1>2. DOMAIN r = OpFields /\ r.kind = "select" /\ r.token = cookie
  BY RequestIs
<1> HIDE DEF r
<1>3. DOMAIN e = OpFields /\ e.kind = "select" /\ e.version = page'.viewVersion /\ e.token = cookie'
  BY <1>1, <1>2 DEF OpFields
<1>4. Carries(ops, a) /\ \A i \in DOMAIN ops : ops[i].kind # "select" => a[i] = ops[i]
  BY WShaped, AbortedIs
<1> HIDE DEF a, e
<1>5. Shaped(a) /\ DOMAIN a = DOMAIN ops
  BY <1>4 DEF Carries
<1>6. Puts(a, ops', Len(a) + 1, e) /\ Len(a) + 1 \notin DOMAIN ops
  BY <1>1, <1>3, <1>5, AppendPuts, ShapedDomain
<1>7. (\A i \in DOMAIN ops : Submits(ops[i]) => a[i] = ops[i]) /\ Keeps(cookie, cookie')
  BY <1>1, <1>4 DEF Submits, Keeps
<1> QED BY <1>1, <1>3, <1>4, <1>6, <1>7, SelectStep

LEMMA ClickSendKeeps == ASSUME WInv, ClickSend PROVE WInv'
<1> DEFINE n == Len(ops) + 1
           s == page.current
           quiet == [page EXCEPT !.notice = FALSE]
           r == Request("submit", cookie)
           e == [r EXCEPT !.space = s, !.version = page.sessionVersion]
<1>1. /\ page' = [quiet EXCEPT !.pending[s] = n] /\ ops' = Append(ops, e) /\ cookie' = cookie
      /\ s # None /\ page.pending[s] = None
  BY DEF ClickSend, Begin, Pending
<1>2. DOMAIN r = OpFields /\ r.kind = "submit" /\ r.status = "sent" /\ r.token = cookie /\ r.user = None
  BY RequestIs
<1> HIDE DEF r
<1>3. /\ DOMAIN e = OpFields /\ e.kind = "submit" /\ e.status = "sent" /\ e.token = cookie
      /\ e.space = s /\ e.version = page.sessionVersion /\ e.user = None
  BY <1>2 DEF OpFields
<1> HIDE DEF e
<1>4. Puts(ops, ops', n, e) /\ n \notin DOMAIN ops /\ n # None /\ None \notin DOMAIN ops
  BY <1>1, <1>3, WShaped, AppendPuts, ShapedDomain
<1> HIDE DEF n
<1>5. s \in Spaces
  BY <1>1, WShaped DEF Optional
<1>6. /\ DOMAIN quiet = PageFields /\ quiet.pending = page.pending /\ quiet.current = page.current
      /\ quiet.sessionVersion = page.sessionVersion /\ quiet.viewVersion = page.viewVersion
      /\ quiet.chosen = page.chosen /\ quiet.shown = page.shown
  BY WShaped DEF PageFields
<1> HIDE DEF quiet
<1>7. /\ DOMAIN page' = PageFields /\ page'.pending = [page.pending EXCEPT ![s] = n]
      /\ page'.current = page.current /\ page'.shown = page.shown /\ page'.chosen = page.chosen
      /\ page'.sessionVersion = page.sessionVersion /\ page'.viewVersion = page.viewVersion
  BY <1>1, <1>6 DEF PageFields
<1>8. DOMAIN page'.pending = Spaces /\ \A t \in Spaces : page'.pending[t] = IF t = s THEN n ELSE page.pending[t]
  BY <1>5, <1>7, WShaped
<1>9. ShapeOf(page', ops')
  BY <1>4, <1>7, <1>8, WShaped DEF ShapeOf, Puts, Shaped
<1>10. ViewOf(page, cookie, ops) /\ SubmitOf(page, ops) /\ Carries(ops, ops)
  BY WShaped, CarriesSelf DEF WInv
<1>11. SubmitOf(page', ops')
  <2>1. DOMAIN ops' = DOMAIN ops \union {n} /\ \A c \in DOMAIN ops : ops'[c] = ops[c]
    BY <1>4 DEF Puts
  <2>2. Submits(ops'[n]) /\ ops'[n].space = s /\ ops'[n].version = page.sessionVersion
        /\ ops'[n].user = None
    BY <1>3, <1>4 DEF Puts, Submits
  <2> HIDE DEF s
  <2>3. page.pending[s] = None /\ page.sessionVersion \in Nat
    BY <1>1, WShaped
  <2>4. page'.sessionVersion = page.sessionVersion
        /\ \A t \in Spaces : page'.pending[t] = IF t = s THEN n ELSE page.pending[t]
    BY <1>7, <1>8
  <2> QED BY <1>4, <1>5, <1>10, <2>1, <2>2, <2>3, <2>4, SubmissionBegins
<1>12. cookie' \in Optional(DOMAIN ops') /\ e.token \in Optional(DOMAIN ops') /\ Keeps(cookie, cookie')
  BY <1>1, <1>3, <1>4, <1>10 DEF ViewOf, Puts, Optional, Keeps
<1>13. UsersStay(ops, ops') /\ ReadsGoOn(ops, ops', cookie', page'.viewVersion, page'.sessionVersion)
  BY <1>3, <1>4, <1>10, <1>12, PutsIs
<1>14. page.sessionVersion \in Nat /\ page.viewVersion \in Nat /\ page'.viewVersion >= page.viewVersion
  BY <1>7, WShaped
<1>15. ViewOf(page', cookie', ops')
  BY <1>7, <1>10, <1>12, <1>13, <1>14, ViewStep
<1> QED BY <1>9, <1>11, <1>15, WInvPrimed

LEMMA UserKeeps == ASSUME WInv, User PROVE WInv'
<1>1. ASSUME NEW u \in Users, ClickLogin(u) PROVE WInv'
  <2> DEFINE r == Request("login", cookie)
             e == [r EXCEPT !.user = u]
  <2>1. UNCHANGED <<page, cookie>> /\ ops' = Append(ops, e)
    BY <1>1 DEF ClickLogin, Begin
  <2>2. DOMAIN r = OpFields /\ r.kind = "login" /\ r.token = cookie
    BY RequestIs
  <2> HIDE DEF r
  <2>3. DOMAIN e = OpFields /\ e.kind = "login" /\ e.token = cookie
    BY <2>2 DEF OpFields
  <2> QED BY <2>1, <2>3, ClickStep
<1>2. ASSUME ClickClear PROVE WInv'
  <2> DEFINE r == Request("clear", cookie)
             e == [r EXCEPT !.space = page.current]
  <2>1. UNCHANGED <<page, cookie>> /\ ops' = Append(ops, e)
    BY <1>2 DEF ClickClear, Begin
  <2>2. DOMAIN r = OpFields /\ r.kind = "clear" /\ r.token = cookie
    BY RequestIs
  <2> HIDE DEF r
  <2>3. DOMAIN e = OpFields /\ e.kind = "clear" /\ e.token = cookie
    BY <2>2 DEF OpFields
  <2> QED BY <2>1, <2>3, ClickStep
<1>3. ASSUME ClickLogout PROVE WInv'
  <2> DEFINE e == Request("logout", cookie)
  <2>1. UNCHANGED <<page, cookie>> /\ ops' = Append(ops, e)
    BY <1>3 DEF ClickLogout, Begin
  <2>2. DOMAIN e = OpFields /\ e.kind = "logout" /\ e.token = cookie
    BY RequestIs
  <2> QED BY <2>1, <2>2, ClickStep
<1> QED BY <1>1, <1>2, <1>3, ClickSpaceKeeps, ClickSendKeeps DEF User

-----------------------------------------------------------------------------
(* The handlers.                                                           *)

LEMMA ArriveIs ==
  ASSUME WInv, NEW c \in DOMAIN ops, Arrive(c)
  PROVE  /\ ops[c].status = "answered" /\ cookie' \in Optional(DOMAIN ops)
         /\ ops[c].kind # "login" \/ ~ops[c].ok => Keeps(cookie, cookie')
         /\ ~ops[c].expired /\ ops[c].kind \notin {"login", "logout"} => cookie' = cookie
<1>1. cookie \in Optional(DOMAIN ops)
  BY DEF WInv, ViewOf
<1> QED BY <1>1 DEF Arrive, Keeps, Optional

\* The handler returns, and the page displays no other place than before.
LEMMA ReturnStep ==
  ASSUME WInv, NEW c \in DOMAIN ops, ops' = Done(ops, c), Keeps(cookie, cookie'), DOMAIN page' = PageFields,
         page'.current = page.current, page'.sessionVersion = page.sessionVersion,
         page'.viewVersion = page.viewVersion, page'.chosen = page.chosen,
         \/ ~Submits(ops[c]) /\ page'.pending = page.pending
         \/ /\ Submits(ops[c]) /\ DOMAIN page'.pending = Spaces
            /\ \A s \in Spaces :
                 page'.pending[s] = IF s = ops[c].space /\ page.pending[s] = c THEN None ELSE page.pending[s],
         page.chosen /\ page'.shown.messages # {} =>
           \/ page'.shown = page.shown
           \/ page'.shown.space = page.current /\ (cookie' # None => page'.shown.user = ops[cookie'].user)
  PROVE  WInv'
<1>1. /\ Carries(ops, ops') /\ ops'[c].status = "done" /\ \A i \in DOMAIN ops : i # c => ops'[i] = ops[i]
      /\ DOMAIN page.pending = Spaces
  BY WShaped, DoneIs
<1>2. \A s \in Spaces : page.pending[s] # None =>
        /\ page.pending[s] \in DOMAIN ops /\ Submits(ops[page.pending[s]])
        /\ ops[page.pending[s]].space = s
  BY DEF WInv, SubmitOf
<1>3. DOMAIN page'.pending = Spaces
      /\ \A s \in Spaces : page'.pending[s] = IF page.pending[s] # None /\ Submits(ops'[page.pending[s]])
                                              THEN page.pending[s] ELSE None
  BY <1>1, <1>2 DEF Submits
<1>4. cookie' # None => ops'[cookie'].user = ops[cookie'].user
  <2>1. cookie' # None => cookie' \in DOMAIN ops
    BY DEF WInv, ViewOf, Keeps, Optional
  <2> QED BY <1>1, <2>1 DEF Carries, Same
<1>5. page.chosen /\ page'.shown.messages # {} =>
           \/ page'.shown = page.shown
           \/ page'.shown.space = page.current /\ (cookie' # None => page'.shown.user = ops'[cookie'].user)
  BY <1>4
<1> QED BY <1>1, <1>3, <1>5, CarriedStep

LEMMA AlertedIs ==
  ASSUME WInv
  PROVE  /\ DOMAIN Alerted(page) = PageFields /\ Alerted(page).current = page.current
         /\ Alerted(page).sessionVersion = page.sessionVersion /\ Alerted(page).viewVersion = page.viewVersion
         /\ Alerted(page).chosen = page.chosen /\ Alerted(page).pending = page.pending
         /\ Alerted(page).shown = page.shown
  BY WShaped DEF Alerted, PageFields

LEMMA ShowsIs ==
  ASSUME WInv, NEW view
  PROVE  LET n == [page EXCEPT !.shown = view]
         IN  /\ DOMAIN n = PageFields /\ n.current = page.current
             /\ n.sessionVersion = page.sessionVersion /\ n.viewVersion = page.viewVersion
             /\ n.chosen = page.chosen /\ n.pending = page.pending /\ n.shown = view
  BY WShaped DEF PageFields

\* A page with the composer of space s released from submission c.
LEMMA ReleasedIs ==
  ASSUME NEW p, DOMAIN p = PageFields, DOMAIN p.pending = Spaces, NEW s \in Spaces, NEW c
  PROVE  LET n == Released(p, s, c)
         IN  /\ DOMAIN n = PageFields /\ n.current = p.current
             /\ n.sessionVersion = p.sessionVersion /\ n.viewVersion = p.viewVersion
             /\ n.chosen = p.chosen /\ n.shown = p.shown /\ DOMAIN n.pending = Spaces
             /\ \A t \in Spaces : n.pending[t] = IF t = s /\ p.pending[t] = c THEN None ELSE p.pending[t]
<1>1. CASE p.pending[s] = c
  <2> DEFINE n == [p EXCEPT !.pending[s] = None]
  <2>1. /\ DOMAIN n = PageFields /\ n.current = p.current
        /\ n.sessionVersion = p.sessionVersion /\ n.viewVersion = p.viewVersion
        /\ n.chosen = p.chosen /\ n.shown = p.shown /\ n.pending = [p.pending EXCEPT ![s] = None]
    BY DEF PageFields
  <2>2. Released(p, s, c) = n
    BY <1>1 DEF Released
  <2> HIDE DEF n
  <2> QED BY <1>1, <2>1, <2>2
<1>2. CASE p.pending[s] # c
  BY <1>2 DEF Released
<1> QED BY <1>1, <1>2

\* What an answer of this view or this session displays belongs to the user.
LEMMA ViewBelongs ==
  ASSUME WInv, NEW c \in DOMAIN ops, ops[c].status # "done", cookie' = cookie,
         (ops[c].kind = "select" /\ SameView(c)) \/ (ops[c].kind = "reload" /\ SameSession(c))
  PROVE  page.chosen => /\ View(c).space = page.current
                        /\ cookie' # None => View(c).user = ops[cookie'].user
<1>1. page.chosen /\ cookie # None => ops[c].token = cookie
  BY DEF WInv, ViewOf, SameView, SameSession
<1>2. View(c).space = page.current
  BY DEF View, SameView, SameSession
<1> QED BY <1>1, <1>2 DEF View, UserOf

LEMMA OnSelectKeeps == ASSUME WInv, NEW c \in DOMAIN ops, OnSelect(c) PROVE WInv'
<1>1. Keeps(cookie, cookie') /\ ops[c].status # "done" /\ ~Submits(ops[c]) /\ ops[c].kind = "select"
  BY ArriveIs DEF OnSelect, Submits
<1>2. ops' = Done(ops, c)
  BY DEF OnSelect
<1>3. CASE page' = page
  BY <1>1, <1>2, <1>3, WShaped, ReturnStep
<1>4. CASE page' = Alerted(page)
  BY <1>1, <1>2, <1>4, AlertedIs, ReturnStep
<1>5. CASE SameView(c) /\ ops[c].ok /\ page' = [page EXCEPT !.shown = View(c)]
  <2>1. page.chosen /\ cookie' # None => View(c).user = ops[cookie'].user
    <3>1. cookie' \in {cookie, None}
      BY <1>1 DEF Keeps
    <3>2. CASE cookie' = cookie
      BY <1>1, <1>5, <3>2, ViewBelongs
    <3> QED BY <3>1, <3>2
  <2>2. View(c).space = page.current
    BY <1>5 DEF View, SameView
  <2>3. /\ DOMAIN page' = PageFields /\ page'.current = page.current
        /\ page'.sessionVersion = page.sessionVersion /\ page'.viewVersion = page.viewVersion
        /\ page'.chosen = page.chosen /\ page'.pending = page.pending /\ page'.shown = View(c)
    BY <1>5, ShowsIs
  <2> QED BY <1>1, <1>2, <2>1, <2>2, <2>3, ReturnStep
<1> QED BY <1>3, <1>4, <1>5 DEF OnSelect, Shows

LEMMA ReloadedIs ==
  ASSUME WInv, NEW c
  PROVE  LET n == Reloaded(c)
         IN  /\ DOMAIN n = PageFields /\ n.current = page.current
             /\ n.sessionVersion = page.sessionVersion /\ n.viewVersion = page.viewVersion
             /\ n.chosen = page.chosen /\ n.pending = page.pending /\ n.shown = View(c)
             /\ page.notice => n.notice
BY WShaped DEF Reloaded, Shows, Alerted, PageFields

LEMMA OnReloadKeeps == ASSUME WInv, NEW c \in DOMAIN ops, OnReload(c) PROVE WInv'
<1>1. /\ Keeps(cookie, cookie') /\ ops[c].status # "done" /\ Submits(ops[c]) /\ ops[c].kind = "reload"
      /\ ops' = Done(ops, c)
  BY ArriveIs DEF OnReload, Submits
<1>2. ops[c].space \in Spaces
  BY <1>1 DEF WInv, SubmitOf
<1> DEFINE p == IF ~SameSession(c) THEN page
                ELSE IF ops[c].ok THEN Reloaded(c) ELSE Alerted(page)
<1>3. page' = Released(p, ops[c].space, c)
  BY DEF OnReload
<1>4. /\ DOMAIN p = PageFields /\ p.current = page.current
      /\ p.sessionVersion = page.sessionVersion /\ p.viewVersion = page.viewVersion
      /\ p.chosen = page.chosen /\ p.pending = page.pending
      /\ p.shown = page.shown \/ (SameSession(c) /\ p.shown = View(c))
  BY WShaped, ReloadedIs, AlertedIs
<1> HIDE DEF p
<1>5. /\ DOMAIN page' = PageFields /\ page'.current = page.current
      /\ page'.sessionVersion = page.sessionVersion /\ page'.viewVersion = page.viewVersion
      /\ page'.chosen = page.chosen /\ page'.shown = p.shown /\ DOMAIN page'.pending = Spaces
      /\ \A t \in Spaces :
           page'.pending[t] = IF t = ops[c].space /\ page.pending[t] = c THEN None ELSE page.pending[t]
  BY <1>2, <1>3, <1>4, WShaped, ReleasedIs
<1>6. page.chosen /\ page'.shown.messages # {} =>
           \/ page'.shown = page.shown
           \/ page'.shown.space = page.current /\ (cookie' # None => page'.shown.user = ops[cookie'].user)
  <2>1. CASE SameSession(c) /\ p.shown = View(c)
    <3>1. cookie' \in {cookie, None}
      BY <1>1 DEF Keeps
    <3>2. CASE cookie' = cookie
      BY <1>1, <1>5, <2>1, <3>2, ViewBelongs
    <3>3. CASE cookie' = None
      BY <1>5, <2>1, <3>3 DEF View, SameSession
    <3> QED BY <3>1, <3>2, <3>3
  <2> QED BY <1>4, <1>5, <2>1
<1> QED BY <1>1, <1>5, <1>6, ReturnStep

LEMMA OnSubmitKeeps == ASSUME WInv, NEW c \in DOMAIN ops, OnSubmit(c) PROVE WInv'
<1> DEFINE s == ops[c].space
<1>1. Keeps(cookie, cookie') /\ ops[c].status # "done" /\ Submits(ops[c]) /\ ops[c].kind = "submit"
      /\ cookie' \in Optional(DOMAIN ops)
  BY ArriveIs DEF OnSubmit, Submits
<1>2. s \in Spaces
  BY <1>1 DEF WInv, SubmitOf
<1> DEFINE r == Request("reload", cookie')
           e == [r EXCEPT !.space = s, !.version = ops[c].version, !.warns = ops[c].warns]
<1>3. CASE SameSession(c) /\ UNCHANGED page /\ ops' = [ops EXCEPT ![c] = e]
  <2>1. DOMAIN r = OpFields /\ r.kind = "reload" /\ r.status = "sent" /\ r.token = cookie' /\ r.user = None
    BY RequestIs
  <2> HIDE DEF r
  <2>2. /\ DOMAIN e = OpFields /\ e.kind = "reload" /\ e.status = "sent" /\ e.token = cookie'
        /\ e.space = s /\ e.version = ops[c].version /\ e.user = None
    BY <2>1 DEF OpFields
  <2> HIDE DEF e
  <2>3. Puts(ops, ops', c, e)
    BY <1>3, <2>2, WShaped, ChangePuts
  <2>4. e.token \in Optional(DOMAIN ops') /\ Submits(e) /\ e.version = page.sessionVersion
    BY <1>1, <1>3, <2>2, <2>3 DEF Puts, Optional, Submits, SameSession
  <2>5. ops[c].user = None
    BY <1>1 DEF WInv, SubmitOf
  <2> QED BY <1>1, <1>3, <2>2, <2>3, <2>4, <2>5, PutStep
<1>4. CASE /\ page' = Released(IF SameSession(c) THEN Alerted(page) ELSE page, s, c)
           /\ ops' = Done(ops, c)
  <2> DEFINE p == IF SameSession(c) THEN Alerted(page) ELSE page
  <2>1. /\ DOMAIN p = PageFields /\ p.current = page.current
        /\ p.sessionVersion = page.sessionVersion /\ p.viewVersion = page.viewVersion
        /\ p.chosen = page.chosen /\ p.pending = page.pending /\ p.shown = page.shown
    BY WShaped, AlertedIs
  <2> HIDE DEF p
  <2>2. page' = Released(p, s, c)
    BY <1>4 DEF p
  <2>3. /\ DOMAIN page' = PageFields /\ page'.current = page.current
        /\ page'.sessionVersion = page.sessionVersion /\ page'.viewVersion = page.viewVersion
        /\ page'.chosen = page.chosen /\ page'.shown = page.shown /\ DOMAIN page'.pending = Spaces
        /\ \A t \in Spaces :
             page'.pending[t] = IF t = s /\ page.pending[t] = c THEN None ELSE page.pending[t]
    BY <1>2, <2>1, <2>2, WShaped, ReleasedIs
  <2> QED BY <1>1, <1>4, <2>3, ReturnStep
<1> QED BY <1>3, <1>4 DEF OnSubmit

LEMMA OnClearKeeps == ASSUME WInv, NEW c \in DOMAIN ops, OnClear(c) PROVE WInv'
<1>1. /\ Keeps(cookie, cookie') /\ ops[c].status # "done" /\ ~Submits(ops[c])
      /\ ops' = Done(ops, c)
  BY ArriveIs DEF OnClear, Submits
<1>2. CASE page' = page
  BY <1>1, <1>2, WShaped, ReturnStep
<1>3. CASE page' = Alerted(page)
  BY <1>1, <1>3, AlertedIs, ReturnStep
<1>4. CASE page' = [page EXCEPT !.shown = Emptied(c)]
  <2>1. /\ DOMAIN page' = PageFields /\ page'.current = page.current
        /\ page'.sessionVersion = page.sessionVersion /\ page'.viewVersion = page.viewVersion
        /\ page'.chosen = page.chosen /\ page'.pending = page.pending /\ page'.shown = Emptied(c)
    BY <1>4, ShowsIs
  <2>2. page'.shown.messages = {}
    BY <2>1 DEF Emptied, View
  <2> QED BY <1>1, <2>1, <2>2, ReturnStep
<1> QED BY <1>2, <1>3, <1>4 DEF OnClear

\* Back to the login, with every read aborted.
LEMMA BackStep ==
  ASSUME WInv, NEW c \in DOMAIN ops, Keeps(cookie, cookie'), page' = LoginShown(page),
         ops' = Done(Aborted(ops), c)
  PROVE  WInv'
<1> DEFINE a == Aborted(ops)
<1>1. Carries(ops, a)
  BY WShaped, AbortedIs
<1> HIDE DEF a
<1>2. Shaped(a) /\ c \in DOMAIN a
  BY <1>1 DEF Carries
<1>3. Carries(a, Done(a, c))
  BY <1>2, DoneIs
<1>4. Carries(ops, ops')
  BY <1>1, <1>3, CarriesOn DEF a
<1> QED BY <1>4, LoginStep

LEMMA OnLoginKeeps == ASSUME WInv, NEW c \in DOMAIN ops, OnLogin(c) PROVE WInv'
<1>1. /\ cookie' \in Optional(DOMAIN ops) /\ (~ops[c].ok => Keeps(cookie, cookie')) /\ ~Submits(ops[c])
  BY ArriveIs DEF OnLogin, Submits
<1> DEFINE r == Request("open", cookie')
           e == [r EXCEPT !.boot = ops[c].boot, !.user = ops[c].user]
<1>2. CASE ops[c].ok /\ page' = ChatShown(page) /\ ops' = [ops EXCEPT ![c] = e]
  <2>1. DOMAIN r = OpFields /\ r.kind = "open" /\ r.token = cookie'
    BY RequestIs
  <2> HIDE DEF r
  <2>2. DOMAIN e = OpFields /\ e.kind = "open" /\ e.token = cookie' /\ e.user = ops[c].user
    BY <2>1 DEF OpFields
  <2> HIDE DEF e
  <2>3. Puts(ops, ops', c, e)
    BY <1>2, <2>2, WShaped, ChangePuts
  <2> QED BY <1>1, <1>2, <2>2, <2>3, ChatStep
<1>3. CASE ~ops[c].ok /\ page' = LoginShown(page) /\ ops' = Done(Aborted(ops), c)
  BY <1>1, <1>3, BackStep
<1>4. CASE ~ops[c].ok /\ UNCHANGED page /\ ops' = Done(ops, c)
  BY <1>1, <1>4, WShaped, ReturnStep
<1> QED BY <1>2, <1>3, <1>4 DEF OnLogin

LEMMA ButtonsAre ==
  ASSUME WInv, NEW x
  PROVE  LET n == [page EXCEPT !.buttons = x]
         IN  /\ DOMAIN n = PageFields /\ n.current = page.current
             /\ n.sessionVersion = page.sessionVersion /\ n.viewVersion = page.viewVersion
             /\ n.chosen = page.chosen /\ n.pending = page.pending /\ n.shown = page.shown
             /\ n.notice = page.notice
BY WShaped DEF PageFields

LEMMA OnOpenKeeps == ASSUME WInv, NEW c \in DOMAIN ops, OnOpen(c) PROVE WInv'
<1>1. Keeps(cookie, cookie') /\ ~Submits(ops[c])
  BY ArriveIs DEF OnOpen, Submits
<1> DEFINE a == Aborted(ops)
           r == Request("select", cookie)
           f == [r EXCEPT !.space = FirstSpace, !.version = page'.viewVersion]
           e == [f EXCEPT !.token = cookie', !.user = ops[c].user]
<1>2. CASE /\ page' = Selected([page EXCEPT !.buttons = TRUE], FirstSpace)
           /\ ops' = [a EXCEPT ![c] = e]
  <2>1. DOMAIN r = OpFields /\ r.kind = "select"
    BY RequestIs
  <2> HIDE DEF r
  <2>2. DOMAIN f = OpFields /\ f.kind = "select" /\ f.version = page'.viewVersion
    BY <2>1 DEF OpFields
  <2> HIDE DEF f
  <2>3. /\ DOMAIN e = OpFields /\ e.kind = "select" /\ e.version = page'.viewVersion
        /\ e.token = cookie' /\ e.user = ops[c].user
    BY <2>2 DEF OpFields
  <2>4. Carries(ops, a) /\ \A i \in DOMAIN ops : Submits(ops[i]) => a[i] = ops[i]
    BY WShaped, AbortedIs DEF Submits
  <2> HIDE DEF e, a
  <2>5. Puts(a, ops', c, e)
    BY <1>2, <2>3, <2>4, ChangePuts DEF Carries
  <2> QED BY <1>1, <1>2, <2>3, <2>4, <2>5, FirstAssumption, SelectStep
<1>3. CASE page' = LoginShown(page) /\ ops' = Done(Aborted(ops), c)
  BY <1>1, <1>3, BackStep
<1>4. CASE UNCHANGED page /\ ops' = Done(ops, c)
  BY <1>1, <1>4, WShaped, ReturnStep
<1>5. CASE page' = [page EXCEPT !.buttons = FALSE] /\ ops' = Done(ops, c)
  BY <1>1, <1>5, WShaped, ButtonsAre, ReturnStep
<1> QED BY <1>2, <1>3, <1>4, <1>5 DEF OnOpen, SelectRequest

LEMMA OnLogoutKeeps == ASSUME WInv, NEW c \in DOMAIN ops, OnLogout(c) PROVE WInv'
  BY ArriveIs, BackStep DEF OnLogout

-----------------------------------------------------------------------------
LEMMA InitWInv == ASSUME Init PROVE WInv
<1> PICK u \in Users :
      ops = <<[Request("boot", cookie) EXCEPT !.boot = TRUE, !.user = IF cookie = 1 THEN u ELSE None]>>
  BY DEF Init
<1> DEFINE r == Request("boot", cookie)
           e == [r EXCEPT !.boot = TRUE, !.user = IF cookie = 1 THEN u ELSE None]
<1>1. DOMAIN r = OpFields /\ r.kind = "boot" /\ r.token = cookie
  BY RequestIs
<1>2. ops = <<e>>
  OBVIOUS
<1> HIDE DEF r
<1>3. DOMAIN e = OpFields /\ e.kind = "boot" /\ e.token = cookie
  BY <1>1 DEF OpFields
<1> HIDE DEF e
<1>4. ops \in Seq({e}) /\ DOMAIN ops = {1} /\ ops[1] = e
  BY <1>2
<1>5. IsSeq(ops)
  BY <1>4 DEF IsSeq
<1>6. /\ DOMAIN page = PageFields /\ DOMAIN page.pending = Spaces /\ page.current = None
      /\ page.sessionVersion = 0 /\ page.viewVersion = 0 /\ page.chosen = FALSE
      /\ \A s \in Spaces : page.pending[s] = None
      /\ cookie \in {None, 1}
  BY DEF Init, PageFields
<1>7. ShapeOf(page, ops)
  <2>1. \A c \in DOMAIN ops : DOMAIN ops[c] = OpFields
    BY <1>3, <1>4
  <2>2. page.sessionVersion \in Nat /\ page.viewVersion \in Nat /\ page.current \in Optional(Spaces)
    BY <1>6 DEF Optional
  <2> QED BY <1>5, <1>6, <2>1, <2>2 DEF ShapeOf
<1>8. SubmitOf(page, ops)
  <2>1. \A c \in DOMAIN ops : ~Submits(ops[c])
    BY <1>3, <1>4 DEF Submits
  <2> QED BY <1>6, <2>1 DEF SubmitOf
<1>9. ViewOf(page, cookie, ops)
  <2>1. \A c \in DOMAIN ops : ops[c].kind = "boot" /\ ops[c].token = cookie
    BY <1>3, <1>4
  <2>2. cookie \in Optional(DOMAIN ops)
    BY <1>4, <1>6 DEF Optional
  <2> QED BY <1>6, <2>1, <2>2 DEF ViewOf
<1> QED BY <1>7, <1>8, <1>9 DEF WInv

LEMMA NextWInv == WInv /\ [Next]_vars => WInv'
<1> SUFFICES ASSUME WInv, [Next]_vars PROVE WInv'
  OBVIOUS
<1>1. CASE Handlers
  BY <1>1, OnLoginKeeps, OnOpenKeeps, OnSelectKeeps, OnSubmitKeeps, OnReloadKeeps, OnClearKeeps,
     OnLogoutKeeps DEF Handlers
<1>2. CASE UNCHANGED vars
  BY <1>2, StillKeeps DEF vars
<1> QED BY <1>1, <1>2, UserKeeps, ServerKeeps DEF Next

\* The page's versions, its pending flags and the operations under way fit together,
\* whatever the user does and in whatever order answers arrive.
THEOREM PageHolds == Spec => []WInv
  BY InitWInv, NextWInv, PTL DEF Spec

\* Whatever selectSpace, submit and the login do in any order, and however late their
\* answers come: the transcript shows the selected space of the user logged in, or
\* nothing; viewVersion and sessionVersion suffice to tell the answers apart.
THEOREM ShownBelongs == Spec => []ShownBelongsHere
<1>1. WInv => ShownBelongsHere
  BY DEF WInv, ViewOf, ShownBelongsHere, UserOf
<1> QED BY <1>1, PageHolds, PTL

\* clearPending releases a composer for its own submission only: a session never has
\* two submissions to one space under way.
THEOREM OneAtATime == Spec => []OneSubmissionPerSpace
<1>1. WInv => OneSubmissionPerSpace
  BY DEF WInv, SubmitOf, Submits, OneSubmissionPerSpace, Submission, Live
<1> QED BY <1>1, PageHolds, PTL

\* Every way out of the handler of a submission releases the composer: one that is
\* locked waits for a submission of this session that is still under way.
THEOREM LockHasAReason == Spec => []LockedForReason
<1>1. WInv => LockedForReason
  BY DEF WInv, SubmitOf, Submits, LockedForReason, Submission, Live
<1> QED BY <1>1, PageHolds, PTL

-----------------------------------------------------------------------------
(* The transcript and the list of the server.  (r and n stand for an       *)
(* operation before and after a step.)                                     *)

\* An operation becomes something else only as its handler goes on.
Kin(r, n) ==
  /\ n.user = r.user
  /\ n.kind = "login" => r.kind = "login"
  /\ n.kind = "clear" => r.kind = "clear" /\ n.space = r.space
  /\ r.kind \in {"submit", "reload"} =>
       n.kind \in {"submit", "reload"} /\ n.space = r.space /\ n.version = r.version

\* A submission that fails stays failed, and none succeeds here.
Steady(r, n) ==
  /\ r.kind = "submit" /\ r.status = "sent" => n = r \/ (n.kind = "submit" /\ n.status # "sent" /\ ~n.ok)
  /\ r.kind = "submit" /\ r.status # "sent" /\ ~r.ok => n.kind = "submit" /\ n.status # "sent" /\ ~n.ok

\* An operation that begins.
Fresh(n) ==
  /\ n.status = "sent"
  /\ n.kind = "login" => n.user \in Users
  /\ n.kind = "clear" => n.space \in Spaces

KinOf(o, q) ==
  /\ DOMAIN o \subseteq DOMAIN q
  /\ \A c \in DOMAIN o : Kin(o[c], q[c])
  /\ \A c \in DOMAIN q : c \in DOMAIN o \/ Fresh(q[c])

SteadyOf(o, q) == \A c \in DOMAIN o : Steady(o[c], q[c])

\* The operations, or what historyController.abort makes of them.
Perhaps(o, a) == a = o \/ a = Aborted(o)

LEMMA PerhapsIs ==
  ASSUME NEW o, Shaped(o), NEW a, Perhaps(o, a)
  PROVE  /\ Shaped(a) /\ DOMAIN a = DOMAIN o /\ Carries(o, a)
         /\ \A i \in DOMAIN o :
              /\ Kin(o[i], a[i]) /\ Steady(o[i], a[i]) /\ a[i].ok = o[i].ok
              /\ a[i].status = "answered" <=> o[i].status = "answered"
              /\ o[i].kind # "select" => a[i] = o[i]
<1>1. CASE a = o
  BY <1>1, CarriesSelf DEF Kin, Steady
<1>2. CASE a = Aborted(o)
  <2>1. Carries(o, a) /\ \A i \in DOMAIN o : o[i].kind # "select" => a[i] = o[i]
    BY <1>2, AbortedIs
  <2>2. ASSUME NEW i \in DOMAIN o
        PROVE  /\ Kin(o[i], a[i]) /\ Steady(o[i], a[i]) /\ a[i].ok = o[i].ok
               /\ a[i].status = "answered" <=> o[i].status = "answered"
    <3>1. DOMAIN o[i] = OpFields
      BY DEF Shaped
    <3>2. a[i] = IF o[i].kind # "select" \/ o[i].status = "done" THEN o[i]
                 ELSE IF o[i].status = "sent" THEN [o[i] EXCEPT !.status = "done", !.token = None]
                 ELSE [o[i] EXCEPT !.data = {}, !.unread = TRUE]
      BY <1>2 DEF Aborted
    <3>3. CASE a[i] = o[i]
      BY <3>3 DEF Kin, Steady
    <3>4. CASE /\ a[i] = [o[i] EXCEPT !.status = "done", !.token = None]
               /\ o[i].kind = "select" /\ o[i].status = "sent"
      BY <3>1, <3>4 DEF Kin, Steady, OpFields
    <3>5. CASE a[i] = [o[i] EXCEPT !.data = {}, !.unread = TRUE] /\ o[i].kind = "select"
      BY <3>1, <3>5 DEF Kin, Steady, OpFields
    <3> QED BY <3>2, <3>3, <3>4, <3>5
  <2> QED BY <2>1, <2>2 DEF Carries
<1> QED BY <1>1, <1>2 DEF Perhaps

LEMMA PutsKin ==
  ASSUME NEW o, Shaped(o), NEW a, Perhaps(o, a), NEW q, NEW n, NEW e, Puts(a, q, n, e),
         IF n \in DOMAIN o THEN Kin(o[n], e) /\ Steady(o[n], e) ELSE Fresh(e)
  PROVE  KinOf(o, q) /\ SteadyOf(o, q)
<1>1. DOMAIN a = DOMAIN o /\ \A i \in DOMAIN o : Kin(o[i], a[i]) /\ Steady(o[i], a[i])
  BY PerhapsIs
<1> QED BY <1>1 DEF Puts, KinOf, SteadyOf

\* The handler returns.
LEMMA DonePuts ==
  ASSUME NEW o, Shaped(o), NEW c \in DOMAIN o
  PROVE  \E e : /\ Puts(o, Done(o, c), c, e) /\ e.status = "done" /\ e.kind = o[c].kind /\ e.ok = o[c].ok
                /\ (o[c].kind = "submit" => o[c].status # "sent") => Kin(o[c], e) /\ Steady(o[c], e)
<1> DEFINE e == [o[c] EXCEPT !.status = "done", !.token = None, !.expired = FALSE,
                        !.unread = FALSE, !.warns = FALSE, !.data = {}]
<1>1. Done(o, c) = [o EXCEPT ![c] = e]
  BY DEF Done
<1>2. DOMAIN o[c] = OpFields
  BY DEF Shaped
<1>3. /\ DOMAIN e = OpFields /\ e.status = "done" /\ e.kind = o[c].kind /\ e.ok = o[c].ok
      /\ e.user = o[c].user /\ e.space = o[c].space /\ e.version = o[c].version
  BY <1>2 DEF OpFields
<1> HIDE DEF e
<1>4. Puts(o, Done(o, c), c, e)
  BY <1>1, <1>3, ChangePuts
<1>5. (o[c].kind = "submit" => o[c].status # "sent") => Kin(o[c], e) /\ Steady(o[c], e)
  BY <1>3 DEF Kin, Steady
<1> QED BY <1>3, <1>4, <1>5

-----------------------------------------------------------------------------
(* The answers on their way.                                               *)

\* In order, each answer that has not arrived is in the row once.
QueueOf(o, a) ==
  /\ IsSeq(a)
  /\ \A i \in DOMAIN a : a[i] \in DOMAIN o /\ o[a[i]].status = "answered"
  /\ \A i, j \in DOMAIN a : a[i] = a[j] => i = j
  /\ \A c \in DOMAIN o : o[c].status = "answered" => \E i \in DOMAIN a : a[i] = c

AnswersWait == inOrder => QueueOf(ops, answers)

LEMMA AnswersWaitPrimed == AnswersWait' <=> (inOrder' => QueueOf(ops', answers'))
BY DEF AnswersWait, QueueOf, IsSeq

\* No answer arrives, and none is given.
LEMMA QueueStays ==
  ASSUME NEW o, NEW a, QueueOf(o, a), Shaped(o), NEW b, Perhaps(o, b),
         NEW q, NEW n, NEW e, Puts(b, q, n, e), n \notin DOMAIN o, e.status = "sent"
  PROVE  QueueOf(q, a)
<1>1. DOMAIN b = DOMAIN o /\ \A i \in DOMAIN o : b[i].status = "answered" <=> o[i].status = "answered"
  BY PerhapsIs
<1>2. DOMAIN q = DOMAIN o \union {n} /\ q[n] = e /\ \A i \in DOMAIN o : q[i] = b[i]
  BY <1>1 DEF Puts
<1> QED BY <1>1, <1>2 DEF QueueOf

\* What a row becomes.
LEMMA RowGrown ==
  ASSUME NEW a, IsSeq(a), NEW c
  PROVE  LET b == Append(a, c)
         IN  /\ IsSeq(b) /\ DOMAIN a \subseteq DOMAIN b /\ Len(a) + 1 \in DOMAIN b
             /\ \A i \in DOMAIN b : i \in Nat /\ i <= Len(a) + 1
             /\ \A i \in DOMAIN b : i # Len(a) + 1 => i \in DOMAIN a
             /\ Len(a) + 1 \notin DOMAIN a
             /\ b[Len(a) + 1] = c /\ \A i \in DOMAIN a : b[i] = a[i]
<1>1. PICK S : a \in Seq(S)
  BY DEF IsSeq
<1> DEFINE T == S \union {c}
           b == Append(a, c)
<1>2. a \in Seq(T) /\ c \in T
  BY <1>1
<1>3. /\ b \in Seq(T) /\ Len(b) = Len(a) + 1 /\ Len(a) \in Nat
      /\ b[Len(a) + 1] = c /\ \A i \in 1 .. Len(a) : b[i] = a[i]
  BY <1>2
<1>4. DOMAIN b = 1 .. Len(a) + 1 /\ DOMAIN a = 1 .. Len(a)
  BY <1>2, <1>3
<1>5. IsSeq(b)
  BY <1>3 DEF IsSeq
<1> QED BY <1>3, <1>4, <1>5

LEMMA RowShrunk ==
  ASSUME NEW a, IsSeq(a), NEW i0 \in DOMAIN a
  PROVE  LET b == Tail(a)
         IN  /\ IsSeq(b) /\ 1 \in DOMAIN a /\ Head(a) = a[1]
             /\ \A i \in DOMAIN b : i \in Nat \ {0} /\ i + 1 \in DOMAIN a /\ b[i] = a[i + 1]
             /\ \A i \in DOMAIN a : i \in Nat /\ (i # 1 => i - 1 \in DOMAIN b /\ b[i - 1] = a[i])
<1>1. PICK S : a \in Seq(S)
  BY DEF IsSeq
<1> DEFINE b == Tail(a)
<1>2. DOMAIN a = 1 .. Len(a) /\ Len(a) \in Nat /\ a # <<>>
  BY <1>1
<1>3. /\ b \in Seq(S) /\ Len(b) = Len(a) - 1 /\ Head(a) = a[1]
      /\ \A i \in 1 .. Len(b) : b[i] = a[i + 1]
  BY <1>1, <1>2
<1>4. DOMAIN b = 1 .. Len(a) - 1
  BY <1>3
<1>5. IsSeq(b)
  BY <1>3 DEF IsSeq
<1> QED BY <1>2, <1>3, <1>4, <1>5

\* An answer is given.
LEMMA QueueGrows ==
  ASSUME NEW o, NEW a, QueueOf(o, a), NEW q, NEW c \in DOMAIN o, NEW e, Puts(o, q, c, e),
         o[c].status = "sent", e.status = "answered"
  PROVE  QueueOf(q, Append(a, c))
<1> DEFINE b == Append(a, c)
<1>1. /\ IsSeq(b) /\ DOMAIN a \subseteq DOMAIN b /\ Len(a) + 1 \in DOMAIN b
      /\ \A i \in DOMAIN b : i # Len(a) + 1 => i \in DOMAIN a
      /\ b[Len(a) + 1] = c /\ \A i \in DOMAIN a : b[i] = a[i]
  BY RowGrown DEF QueueOf
<1> HIDE DEF b
<1>2. DOMAIN q = DOMAIN o /\ q[c] = e /\ \A i \in DOMAIN o : i # c => q[i] = o[i]
  BY DEF Puts
<1>3. \A i \in DOMAIN a : a[i] # c
  BY DEF QueueOf
<1>4. \A i \in DOMAIN b : b[i] \in DOMAIN q /\ q[b[i]].status = "answered"
  BY <1>1, <1>2, <1>3 DEF QueueOf
<1>5. \A i, j \in DOMAIN b : b[i] = b[j] => i = j
  BY <1>1, <1>3 DEF QueueOf
<1>6. \A d \in DOMAIN q : q[d].status = "answered" => \E i \in DOMAIN b : b[i] = d
  BY <1>1, <1>2 DEF QueueOf
<1>7. QueueOf(q, b)
  BY <1>1, <1>4, <1>5, <1>6 DEF QueueOf
<1> QED BY <1>7 DEF b

\* An answer arrives.
LEMMA QueueShrinks ==
  ASSUME NEW o, NEW a, QueueOf(o, a), Shaped(o), NEW b, Perhaps(o, b),
         NEW q, NEW c \in DOMAIN o, NEW e, Puts(b, q, c, e),
         o[c].status = "answered", e.status # "answered", c = Head(a)
  PROVE  QueueOf(q, Tail(a)) /\ 1 \in DOMAIN a /\ a[1] = c /\ \A i \in DOMAIN a : i # 1 => a[i] # c
<1> DEFINE t == Tail(a)
<1>1. /\ IsSeq(t) /\ 1 \in DOMAIN a /\ Head(a) = a[1]
      /\ \A i \in DOMAIN t : i \in Nat \ {0} /\ i + 1 \in DOMAIN a /\ t[i] = a[i + 1]
      /\ \A i \in DOMAIN a : i \in Nat /\ (i # 1 => i - 1 \in DOMAIN t /\ t[i - 1] = a[i])
  BY RowShrunk DEF QueueOf
<1> HIDE DEF t
<1>2. DOMAIN b = DOMAIN o /\ \A i \in DOMAIN o : b[i].status = "answered" <=> o[i].status = "answered"
  BY PerhapsIs
<1>3. DOMAIN q = DOMAIN o /\ q[c] = e /\ \A i \in DOMAIN o : i # c => q[i] = b[i]
  BY <1>2 DEF Puts
<1>4. \A i \in DOMAIN a : i # 1 => a[i] # c
  BY <1>1 DEF QueueOf
<1>5. \A i \in DOMAIN t : t[i] \in DOMAIN q /\ q[t[i]].status = "answered"
  <2> SUFFICES ASSUME NEW i \in DOMAIN t PROVE t[i] \in DOMAIN q /\ q[t[i]].status = "answered"
    OBVIOUS
  <2>1. i + 1 \in DOMAIN a /\ t[i] = a[i + 1] /\ i + 1 # 1
    BY <1>1
  <2> QED BY <1>2, <1>3, <1>4, <2>1 DEF QueueOf
<1>6. \A i, j \in DOMAIN t : t[i] = t[j] => i = j
  <2> SUFFICES ASSUME NEW i \in DOMAIN t, NEW j \in DOMAIN t, t[i] = t[j] PROVE i = j
    OBVIOUS
  <2>1. i + 1 = j + 1
    BY <1>1 DEF QueueOf
  <2> QED BY <1>1, <2>1
<1>7. \A d \in DOMAIN q : q[d].status = "answered" => \E i \in DOMAIN t : t[i] = d
  BY <1>1, <1>2, <1>3 DEF QueueOf
<1>8. QueueOf(q, t)
  BY <1>1, <1>5, <1>6, <1>7 DEF QueueOf
<1> QED BY <1>1, <1>4, <1>8 DEF t

-----------------------------------------------------------------------------
(* Accounts and what the server keeps.  (x, w and t stand for its sessions,*)
(* for the submissions it handles and for its lists.)                      *)

AccountsOf(p, k, o, x) ==
  /\ k # None => k \in DOMAIN o /\ o[k].user \in Users
  /\ \A y \in x : y \in DOMAIN o /\ o[y].user \in Users
  /\ \A c \in DOMAIN o : o[c].kind = "login" => o[c].user \in Users
  /\ \A c \in DOMAIN o : o[c].kind = "clear" => o[c].space \in Spaces
  /\ p.chosen => p.current # None

\* A space handles one of its submissions; that one is still unanswered, or was given up.
Handles(c, u, s, o) ==
  /\ c \in DOMAIN o /\ o[c].kind = "submit" /\ o[c].space = s
  /\ IF o[c].status = "sent" THEN o[c].token \in DOMAIN o /\ o[o[c].token].user = u ELSE ~o[c].ok

HandledOf(w, o) ==
  /\ w \in [Users -> [Spaces -> Optional(Ops)]]
  /\ \A u \in Users, s \in Spaces : w[u][s] # None => Handles(w[u][s], u, s, o)

\* A list has messages of its space's submissions.
StoredOf(t, o) ==
  /\ t \in [Users -> [Spaces -> SUBSET Messages]]
  /\ \A u \in Users, s \in Spaces : \A m \in t[u][s] :
       m[1] \in DOMAIN o /\ o[m[1]].kind \in {"submit", "reload"} /\ o[m[1]].space = s

KeepsTrack == AccountsOf(page, cookie, ops, sessions) /\ HandledOf(working, ops) /\ StoredOf(store, ops)

LEMMA KeepsTrackPrimed ==
  KeepsTrack' <=> /\ AccountsOf(page', cookie', ops', sessions') /\ HandledOf(working', ops')
                  /\ StoredOf(store', ops')
BY DEF KeepsTrack, AccountsOf, HandledOf, Handles, StoredOf, Optional

LEMMA AccountsStep ==
  ASSUME NEW p, NEW k, NEW o, NEW x, AccountsOf(p, k, o, x), NEW q, KinOf(o, q),
         NEW p2, p2.chosen => p2.current # None,
         NEW k2, k2 \in {None, k} \/ (k2 \in DOMAIN o /\ o[k2].kind = "login"),
         NEW x2, \A y \in x2 : y \in x \/ (y \in DOMAIN o /\ o[y].kind = "login")
  PROVE  AccountsOf(p2, k2, q, x2)
<1>1. k2 # None => k2 \in DOMAIN q /\ q[k2].user \in Users
  BY DEF AccountsOf, KinOf, Kin
<1>2. \A y \in x2 : y \in DOMAIN q /\ q[y].user \in Users
  BY DEF AccountsOf, KinOf, Kin
<1>3. \A c \in DOMAIN q : q[c].kind = "login" => q[c].user \in Users
  BY DEF AccountsOf, KinOf, Kin, Fresh
<1>4. \A c \in DOMAIN q : q[c].kind = "clear" => q[c].space \in Spaces
  BY DEF AccountsOf, KinOf, Kin, Fresh
<1> QED BY <1>1, <1>2, <1>3, <1>4 DEF AccountsOf

LEMMA HandledStep ==
  ASSUME NEW w, NEW o, HandledOf(w, o), NEW q, KinOf(o, q),
         \A u \in Users, s \in Spaces : w[u][s] # None => Steady(o[w[u][s]], q[w[u][s]])
  PROVE  HandledOf(w, q)
<1> SUFFICES ASSUME NEW u \in Users, NEW s \in Spaces, w[u][s] # None
             PROVE  Handles(w[u][s], u, s, q)
  BY DEF HandledOf
<1>1. PICK c : c = w[u][s]
  OBVIOUS
<1>2. /\ c \in DOMAIN o /\ o[c].kind = "submit" /\ o[c].space = s
      /\ IF o[c].status = "sent" THEN o[c].token \in DOMAIN o /\ o[o[c].token].user = u ELSE ~o[c].ok
  BY <1>1 DEF HandledOf, Handles
<1>3. c \in DOMAIN q /\ Kin(o[c], q[c]) /\ Steady(o[c], q[c]) /\ DOMAIN o \subseteq DOMAIN q
  BY <1>1, <1>2 DEF KinOf
<1>4. CASE o[c].status = "sent"
  <2>1. q[o[c].token].user = u
    BY <1>2, <1>4 DEF KinOf, Kin
  <2> QED BY <1>1, <1>2, <1>3, <1>4, <2>1 DEF Kin, Steady, Handles
<1>5. CASE o[c].status # "sent"
  BY <1>1, <1>2, <1>3, <1>5 DEF Kin, Steady, Handles
<1> QED BY <1>4, <1>5

LEMMA StoredStep ==
  ASSUME NEW t, NEW o, StoredOf(t, o), NEW q, KinOf(o, q)
  PROVE  StoredOf(t, q)
<1> SUFFICES ASSUME NEW u \in Users, NEW s \in Spaces, NEW m \in t[u][s]
             PROVE  m[1] \in DOMAIN q /\ q[m[1]].kind \in {"submit", "reload"} /\ q[m[1]].space = s
  BY DEF StoredOf
<1>1. m[1] \in DOMAIN o /\ o[m[1]].kind \in {"submit", "reload"} /\ o[m[1]].space = s
  BY DEF StoredOf
<1> QED BY <1>1 DEF KinOf, Kin

\* Steps of the page, and answers that change nothing on the server but its sessions.
LEMMA TrackStep ==
  ASSUME KeepsTrack, KinOf(ops, ops'), SteadyOf(ops, ops'), page'.chosen => page'.current # None,
         cookie' \in {None, cookie} \/ (cookie' \in DOMAIN ops /\ ops[cookie'].kind = "login"),
         \A y \in sessions' : y \in sessions \/ (y \in DOMAIN ops /\ ops[y].kind = "login"),
         UNCHANGED <<store, working>>
  PROVE  KeepsTrack'
<1>1. AccountsOf(page', cookie', ops', sessions')
  BY AccountsStep DEF KeepsTrack
<1>2. HandledOf(working', ops')
  <2>1. \A u \in Users, s \in Spaces : working[u][s] # None => Steady(ops[working[u][s]], ops'[working[u][s]])
    BY DEF KeepsTrack, HandledOf, Handles, SteadyOf
  <2>2. HandledOf(working, ops')
    BY <2>1, HandledStep DEF KeepsTrack
  <2> QED BY <2>2
<1>3. StoredOf(store', ops')
  <2>1. StoredOf(store, ops')
    BY StoredStep DEF KeepsTrack
  <2> QED BY <2>1
<1> QED BY <1>1, <1>2, <1>3, KeepsTrackPrimed

-----------------------------------------------------------------------------
(* What the transcript shows, or will show once the answers on their way   *)
(* have arrived.  (t stands for the list of the server with what midnights *)
(* took out, u for whose it is.)                                           *)

Kept(lists, out, u, s) == [now |-> lists[u][s], gone |-> out]

\* An operation whose answer the page displays as it is.
Reads(r, p) ==
  /\ r.space = p.current
  /\ \/ r.kind = "select" /\ r.version = p.viewVersion
     \/ r.kind = "reload" /\ r.version = p.sessionVersion

Asks(r, p) == r.kind = "submit" /\ r.space = p.current /\ r.version = p.sessionVersion

\* An operation after which the list will be displayed or an error.
Awaited(r, p) ==
  \/ r.status = "sent" /\ (Reads(r, p) \/ Asks(r, p))
  \/ r.status = "answered" /\ Asks(r, p) /\ r.ok

Alerts(r, p)   == ~r.ok /\ (Reads(r, p) \/ Asks(r, p) \/ r.kind = "clear")
Displays(r, p) == r.ok /\ (Reads(r, p) \/ (r.kind = "clear" /\ r.space = p.current))

Display(o, c) == [user     |-> IF o[c].token = None THEN None ELSE o[o[c].token].user,
                  messages |-> IF o[c].kind = "clear" THEN {} ELSE o[c].data,
                  unread   |-> IF o[c].kind = "clear" THEN FALSE ELSE o[c].unread]

Forgone(r, v) == r.version # v \/ (r.kind = "submit" /\ ~r.ok)

\* What ShownIsCurrent asks of a view x.
Fits(x, u, t, o, v) ==
  \/ x.messages = {} /\ (x.unread \/ x.user \notin {None, u})
  \/ x.messages \subseteq t.now \union t.gone /\ \A m \in t.now \ x.messages : Forgone(o[m[1]], v)

CurrentOf(p, u, o, a, t) ==
  \/ \E c \in DOMAIN o : Awaited(o[c], p)
  \/ p.notice
  \/ \E i \in DOMAIN a : Alerts(o[a[i]], p)
  \/ \E i \in DOMAIN a :
       /\ Displays(o[a[i]], p) /\ Fits(Display(o, a[i]), u, t, o, p.sessionVersion)
       /\ \A j \in DOMAIN a : Displays(o[a[j]], p) => j <= i
  \/ /\ \A j \in DOMAIN a : ~Displays(o[a[j]], p)
     /\ Fits(p.shown, u, t, o, p.sessionVersion)

Submitted(t, o) == \A m \in t.now : m[1] \in DOMAIN o /\ o[m[1]].kind \in {"submit", "reload"}

\* A list to which nothing is added but by submissions given up, and from which nothing
\* is taken but by midnights.
Grown(o, q, t, t2, v) ==
  /\ DOMAIN o \subseteq DOMAIN q /\ \A c \in DOMAIN o : q[c].user = o[c].user
  /\ t.now \subseteq t2.now \union t2.gone /\ t.gone \subseteq t2.gone
  /\ \A m \in t2.now : IF m \in t.now THEN Forgone(o[m[1]], v) => Forgone(q[m[1]], v)
                             ELSE Forgone(q[m[1]], v)

LEMMA ListStays ==
  ASSUME NEW o, NEW q, KinOf(o, q), SteadyOf(o, q), NEW t, Submitted(t, o), NEW v
  PROVE  Grown(o, q, t, t, v)
<1>1. ASSUME NEW m \in t.now, Forgone(o[m[1]], v) PROVE Forgone(q[m[1]], v)
  <2>1. PICK c : c = m[1]
    OBVIOUS
  <2>2. /\ c \in DOMAIN o /\ o[c].kind \in {"submit", "reload"} /\ Forgone(o[c], v)
        /\ Kin(o[c], q[c]) /\ Steady(o[c], q[c])
    BY <1>1, <2>1 DEF KinOf, SteadyOf, Submitted
  <2>3. CASE o[c].version # v
    BY <2>1, <2>2, <2>3 DEF Forgone, Kin
  <2>4. CASE o[c].kind = "submit" /\ ~o[c].ok
    BY <2>1, <2>2, <2>4 DEF Forgone, Steady
  <2> QED BY <2>2, <2>3, <2>4 DEF Forgone
<1> QED BY <1>1 DEF Grown, KinOf, Kin

LEMMA FitsStep ==
  ASSUME NEW x, NEW u, NEW t, NEW o, NEW v, Fits(x, u, t, o, v), NEW q, NEW t2, Grown(o, q, t, t2, v)
  PROVE  Fits(x, u, t2, q, v)
<1>1. CASE x.messages = {} /\ (x.unread \/ x.user \notin {None, u})
  BY <1>1 DEF Fits
<1>2. CASE x.messages \subseteq t.now \union t.gone /\ \A m \in t.now \ x.messages : Forgone(o[m[1]], v)
  <2>1. \A m \in t2.now \ x.messages : Forgone(q[m[1]], v)
    BY <1>2 DEF Grown
  <2> QED BY <1>2, <2>1 DEF Fits, Grown
<1> QED BY <1>1, <1>2 DEF Fits

Tokens(o) == \A c \in DOMAIN o : o[c].status # "done" => o[c].token \in Optional(DOMAIN o)

LEMMA DisplayStays ==
  ASSUME NEW o, Tokens(o), NEW q, \A d \in DOMAIN o : q[d].user = o[d].user,
         NEW c \in DOMAIN o, o[c].status # "done", q[c] = o[c]
  PROVE  Display(q, c) = Display(o, c)
<1>1. o[c].token # None => o[c].token \in DOMAIN o
  BY DEF Tokens, Optional
<1>2. o[c].token # None => q[o[c].token].user = o[o[c].token].user
  BY <1>1
<1> QED BY <1>2 DEF Display

\* No answer is given and none arrives.
LEMMA CurrentStays ==
  ASSUME NEW p, NEW u, NEW o, NEW a, NEW t, CurrentOf(p, u, o, a, t), QueueOf(o, a), Tokens(o),
         NEW q, NEW t2, Grown(o, q, t, t2, p.sessionVersion), \A c \in DOMAIN o : q[c] = o[c]
  PROVE  CurrentOf(p, u, q, a, t2)
<1>1. \A i \in DOMAIN a : a[i] \in DOMAIN o /\ o[a[i]].status # "done" /\ q[a[i]] = o[a[i]]
  BY DEF QueueOf
<1>2. DOMAIN o \subseteq DOMAIN q /\ \A c \in DOMAIN o : q[c].user = o[c].user
  BY DEF Grown
<1>3. CASE \E c \in DOMAIN o : Awaited(o[c], p)
  BY <1>2, <1>3 DEF CurrentOf
<1>4. CASE p.notice
  BY <1>4 DEF CurrentOf
<1>5. CASE \E i \in DOMAIN a : Alerts(o[a[i]], p)
  BY <1>1, <1>5 DEF CurrentOf
<1>6. ASSUME NEW i \in DOMAIN a, Displays(o[a[i]], p), Fits(Display(o, a[i]), u, t, o, p.sessionVersion),
             \A j \in DOMAIN a : Displays(o[a[j]], p) => j <= i
      PROVE  CurrentOf(p, u, q, a, t2)
  <2>1. Display(q, a[i]) = Display(o, a[i])
    BY <1>1, <1>2, DisplayStays
  <2>2. Fits(Display(q, a[i]), u, t2, q, p.sessionVersion)
    BY <1>6, <2>1, FitsStep
  <2> QED BY <1>1, <1>6, <2>2 DEF CurrentOf
<1>7. CASE (\A j \in DOMAIN a : ~Displays(o[a[j]], p)) /\ Fits(p.shown, u, t, o, p.sessionVersion)
  <2>1. Fits(p.shown, u, t2, q, p.sessionVersion)
    BY <1>7, FitsStep
  <2> QED BY <1>1, <1>7, <2>1 DEF CurrentOf
<1> QED BY <1>3, <1>4, <1>5, <1>6, <1>7 DEF CurrentOf

\* The answer e of c is given.
LEMMA CurrentAnswered ==
  ASSUME NEW p, NEW u, NEW o, NEW a, NEW t, CurrentOf(p, u, o, a, t), QueueOf(o, a), Tokens(o),
         NEW q, NEW t2, NEW c \in DOMAIN o, NEW e, Puts(o, q, c, e), o[c].status = "sent",
         \/ Awaited(e, p)
         \/ Alerts(e, p)
         \/ Displays(e, p) /\ Fits(Display(q, c), u, t2, q, p.sessionVersion)
         \/ ~Displays(e, p) /\ ~Awaited(o[c], p) /\ Grown(o, q, t, t2, p.sessionVersion)
  PROVE  CurrentOf(p, u, q, Append(a, c), t2)
<1> DEFINE b == Append(a, c)
           l == Len(a) + 1
<1>1. /\ DOMAIN a \subseteq DOMAIN b /\ l \in DOMAIN b
      /\ \A i \in DOMAIN b : i \in Nat /\ i <= l
      /\ \A i \in DOMAIN b : i # l => i \in DOMAIN a
      /\ l \notin DOMAIN a
      /\ b[l] = c /\ \A i \in DOMAIN a : b[i] = a[i]
  BY RowGrown DEF QueueOf
<1> HIDE DEF b, l
<1>2. DOMAIN q = DOMAIN o /\ q[c] = e /\ \A i \in DOMAIN o : i # c => q[i] = o[i]
  BY DEF Puts
<1>3. \A i \in DOMAIN a : a[i] \in DOMAIN o /\ a[i] # c /\ o[a[i]].status # "done" /\ q[a[i]] = o[a[i]]
  BY <1>2 DEF QueueOf
<1>4. CASE Awaited(e, p)
  <2>1. CurrentOf(p, u, q, b, t2)
    BY <1>2, <1>4 DEF CurrentOf
  <2> QED BY <2>1 DEF b
<1>5. CASE Alerts(e, p)
  <2>1. CurrentOf(p, u, q, b, t2)
    BY <1>1, <1>2, <1>5 DEF CurrentOf
  <2> QED BY <2>1 DEF b
<1>6. CASE Displays(e, p) /\ Fits(Display(q, c), u, t2, q, p.sessionVersion)
  <2>1. /\ Displays(q[b[l]], p) /\ Fits(Display(q, b[l]), u, t2, q, p.sessionVersion)
        /\ \A j \in DOMAIN b : Displays(q[b[j]], p) => j <= l
    BY <1>1, <1>2, <1>6
  <2>2. CurrentOf(p, u, q, b, t2)
    BY <1>1, <2>1 DEF CurrentOf
  <2> QED BY <2>2 DEF b
<1>7. CASE ~Displays(e, p) /\ ~Awaited(o[c], p) /\ Grown(o, q, t, t2, p.sessionVersion)
  <2>1. \A j \in DOMAIN b : Displays(q[b[j]], p) => j \in DOMAIN a /\ q[b[j]] = o[a[j]] /\ b[j] = a[j]
    BY <1>1, <1>2, <1>3, <1>7
  <2>2. CASE \E d \in DOMAIN o : Awaited(o[d], p)
    <3>1. PICK d \in DOMAIN o : Awaited(o[d], p)
      BY <2>2
    <3>2. d # c
      BY <1>7, <3>1
    <3>3. CurrentOf(p, u, q, b, t2)
      BY <1>2, <3>1, <3>2 DEF CurrentOf
    <3> QED BY <3>3 DEF b
  <2>3. CASE p.notice
    <3>1. CurrentOf(p, u, q, b, t2)
      BY <2>3 DEF CurrentOf
    <3> QED BY <3>1 DEF b
  <2>4. CASE \E i \in DOMAIN a : Alerts(o[a[i]], p)
    <3>1. \E i \in DOMAIN b : Alerts(q[b[i]], p)
      BY <1>1, <1>3, <2>4
    <3>2. CurrentOf(p, u, q, b, t2)
      BY <3>1 DEF CurrentOf
    <3> QED BY <3>2 DEF b
  <2>5. ASSUME NEW i \in DOMAIN a, Displays(o[a[i]], p), Fits(Display(o, a[i]), u, t, o, p.sessionVersion),
               \A j \in DOMAIN a : Displays(o[a[j]], p) => j <= i
        PROVE  CurrentOf(p, u, q, b, t2)
    <3>1. b[i] = a[i] /\ i \in DOMAIN b /\ q[a[i]] = o[a[i]]
      BY <1>1, <1>3, <2>5
    <3>2. Display(q, a[i]) = Display(o, a[i])
      BY <1>3, <1>7, <2>5, DisplayStays DEF Grown
    <3>3. Fits(Display(q, b[i]), u, t2, q, p.sessionVersion)
      BY <1>7, <2>5, <3>1, <3>2, FitsStep
    <3>4. \A j \in DOMAIN b : Displays(q[b[j]], p) => j <= i
      BY <2>1, <2>5
    <3> QED BY <2>5, <3>1, <3>3, <3>4 DEF CurrentOf
  <2>6. CASE (\A j \in DOMAIN a : ~Displays(o[a[j]], p)) /\ Fits(p.shown, u, t, o, p.sessionVersion)
    <3>1. Fits(p.shown, u, t2, q, p.sessionVersion)
      BY <1>7, <2>6, FitsStep
    <3>2. \A j \in DOMAIN b : ~Displays(q[b[j]], p)
      BY <2>1, <2>6
    <3>3. CurrentOf(p, u, q, b, t2)
      BY <3>1, <3>2 DEF CurrentOf
    <3> QED BY <3>3 DEF b
  <2>7. ASSUME NEW i \in DOMAIN a, Displays(o[a[i]], p), Fits(Display(o, a[i]), u, t, o, p.sessionVersion),
               \A j \in DOMAIN a : Displays(o[a[j]], p) => j <= i
        PROVE  CurrentOf(p, u, q, Append(a, c), t2)
    BY <2>5, <2>7 DEF b
  <2> QED BY <2>2, <2>3, <2>4, <2>6, <2>7 DEF CurrentOf
<1> QED BY <1>4, <1>5, <1>6, <1>7

\* The answer of c arrives, and its handler goes on or returns.
LEMMA CurrentArrived ==
  ASSUME NEW p, NEW u, NEW o, NEW a, NEW t, CurrentOf(p, u, o, a, t), QueueOf(o, a), Tokens(o), Shaped(o),
         NEW q, NEW c \in DOMAIN o, NEW e, Puts(o, q, c, e), c = Head(a),
         o[c].status = "answered", e.status = "done", Grown(o, q, t, t, p.sessionVersion),
         ~(Asks(o[c], p) /\ o[c].ok),
         NEW p2, p2.current = p.current, p2.viewVersion = p.viewVersion, p2.sessionVersion = p.sessionVersion,
         p.notice \/ Alerts(o[c], p) => p2.notice,
         Displays(o[c], p) => /\ p2.shown.user = Display(o, c).user /\ p2.shown.messages = Display(o, c).messages
                              /\ p2.shown.unread = Display(o, c).unread,
         ~Displays(o[c], p) => p2.shown = p.shown
  PROVE  CurrentOf(p2, u, q, Tail(a), t)
<1> DEFINE b == Tail(a)
           v == p.sessionVersion
<1>1. 1 \in DOMAIN a /\ a[1] = c /\ \A i \in DOMAIN a : i # 1 => a[i] # c
  BY QueueShrinks DEF Perhaps
<1>2. /\ \A i \in DOMAIN b : i \in Nat \ {0} /\ i + 1 \in DOMAIN a /\ b[i] = a[i + 1]
      /\ \A i \in DOMAIN a : i \in Nat /\ (i # 1 => i - 1 \in DOMAIN b /\ b[i - 1] = a[i])
  BY <1>1, RowShrunk DEF QueueOf
<1> SUFFICES CurrentOf(p2, u, q, b, t)
  OBVIOUS
<1> HIDE DEF b
<1>3. DOMAIN q = DOMAIN o /\ \A i \in DOMAIN o : i # c => q[i] = o[i]
  BY DEF Puts
<1>4. \A i \in DOMAIN a : i # 1 => a[i] \in DOMAIN o /\ o[a[i]].status # "done" /\ q[a[i]] = o[a[i]]
  BY <1>1, <1>3 DEF QueueOf
<1>5. \A r : (Alerts(r, p2) <=> Alerts(r, p)) /\ (Displays(r, p2) <=> Displays(r, p))
             /\ (Awaited(r, p2) <=> Awaited(r, p))
  BY DEF Alerts, Displays, Awaited, Reads, Asks
<1>6. \A i \in DOMAIN b : i + 1 # 1 /\ i + 1 \in DOMAIN a /\ q[b[i]] = o[a[i + 1]]
  BY <1>2, <1>4
<1>7. CASE \E d \in DOMAIN o : Awaited(o[d], p)
  <2>1. PICK d \in DOMAIN o : Awaited(o[d], p)
    BY <1>7
  <2>2. d # c
    BY <2>1 DEF Awaited
  <2> QED BY <1>3, <1>5, <2>1, <2>2 DEF CurrentOf
<1>8. CASE p2.notice
  BY <1>8 DEF CurrentOf
<1>9. ASSUME NEW i \in DOMAIN a, Alerts(o[a[i]], p) PROVE CurrentOf(p2, u, q, b, t)
  <2>1. CASE i = 1
    BY <1>1, <1>9, <2>1 DEF CurrentOf
  <2>2. CASE i # 1
    <3>1. i - 1 \in DOMAIN b /\ Alerts(q[b[i - 1]], p2)
      BY <1>2, <1>4, <1>5, <1>9, <2>2
    <3> QED BY <3>1 DEF CurrentOf
  <2> QED BY <2>1, <2>2
<1>10. ASSUME Fits(p2.shown, u, t, o, v), \A j \in DOMAIN a : j # 1 => ~Displays(o[a[j]], p)
       PROVE  CurrentOf(p2, u, q, b, t)
  <2>1. Fits(p2.shown, u, t, q, v)
    BY <1>10, FitsStep
  <2>2. \A j \in DOMAIN b : ~Displays(q[b[j]], p2)
    BY <1>5, <1>6, <1>10
  <2> QED BY <2>1, <2>2 DEF CurrentOf
<1>11. ASSUME NEW i \in DOMAIN a, Displays(o[a[i]], p), Fits(Display(o, a[i]), u, t, o, v),
              \A j \in DOMAIN a : Displays(o[a[j]], p) => j <= i
       PROVE  CurrentOf(p2, u, q, b, t)
  <2>1. CASE i = 1
    <3>1. Fits(p2.shown, u, t, o, v)
      BY <1>1, <1>11, <2>1 DEF Fits
    <3>2. \A j \in DOMAIN a : j # 1 => ~Displays(o[a[j]], p)
      <4> SUFFICES ASSUME NEW j \in DOMAIN a, j # 1, Displays(o[a[j]], p) PROVE FALSE
        OBVIOUS
      <4>1. j - 1 \in Nat \ {0} /\ j \in Nat /\ j <= 1
        BY <1>2, <1>11, <2>1
      <4> QED BY <4>1
    <3> QED BY <1>10, <3>1, <3>2
  <2>2. CASE i # 1
    <3>1. PICK k : k = i - 1
      OBVIOUS
    <3>2. k \in DOMAIN b /\ b[k] = a[i] /\ i \in Nat
      BY <1>2, <2>2, <3>1
    <3>3. q[b[k]] = o[a[i]] /\ a[i] \in DOMAIN o /\ o[a[i]].status # "done" /\ q[a[i]] = o[a[i]]
      BY <1>4, <2>2, <3>2
    <3>4. Display(q, a[i]) = Display(o, a[i])
      BY <3>3, DisplayStays DEF Grown
    <3>5. Displays(q[b[k]], p2) /\ Fits(Display(q, b[k]), u, t, q, v)
      BY <1>5, <1>11, <3>2, <3>3, <3>4, FitsStep
    <3>6. \A j \in DOMAIN b : Displays(q[b[j]], p2) => j <= k
      <4> SUFFICES ASSUME NEW j \in DOMAIN b, Displays(q[b[j]], p2) PROVE j <= k
        OBVIOUS
      <4>1. j + 1 <= i /\ j \in Nat
        BY <1>2, <1>5, <1>6, <1>11
      <4> QED BY <3>1, <3>2, <4>1
    <3> QED BY <3>2, <3>5, <3>6 DEF CurrentOf
  <2> QED BY <2>1, <2>2
<1>12. CASE (\A j \in DOMAIN a : ~Displays(o[a[j]], p)) /\ Fits(p.shown, u, t, o, v)
  <2>1. \A j \in DOMAIN a : ~Displays(o[a[j]], p)
    BY <1>12
  <2>2. p2.shown = p.shown
    BY <1>1, <2>1
  <2> QED BY <1>10, <1>12, <2>1, <2>2
<1>13. CASE p.notice
  BY <1>8, <1>13
<1> QED BY <1>7, <1>9, <1>11, <1>12, <1>13 DEF CurrentOf

-----------------------------------------------------------------------------
(* The invariant, and the steps of the user.                               *)

Current ==
  inOrder /\ page.chosen /\ cookie # None =>
    CurrentOf(page, UserOf(cookie), ops, answers, Kept(store, gone, UserOf(cookie), page.current))

UInv == AnswersWait /\ KeepsTrack /\ Current

LEMMA CurrentPrimed ==
  Current' <=> (inOrder' /\ page'.chosen /\ cookie' # None =>
                  CurrentOf(page', ops'[cookie'].user, ops', answers', Kept(store', gone', ops'[cookie'].user, page'.current)))
BY DEF Current, UserOf, CurrentOf, Awaited, Alerts, Displays, Reads, Asks, Fits, Display, Forgone, Kept

\* Whose list is displayed.
LEMMA Whose ==
  ASSUME WInv, KeepsTrack
  PROVE  /\ Tokens(ops)
         /\ page.chosen /\ cookie # None =>
              /\ cookie \in DOMAIN ops /\ UserOf(cookie) = ops[cookie].user /\ ops[cookie].user \in Users
              /\ page.current \in Spaces /\ Submitted(Kept(store, gone, ops[cookie].user, page.current), ops)
<1>1. Tokens(ops)
  BY DEF WInv, ViewOf, Tokens
<1>2. ASSUME page.chosen, cookie # None
      PROVE  /\ cookie \in DOMAIN ops /\ UserOf(cookie) = ops[cookie].user /\ ops[cookie].user \in Users
             /\ page.current \in Spaces
  BY <1>2, WShaped DEF KeepsTrack, AccountsOf, UserOf, Optional
<1>3. ASSUME page.chosen, cookie # None
      PROVE  Submitted(Kept(store, gone, ops[cookie].user, page.current), ops)
  BY <1>2, <1>3 DEF KeepsTrack, StoredOf, Submitted, Kept
<1> QED BY <1>1, <1>2, <1>3

\* An operation begins, and the page displays what it did.
LEMMA AskStep ==
  ASSUME WInv, UInv, UNCHANGED <<page, cookie, answers, inOrder, serverVars>>,
         NEW e, ops' = Append(ops, e), DOMAIN e = OpFields, Fresh(e)
  PROVE  UInv'
<1> DEFINE n == Len(ops) + 1
<1>1. Puts(ops, ops', n, e) /\ n \notin DOMAIN ops /\ Shaped(ops)
  BY WShaped, AppendPuts, ShapedDomain
<1>2. KinOf(ops, ops') /\ SteadyOf(ops, ops')
  BY <1>1, PutsKin DEF Perhaps
<1> HIDE DEF n
<1>3. AnswersWait'
  <2>1. inOrder => QueueOf(ops', answers)
    BY <1>1, QueueStays DEF UInv, AnswersWait, Perhaps, Fresh
  <2> QED BY <2>1, AnswersWaitPrimed
<1>4. KeepsTrack'
  <2>1. page'.chosen => page'.current # None
    BY DEF UInv, KeepsTrack, AccountsOf
  <2> QED BY <1>2, <2>1, TrackStep DEF UInv, serverVars
<1>5. ASSUME inOrder, page.chosen, cookie # None
      PROVE  CurrentOf(page, ops'[cookie].user, ops', answers, Kept(store, gone, ops'[cookie].user, page.current))
  <2> DEFINE t == Kept(store, gone, ops[cookie].user, page.current)
  <2>1. /\ Tokens(ops) /\ cookie \in DOMAIN ops /\ UserOf(cookie) = ops[cookie].user /\ Submitted(t, ops)
    BY <1>5, Whose DEF UInv
  <2>2. CurrentOf(page, ops[cookie].user, ops, answers, t) /\ QueueOf(ops, answers)
    BY <1>5, <2>1 DEF UInv, Current, AnswersWait
  <2>3. ops'[cookie].user = ops[cookie].user
    BY <1>2, <2>1 DEF KinOf, Kin
  <2> HIDE DEF t
  <2>4. Grown(ops, ops', t, t, page.sessionVersion)
    BY <1>2, <2>1, ListStays
  <2>5. \A c \in DOMAIN ops : ops'[c] = ops[c]
    BY <1>1 DEF Puts
  <2>6. CurrentOf(page, ops[cookie].user, ops', answers, t)
    BY <2>1, <2>2, <2>4, <2>5, CurrentStays
  <2> QED BY <2>3, <2>6 DEF t
<1>6. Current'
  BY <1>5, CurrentPrimed DEF serverVars
<1>7. UInv' <=> AnswersWait' /\ KeepsTrack' /\ Current'
  BY DEF UInv
<1> QED BY <1>3, <1>4, <1>6, <1>7

\* An operation begins, or goes on, that the transcript will show.
LEMMA AwaitStep ==
  ASSUME WInv, UInv, UNCHANGED <<inOrder, serverVars>>, cookie' \in {None, cookie},
         NEW a, Perhaps(ops, a), NEW n, NEW e, Puts(a, ops', n, e),
         IF n \in DOMAIN ops THEN Kin(ops[n], e) /\ Steady(ops[n], e) ELSE Fresh(e),
         inOrder => QueueOf(ops', answers'), Awaited(e, page'), page'.chosen => page'.current # None
  PROVE  UInv'
<1>1. KinOf(ops, ops') /\ SteadyOf(ops, ops')
  BY WShaped, PutsKin
<1>2. AnswersWait'
  BY AnswersWaitPrimed
<1>3. KeepsTrack'
  BY <1>1, TrackStep DEF UInv, serverVars
<1>4. n \in DOMAIN ops' /\ Awaited(ops'[n], page')
  BY DEF Puts
<1>5. Current'
  BY <1>4, CurrentPrimed DEF CurrentOf
<1>6. UInv' <=> AnswersWait' /\ KeepsTrack' /\ Current'
  BY DEF UInv
<1> QED BY <1>2, <1>3, <1>5, <1>6

\* What a click asks for.
LEMMA RequestFresh ==
  ASSUME NEW kind, NEW token
  PROVE  LET r == Request(kind, token)
         IN  /\ DOMAIN r = OpFields /\ r.kind = kind /\ r.status = "sent" /\ r.token = token /\ r.user = None
             /\ \A u : LET e == [r EXCEPT !.user = u]
                       IN  DOMAIN e = OpFields /\ e.kind = kind /\ e.status = "sent" /\ e.user = u
             /\ \A s : LET e == [r EXCEPT !.space = s]
                       IN  DOMAIN e = OpFields /\ e.kind = kind /\ e.status = "sent" /\ e.space = s
             /\ \A s, v : LET e == [r EXCEPT !.space = s, !.version = v]
                          IN  /\ DOMAIN e = OpFields /\ e.kind = kind /\ e.status = "sent" /\ e.user = None
                              /\ e.space = s /\ e.version = v
BY DEF Request, OpFields

LEMMA ClickSpaceTracks == ASSUME WInv, UInv, NEW s \in Spaces, ClickSpace(s) PROVE UInv'
<1> DEFINE a == Aborted(ops)
           n == Len(a) + 1
           r == Request("select", cookie)
           e == [r EXCEPT !.space = s, !.version = page'.viewVersion]
<1>1. /\ page' = Selected(page, s) /\ ops' = Append(a, e)
      /\ UNCHANGED <<cookie, answers, inOrder, serverVars>>
  BY DEF ClickSpace, Begin, SelectRequest
<1>2. DOMAIN e = OpFields /\ e.kind = "select" /\ e.status = "sent" /\ e.space = s /\ e.version = page'.viewVersion
  BY RequestFresh
<1> HIDE DEF e
<1>3. Perhaps(ops, a) /\ Shaped(a) /\ DOMAIN a = DOMAIN ops /\ Shaped(ops)
  BY WShaped, AbortedIs DEF Perhaps, Carries
<1> HIDE DEF a
<1>4. Puts(a, ops', n, e) /\ n \notin DOMAIN ops
  BY <1>1, <1>2, <1>3, AppendPuts, ShapedDomain
<1> HIDE DEF n
<1>5. page'.current = s /\ s # None
  BY <1>1, WShaped, NoneAssumption DEF Selected, PageFields
<1>6. Fresh(e) /\ Awaited(e, page')
  BY <1>2, <1>5 DEF Fresh, Awaited, Reads
<1>7. inOrder => QueueOf(ops', answers')
  BY <1>1, <1>2, <1>3, <1>4, QueueStays DEF UInv, AnswersWait
<1> QED BY <1>1, <1>3, <1>4, <1>5, <1>6, <1>7, AwaitStep

LEMMA ClickSendTracks == ASSUME WInv, UInv, ClickSend PROVE UInv'
<1> DEFINE n == Len(ops) + 1
           r == Request("submit", cookie)
           e == [r EXCEPT !.space = page.current, !.version = page.sessionVersion]
<1>1. /\ page' = Pending([page EXCEPT !.notice = FALSE], page.current, n) /\ ops' = Append(ops, e)
      /\ UNCHANGED <<cookie, answers, inOrder, serverVars>> /\ page.current # None
  BY DEF ClickSend, Begin
<1>2. /\ DOMAIN e = OpFields /\ e.kind = "submit" /\ e.status = "sent" /\ e.space = page.current
      /\ e.version = page.sessionVersion
  BY RequestFresh
<1> HIDE DEF e
<1>3. Perhaps(ops, ops) /\ Puts(ops, ops', n, e) /\ n \notin DOMAIN ops /\ Shaped(ops)
  BY <1>1, <1>2, WShaped, AppendPuts, ShapedDomain DEF Perhaps
<1> HIDE DEF n
<1>4. page'.current = page.current /\ page'.sessionVersion = page.sessionVersion
  BY <1>1, WShaped DEF Pending, PageFields
<1>5. Fresh(e) /\ Awaited(e, page')
  BY <1>2, <1>4 DEF Fresh, Awaited, Asks
<1>6. inOrder => QueueOf(ops', answers')
  BY <1>1, <1>2, <1>3, QueueStays DEF UInv, AnswersWait
<1> QED BY <1>1, <1>3, <1>4, <1>5, <1>6, AwaitStep

LEMMA UserTracks == ASSUME WInv, UInv, User PROVE UInv'
<1>1. ASSUME NEW u \in Users, ClickLogin(u) PROVE UInv'
  <2> DEFINE r == Request("login", cookie)
             e == [r EXCEPT !.user = u]
  <2>1. DOMAIN e = OpFields /\ Fresh(e)
    BY RequestFresh DEF Fresh
  <2> HIDE DEF e
  <2>2. ops' = Append(ops, e)
    BY <1>1 DEF ClickLogin, e
  <2> QED BY <1>1, <2>1, <2>2, AskStep DEF ClickLogin, Begin
<1>2. ASSUME ClickClear PROVE UInv'
  <2> DEFINE r == Request("clear", cookie)
             e == [r EXCEPT !.space = page.current]
  <2>1. page.current \in Spaces
    BY <1>2, WShaped DEF ClickClear, Optional
  <2>2. DOMAIN e = OpFields /\ Fresh(e)
    BY <2>1, RequestFresh DEF Fresh
  <2> HIDE DEF e
  <2>3. ops' = Append(ops, e)
    BY <1>2 DEF ClickClear, e
  <2> QED BY <1>2, <2>2, <2>3, AskStep DEF ClickClear, Begin
<1>3. ASSUME ClickLogout PROVE UInv'
  <2> DEFINE e == Request("logout", cookie)
  <2>1. DOMAIN e = OpFields /\ Fresh(e)
    BY RequestFresh DEF Fresh
  <2> HIDE DEF e
  <2>2. ops' = Append(ops, e)
    BY <1>3 DEF ClickLogout, e
  <2> QED BY <1>3, <2>1, <2>2, AskStep DEF ClickLogout, Begin
<1> QED BY <1>1, <1>2, <1>3, ClickSpaceTracks, ClickSendTracks DEF User

-----------------------------------------------------------------------------
(* The steps of the server.                                                *)

LEMMA AnswerTracks ==
  ASSUME WInv, UInv, NEW c \in DOMAIN ops, NEW rec, Answer(c, rec), DOMAIN rec = OpFields,
         ops[c].status = "sent", rec.status = "answered", rec.user = ops[c].user, KeepsTrack',
         page.chosen /\ cookie # None =>
           LET u  == ops[cookie].user
               t  == Kept(store, gone, u, page.current)
               t2 == Kept(store', gone', u, page.current)
           IN  \/ Awaited(rec, page)
               \/ Alerts(rec, page)
               \/ Displays(rec, page) /\ Fits(Display(ops', c), u, t2, ops', page.sessionVersion)
               \/ /\ ~Displays(rec, page) /\ ~Awaited(ops[c], page)
                  /\ Grown(ops, ops', t, t2, page.sessionVersion)
  PROVE  UInv'
<1>1. /\ ops' = [ops EXCEPT ![c] = rec] /\ UNCHANGED <<page, cookie, inOrder>>
      /\ answers' = IF inOrder THEN Append(answers, c) ELSE answers
  BY DEF Answer
<1>2. Puts(ops, ops', c, rec)
  BY <1>1, WShaped, ChangePuts
<1>3. AnswersWait'
  <2>1. inOrder => QueueOf(ops', Append(answers, c))
    BY <1>2, QueueGrows DEF UInv, AnswersWait
  <2> QED BY <1>1, <2>1, AnswersWaitPrimed
<1>4. ASSUME inOrder, page.chosen, cookie # None
      PROVE  CurrentOf(page, ops'[cookie].user, ops', Append(answers, c), Kept(store', gone', ops'[cookie].user, page.current))
  <2> DEFINE u  == ops[cookie].user
             t  == Kept(store, gone, u, page.current)
             t2 == Kept(store', gone', u, page.current)
  <2>1. Tokens(ops) /\ cookie \in DOMAIN ops /\ UserOf(cookie) = u
    BY <1>4, Whose DEF UInv
  <2>2. CurrentOf(page, u, ops, answers, t) /\ QueueOf(ops, answers)
    BY <1>4, <2>1 DEF UInv, Current, AnswersWait
  <2>3. ops'[cookie].user = u
    BY <1>2, <2>1 DEF Puts
  <2>4. \/ Awaited(rec, page)
        \/ Alerts(rec, page)
        \/ Displays(rec, page) /\ Fits(Display(ops', c), u, t2, ops', page.sessionVersion)
        \/ /\ ~Displays(rec, page) /\ ~Awaited(ops[c], page)
           /\ Grown(ops, ops', t, t2, page.sessionVersion)
    BY <1>4
  <2> HIDE DEF u, t, t2
  <2>5. CurrentOf(page, u, ops', Append(answers, c), t2)
    BY <1>2, <2>1, <2>2, <2>4, CurrentAnswered
  <2> QED BY <2>3, <2>5 DEF t2
<1>5. Current'
  BY <1>1, <1>4, CurrentPrimed
<1>6. UInv' <=> AnswersWait' /\ KeepsTrack' /\ Current'
  BY DEF UInv
<1> QED BY <1>3, <1>5, <1>6

\* An answer is like the operation, and none but a success makes a submission succeed.
LEMMA AnswerKin ==
  ASSUME WInv, NEW c \in DOMAIN ops, NEW rec, Answer(c, rec), DOMAIN rec = OpFields,
         ops[c].status = "sent", rec.status = "answered", rec.user = ops[c].user,
         rec.kind = ops[c].kind, rec.space = ops[c].space, rec.version = ops[c].version
  PROVE  /\ Puts(ops, ops', c, rec) /\ KinOf(ops, ops')
         /\ (rec.kind = "submit" => ~rec.ok) => SteadyOf(ops, ops')
<1>1. Puts(ops, ops', c, rec)
  BY WShaped, ChangePuts DEF Answer
<1>2. Kin(ops[c], rec) /\ ((rec.kind = "submit" => ~rec.ok) => Steady(ops[c], rec))
  BY DEF Kin, Steady
<1>3. \A i \in DOMAIN ops : Kin(ops[i], ops[i]) /\ Steady(ops[i], ops[i])
  BY DEF Kin, Steady
<1> QED BY <1>1, <1>2, <1>3 DEF Puts, KinOf, SteadyOf

\* An answer that displays nothing.
LEMMA QuietAnswer ==
  ASSUME WInv, UInv, NEW c \in DOMAIN ops, NEW rec, Answer(c, rec), DOMAIN rec = OpFields,
         ops[c].status = "sent", rec.status = "answered", rec.user = ops[c].user,
         rec.kind = ops[c].kind, rec.space = ops[c].space, rec.version = ops[c].version,
         ~rec.ok \/ rec.kind \notin {"select", "reload", "submit", "clear"},
         UNCHANGED <<store, working, gone>>,
         \A y \in sessions' : y \in sessions \/ (y \in DOMAIN ops /\ ops[y].kind = "login")
  PROVE  UInv'
<1>1. Puts(ops, ops', c, rec) /\ KinOf(ops, ops') /\ SteadyOf(ops, ops')
  BY AnswerKin
<1>2. KeepsTrack'
  <2>1. page'.chosen => page'.current # None
    BY DEF UInv, KeepsTrack, AccountsOf, Answer
  <2>2. cookie' \in {None, cookie}
    BY DEF Answer
  <2> QED BY <1>1, <2>1, <2>2, TrackStep DEF UInv
<1>3. ASSUME page.chosen, cookie # None
      PROVE  LET u  == ops[cookie].user
                 t  == Kept(store, gone, u, page.current)
                 t2 == Kept(store', gone', u, page.current)
             IN  \/ Awaited(rec, page)
                 \/ Alerts(rec, page)
                 \/ Displays(rec, page) /\ Fits(Display(ops', c), u, t2, ops', page.sessionVersion)
                 \/ /\ ~Displays(rec, page) /\ ~Awaited(ops[c], page)
                    /\ Grown(ops, ops', t, t2, page.sessionVersion)
  <2> DEFINE t == Kept(store, gone, ops[cookie].user, page.current)
  <2>1. Submitted(t, ops)
    BY <1>3, Whose DEF UInv
  <2> HIDE DEF t
  <2>2. Grown(ops, ops', t, t, page.sessionVersion)
    BY <1>1, <2>1, ListStays
  <2>3. Alerts(rec, page) \/ (~Displays(rec, page) /\ ~Awaited(ops[c], page))
    BY DEF Alerts, Displays, Awaited, Reads, Asks
  <2> QED BY <2>2, <2>3 DEF t
<1> QED BY <1>2, <1>3, AnswerTracks

LEMMA ServeTracks ==
  ASSUME WInv, UInv, NEW c \in DOMAIN ops, Fail(c) \/ Reject(c) \/ ServeSession(c) \/ Refuse(c)
  PROVE  UInv'
<1>1. ops[c].status = "sent"
  BY DEF Fail, Reject, ServeSession, Refuse, Serving
<1>2. CASE Fail(c) \/ Refuse(c)
  <2>1. Answer(c, Answered(c, FALSE)) /\ UNCHANGED serverVars
    BY <1>2 DEF Fail, Refuse
  <2>2. PICK ok, rec : ok = FALSE /\ rec = Answered(c, ok)
    OBVIOUS
  <2>3. /\ DOMAIN rec = OpFields /\ rec.status = "answered" /\ ~rec.ok /\ rec.user = ops[c].user
        /\ rec.kind = ops[c].kind /\ rec.space = ops[c].space /\ rec.version = ops[c].version
    BY <1>1, <2>2, WShaped DEF Answered, Shaped, OpFields
  <2> QED BY <1>1, <2>1, <2>2, <2>3, QuietAnswer DEF serverVars
<1>3. CASE Reject(c)
  <2>1. PICK x : Answer(c, [Answered(c, FALSE) EXCEPT !.expired = x]) /\ UNCHANGED serverVars
    BY <1>3 DEF Reject
  <2>2. PICK ok, rec : ok = FALSE /\ rec = [Answered(c, ok) EXCEPT !.expired = x]
    OBVIOUS
  <2>3. /\ DOMAIN rec = OpFields /\ rec.status = "answered" /\ ~rec.ok /\ rec.user = ops[c].user
        /\ rec.kind = ops[c].kind /\ rec.space = ops[c].space /\ rec.version = ops[c].version
    BY <1>1, <2>2, WShaped DEF Answered, Shaped, OpFields
  <2> QED BY <1>1, <2>1, <2>2, <2>3, QuietAnswer DEF serverVars
<1>4. CASE ServeSession(c)
  <2>1. PICK heard \in BOOLEAN : Answer(c, Answered(c, heard))
    BY <1>4 DEF ServeSession
  <2>2. PICK rec : rec = Answered(c, heard)
    OBVIOUS
  <2>3. /\ DOMAIN rec = OpFields /\ rec.status = "answered" /\ rec.user = ops[c].user
        /\ rec.kind = ops[c].kind /\ rec.space = ops[c].space /\ rec.version = ops[c].version
    BY <1>1, <2>2, WShaped DEF Answered, Shaped, OpFields
  <2>4. /\ ops[c].kind \in {"login", "logout"} /\ UNCHANGED <<store, working, gone>>
        /\ \A y \in sessions' : y \in sessions \/ (y \in DOMAIN ops /\ ops[y].kind = "login")
    BY <1>4 DEF ServeSession
  <2> QED BY <1>1, <2>1, <2>2, <2>3, <2>4, QuietAnswer
<1> QED BY <1>2, <1>3, <1>4

LEMMA ServeReadTracks == ASSUME WInv, UInv, NEW c \in DOMAIN ops, ServeRead(c) PROVE UInv'
<1>1. ops[c].status = "sent" /\ UNCHANGED serverVars
  BY DEF ServeRead, Serving
<1>2. CASE ops[c].kind \in {"boot", "open"} /\ Answer(c, Answered(c, TRUE))
  <2>0. PICK ok \in BOOLEAN : ok = TRUE
    OBVIOUS
  <2>1. PICK rec : rec = Answered(c, ok)
    OBVIOUS
  <2>2. /\ DOMAIN rec = OpFields /\ rec.status = "answered" /\ rec.user = ops[c].user
        /\ rec.kind = ops[c].kind /\ rec.space = ops[c].space /\ rec.version = ops[c].version
    BY <1>1, <2>1, WShaped DEF Answered, Shaped, OpFields
  <2> QED BY <1>1, <1>2, <2>0, <2>1, <2>2, QuietAnswer DEF serverVars
<1>3. CASE /\ ops[c].kind \in {"select", "reload"}
           /\ Answer(c, [Answered(c, TRUE) EXCEPT !.data = Listed(UserOf(ops[c].token), ops[c].space)])
  <2>1. PICK x : x = Listed(UserOf(ops[c].token), ops[c].space)
    OBVIOUS
  <2>8. PICK ok \in BOOLEAN : ok = TRUE
    OBVIOUS
  <2>2. PICK rec : rec = [Answered(c, ok) EXCEPT !.data = x]
    OBVIOUS
  <2>3. /\ DOMAIN rec = OpFields /\ rec.status = "answered" /\ rec.ok = ok /\ rec.user = ops[c].user
        /\ rec.kind = ops[c].kind /\ rec.space = ops[c].space /\ rec.version = ops[c].version
        /\ rec.token = ops[c].token
    BY <1>1, <2>2, WShaped DEF Answered, Shaped, OpFields
  <2>9. rec.data = x
    BY <2>2, WShaped DEF Answered, Shaped, OpFields
  <2>4. Answer(c, rec)
    BY <1>3, <2>8, <2>1, <2>2
  <2>5. Puts(ops, ops', c, rec) /\ KinOf(ops, ops') /\ SteadyOf(ops, ops')
    BY <1>1, <1>3, <2>3, <2>4, AnswerKin
  <2>6. KeepsTrack'
    <3>1. (page'.chosen => page'.current # None) /\ cookie' \in {None, cookie}
      BY <2>4 DEF UInv, KeepsTrack, AccountsOf, Answer
    <3> QED BY <1>1, <2>5, <3>1, TrackStep DEF UInv, serverVars
  <2>7. ASSUME page.chosen, cookie # None
        PROVE  LET u  == ops[cookie].user
                   t  == Kept(store, gone, u, page.current)
                   t2 == Kept(store', gone', u, page.current)
               IN  \/ Awaited(rec, page)
                   \/ Alerts(rec, page)
                   \/ Displays(rec, page) /\ Fits(Display(ops', c), u, t2, ops', page.sessionVersion)
                   \/ /\ ~Displays(rec, page) /\ ~Awaited(ops[c], page)
                      /\ Grown(ops, ops', t, t2, page.sessionVersion)
    <3> DEFINE t == Kept(store, gone, ops[cookie].user, page.current)
    <3>1. cookie \in DOMAIN ops /\ UserOf(cookie) = ops[cookie].user /\ Submitted(t, ops)
      BY <2>7, Whose DEF UInv
    <3>2. store' = store /\ gone' = gone
      BY <1>1 DEF serverVars
    <3>3. CASE Reads(ops[c], page)
      <4>1. ops[c].token = cookie /\ ops[c].space = page.current
        BY <1>1, <1>3, <2>7, <3>3 DEF WInv, ViewOf, Reads
      <4>2. x = t.now
        BY <2>1, <3>1, <4>1 DEF Listed, Kept
      <4>3. Display(ops', c).messages = t.now
        BY <1>3, <2>3, <2>9, <2>5, <4>2 DEF Display, Puts
      <4>4. Displays(rec, page)
        BY <2>8, <2>3, <3>3 DEF Displays, Reads
      <4> HIDE DEF t
      <4>5. Fits(Display(ops', c), ops[cookie].user, t, ops', page.sessionVersion)
        BY <4>3 DEF Fits
      <4> QED BY <3>2, <4>4, <4>5 DEF t
    <3>4. CASE ~Reads(ops[c], page)
      <4>1. ~Displays(rec, page) /\ ~Awaited(ops[c], page)
        BY <1>1, <1>3, <2>3, <3>4 DEF Displays, Awaited, Reads, Asks
      <4> HIDE DEF t
      <4>2. Grown(ops, ops', t, t, page.sessionVersion)
        BY <2>5, <3>1, ListStays
      <4> QED BY <3>2, <4>1, <4>2 DEF t
    <3> QED BY <3>3, <3>4
  <2> QED BY <1>1, <2>3, <2>4, <2>6, <2>7, AnswerTracks
<1> QED BY <1>2, <1>3 DEF ServeRead

LEMMA ServeClearTracks == ASSUME WInv, UInv, NEW c \in DOMAIN ops, ServeClear(c) PROVE UInv'
<1> DEFINE k == ops[c].token
           w == ops[k].user
           s == ops[c].space
<1>1. PICK heard \in BOOLEAN : Answer(c, Answered(c, heard))
  BY DEF ServeClear
<1>2. /\ ops[c].status = "sent" /\ ops[c].kind = "clear" /\ k \in sessions
      /\ store' = [store EXCEPT ![UserOf(k)][s] = {}] /\ UNCHANGED <<sessions, working, gone>>
  BY DEF ServeClear, Serving, Cleared
<1>3. k \in DOMAIN ops /\ w \in Users /\ s \in Spaces /\ k # None /\ UserOf(k) = w
  BY <1>2, WShaped, ShapedDomain DEF UInv, KeepsTrack, AccountsOf, UserOf
<1> HIDE DEF k, w, s
<1>4. PICK rec : rec = Answered(c, heard)
  OBVIOUS
<1>5. /\ DOMAIN rec = OpFields /\ rec.status = "answered" /\ rec.user = ops[c].user
      /\ rec.kind = ops[c].kind /\ rec.space = ops[c].space /\ rec.version = ops[c].version
      /\ rec.token = ops[c].token
  BY <1>2, <1>4, WShaped DEF Answered, Shaped, OpFields
<1>6. Answer(c, rec)
  BY <1>1, <1>4
<1>7. Puts(ops, ops', c, rec) /\ KinOf(ops, ops') /\ SteadyOf(ops, ops')
  BY <1>2, <1>5, <1>6, AnswerKin
<1>8. /\ StoredOf(store', ops)
      /\ \A v \in Users, z \in Spaces : store'[v][z] = IF v = w /\ z = s THEN {} ELSE store[v][z]
  <2>1. StoredOf(store, ops) /\ store' = [store EXCEPT ![w][s] = {}]
    BY <1>2, <1>3 DEF UInv, KeepsTrack
  <2>2. store \in [Users -> [Spaces -> SUBSET Messages]]
    BY <2>1 DEF StoredOf
  <2>3. /\ store' \in [Users -> [Spaces -> SUBSET Messages]]
        /\ \A v \in Users, z \in Spaces : store'[v][z] = IF v = w /\ z = s THEN {} ELSE store[v][z]
    BY <1>3, <2>1, <2>2
  <2>4. \A v \in Users, z \in Spaces : \A m \in store'[v][z] : m \in store[v][z]
    BY <2>3
  <2>5. StoredOf(store', ops)
    BY <2>1, <2>3, <2>4 DEF StoredOf
  <2> QED BY <2>3, <2>5
<1>9. KeepsTrack'
  <2>1. page' = page /\ cookie' = cookie
    BY <1>6 DEF Answer
  <2>2. AccountsOf(page, cookie, ops', sessions)
    <3>1. AccountsOf(page, cookie, ops, sessions) /\ (page.chosen => page.current # None)
      BY DEF UInv, KeepsTrack, AccountsOf
    <3> QED BY <1>7, <3>1, AccountsStep
  <2>3. HandledOf(working, ops')
    <3>1. HandledOf(working, ops)
      BY DEF UInv, KeepsTrack
    <3>2. \A u \in Users, z \in Spaces : working[u][z] # None => Steady(ops[working[u][z]], ops'[working[u][z]])
      BY <1>7, <3>1 DEF HandledOf, Handles, SteadyOf
    <3> QED BY <1>7, <3>1, <3>2, HandledStep
  <2>4. StoredOf(store', ops')
    BY <1>7, <1>8, StoredStep
  <2> QED BY <1>2, <2>1, <2>2, <2>3, <2>4, KeepsTrackPrimed
<1>10. ASSUME page.chosen, cookie # None
       PROVE  LET u  == ops[cookie].user
                  t  == Kept(store, gone, u, page.current)
                  t2 == Kept(store', gone', u, page.current)
              IN  \/ Awaited(rec, page)
                  \/ Alerts(rec, page)
                  \/ Displays(rec, page) /\ Fits(Display(ops', c), u, t2, ops', page.sessionVersion)
                  \/ /\ ~Displays(rec, page) /\ ~Awaited(ops[c], page)
                     /\ Grown(ops, ops', t, t2, page.sessionVersion)
  <2> DEFINE u  == ops[cookie].user
             t  == Kept(store, gone, u, page.current)
             t2 == Kept(store', gone', u, page.current)
  <2>1. u \in Users /\ page.current \in Spaces /\ Submitted(t, ops)
    BY <1>10, Whose DEF UInv
  <2>2. IF u = w /\ page.current = s THEN t2.now = {} ELSE t2 = t
    BY <1>2, <1>8, <2>1 DEF Kept
  <2> HIDE DEF u, t, t2
  <2>3. CASE ~rec.ok
    <3>1. Alerts(rec, page)
      BY <1>2, <1>5, <2>3 DEF Alerts
    <3> QED BY <3>1
  <2>4. CASE rec.ok /\ page.current = s
    <3>1. Displays(rec, page)
      BY <1>2, <1>5, <2>4 DEF Displays, s
    <3>2. Display(ops', c).messages = {}
      BY <1>2, <1>5, <1>7 DEF Display, Puts
    <3>3. Display(ops', c).user = w
      <4>1. ops'[c].token = k /\ ops'[k].user = w
        BY <1>3, <1>5, <1>7 DEF Puts, KinOf, Kin, k, w
      <4> QED BY <1>3, <4>1 DEF Display
    <3>4. u = w => t2.now = {}
      BY <2>2, <2>4
    <3>5. w # None
      BY <1>3, NoneAssumption
    <3>6. Fits(Display(ops', c), u, t2, ops', page.sessionVersion)
      BY <3>2, <3>3, <3>4, <3>5 DEF Fits
    <3> QED BY <3>1, <3>6 DEF u, t, t2
  <2>5. CASE page.current # s
    <3>1. ~Displays(rec, page) /\ ~Awaited(ops[c], page)
      BY <1>2, <1>5, <2>5 DEF Displays, Awaited, Reads, Asks, s
    <3>2. Grown(ops, ops', t, t2, page.sessionVersion)
      BY <1>7, <2>1, <2>2, <2>5, ListStays
    <3> QED BY <3>1, <3>2 DEF u, t, t2
  <2> QED BY <2>3, <2>4, <2>5
<1> QED BY <1>2, <1>5, <1>6, <1>9, <1>10, AnswerTracks

LEMMA ServeSubmitTracks == ASSUME WInv, UInv, NEW c \in DOMAIN ops, ServeSubmit(c) PROVE UInv'
<1> DEFINE k == ops[c].token
           w == ops[k].user
           s == ops[c].space
           m0 == <<c, "asked">>
<1>1. /\ ops[c].status = "sent" /\ ops[c].kind = "submit" /\ k \in sessions
      /\ store' = [store EXCEPT ![UserOf(k)][s] = @ \union {m0}]
      /\ working' = [working EXCEPT ![UserOf(k)][s] = c]
      /\ UNCHANGED <<page, cookie, ops, inOrder, answers, sessions, gone>>
  BY DEF ServeSubmit, Serving
<1>2. /\ k \in DOMAIN ops /\ w \in Users /\ s \in Spaces /\ k # None /\ UserOf(k) = w /\ c \in Ops /\ c # None
      /\ Handles(c, w, s, ops)
  <2>1. s \in Spaces
    BY <1>1 DEF WInv, SubmitOf, Submits
  <2>2. k \in DOMAIN ops /\ w \in Users /\ k # None /\ UserOf(k) = w /\ c \in Ops /\ c # None
    BY <1>1, WShaped, ShapedDomain DEF UInv, KeepsTrack, AccountsOf, UserOf
  <2> QED BY <1>1, <2>1, <2>2 DEF Handles
<1> HIDE DEF k, w, s
<1>3. m0 \in Messages /\ m0[1] = c
  BY <1>2 DEF Messages
<1> HIDE DEF m0
<1>4. PICK l : l = store[w][s] \union {m0}
  OBVIOUS
<1>5. store \in [Users -> [Spaces -> SUBSET Messages]]
  BY DEF UInv, KeepsTrack, StoredOf
<1>6. store' = [store EXCEPT ![w][s] = l]
  BY <1>1, <1>2, <1>4, <1>5
<1>7. /\ StoredOf(store', ops)
      /\ \A v \in Users, z \in Spaces : store'[v][z] = IF v = w /\ z = s THEN l ELSE store[v][z]
  <2>1. StoredOf(store, ops)
    BY DEF UInv, KeepsTrack
  <2>2. /\ store' \in [Users -> [Spaces -> SUBSET Messages]]
        /\ \A v \in Users, z \in Spaces : store'[v][z] = IF v = w /\ z = s THEN l ELSE store[v][z]
    BY <1>2, <1>3, <1>4, <1>5, <1>6
  <2>3. \A m \in l : m \in store[w][s] \/ (ops[m[1]].kind \in {"submit", "reload"} /\ m[1] = c /\ ops[c].space = s)
    BY <1>1, <1>3, <1>4 DEF s
  <2> QED BY <2>1, <2>2, <2>3 DEF StoredOf
<1>8. HandledOf(working', ops)
  <2>1. HandledOf(working, ops)
    BY DEF UInv, KeepsTrack
  <2>2. working \in [Users -> [Spaces -> Optional(Ops)]]
    BY <2>1 DEF HandledOf
  <2>3. /\ working' \in [Users -> [Spaces -> Optional(Ops)]]
        /\ \A v \in Users, z \in Spaces : working'[v][z] = IF v = w /\ z = s THEN c ELSE working[v][z]
    BY <1>1, <1>2, <2>2 DEF Optional
  <2> QED BY <1>2, <2>1, <2>3 DEF HandledOf
<1>9. KeepsTrack'
  BY <1>1, <1>7, <1>8, KeepsTrackPrimed DEF UInv, KeepsTrack
<1>10. ASSUME inOrder, page.chosen, cookie # None
       PROVE  CurrentOf(page, ops[cookie].user, ops, answers, Kept(store', gone', ops[cookie].user, page.current))
  <2> DEFINE u  == ops[cookie].user
             t  == Kept(store, gone, u, page.current)
             t2 == Kept(store', gone', u, page.current)
  <2>1. /\ Tokens(ops) /\ u \in Users /\ UserOf(cookie) = u /\ page.current \in Spaces /\ Submitted(t, ops)
    BY <1>10, Whose DEF UInv
  <2>2. CurrentOf(page, u, ops, answers, t) /\ QueueOf(ops, answers)
    BY <1>10, <2>1 DEF UInv, Current, AnswersWait
  <2>3. t2.gone = t.gone /\ t2.now = IF u = w /\ page.current = s THEN t.now \union {m0} ELSE t.now
    BY <1>1, <1>4, <1>7, <2>1 DEF Kept
  <2> HIDE DEF u, t, t2
  <2>4. CASE Awaited(ops[c], page)
    BY <2>4 DEF CurrentOf
  <2>5. CASE ~Awaited(ops[c], page)
    <3>1. page.current = s => Forgone(ops[c], page.sessionVersion)
      BY <1>1, <2>5 DEF Awaited, Asks, Forgone, s
    <3>2. Grown(ops, ops, t, t2, page.sessionVersion)
      BY <1>3, <2>3, <3>1 DEF Grown
    <3>3. CurrentOf(page, u, ops, answers, t2)
      BY <2>1, <2>2, <3>2, CurrentStays
    <3> QED BY <3>3 DEF u, t2
  <2> QED BY <2>4, <2>5
<1>11. Current'
  BY <1>1, <1>10, CurrentPrimed
<1>12. AnswersWait'
  BY <1>1, AnswersWaitPrimed DEF UInv, AnswersWait
<1>13. UInv' <=> AnswersWait' /\ KeepsTrack' /\ Current'
  BY DEF UInv
<1> QED BY <1>9, <1>11, <1>12, <1>13

LEMMA FinishTracks ==
  ASSUME WInv, UInv, NEW w \in Users, NEW s \in Spaces, FinishSubmit(w, s)
  PROVE  UInv'
<1> PICK c : c = working[w][s]
  OBVIOUS
<1> DEFINE m0 == <<c, "answered">>
           ends == ops[c].status = "sent" /\ ops[c].kind = "submit"
<1>1. PICK more, warns :
        /\ c # None /\ more \subseteq {m0}
        /\ working' = [working EXCEPT ![w][s] = None]
        /\ store' = [store EXCEPT ![w][s] = @ \union more]
        /\ IF ends THEN Answer(c, [Answered(c, TRUE) EXCEPT !.warns = warns])
           ELSE UNCHANGED <<page, cookie, ops, inOrder, answers>>
        /\ UNCHANGED <<sessions, gone>>
  <2>1. PICK replied \in BOOLEAN, warns \in BOOLEAN :
          /\ store' = [store EXCEPT ![w][s] = @ \union (IF replied THEN Replies(w, s, c) ELSE {})]
          /\ IF ends THEN Answer(c, [Answered(c, TRUE) EXCEPT !.warns = warns])
             ELSE UNCHANGED <<page, cookie, ops, inOrder, answers>>
    BY DEF FinishSubmit
  <2>2. /\ c # None /\ working' = [working EXCEPT ![w][s] = None] /\ UNCHANGED <<sessions, gone>>
    BY DEF FinishSubmit
  <2>3. PICK more : more = IF replied THEN Replies(w, s, c) ELSE {}
    OBVIOUS
  <2>4. more \subseteq {m0}
    BY <2>3 DEF Replies
  <2>5. store' = [store EXCEPT ![w][s] = @ \union more]
    BY <2>1, <2>3
  <2> HIDE DEF ends, m0
  <2> QED BY <2>1, <2>2, <2>4, <2>5
<1>2. HandledOf(working, ops) /\ StoredOf(store, ops) /\ AccountsOf(page, cookie, ops, sessions)
  BY DEF UInv, KeepsTrack
<1>3. c \in DOMAIN ops /\ ops[c].kind = "submit" /\ ops[c].space = s /\ c \in Ops /\ Handles(c, w, s, ops)
  BY <1>1, <1>2, WShaped, ShapedDomain DEF HandledOf, Handles
<1>4. m0 \in Messages /\ m0[1] = c
  BY <1>3 DEF Messages
<1> HIDE DEF m0, ends
<1>5. PICK l : l = store[w][s] \union more
  OBVIOUS
<1>6. /\ StoredOf(store', ops)
      /\ \A v \in Users, z \in Spaces : store'[v][z] = IF v = w /\ z = s THEN l ELSE store[v][z]
  <2>1. store \in [Users -> [Spaces -> SUBSET Messages]]
    BY <1>2 DEF StoredOf
  <2>2. store' = [store EXCEPT ![w][s] = l]
    BY <1>1, <1>5, <2>1
  <2>3. /\ store' \in [Users -> [Spaces -> SUBSET Messages]]
        /\ \A v \in Users, z \in Spaces : store'[v][z] = IF v = w /\ z = s THEN l ELSE store[v][z]
    BY <1>1, <1>4, <1>5, <2>1, <2>2
  <2>4. \A m \in l : m \in store[w][s] \/ (ops[m[1]].kind \in {"submit", "reload"} /\ m[1] = c /\ ops[c].space = s)
    BY <1>1, <1>3, <1>4, <1>5
  <2> QED BY <1>2, <1>3, <2>3, <2>4 DEF StoredOf
<1>7. /\ HandledOf(working', ops)
      /\ \A v \in Users, z \in Spaces : working'[v][z] = IF v = w /\ z = s THEN None ELSE working[v][z]
  <2>1. working \in [Users -> [Spaces -> Optional(Ops)]]
    BY <1>2 DEF HandledOf
  <2>2. /\ working' \in [Users -> [Spaces -> Optional(Ops)]]
        /\ \A v \in Users, z \in Spaces : working'[v][z] = IF v = w /\ z = s THEN None ELSE working[v][z]
    BY <1>1, <2>1 DEF Optional
  <2> QED BY <1>2, <2>2 DEF HandledOf
<1>8. page' = page /\ cookie' = cookie /\ inOrder' = inOrder
  BY <1>1 DEF Answer
<1>9. CASE ~ends
  <2>1. ops' = ops /\ answers' = answers
    BY <1>1, <1>9
  <2>2. KeepsTrack'
    BY <1>1, <1>2, <1>6, <1>7, <1>8, <2>1, KeepsTrackPrimed
  <2>3. ASSUME inOrder, page.chosen, cookie # None
        PROVE  CurrentOf(page, ops[cookie].user, ops, answers, Kept(store', gone', ops[cookie].user, page.current))
    <3> DEFINE u  == ops[cookie].user
               t  == Kept(store, gone, u, page.current)
               t2 == Kept(store', gone', u, page.current)
    <3>1. /\ Tokens(ops) /\ u \in Users /\ UserOf(cookie) = u /\ page.current \in Spaces /\ Submitted(t, ops)
      BY <2>3, Whose DEF UInv
    <3>2. CurrentOf(page, u, ops, answers, t) /\ QueueOf(ops, answers)
      BY <2>3, <3>1 DEF UInv, Current, AnswersWait
    <3>3. t2.gone = t.gone /\ t.now \subseteq t2.now /\ t2.now \subseteq t.now \union {m0}
      BY <1>1, <1>5, <1>6, <3>1 DEF Kept
    <3> HIDE DEF u, t, t2
    <3>4. Forgone(ops[c], page.sessionVersion)
      BY <1>3, <1>9 DEF Handles, Forgone, ends
    <3>5. Grown(ops, ops, t, t2, page.sessionVersion)
      BY <1>4, <3>3, <3>4 DEF Grown
    <3>6. CurrentOf(page, u, ops, answers, t2)
      BY <3>1, <3>2, <3>5, CurrentStays
    <3> QED BY <3>6 DEF u, t2
  <2>4. Current'
    BY <1>8, <2>1, <2>3, CurrentPrimed
  <2>5. AnswersWait'
    BY <1>8, <2>1, AnswersWaitPrimed DEF UInv, AnswersWait
  <2>6. UInv' <=> AnswersWait' /\ KeepsTrack' /\ Current'
    BY DEF UInv
  <2> QED BY <2>2, <2>4, <2>5, <2>6
<1>10. CASE ends
  <2>1. ops[c].status = "sent"
    BY <1>10 DEF ends
  <2>2. PICK ok \in BOOLEAN : ok = TRUE
    OBVIOUS
  <2>3. PICK rec : rec = [Answered(c, ok) EXCEPT !.warns = warns]
    OBVIOUS
  <2>4. /\ DOMAIN rec = OpFields /\ rec.status = "answered" /\ rec.ok = ok /\ rec.user = ops[c].user
        /\ rec.kind = ops[c].kind /\ rec.space = ops[c].space /\ rec.version = ops[c].version
        /\ rec.token = ops[c].token
    BY <1>3, <2>1, <2>3, WShaped DEF Answered, Shaped, OpFields
  <2>5. Answer(c, rec)
    BY <1>1, <1>10, <2>2, <2>3
  <2>6. Puts(ops, ops', c, rec) /\ KinOf(ops, ops')
    BY <1>3, <2>1, <2>4, <2>5, AnswerKin
  <2>7. KeepsTrack'
    <3>1. AccountsOf(page, cookie, ops', sessions)
      <4>1. page.chosen => page.current # None
        BY <1>2 DEF AccountsOf
      <4> QED BY <1>2, <2>6, <4>1, AccountsStep
    <3>2. \A v \in Users, z \in Spaces : working'[v][z] # None => Steady(ops[working'[v][z]], ops'[working'[v][z]])
      <4> SUFFICES ASSUME NEW v \in Users, NEW z \in Spaces, working'[v][z] # None
                   PROVE  Steady(ops[working'[v][z]], ops'[working'[v][z]])
        OBVIOUS
      <4>1. PICK d : d = working'[v][z]
        OBVIOUS
      <4>2. Handles(d, v, z, ops) /\ ~(v = w /\ z = s)
        BY <1>7, <4>1 DEF HandledOf
      <4>3. d # c
        BY <1>3, <2>1, <4>2 DEF Handles
      <4>4. ops'[d] = ops[d]
        BY <2>6, <4>2, <4>3 DEF Puts, Handles
      <4> QED BY <4>1, <4>4 DEF Steady
    <3>3. HandledOf(working', ops')
      BY <1>7, <2>6, <3>2, HandledStep
    <3>4. StoredOf(store', ops')
      BY <1>6, <2>6, StoredStep
    <3> QED BY <1>1, <1>8, <3>1, <3>3, <3>4, KeepsTrackPrimed
  <2>8. ASSUME page.chosen, cookie # None
        PROVE  LET u  == ops[cookie].user
                   t  == Kept(store, gone, u, page.current)
                   t2 == Kept(store', gone', u, page.current)
               IN  \/ Awaited(rec, page)
                   \/ Alerts(rec, page)
                   \/ Displays(rec, page) /\ Fits(Display(ops', c), u, t2, ops', page.sessionVersion)
                   \/ /\ ~Displays(rec, page) /\ ~Awaited(ops[c], page)
                      /\ Grown(ops, ops', t, t2, page.sessionVersion)
    <3> DEFINE u  == ops[cookie].user
               t  == Kept(store, gone, u, page.current)
               t2 == Kept(store', gone', u, page.current)
               v  == page.sessionVersion
    <3>1. u \in Users /\ page.current \in Spaces
      BY <2>8, Whose DEF UInv
    <3>2. \A m \in t.now : m[1] \in DOMAIN ops /\ ops[m[1]].space = page.current
      BY <1>2, <3>1 DEF StoredOf, Kept
    <3>3. /\ t2.gone = t.gone /\ t.now \subseteq t2.now
          /\ IF u = w /\ page.current = s THEN t2.now \subseteq t.now \union {m0} ELSE t2.now = t.now
      BY <1>1, <1>5, <1>6, <3>1 DEF Kept
    <3> HIDE DEF u, t, t2
    <3>4. CASE Asks(ops[c], page)
      <4>1. Awaited(rec, page)
        BY <2>2, <2>4, <3>4 DEF Awaited, Asks
      <4> QED BY <4>1
    <3>5. CASE ~Asks(ops[c], page)
      <4>1. ~Displays(rec, page) /\ ~Awaited(ops[c], page)
        BY <1>3, <2>1, <2>4, <3>5 DEF Displays, Awaited, Reads
      <4>2. page.current = s => Forgone(ops'[c], v)
        BY <1>3, <2>4, <2>6, <3>5 DEF Asks, Forgone, Puts
      <4>3. \A m \in t.now : Forgone(ops[m[1]], v) => Forgone(ops'[m[1]], v)
        <5> SUFFICES ASSUME NEW m \in t.now, Forgone(ops[m[1]], v) PROVE Forgone(ops'[m[1]], v)
          OBVIOUS
        <5>1. CASE m[1] = c
          BY <1>3, <3>2, <4>2, <5>1
        <5>2. CASE m[1] # c
          BY <2>6, <3>2, <5>2 DEF Puts
        <5> QED BY <5>1, <5>2
      <4>4. \A m \in t2.now : m \in t.now \/ Forgone(ops'[m[1]], v)
        BY <1>4, <3>3, <4>2
      <4>5. Grown(ops, ops', t, t2, v)
        BY <2>6, <3>3, <4>3, <4>4 DEF Grown, KinOf, Kin
      <4> QED BY <4>1, <4>5 DEF u, t, t2
    <3> QED BY <3>4, <3>5
  <2> QED BY <1>3, <2>1, <2>4, <2>5, <2>7, <2>8, AnswerTracks
<1> QED BY <1>9, <1>10

\* An empty transcript is on its way, or nothing the page will display.
LEMMA CutShortTracks == ASSUME WInv, UInv, NEW c \in DOMAIN ops, CutShort(c) PROVE UInv'
<1>1. ops[c].status = "sent" /\ ops[c].kind \in {"open", "select", "reload"} /\ UNCHANGED serverVars
  BY DEF CutShort, Serving
<1>2. PICK ok \in BOOLEAN, x \in BOOLEAN : ok = TRUE /\ x = TRUE
  OBVIOUS
<1>3. PICK rec : rec = [Answered(c, ok) EXCEPT !.unread = x, !.data = {}]
  OBVIOUS
<1>4. Answer(c, rec)
  BY <1>2, <1>3 DEF CutShort
<1>5. /\ DOMAIN rec = OpFields /\ rec.status = "answered" /\ rec.ok = ok /\ rec.user = ops[c].user
      /\ rec.kind = ops[c].kind /\ rec.space = ops[c].space /\ rec.version = ops[c].version
      /\ rec.token = ops[c].token
  BY <1>1, <1>3, WShaped DEF Answered, Shaped, OpFields
<1>9. rec.unread = TRUE /\ rec.data = {}
  BY <1>2, <1>3, WShaped DEF Answered, Shaped, OpFields
<1>6. Puts(ops, ops', c, rec) /\ KinOf(ops, ops') /\ SteadyOf(ops, ops')
  BY <1>1, <1>4, <1>5, AnswerKin
<1>7. KeepsTrack'
  <2>1. (page'.chosen => page'.current # None) /\ cookie' \in {None, cookie}
    BY <1>4 DEF UInv, KeepsTrack, AccountsOf, Answer
  <2> QED BY <1>1, <1>6, <2>1, TrackStep DEF UInv, serverVars
<1>8. ASSUME page.chosen, cookie # None
      PROVE  LET u  == ops[cookie].user
                 t  == Kept(store, gone, u, page.current)
                 t2 == Kept(store', gone', u, page.current)
             IN  \/ Awaited(rec, page)
                 \/ Alerts(rec, page)
                 \/ Displays(rec, page) /\ Fits(Display(ops', c), u, t2, ops', page.sessionVersion)
                 \/ /\ ~Displays(rec, page) /\ ~Awaited(ops[c], page)
                    /\ Grown(ops, ops', t, t2, page.sessionVersion)
  <2> DEFINE t == Kept(store, gone, ops[cookie].user, page.current)
  <2>1. Submitted(t, ops)
    BY <1>8, Whose DEF UInv
  <2>2. store' = store /\ gone' = gone
    BY <1>1 DEF serverVars
  <2> HIDE DEF t
  <2>3. CASE Reads(ops[c], page)
    <3>1. Displays(rec, page)
      BY <1>2, <1>5, <2>3 DEF Displays, Reads
    <3>2. Display(ops', c).messages = {} /\ Display(ops', c).unread
      BY <1>1, <1>5, <1>6, <1>9 DEF Display, Puts
    <3>3. Fits(Display(ops', c), ops[cookie].user, t, ops', page.sessionVersion)
      BY <3>2 DEF Fits
    <3> QED BY <2>2, <3>1, <3>3 DEF t
  <2>4. CASE ~Reads(ops[c], page)
    <3>1. ~Displays(rec, page) /\ ~Awaited(ops[c], page)
      BY <1>1, <1>5, <2>4 DEF Displays, Awaited, Reads, Asks
    <3>2. Grown(ops, ops', t, t, page.sessionVersion)
      BY <1>6, <2>1, ListStays
    <3> QED BY <2>2, <3>1, <3>2 DEF t
  <2> QED BY <2>3, <2>4
<1> QED BY <1>1, <1>4, <1>5, <1>7, <1>8, AnswerTracks

LEMMA MidnightTracks == ASSUME WInv, UInv, Midnight PROVE UInv'
<1>1. /\ \A u \in Users, s \in Spaces : store'[u][s] = {} /\ store[u][s] \subseteq gone'
      /\ store' \in [Users -> [Spaces -> SUBSET Messages]] /\ gone \subseteq gone'
      /\ UNCHANGED <<page, cookie, ops, inOrder, answers, sessions, working>>
  BY DEF Midnight
<1>2. KeepsTrack'
  <2>1. StoredOf(store', ops)
    BY <1>1 DEF StoredOf
  <2> QED BY <1>1, <2>1, KeepsTrackPrimed DEF UInv, KeepsTrack
<1>3. ASSUME inOrder, page.chosen, cookie # None
      PROVE  CurrentOf(page, ops[cookie].user, ops, answers, Kept(store', gone', ops[cookie].user, page.current))
  <2> DEFINE u  == ops[cookie].user
             t  == Kept(store, gone, u, page.current)
             t2 == Kept(store', gone', u, page.current)
  <2>1. Tokens(ops) /\ u \in Users /\ UserOf(cookie) = u /\ page.current \in Spaces
    BY <1>3, Whose DEF UInv
  <2>2. CurrentOf(page, u, ops, answers, t) /\ QueueOf(ops, answers)
    BY <1>3, <2>1 DEF UInv, Current, AnswersWait
  <2>3. t2.now = {} /\ t.now \subseteq t2.gone /\ t.gone \subseteq t2.gone
    BY <1>1, <2>1 DEF Kept
  <2> HIDE DEF u, t, t2
  <2>4. Grown(ops, ops, t, t2, page.sessionVersion)
    BY <2>3 DEF Grown
  <2>5. CurrentOf(page, u, ops, answers, t2)
    BY <2>1, <2>2, <2>4, CurrentStays
  <2> QED BY <2>5 DEF u, t2
<1>4. Current'
  BY <1>1, <1>3, CurrentPrimed
<1>5. AnswersWait'
  BY <1>1, AnswersWaitPrimed DEF UInv, AnswersWait
<1>6. UInv' <=> AnswersWait' /\ KeepsTrack' /\ Current'
  BY DEF UInv
<1> QED BY <1>2, <1>4, <1>5, <1>6

LEMMA ServerTracks == ASSUME WInv, UInv, Server PROVE UInv'
BY ServeTracks, ServeReadTracks, CutShortTracks, ServeClearTracks, ServeSubmitTracks, FinishTracks,
   MidnightTracks DEF Server

-----------------------------------------------------------------------------
(* The steps of the handlers.                                              *)

LEMMA ArriveTracks ==
  ASSUME WInv, UInv, NEW c \in DOMAIN ops, Arrive(c), NEW a, Perhaps(ops, a), NEW e, Puts(a, ops', c, e),
         Kin(ops[c], e), Steady(ops[c], e), e.status # "answered", page'.chosen => page'.current # None
  PROVE  /\ ops[c].status = "answered" /\ KinOf(ops, ops') /\ SteadyOf(ops, ops')
         /\ inOrder => QueueOf(ops', answers')
         /\ AnswersWait' /\ KeepsTrack'
<1>1. /\ ops[c].status = "answered" /\ UNCHANGED <<left, inOrder, serverVars>>
      /\ inOrder => c = Head(answers) /\ answers' = Tail(answers)
      /\ cookie' \in {None, cookie} \/ (cookie' \in DOMAIN ops /\ ops[cookie'].kind = "login")
  BY DEF Arrive
<1>2. KinOf(ops, ops') /\ SteadyOf(ops, ops')
  BY WShaped, PutsKin
<1>3. ASSUME inOrder PROVE QueueOf(ops', answers')
  <2>1. QueueOf(ops, answers)
    BY <1>3 DEF UInv, AnswersWait
  <2>2. QueueOf(ops', Tail(answers))
    BY <1>1, <1>3, <2>1, WShaped, QueueShrinks
  <2> QED BY <1>1, <1>3, <2>2
<1>4. AnswersWait'
  BY <1>1, <1>3, AnswersWaitPrimed
<1>5. KeepsTrack'
  BY <1>1, <1>2, TrackStep DEF UInv, serverVars
<1> QED BY <1>1, <1>2, <1>3, <1>4, <1>5

\* The transcript is left.
LEMMA LeaveTracks ==
  ASSUME WInv, UInv, NEW c \in DOMAIN ops, Arrive(c), NEW a, Perhaps(ops, a), NEW e, Puts(a, ops', c, e),
         Kin(ops[c], e), Steady(ops[c], e), e.status # "answered", ~page'.chosen
  PROVE  UInv'
<1>1. AnswersWait' /\ KeepsTrack'
  BY ArriveTracks
<1>2. Current'
  BY CurrentPrimed
<1>3. UInv' <=> AnswersWait' /\ KeepsTrack' /\ Current'
  BY DEF UInv
<1> QED BY <1>1, <1>2, <1>3

LEMMA BackTracks ==
  ASSUME WInv, UInv, NEW c \in DOMAIN ops, Arrive(c), ops[c].kind # "select", page' = LoginShown(page),
         ops' = Done(Aborted(ops), c)
  PROVE  UInv'
<1> DEFINE a == Aborted(ops)
<1>1. Perhaps(ops, a) /\ Shaped(a) /\ DOMAIN a = DOMAIN ops /\ a[c] = ops[c]
  BY WShaped, AbortedIs DEF Perhaps, Carries
<1>2. ops' = Done(a, c)
  OBVIOUS
<1> HIDE DEF a
<1>3. PICK e : /\ Puts(a, ops', c, e) /\ e.status = "done"
               /\ (a[c].kind = "submit" => a[c].status # "sent") => Kin(a[c], e) /\ Steady(a[c], e)
  BY <1>1, <1>2, DonePuts
<1>4. ops[c].status = "answered"
  BY DEF Arrive
<1>5. Kin(ops[c], e) /\ Steady(ops[c], e) /\ e.status # "answered"
  BY <1>1, <1>3, <1>4
<1>6. ~page'.chosen
  BY WShaped DEF LoginShown, PageFields
<1> QED BY <1>1, <1>3, <1>5, <1>6, LeaveTracks

\* The handler returns; if the answer was to be displayed, or an error, it is.
LEMMA ReturnTracks ==
  ASSUME WInv, UInv, NEW c \in DOMAIN ops, Arrive(c), ops' = Done(ops, c),
         ~(ops[c].kind = "login" /\ ops[c].ok), ~(Asks(ops[c], page) /\ ops[c].ok),
         page'.current = page.current, page'.viewVersion = page.viewVersion,
         page'.sessionVersion = page.sessionVersion, page'.chosen = page.chosen,
         page.notice \/ Alerts(ops[c], page) => page'.notice,
         Displays(ops[c], page) => /\ page'.shown.user = UserOf(ops[c].token)
                                   /\ page'.shown.messages = IF ops[c].kind = "clear" THEN {} ELSE ops[c].data
                                   /\ page'.shown.unread = IF ops[c].kind = "clear" THEN FALSE ELSE ops[c].unread,
         ~Displays(ops[c], page) => page'.shown = page.shown
  PROVE  UInv'
<1>1. PICK e : /\ Puts(ops, ops', c, e) /\ e.status = "done"
               /\ (ops[c].kind = "submit" => ops[c].status # "sent") => Kin(ops[c], e) /\ Steady(ops[c], e)
  BY WShaped, DonePuts
<1>2. /\ ops[c].status = "answered" /\ UNCHANGED <<inOrder, serverVars>> /\ cookie' \in {None, cookie}
      /\ inOrder => c = Head(answers) /\ answers' = Tail(answers)
  BY DEF Arrive
<1>3. page'.chosen => page'.current # None
  BY DEF UInv, KeepsTrack, AccountsOf
<1>4. /\ KinOf(ops, ops') /\ SteadyOf(ops, ops') /\ AnswersWait' /\ KeepsTrack'
  BY <1>1, <1>2, <1>3, ArriveTracks DEF Perhaps
<1>5. ASSUME inOrder, page.chosen, cookie # None
      PROVE  CurrentOf(page', ops'[cookie].user, ops', answers', Kept(store, gone, ops'[cookie].user, page.current))
  <2> DEFINE u == ops[cookie].user
             t == Kept(store, gone, u, page.current)
  <2>1. /\ Tokens(ops) /\ cookie \in DOMAIN ops /\ UserOf(cookie) = u /\ Submitted(t, ops)
    BY <1>5, Whose DEF UInv
  <2>2. CurrentOf(page, u, ops, answers, t) /\ QueueOf(ops, answers)
    BY <1>5, <2>1 DEF UInv, Current, AnswersWait
  <2>3. ops'[cookie].user = u
    BY <1>4, <2>1 DEF KinOf, Kin
  <2> HIDE DEF u, t
  <2>4. Grown(ops, ops', t, t, page.sessionVersion)
    BY <1>4, <2>1, ListStays
  <2>5. Displays(ops[c], page) => /\ page'.shown.user = Display(ops, c).user
                                  /\ page'.shown.messages = Display(ops, c).messages
                                  /\ page'.shown.unread = Display(ops, c).unread
    BY DEF Display, UserOf
  <2>6. PICK p2, q : p2 = page' /\ q = ops'
    OBVIOUS
  <2>7. CurrentOf(p2, u, q, Tail(answers), t)
    <3>1. /\ Shaped(ops) /\ Puts(ops, q, c, e) /\ c = Head(answers) /\ ops[c].status = "answered"
          /\ e.status = "done" /\ Grown(ops, q, t, t, page.sessionVersion)
      BY <1>1, <1>2, <1>5, <2>4, <2>6, WShaped
    <3>2. /\ p2.current = page.current /\ p2.viewVersion = page.viewVersion
          /\ p2.sessionVersion = page.sessionVersion
          /\ page.notice \/ Alerts(ops[c], page) => p2.notice
          /\ Displays(ops[c], page) => /\ p2.shown.user = Display(ops, c).user
                                       /\ p2.shown.messages = Display(ops, c).messages
                                       /\ p2.shown.unread = Display(ops, c).unread
          /\ ~Displays(ops[c], page) => p2.shown = page.shown
      BY <2>5, <2>6
    <3> QED BY <2>1, <2>2, <3>1, <3>2, CurrentArrived
  <2> QED BY <1>2, <1>5, <2>3, <2>6, <2>7 DEF t
<1>6. Current'
  <2>1. cookie' # None => cookie' = cookie
    BY <1>2
  <2>2. store' = store /\ gone' = gone /\ inOrder' = inOrder
    BY <1>2 DEF serverVars
  <2> QED BY <1>5, <2>1, <2>2, CurrentPrimed
<1>7. UInv' <=> AnswersWait' /\ KeepsTrack' /\ Current'
  BY DEF UInv
<1> QED BY <1>4, <1>6, <1>7

LEMMA OnLoginTracks == ASSUME WInv, UInv, NEW c \in DOMAIN ops, OnLogin(c) PROVE UInv'
<1>1. Arrive(c) /\ ops[c].kind \in {"boot", "login"} /\ ops[c].status = "answered"
  BY DEF OnLogin, Arrive
<1> DEFINE r == Request("open", cookie')
           e == [r EXCEPT !.boot = ops[c].boot, !.user = ops[c].user]
<1>2. CASE ops[c].ok /\ page' = ChatShown(page) /\ ops' = [ops EXCEPT ![c] = e]
  <2>1. DOMAIN r = OpFields /\ r.kind = "open" /\ r.status = "sent"
    BY RequestFresh
  <2> HIDE DEF r
  <2>2. DOMAIN e = OpFields /\ e.kind = "open" /\ e.status = "sent" /\ e.user = ops[c].user
    BY <2>1 DEF OpFields
  <2> HIDE DEF e
  <2>3. Puts(ops, ops', c, e) /\ Perhaps(ops, ops)
    BY <1>2, <2>2, WShaped, ChangePuts DEF Perhaps
  <2>4. Kin(ops[c], e) /\ Steady(ops[c], e) /\ e.status # "answered"
    BY <1>1, <2>2 DEF Kin, Steady
  <2>5. ~page'.chosen
    BY <1>2, WShaped DEF ChatShown, PageFields
  <2> QED BY <1>1, <2>3, <2>4, <2>5, LeaveTracks
<1>3. CASE ~ops[c].ok /\ page' = LoginShown(page) /\ ops' = Done(Aborted(ops), c)
  BY <1>1, <1>3, BackTracks
<1>4. CASE ~ops[c].ok /\ page' = page /\ ops' = Done(ops, c)
  <2>1. ~Alerts(ops[c], page) /\ ~Displays(ops[c], page)
    BY <1>1, <1>4 DEF Alerts, Displays, Reads, Asks
  <2> QED BY <1>1, <1>4, <2>1, ReturnTracks
<1> QED BY <1>2, <1>3, <1>4 DEF OnLogin

LEMMA OnOpenTracks == ASSUME WInv, UInv, NEW c \in DOMAIN ops, OnOpen(c) PROVE UInv'
<1>1. Arrive(c) /\ ops[c].kind = "open" /\ ops[c].status = "answered" /\ cookie' \in {None, cookie}
      /\ UNCHANGED <<inOrder, serverVars>>
  BY DEF OnOpen, Arrive
<1> DEFINE a == Aborted(ops)
           r == Request("select", cookie)
           f == [r EXCEPT !.space = FirstSpace, !.version = page'.viewVersion]
           e == [f EXCEPT !.token = cookie', !.user = ops[c].user]
<1>2. CASE /\ page' = Selected([page EXCEPT !.buttons = TRUE], FirstSpace)
           /\ ops' = [a EXCEPT ![c] = e]
  <2>1. DOMAIN r = OpFields /\ r.kind = "select" /\ r.status = "sent"
    BY RequestIs
  <2> HIDE DEF r
  <2>2. /\ DOMAIN f = OpFields /\ f.kind = "select" /\ f.status = "sent" /\ f.space = FirstSpace
        /\ f.version = page'.viewVersion
    BY <2>1 DEF OpFields
  <2> HIDE DEF f
  <2>3. /\ DOMAIN e = OpFields /\ e.kind = "select" /\ e.status = "sent" /\ e.space = FirstSpace
        /\ e.version = page'.viewVersion /\ e.user = ops[c].user
    BY <2>2 DEF OpFields
  <2>4. Perhaps(ops, a) /\ Shaped(a) /\ DOMAIN a = DOMAIN ops
    BY WShaped, AbortedIs DEF Perhaps, Carries
  <2> HIDE DEF e, a
  <2>5. Puts(a, ops', c, e)
    BY <1>2, <2>3, <2>4, ChangePuts
  <2>6. Kin(ops[c], e) /\ Steady(ops[c], e) /\ e.status # "answered"
    BY <1>1, <2>3 DEF Kin, Steady
  <2>7. page'.current = FirstSpace /\ page'.current # None
    BY <1>2, WShaped, FirstAssumption, NoneAssumption DEF Selected, PageFields
  <2>8. Awaited(e, page')
    BY <2>3, <2>7 DEF Awaited, Reads
  <2>9. inOrder => QueueOf(ops', answers')
    BY <1>1, <2>4, <2>5, <2>6, <2>7, ArriveTracks
  <2> QED BY <1>1, <2>4, <2>5, <2>6, <2>7, <2>8, <2>9, AwaitStep
<1>3. CASE ~ops[c].ok /\ page' = LoginShown(page) /\ ops' = Done(Aborted(ops), c)
  BY <1>1, <1>3, BackTracks
<1>4. CASE ~ops[c].ok /\ page' = page /\ ops' = Done(ops, c)
  <2>1. ~Alerts(ops[c], page) /\ ~Displays(ops[c], page)
    BY <1>1, <1>4 DEF Alerts, Displays, Reads, Asks
  <2> QED BY <1>1, <1>4, <2>1, ReturnTracks
<1>5. CASE ops[c].ok /\ page' = [page EXCEPT !.buttons = FALSE] /\ ops' = Done(ops, c)
  <2>1. ~Alerts(ops[c], page) /\ ~Displays(ops[c], page) /\ ~Asks(ops[c], page)
    BY <1>1, <1>5 DEF Alerts, Displays, Reads, Asks
  <2> QED BY <1>1, <1>5, <2>1, ButtonsAre, ReturnTracks
<1> QED BY <1>2, <1>3, <1>4, <1>5 DEF OnOpen, SelectRequest

\* What Alerted and Released leave alone.
LEMMA NoticeIs ==
  ASSUME WInv
  PROVE  /\ Alerted(page).notice = TRUE
         /\ \A view : [page EXCEPT !.shown = view].notice = page.notice
         /\ \A p, s, c : DOMAIN p = PageFields => Released(p, s, c).notice = p.notice
BY WShaped DEF Alerted, Released, PageFields

LEMMA OnSelectTracks == ASSUME WInv, UInv, NEW c \in DOMAIN ops, OnSelect(c) PROVE UInv'
<1>1. Arrive(c) /\ ops[c].kind = "select" /\ ops' = Done(ops, c)
  BY DEF OnSelect
<1>2. SameView(c) <=> Reads(ops[c], page)
  BY <1>1 DEF SameView, Reads
<1>3. (Alerts(ops[c], page) <=> SameView(c) /\ ~ops[c].ok) /\ (Displays(ops[c], page) <=> SameView(c) /\ ops[c].ok)
      /\ ~Asks(ops[c], page)
  BY <1>1, <1>2 DEF Alerts, Displays, Asks
<1>4. CASE ~SameView(c) /\ page' = page
  BY <1>1, <1>3, <1>4, ReturnTracks
<1>5. CASE SameView(c) /\ ~ops[c].ok /\ page' = Alerted(page)
  BY <1>1, <1>3, <1>5, AlertedIs, NoticeIs, ReturnTracks
<1>6. CASE SameView(c) /\ ops[c].ok /\ page' = [page EXCEPT !.shown = View(c)]
  <2>1. /\ page'.current = page.current /\ page'.sessionVersion = page.sessionVersion
        /\ page'.viewVersion = page.viewVersion /\ page'.chosen = page.chosen /\ page'.shown = View(c)
        /\ page'.notice = page.notice
    BY <1>6, ShowsIs, NoticeIs
  <2>2. View(c).user = UserOf(ops[c].token) /\ View(c).messages = ops[c].data /\ View(c).unread = ops[c].unread
    BY DEF View
  <2> QED BY <1>1, <1>3, <1>6, <2>1, <2>2, ReturnTracks
<1> QED BY <1>4, <1>5, <1>6 DEF OnSelect, Shows

LEMMA OnReloadTracks == ASSUME WInv, UInv, NEW c \in DOMAIN ops, OnReload(c) PROVE UInv'
<1>1. Arrive(c) /\ ops[c].kind = "reload" /\ ops' = Done(ops, c) /\ ops[c].status = "answered"
  BY DEF OnReload, Arrive
<1>2. ops[c].space \in Spaces
  BY <1>1 DEF WInv, SubmitOf, Submits
<1>3. SameSession(c) <=> Reads(ops[c], page)
  BY <1>1 DEF SameSession, Reads
<1>4. /\ Alerts(ops[c], page) <=> SameSession(c) /\ ~ops[c].ok
      /\ Displays(ops[c], page) <=> SameSession(c) /\ ops[c].ok
      /\ ~Asks(ops[c], page)
  BY <1>1, <1>3 DEF Alerts, Displays, Asks
<1> DEFINE p == IF ~SameSession(c) THEN page
                ELSE IF ops[c].ok THEN Reloaded(c) ELSE Alerted(page)
<1>5. page' = Released(p, ops[c].space, c)
  BY DEF OnReload
<1>6. /\ DOMAIN p = PageFields /\ p.current = page.current
      /\ p.sessionVersion = page.sessionVersion /\ p.viewVersion = page.viewVersion
      /\ p.chosen = page.chosen /\ p.pending = page.pending
      /\ page.notice \/ Alerts(ops[c], page) => p.notice
      /\ Displays(ops[c], page) => p.shown = View(c)
      /\ ~Displays(ops[c], page) => p.shown = page.shown
  BY <1>4, WShaped, ReloadedIs, AlertedIs, NoticeIs
<1> HIDE DEF p
<1>7. /\ page'.current = page.current
      /\ page'.sessionVersion = page.sessionVersion /\ page'.viewVersion = page.viewVersion
      /\ page'.chosen = page.chosen /\ page'.shown = p.shown /\ page'.notice = p.notice
  BY <1>2, <1>5, <1>6, WShaped, ReleasedIs, NoticeIs
<1>8. View(c).user = UserOf(ops[c].token) /\ View(c).messages = ops[c].data /\ View(c).unread = ops[c].unread
  BY DEF View
<1> QED BY <1>1, <1>4, <1>6, <1>7, <1>8, ReturnTracks

LEMMA OnSubmitTracks == ASSUME WInv, UInv, NEW c \in DOMAIN ops, OnSubmit(c) PROVE UInv'
<1> DEFINE s == ops[c].space
           r == Request("reload", cookie')
           e == [r EXCEPT !.space = s, !.version = ops[c].version, !.warns = ops[c].warns]
<1>1. /\ Arrive(c) /\ ops[c].kind = "submit" /\ ops[c].status = "answered"
      /\ UNCHANGED <<inOrder, serverVars>> /\ cookie' \in {None, cookie}
  BY DEF OnSubmit, Arrive
<1>2. s \in Spaces /\ ops[c].user = None
  BY <1>1 DEF WInv, SubmitOf, Submits
<1>3. SameSession(c) <=> Asks(ops[c], page)
  BY <1>1 DEF SameSession, Asks
<1>4. CASE ops[c].ok /\ SameSession(c) /\ page' = page /\ ops' = [ops EXCEPT ![c] = e]
  <2>1. /\ DOMAIN e = OpFields /\ e.kind = "reload" /\ e.status = "sent" /\ e.user = None
        /\ e.space = s /\ e.version = ops[c].version
    BY RequestFresh
  <2> HIDE DEF e, s
  <2>2. Puts(ops, ops', c, e) /\ Perhaps(ops, ops)
    BY <1>4, <2>1, WShaped, ChangePuts DEF Perhaps
  <2>3. Kin(ops[c], e) /\ Steady(ops[c], e) /\ e.status # "answered"
    BY <1>1, <1>2, <1>4, <2>1 DEF Kin, Steady, s
  <2>4. page'.chosen => page'.current # None
    BY <1>4 DEF UInv, KeepsTrack, AccountsOf
  <2>5. Awaited(e, page')
    BY <1>4, <2>1 DEF Awaited, Reads, SameSession, s
  <2>6. inOrder => QueueOf(ops', answers')
    BY <1>1, <2>2, <2>3, <2>4, ArriveTracks
  <2> QED BY <1>1, <2>2, <2>3, <2>4, <2>5, <2>6, AwaitStep
<1>5. CASE /\ ~(ops[c].ok /\ SameSession(c))
           /\ page' = Released(IF SameSession(c) THEN Alerted(page) ELSE page, s, c)
           /\ ops' = Done(ops, c)
  <2> DEFINE p == IF SameSession(c) THEN Alerted(page) ELSE page
  <2>1. /\ DOMAIN p = PageFields /\ p.current = page.current
        /\ p.sessionVersion = page.sessionVersion /\ p.viewVersion = page.viewVersion
        /\ p.chosen = page.chosen /\ p.pending = page.pending /\ p.shown = page.shown
        /\ page.notice \/ SameSession(c) => p.notice
    BY WShaped, AlertedIs, NoticeIs
  <2> HIDE DEF p
  <2>2. page' = Released(p, s, c)
    BY <1>5 DEF p
  <2>3. /\ page'.current = page.current
        /\ page'.sessionVersion = page.sessionVersion /\ page'.viewVersion = page.viewVersion
        /\ page'.chosen = page.chosen /\ page'.shown = page.shown /\ page'.notice = p.notice
    BY <1>2, <2>1, <2>2, WShaped, ReleasedIs, NoticeIs
  <2>4. (Alerts(ops[c], page) => SameSession(c)) /\ ~Displays(ops[c], page)
    BY <1>1, <1>3 DEF Alerts, Displays, Reads
  <2> QED BY <1>1, <1>3, <1>5, <2>1, <2>3, <2>4, ReturnTracks
<1> QED BY <1>4, <1>5 DEF OnSubmit

LEMMA OnClearTracks == ASSUME WInv, UInv, NEW c \in DOMAIN ops, OnClear(c) PROVE UInv'
<1>1. Arrive(c) /\ ops[c].kind = "clear" /\ ops' = Done(ops, c)
  BY DEF OnClear
<1>2. /\ Alerts(ops[c], page) <=> ~ops[c].ok
      /\ Displays(ops[c], page) <=> ops[c].ok /\ page.current = ops[c].space
      /\ ~Asks(ops[c], page)
  BY <1>1 DEF Alerts, Displays, Reads, Asks
<1>3. CASE ops[c].ok /\ page.current # ops[c].space /\ page' = page
  BY <1>1, <1>2, <1>3, ReturnTracks
<1>4. CASE ~ops[c].ok /\ page' = Alerted(page)
  BY <1>1, <1>2, <1>4, AlertedIs, NoticeIs, ReturnTracks
<1>5. CASE ops[c].ok /\ page.current = ops[c].space /\ page' = [page EXCEPT !.shown = Emptied(c)]
  <2>1. /\ page'.current = page.current /\ page'.sessionVersion = page.sessionVersion
        /\ page'.viewVersion = page.viewVersion /\ page'.chosen = page.chosen /\ page'.shown = Emptied(c)
        /\ page'.notice = page.notice
    BY <1>5, ShowsIs, NoticeIs
  <2>2. Emptied(c).user = UserOf(ops[c].token) /\ Emptied(c).messages = {} /\ Emptied(c).unread = FALSE
    BY DEF Emptied, View
  <2> QED BY <1>1, <1>2, <1>5, <2>1, <2>2, ReturnTracks
<1> QED BY <1>3, <1>4, <1>5 DEF OnClear

LEMMA OnLogoutTracks == ASSUME WInv, UInv, NEW c \in DOMAIN ops, OnLogout(c) PROVE UInv'
BY BackTracks DEF OnLogout

-----------------------------------------------------------------------------
LEMMA InitUInv == ASSUME Init PROVE UInv
<1> PICK u \in Users :
      ops = <<[Request("boot", cookie) EXCEPT !.boot = TRUE, !.user = IF cookie = 1 THEN u ELSE None]>>
  BY DEF Init
<1> DEFINE r == Request("boot", cookie)
           e == [r EXCEPT !.boot = TRUE, !.user = IF cookie = 1 THEN u ELSE None]
<1>1. DOMAIN r = OpFields /\ r.kind = "boot" /\ r.status = "sent"
  BY RequestFresh
<1>2. ops = <<e>>
  OBVIOUS
<1> HIDE DEF r
<1>3. DOMAIN e = OpFields /\ e.kind = "boot" /\ e.status = "sent" /\ (cookie = 1 => e.user = u)
  BY <1>1 DEF OpFields
<1> HIDE DEF e
<1>4. DOMAIN ops = {1} /\ ops[1] = e
  BY <1>2
<1>5. cookie \in {None, 1} /\ answers = <<>> /\ sessions = {cookie} \ {None} /\ page.chosen = FALSE
  BY DEF Init
<1>6. AnswersWait
  <2>1. IsSeq(answers) /\ DOMAIN answers = {}
    <3>1. answers \in Seq({}) /\ DOMAIN answers = {}
      BY <1>5
    <3> QED BY <3>1 DEF IsSeq
  <2>2. \A c \in DOMAIN ops : ops[c].status # "answered"
    BY <1>3, <1>4
  <2> QED BY <2>1, <2>2 DEF AnswersWait, QueueOf
<1>7. AccountsOf(page, cookie, ops, sessions)
  <2>1. cookie # None => cookie \in DOMAIN ops /\ ops[cookie].user \in Users
    BY <1>3, <1>4, <1>5
  <2>2. \A c \in DOMAIN ops : ops[c].kind = "boot"
    BY <1>3, <1>4
  <2> QED BY <1>5, <2>1, <2>2 DEF AccountsOf
<1>8. HandledOf(working, ops)
  <2>1. working = [v \in Users |-> [s \in Spaces |-> None]]
    BY DEF Init
  <2>2. working \in [Users -> [Spaces -> Optional(Ops)]] /\ \A v \in Users, s \in Spaces : working[v][s] = None
    BY <2>1 DEF Optional
  <2> QED BY <2>2 DEF HandledOf
<1>9. StoredOf(store, ops)
  <2>1. store = [v \in Users |-> [s \in Spaces |-> {}]]
    BY DEF Init
  <2>2. store \in [Users -> [Spaces -> SUBSET Messages]] /\ \A v \in Users, s \in Spaces : store[v][s] = {}
    BY <2>1
  <2> QED BY <2>2 DEF StoredOf
<1>10. Current
  BY <1>5 DEF Current
<1> QED BY <1>6, <1>7, <1>8, <1>9, <1>10 DEF UInv, KeepsTrack

LEMMA NextUInv == WInv /\ UInv /\ [Next]_vars => UInv'
<1> SUFFICES ASSUME WInv, UInv, [Next]_vars PROVE UInv'
  OBVIOUS
<1>1. CASE Handlers
  BY <1>1, OnLoginTracks, OnOpenTracks, OnSelectTracks, OnSubmitTracks, OnReloadTracks, OnClearTracks,
     OnLogoutTracks DEF Handlers
<1>2. CASE UNCHANGED vars
  <2>1. UNCHANGED <<page, cookie, ops, inOrder, answers, sessions, store, working, gone>>
    BY <1>2 DEF vars, serverVars
  <2>2. AnswersWait' /\ KeepsTrack'
    BY <2>1, AnswersWaitPrimed, KeepsTrackPrimed DEF UInv, AnswersWait, KeepsTrack
  <2>3. Current'
    BY <2>1, CurrentPrimed DEF UInv, Current, UserOf
  <2>4. UInv' <=> AnswersWait' /\ KeepsTrack' /\ Current'
    BY DEF UInv
  <2> QED BY <2>2, <2>3, <2>4
<1> QED BY <1>1, <1>2, UserTracks, ServerTracks DEF Next

LEMMA NothingUnderWay == ASSUME WInv, UInv PROVE ShownIsCurrent
<1> SUFFICES ASSUME inOrder, page.chosen, cookie # None, \A c \in DOMAIN ops : ~Live(c), ~page.notice
             PROVE  LET there == store[UserOf(cookie)][page.current]
                        shown == page.shown
                    IN  \/ shown.messages = {} /\ (shown.unread \/ shown.user \notin {None, UserOf(cookie)})
                        \/ /\ shown.messages \subseteq there \union gone
                           /\ \A m \in there \ shown.messages : GivenUp(m[1])
  BY DEF ShownIsCurrent
<1> DEFINE u == UserOf(cookie)
           t == Kept(store, gone, u, page.current)
<1>1. CurrentOf(page, u, ops, answers, t) /\ QueueOf(ops, answers)
  BY DEF UInv, Current, AnswersWait
<1>2. \A c \in DOMAIN ops : ops[c].status = "done"
  BY DEF Live
<1>3. DOMAIN answers = {}
  BY <1>1, <1>2 DEF QueueOf
<1>4. \A c \in DOMAIN ops : ~Awaited(ops[c], page)
  BY <1>2 DEF Awaited
<1> HIDE DEF u, t
<1>5. Fits(page.shown, u, t, ops, page.sessionVersion)
  BY <1>1, <1>3, <1>4 DEF CurrentOf
<1> QED BY <1>5 DEF Fits, Forgone, GivenUp, Kept, u, t

\* The answers on their way, the lists of the server and what the page displays or
\* will display fit together, whether the answers can be read or not.
THEOREM AnswersAreTracked == Spec => []UInv
BY PageHolds, InitUInv, NextUInv, PTL DEF Spec

\* Answers that arrive in the order they were given leave, once nothing is under way,
\* the list of the server in the transcript, or an error: selectSpace, submit and the
\* clear never leave an older list there without saying so.  Missing may be what
\* submissions added that were given up, and still there what a midnight took out since.
\* Empty without an error is only a transcript whose answer api could not read, or one
\* that the clear of a former user's session emptied.
THEOREM TranscriptIsCurrent == Spec => []ShownIsCurrent
BY PageHolds, AnswersAreTracked, NothingUnderWay, PTL
=============================================================================
