----------------------------- MODULE SpeakerPlan -----------------------------
(***************************************************************************)
(* Who answers a message in a group space: Application.planSpeakers        *)
(* (internal/orchestration/planning.go) around the planner's model call    *)
(* (DeepSeekAdapter.Plan, internal/orchestration/deepseek.go), which may   *)
(* fail or return any list of names.  The loop over that list, and the one *)
(* over the message's mentions, are state machines with a step per name.   *)
(*                                                                         *)
(* The result is the plan of ConversationBatch's SavePlan.                 *)
(***************************************************************************)
EXTENDS Naturals, Sequences

CONSTANTS Names,          \* what a planner may write
          Participants,   \* the characters of the space
          Haruhi,         \* the one who answers when nobody else is chosen
          MaxPlan,        \* the most speakers of a plan: 5
          MaxListed,      \* bound: the longest list the planner returns
          MaxAddressed    \* bound: the most characters a message mentions

ASSUME NamesAssumption == Haruhi \in Participants /\ Participants \subseteq Names
ASSUME SizeAssumption  == MaxPlan \in Nat \ {0} /\ MaxListed \in Nat /\ MaxAddressed \in Nat

VARIABLES
  stage,       \* "ask" the planner, "clean" its list, "fallback" on mentions, "done";
               \* "ask" again once the plan is returned and the locals are gone
  addressed,   \* the characters the message mentions, by persona.ResolveAliases
  planned,     \* the planner's list, empty when it failed
  next,        \* the place the loop over planned, or over addressed, has come to
  clean,       \* the speakers kept so far; seen is the set of its members
  plan         \* the plan returned

vars == <<stage, addressed, planned, next, clean, plan>>

Lists(n) == UNION {[1 .. k -> Names] : k \in 0 .. n}
Distinct(s) == \A i, j \in DOMAIN s : s[i] = s[j] => i = j

TypeOK ==
  /\ stage \in {"ask", "clean", "fallback", "done"}
  /\ addressed \in Seq(Names)
  /\ planned \in Seq(Names)
  /\ next \in Nat \ {0}
  /\ clean \in Seq(Participants)
  /\ plan \in Seq(Participants)

Init ==
  /\ stage = "ask"
  /\ addressed = <<>>
  /\ planned = <<>>
  /\ next = 1
  /\ clean = <<>>
  /\ plan = <<>>

\* persona.ResolveAliases: a mention is of a character of the registry, each at
\* most once; the character need not belong to the space.
Mentions == {s \in Lists(MaxAddressed) : Distinct(s)}

\* The planner returns a list; an error, an empty or a malformed output is none.
Ask ==
  /\ stage = "ask"
  /\ stage' = "clean"
  /\ addressed' \in Mentions
  /\ planned' \in Lists(MaxListed)
  /\ UNCHANGED <<next, clean, plan>>

\* Faulty variant: a name is taken as often as it is listed.
WantedAgain(name) == name \in Participants

\* A participant not seen before.
Wanted(name) == name \in Participants /\ \A i \in DOMAIN clean : clean[i] # name

\* Faulty variant: the loop stops one short of the limit.
FullEarly == Len(clean) = MaxPlan - 1

\* len(clean) == 5.
Full == Len(clean) = MaxPlan

Take ==
  /\ stage = "clean"
  /\ next <= Len(planned) /\ ~Full
  /\ clean' = IF Wanted(planned[next]) THEN Append(clean, planned[next]) ELSE clean
  /\ next' = next + 1
  /\ UNCHANGED <<stage, addressed, planned, plan>>

\* The loop is over: what it kept is the plan, unless it kept nothing.
Keep ==
  /\ stage = "clean"
  /\ next > Len(planned) \/ Full
  /\ IF clean # <<>> THEN stage' = "done" /\ plan' = clean /\ UNCHANGED next
     ELSE stage' = "fallback" /\ next' = 1 /\ UNCHANGED plan
  /\ UNCHANGED <<addressed, planned, clean>>

\* The first participant mentioned answers alone.
Mention ==
  /\ stage = "fallback"
  /\ next <= Len(addressed)
  /\ IF addressed[next] \in Participants
     THEN stage' = "done" /\ plan' = <<addressed[next]>> /\ UNCHANGED next
     ELSE next' = next + 1 /\ UNCHANGED <<stage, plan>>
  /\ UNCHANGED <<addressed, planned, clean>>

\* Nobody is left to answer but Haruhi.
Default ==
  /\ stage = "fallback"
  /\ next > Len(addressed)
  /\ stage' = "done" /\ plan' = <<Haruhi>>
  /\ UNCHANGED <<addressed, planned, next, clean>>

Return ==
  /\ stage = "done"
  /\ stage' = "ask" /\ next' = 1
  /\ addressed' = <<>> /\ planned' = <<>> /\ clean' = <<>> /\ plan' = <<>>

Next == Ask \/ Take \/ Keep \/ Mention \/ Default \/ Return

Spec == Init /\ [][Next]_vars

-----------------------------------------------------------------------------
(* What must hold.                                                         *)

\* Whatever the planner wrote, somebody answers, nobody twice, never more than
\* MaxPlan, and only participants: Send looks every speaker up and trusts it is
\* found, and AppendCharacter gives each a place of his own in the batch.
PlanIsUsable ==
  stage = "done" =>
    /\ Len(plan) \in 1 .. MaxPlan
    /\ Distinct(plan)
    /\ \A i \in DOMAIN plan : plan[i] \in Participants

\* The places at which a list names a participant for the first time.
FirstMentions(s) ==
  {i \in DOMAIN s : s[i] \in Participants /\ \A j \in 1 .. i - 1 : s[j] # s[i]}

\* The plan honours the planner's order: it is the list at its first mentions, in
\* their order, cut off after MaxPlan; only a list without any is replaced.
PlanFollowsList ==
  stage = "done" /\ FirstMentions(planned) # {} =>
    \E f \in [DOMAIN plan -> FirstMentions(planned)] :
      /\ \A k \in DOMAIN plan : plan[k] = planned[f[k]]
      /\ \A k, l \in DOMAIN plan : k < l => f[k] < f[l]
      /\ \A i \in FirstMentions(planned) :
           (\E k \in DOMAIN plan : f[k] = i)
             \/ (Len(plan) = MaxPlan /\ \A k \in DOMAIN plan : f[k] < i)
=============================================================================
