--------------------------- MODULE SpeakerTurnProofs ---------------------------
(***************************************************************************)
(* Proofs about SpeakerTurn: the plans, for any space, any list a planner  *)
(* may return and any limit of speakers; the replies, for texts of any     *)
(* length; the windows, for histories and budgets of any size.  Each       *)
(* function of a turn leaves the others' variables alone, so that what     *)
(* holds of SpeakerPlan, ContextWindow and ReplyText holds of the turn.    *)
(***************************************************************************)
EXTENDS SpeakerTurn, WellFoundedInduction, TLAPS

\* The loop keeps distinct participants only, within the limit.
KeptIsUsable == Distinct(clean) /\ Len(clean) <= MaxPlan

IInv == TypeOK /\ KeptIsUsable /\ PlanIsUsable

\* Every list of the model is a sequence of names.
LEMMA ListsType ==
  ASSUME NEW n \in Nat, NEW s \in Lists(n)
  PROVE  s \in Seq(Names)
<1>1. PICK k \in 0 .. n : s \in [1 .. k -> Names]
  BY DEF Lists
<1> QED BY <1>1

LEMMA InitIInv == Init => IInv
<1> SUFFICES ASSUME Init PROVE IInv
  OBVIOUS
<1> QED BY SizeAssumption DEF Init, IInv, TypeOK, KeptIsUsable, PlanIsUsable, Distinct

\* A name is kept only if it is new and a participant's.
LEMMA TakeKeepsIInv == ASSUME IInv, Take PROVE IInv'
<1>1. clean \in Seq(Participants) /\ Distinct(clean) /\ Len(clean) < MaxPlan
  BY SizeAssumption DEF IInv, TypeOK, KeptIsUsable, Take, Full
<1>2. CASE Wanted(planned[next])
  <2> DEFINE name == planned[next]
  <2>1. name \in Participants /\ clean' = Append(clean, name)
    BY <1>2 DEF Take, Wanted
  <2>2. clean' \in Seq(Participants) /\ Len(clean') = Len(clean) + 1
    BY <1>1, <2>1
  <2>3. Distinct(clean')
    <3>1. ASSUME NEW i \in DOMAIN clean', NEW j \in DOMAIN clean', clean'[i] = clean'[j]
          PROVE  i = j
      <4> HIDE DEF name
      <4>1. i \in 1 .. Len(clean) + 1 /\ j \in 1 .. Len(clean) + 1
        BY <1>1, <2>1, <2>2
      <4>2. \A k \in 1 .. Len(clean) : clean'[k] = clean[k] /\ clean[k] # name
        BY <1>1, <1>2, <2>1 DEF Wanted, name
      <4>3. clean'[Len(clean) + 1] = name
        BY <1>1, <2>1
      <4> QED BY <1>1, <3>1, <4>1, <4>2, <4>3 DEF Distinct
    <3> QED BY <3>1 DEF Distinct
  <2> QED BY <1>1, <2>2, <2>3, SizeAssumption DEF IInv, TypeOK, KeptIsUsable, PlanIsUsable, Take
<1>3. CASE ~Wanted(planned[next])
  BY <1>3 DEF IInv, TypeOK, KeptIsUsable, PlanIsUsable, Take, Distinct
<1> QED BY <1>2, <1>3

\* A plan of a single participant is usable, whatever the loops stand at.
LEMMA SingleSpeaker ==
  ASSUME IInv, NEW name \in Participants, plan' = <<name>>, stage' = "done",
         UNCHANGED <<addressed, planned, next, clean>>
  PROVE  IInv'
<1>1. /\ <<name>> \in Seq(Participants)
      /\ Len(<<name>>) \in 1 .. MaxPlan
      /\ \A i \in DOMAIN <<name>> : <<name>>[i] \in Participants
  BY SizeAssumption
<1>2. Distinct(<<name>>)
  BY DEF Distinct
<1>3. TypeOK'
  BY <1>1 DEF IInv, TypeOK
<1>4. KeptIsUsable'
  BY DEF IInv, KeptIsUsable, Distinct
<1>5. PlanIsUsable'
  <2>1. Distinct(plan')
    BY <1>2
  <2> QED BY <1>1, <2>1 DEF PlanIsUsable, Distinct
<1> QED BY <1>3, <1>4, <1>5 DEF IInv

\* A step that leaves the kept speakers alone leaves them usable.
LEMMA KeptStays == ASSUME KeptIsUsable, UNCHANGED clean PROVE KeptIsUsable'
  BY DEF KeptIsUsable, Distinct

LEMMA NextKeepsIInv == IInv /\ [Next]_vars => IInv'
<1> SUFFICES ASSUME IInv, [Next]_vars PROVE IInv'
  OBVIOUS
<1>1. CASE Ask
  <2>1. planned' \in Seq(Names) /\ addressed' \in Seq(Names)
    BY <1>1, ListsType, SizeAssumption DEF Ask, Mentions
  <2> QED BY <1>1, <2>1 DEF Ask, IInv, TypeOK, KeptIsUsable, PlanIsUsable, Distinct
<1>2. CASE Take
  BY <1>2, TakeKeepsIInv
<1>3. CASE Keep
  <2>1. CASE clean # <<>>
    <3>1. clean \in Seq(Participants) /\ Len(clean) \in 1 .. MaxPlan /\ Distinct(clean)
      BY <2>1, SizeAssumption DEF IInv, TypeOK, KeptIsUsable
    <3>2. stage' = "done" /\ plan' = clean /\ UNCHANGED <<addressed, planned, next, clean>>
      BY <1>3, <2>1 DEF Keep
    <3>3. TypeOK'
      BY <3>1, <3>2 DEF IInv, TypeOK
    <3>4. KeptIsUsable'
      BY <3>2, KeptStays DEF IInv
    <3>5. Distinct(plan')
      BY <3>1, <3>2 DEF Distinct
    <3>6. PlanIsUsable'
      BY <3>1, <3>2, <3>5 DEF PlanIsUsable, Distinct
    <3> QED BY <3>3, <3>4, <3>6 DEF IInv
  <2>2. CASE clean = <<>>
    <3>1. /\ stage' = "fallback" /\ next' = 1
          /\ UNCHANGED <<addressed, planned, clean, plan>>
      BY <1>3, <2>2 DEF Keep
    <3>2. TypeOK'
      BY <3>1 DEF IInv, TypeOK
    <3>3. KeptIsUsable'
      BY <3>1, KeptStays DEF IInv
    <3>4. PlanIsUsable'
      BY <3>1 DEF PlanIsUsable
    <3> QED BY <3>2, <3>3, <3>4 DEF IInv
  <2> QED BY <2>1, <2>2
<1>4. CASE Mention
  <2>1. CASE addressed[next] \in Participants
    <3>1. plan' = <<addressed[next]>> /\ UNCHANGED <<addressed, planned, next, clean>> /\ stage' = "done"
      BY <1>4, <2>1 DEF Mention
    <3> QED BY <2>1, <3>1, SingleSpeaker
  <2>2. CASE addressed[next] \notin Participants
    <3>1. /\ next \in Nat \ {0} /\ next' = next + 1 /\ stage = "fallback"
          /\ UNCHANGED <<stage, addressed, planned, clean, plan>>
      BY <1>4, <2>2 DEF Mention, IInv, TypeOK
    <3>2. TypeOK'
      BY <3>1 DEF IInv, TypeOK
    <3>3. KeptIsUsable'
      BY <3>1, KeptStays DEF IInv
    <3>4. PlanIsUsable'
      BY <3>1 DEF PlanIsUsable
    <3> QED BY <3>2, <3>3, <3>4 DEF IInv
  <2> QED BY <2>1, <2>2
<1>5. CASE Default
  <2>1. plan' = <<Haruhi>> /\ UNCHANGED <<addressed, planned, next, clean>> /\ stage' = "done"
    BY <1>5 DEF Default
  <2> QED BY <2>1, SingleSpeaker, NamesAssumption
<1>6. CASE Return
  BY <1>6, SizeAssumption DEF Return, IInv, TypeOK, KeptIsUsable, PlanIsUsable, Distinct
<1>7. CASE UNCHANGED vars
  BY <1>7 DEF vars, IInv, TypeOK, KeptIsUsable, PlanIsUsable, Distinct
<1> QED BY <1>1, <1>2, <1>3, <1>4, <1>5, <1>6, <1>7 DEF Next

-----------------------------------------------------------------------------
\* What Send computes is, for the plan, a behaviour of SpeakerPlan.
LEMMA PlanRunsInside == TurnSpec => Spec
<1>1. TurnInit => Init
  BY DEF TurnInit
<1>2. [TurnNext]_turnVars => [Next]_vars
  BY DEF TurnNext, PlanTurn, WindowTurn, ReplyTurn, turnVars, vars
<1> QED BY <1>1, <1>2, PTL DEF TurnSpec, Spec

\* Whatever the planner writes, planSpeakers returns between one and MaxPlan
\* speakers of the space, none twice: what SavePlan and AppendCharacter take for
\* granted.
THEOREM PlanIsAlwaysUsable == TurnSpec => []PlanIsUsable
<1>1. Spec => []IInv
  BY InitIInv, NextKeepsIInv, PTL DEF Spec
<1>2. IInv => PlanIsUsable
  BY DEF IInv
<1> QED BY <1>1, <1>2, PlanRunsInside, PTL

-----------------------------------------------------------------------------
(* The plan follows the planner's list.                                    *)

\* What is kept so far is the part of the list already read, at its first mentions;
\* whoever was mentioned there is kept.
KeptFollows ==
  /\ \E f \in [DOMAIN clean -> FirstMentions(planned)] :
       /\ \A k \in DOMAIN clean : clean[k] = planned[f[k]] /\ f[k] < next
       /\ \A k, l \in DOMAIN clean : k < l => f[k] < f[l]
       /\ \A i \in FirstMentions(planned) : i < next => \E k \in DOMAIN clean : f[k] = i
  /\ \A j \in DOMAIN planned :
       j < next /\ planned[j] \in Participants => \E k \in DOMAIN clean : clean[k] = planned[j]

FInv ==
  /\ stage = "ask" => clean = <<>> /\ next = 1
  /\ stage = "clean" => KeptFollows
  /\ stage = "fallback" => FirstMentions(planned) = {}
  /\ PlanFollowsList

LEMMA InitFInv == Init => FInv
BY DEF Init, FInv, PlanFollowsList

\* A list of which nothing was read yet has nothing kept.
LEMMA AskFollows == ASSUME IInv, FInv, Ask PROVE FInv'
<1>1. clean' = <<>> /\ next' = 1 /\ stage' = "clean" /\ planned' \in Seq(Names)
  BY ListsType, SizeAssumption DEF Ask, FInv
<1>2. <<>> \in [DOMAIN clean' -> FirstMentions(planned')] /\ DOMAIN clean' = {}
  BY <1>1
<1>3. \A i \in DOMAIN planned' : ~(i < next')
  BY <1>1
<1>4. KeptFollows'
  BY <1>1, <1>2, <1>3 DEF KeptFollows, FirstMentions
<1> QED BY <1>1, <1>4 DEF FInv, PlanFollowsList

\* A name is taken at its first mention, and only there.
LEMMA TakeFollows == ASSUME IInv, FInv, Take PROVE FInv'
<1>t. /\ clean \in Seq(Participants) /\ planned \in Seq(Names) /\ next \in Nat \ {0}
      /\ next \in DOMAIN planned /\ stage = "clean" /\ stage' = "clean" /\ next' = next + 1
      /\ planned' = planned
  BY DEF IInv, TypeOK, Take
<1>f. FirstMentions(planned)' = FirstMentions(planned) /\ FirstMentions(planned) \subseteq DOMAIN planned
  BY <1>t DEF FirstMentions
<1>1. PICK f \in [DOMAIN clean -> FirstMentions(planned)] :
        /\ \A k \in DOMAIN clean : clean[k] = planned[f[k]] /\ f[k] < next
        /\ \A k, l \in DOMAIN clean : k < l => f[k] < f[l]
        /\ \A i \in FirstMentions(planned) : i < next => \E k \in DOMAIN clean : f[k] = i
  BY <1>t DEF FInv, KeptFollows
<1>2. \A j \in DOMAIN planned :
        j < next /\ planned[j] \in Participants => \E k \in DOMAIN clean : clean[k] = planned[j]
  BY <1>t DEF FInv, KeptFollows
<1>3. CASE Wanted(planned[next])
  <2> DEFINE n == Len(clean) + 1
             g == [k \in 1 .. n |-> IF k = n THEN next ELSE f[k]]
  <2>1. clean' = Append(clean, planned[next]) /\ planned[next] \in Participants
        /\ \A k \in DOMAIN clean : clean[k] # planned[next]
    BY <1>3 DEF Take, Wanted
  <2>2. next \in FirstMentions(planned)
    <3>1. ASSUME NEW j \in 1 .. next - 1 PROVE planned[j] # planned[next]
      <4>1. j \in DOMAIN planned /\ j < next
        BY <1>t
      <4> QED BY <1>2, <2>1, <4>1
    <3> QED BY <1>t, <2>1, <3>1 DEF FirstMentions
  <2>3. /\ DOMAIN clean' = 1 .. n /\ clean'[n] = planned[next] /\ n \in Nat /\ n \in 1 .. n
        /\ DOMAIN clean = 1 .. n - 1
        /\ \A k \in 1 .. n - 1 : clean'[k] = clean[k]
    BY <1>t, <2>1
  <2>4. /\ g \in [DOMAIN clean' -> FirstMentions(planned)]
        /\ g[n] = next /\ \A k \in 1 .. n - 1 : g[k] = f[k] /\ f[k] \in FirstMentions(planned)
    BY <2>2, <2>3
  <2> HIDE DEF n, g
  <2>5. \A k \in 1 .. n : k \in 1 .. n - 1 \/ k = n
    BY <2>3
  <2>6. \A k \in DOMAIN clean' : clean'[k] = planned[g[k]] /\ g[k] < next'
    <3>1. \A k \in 1 .. n - 1 : f[k] \in Nat
      BY <2>4, <1>t, <1>f
    <3> QED BY <1>t, <1>1, <2>3, <2>4, <2>5, <3>1
  <2>7. \A k, l \in DOMAIN clean' : k < l => g[k] < g[l]
    <3>1. ASSUME NEW k \in 1 .. n, NEW l \in 1 .. n, k < l PROVE g[k] < g[l]
      <4>1. k \in 1 .. n - 1
        BY <2>3, <3>1
      <4>2. CASE l = n
        BY <1>1, <2>3, <2>4, <4>1, <4>2
      <4>3. CASE l \in 1 .. n - 1
        BY <1>1, <2>3, <2>4, <3>1, <4>1, <4>3
      <4> QED BY <2>5, <4>2, <4>3
    <3> QED BY <2>3, <3>1
  <2>8. \A i \in FirstMentions(planned) : i < next' => \E k \in DOMAIN clean' : g[k] = i
    <3>1. ASSUME NEW i \in FirstMentions(planned), i < next' PROVE \E k \in DOMAIN clean' : g[k] = i
      <4>1. i < next \/ i = next
        BY <1>t, <1>f, <3>1
      <4>2. CASE i = next
        BY <2>3, <2>4, <4>2
      <4>3. CASE i < next
        <5>1. PICK k \in DOMAIN clean : f[k] = i
          BY <1>1, <4>3
        <5> QED BY <2>3, <2>4, <5>1
      <4> QED BY <4>1, <4>2, <4>3
    <3> QED BY <3>1
  <2>9. ASSUME NEW j \in DOMAIN planned, j < next', planned[j] \in Participants
        PROVE  \E k \in DOMAIN clean' : clean'[k] = planned[j]
    <3>1. j < next \/ j = next
      BY <1>t, <2>9
    <3>2. CASE j = next
      BY <2>3, <3>2
    <3>3. CASE j < next
      <4>1. PICK k \in DOMAIN clean : clean[k] = planned[j]
        BY <1>2, <2>9, <3>3
      <4> QED BY <2>3, <4>1
    <3> QED BY <3>1, <3>2, <3>3
  <2>10. KeptFollows'
    BY <1>t, <1>f, <2>4, <2>6, <2>7, <2>8, <2>9 DEF KeptFollows
  <2> QED BY <1>t, <2>10 DEF FInv, PlanFollowsList
<1>4. CASE ~Wanted(planned[next])
  <2>1. clean' = clean
    BY <1>4 DEF Take
  <2>2. planned[next] \in Participants => \E k \in DOMAIN clean : clean[k] = planned[next]
    BY <1>4 DEF Wanted
  <2>3. next \notin FirstMentions(planned)
    <3>1. ASSUME NEW k \in DOMAIN clean, clean[k] = planned[next] PROVE next \notin FirstMentions(planned)
      <4>1. planned[f[k]] = planned[next] /\ f[k] \in 1 .. next - 1
        BY <1>t, <1>f, <1>1, <3>1
      <4> QED BY <4>1 DEF FirstMentions
    <3> QED BY <2>2, <3>1 DEF FirstMentions
  <2>4. \A j \in DOMAIN planned : j < next' => j < next \/ j = next
    BY <1>t
  <2>5. \A k \in DOMAIN clean : f[k] < next'
    BY <1>t, <1>f, <1>1
  <2>6. \A i \in FirstMentions(planned) : i < next' => \E k \in DOMAIN clean : f[k] = i
    BY <1>f, <1>1, <2>3, <2>4
  <2>7. \A j \in DOMAIN planned :
          j < next' /\ planned[j] \in Participants => \E k \in DOMAIN clean : clean[k] = planned[j]
    BY <1>2, <2>2, <2>4
  <2>8. KeptFollows'
    BY <1>t, <1>f, <1>1, <2>1, <2>5, <2>6, <2>7 DEF KeptFollows
  <2> QED BY <1>t, <2>8 DEF FInv, PlanFollowsList
<1> QED BY <1>3, <1>4

\* The loop ends with the whole list, or with as many speakers as a plan may have.
LEMMA KeepFollows == ASSUME IInv, FInv, Keep PROVE FInv'
<1>t. /\ clean \in Seq(Participants) /\ planned \in Seq(Names) /\ next \in Nat \ {0}
      /\ stage = "clean" /\ planned' = planned /\ (next > Len(planned) \/ Len(clean) = MaxPlan)
  BY DEF IInv, TypeOK, Keep, Full
<1>f. FirstMentions(planned)' = FirstMentions(planned) /\ FirstMentions(planned) \subseteq DOMAIN planned
  BY <1>t DEF FirstMentions
<1>1. PICK f \in [DOMAIN clean -> FirstMentions(planned)] :
        /\ \A k \in DOMAIN clean : clean[k] = planned[f[k]] /\ f[k] < next
        /\ \A k, l \in DOMAIN clean : k < l => f[k] < f[l]
        /\ \A i \in FirstMentions(planned) : i < next => \E k \in DOMAIN clean : f[k] = i
  BY <1>t DEF FInv, KeptFollows
<1>2. CASE clean # <<>>
  <2>1. stage' = "done" /\ plan' = clean
    BY <1>2 DEF Keep
  <2>2. ASSUME NEW i \in FirstMentions(planned), \A k \in DOMAIN clean : f[k] # i
        PROVE  Len(clean) = MaxPlan /\ \A k \in DOMAIN clean : f[k] < i
    <3>1. i \in Nat /\ ~(i < next) /\ i \in 1 .. Len(planned)
      BY <1>t, <1>f, <1>1, <2>2
    <3>2. \A k \in DOMAIN clean : f[k] \in Nat /\ f[k] < next
      BY <1>t, <1>f, <1>1
    <3> QED BY <1>t, <3>1, <3>2
  <2>3. PlanFollowsList'
    BY <1>t, <1>f, <1>1, <2>1, <2>2 DEF PlanFollowsList
  <2> QED BY <2>1, <2>3 DEF FInv
<1>3. CASE clean = <<>>
  <2>1. stage' = "fallback"
    BY <1>3 DEF Keep
  <2>2. next > Len(planned)
    BY <1>t, <1>3, SizeAssumption
  <2>3. FirstMentions(planned) = {}
    <3>1. ASSUME NEW i \in FirstMentions(planned) PROVE FALSE
      <4>1. i < next
        BY <1>t, <1>f, <2>2
      <4> QED BY <1>1, <1>3, <4>1
    <3> QED BY <3>1
  <2> QED BY <1>f, <2>1, <2>3 DEF FInv, PlanFollowsList
<1> QED BY <1>2, <1>3

LEMMA NextKeepsFInv == IInv /\ FInv /\ [Next]_vars => FInv'
<1> SUFFICES ASSUME IInv, FInv, [Next]_vars PROVE FInv'
  OBVIOUS
<1>1. CASE Ask
  BY <1>1, AskFollows
<1>2. CASE Take
  BY <1>2, TakeFollows
<1>3. CASE Keep
  BY <1>3, KeepFollows
<1>4. CASE Mention \/ Default
  <2>1. planned' = planned /\ stage = "fallback" /\ stage' \in {"fallback", "done"}
    BY <1>4 DEF Mention, Default
  <2>2. FirstMentions(planned') = {}
    BY <2>1 DEF FInv
  <2> QED BY <2>1, <2>2 DEF FInv, PlanFollowsList
<1>5. CASE Return
  BY <1>5 DEF Return, FInv, PlanFollowsList
<1>6. CASE UNCHANGED vars
  <2>1. UNCHANGED <<stage, planned, next, clean, plan>>
    BY <1>6 DEF vars
  <2>2. KeptFollows' <=> KeptFollows
    BY <2>1 DEF KeptFollows, FirstMentions
  <2>3. PlanFollowsList' <=> PlanFollowsList
    BY <2>1 DEF PlanFollowsList, FirstMentions
  <2>4. FirstMentions(planned)' = FirstMentions(planned)
    BY <2>1
  <2> QED BY <2>1, <2>2, <2>3, <2>4 DEF FInv
<1> QED BY <1>1, <1>2, <1>3, <1>4, <1>5, <1>6 DEF Next

\* The speakers are the planner's, in his order, each at his first mention, cut off after
\* MaxPlan: planSpeakers replaces a list only if it names no participant.
THEOREM ListIsFollowed == TurnSpec => []PlanFollowsList
<1>1. Init => IInv /\ FInv
  BY InitIInv, InitFInv
<1>2. IInv /\ FInv /\ [Next]_vars => (IInv /\ FInv)'
  BY NextKeepsIInv, NextKeepsFInv
<1>3. FInv => PlanFollowsList
  BY DEF FInv
<1> QED BY <1>1, <1>2, <1>3, PlanRunsInside, PTL DEF Spec

-----------------------------------------------------------------------------
(* Numbers.                                                                *)

Less == {p \in Nat \X Nat : p[1] < p[2]}
LEMMA LessIsWellFounded == IsWellFoundedOn(Less, Nat)
BY NatLessThanWellFounded DEF OpToRel, Less

\* A set of numbers has a least one, and a bounded one a greatest.
LEMMA LeastNumber ==
  ASSUME NEW S \in SUBSET Nat, S # {}
  PROVE  \E m \in S : \A k \in S : m <= k
<1>1. PICK m \in S : \A k \in S : <<k, m>> \notin Less
  BY LessIsWellFounded, WFMin
<1>2. \A k \in S : ~(k < m)
  BY <1>1 DEF Less
<1> QED BY <1>2

LEMMA GreatestNumber ==
  ASSUME NEW b \in Nat, NEW S \in SUBSET (0 .. b), S # {}
  PROVE  \E m \in S : \A k \in S : m >= k
<1> DEFINE T == {b - k : k \in S}
<1>1. \A k \in S : k \in Nat /\ b - k \in Nat
  OBVIOUS
<1>2. T \subseteq Nat /\ T # {}
  BY <1>1
<1>3. PICK m \in T : \A k \in T : m <= k
  BY <1>2, LeastNumber
<1>4. PICK n \in S : m = b - n
  OBVIOUS
<1>5. ASSUME NEW k \in S PROVE n >= k
  <2>1. b - n <= b - k
    BY <1>3, <1>4
  <2> QED BY <1>1, <2>1
<1> QED BY <1>5

-----------------------------------------------------------------------------
(* Replies: a text is a sequence of marks over any set M.                  *)

LEMMA SubSeqIs ==
  ASSUME NEW M, NEW t \in Seq(M), NEW a \in 1 .. Len(t) + 1, NEW b \in a - 1 .. Len(t)
  PROVE  /\ SubSeq(t, a, b) \in Seq(M) /\ Len(SubSeq(t, a, b)) = b - a + 1
         /\ \A i \in 1 .. b - a + 1 : SubSeq(t, a, b)[i] = t[a + i - 1]
OBVIOUS

LEMMA SubSubSeq ==
  ASSUME NEW M, NEW t \in Seq(M), NEW a \in 1 .. Len(t) + 1, NEW b \in a - 1 .. Len(t),
         NEW c \in 1 .. b - a + 2, NEW d \in c - 1 .. b - a + 1
  PROVE  SubSeq(SubSeq(t, a, b), c, d) = SubSeq(t, a + c - 1, a + d - 1)
<1> DEFINE u == SubSeq(t, a, b)
           v == SubSeq(u, c, d)
           w == SubSeq(t, a + c - 1, a + d - 1)
<1>1. u \in Seq(M) /\ Len(u) = b - a + 1 /\ \A i \in 1 .. b - a + 1 : u[i] = t[a + i - 1]
  BY SubSeqIs
<1> HIDE DEF u
<1>2. v \in Seq(M) /\ Len(v) = d - c + 1 /\ \A i \in 1 .. d - c + 1 : v[i] = u[c + i - 1]
  <2>1. c \in 1 .. Len(u) + 1 /\ d \in c - 1 .. Len(u)
    BY <1>1
  <2> QED BY <1>1, <2>1, SubSeqIs
<1>3. w \in Seq(M) /\ Len(w) = d - c + 1 /\ \A i \in 1 .. d - c + 1 : w[i] = t[a + c - 1 + i - 1]
  <2>1. a + c - 1 \in 1 .. Len(t) + 1 /\ a + d - 1 \in a + c - 1 - 1 .. Len(t)
    OBVIOUS
  <2>2. (a + d - 1) - (a + c - 1) + 1 = d - c + 1
    OBVIOUS
  <2> QED BY <2>1, <2>2, SubSeqIs
<1> HIDE DEF v, w
<1>4. ASSUME NEW i \in 1 .. d - c + 1 PROVE v[i] = w[i]
  <2>1. c + i - 1 \in 1 .. b - a + 1 /\ a + (c + i - 1) - 1 = a + c - 1 + i - 1
    OBVIOUS
  <2> QED BY <1>1, <1>2, <1>3, <2>1
<1>5. v = w
  <2>1. v = [i \in 1 .. d - c + 1 |-> v[i]] /\ w = [i \in 1 .. d - c + 1 |-> w[i]]
    BY <1>2, <1>3
  <2> QED BY <1>4, <2>1
<1> QED BY <1>5 DEF u, v, w

\* The first and the last place with a mark of some kind.
LEMMA FirstPlace ==
  ASSUME NEW t, NEW n \in Nat, NEW I \in SUBSET (1 .. n), I # {}
  PROVE  /\ Text!Min(I) \in I /\ \A i \in I : Text!Min(I) <= i
         /\ Text!Max(I) \in I /\ \A i \in I : i <= Text!Max(I)
<1>1. I \in SUBSET Nat /\ I \in SUBSET (0 .. n)
  OBVIOUS
<1>2. \E m \in I : \A k \in I : m <= k
  BY <1>1, LeastNumber
<1>3. \E m \in I : \A k \in I : m >= k
  BY <1>1, GreatestNumber
<1> QED BY <1>1, <1>2, <1>3 DEF Text!Min, Text!Max

\* strings.TrimSpace takes the line breaks off both ends.
LEMMA TrimmedIs ==
  ASSUME NEW M, NEW t \in Seq(M)
  PROVE  \/ Text!Trimmed(t) = <<>> /\ \A i \in 1 .. Len(t) : t[i].mark = "break"
         \/ \E a, b \in 1 .. Len(t) :
              /\ a <= b /\ Text!Trimmed(t) = SubSeq(t, a, b)
              /\ t[a].mark # "break" /\ t[b].mark # "break"
              /\ \A i \in 1 .. Len(t) : i < a \/ b < i => t[i].mark = "break"
<1> DEFINE I == {i \in 1 .. Len(t) : t[i].mark # "break"}
           from == Text!SelectInSeq(t, Text!NotBreak)
           to   == Text!SelectLastInSeq(t, Text!NotBreak)
<1>0. Text!Trimmed(t) = IF from = 0 THEN <<>> ELSE SubSeq(t, from, to)
  BY DEF Text!Trimmed
<1>1. from = IF I # {} THEN Text!Min(I) ELSE 0
  BY DEF Text!SelectInSeq, Text!NotBreak
<1>2. to = IF I # {} THEN Text!Max(I) ELSE 0
  BY DEF Text!SelectLastInSeq, Text!NotBreak
<1> HIDE DEF from, to
<1>3. CASE I = {}
  BY <1>0, <1>1, <1>3
<1>4. CASE I # {}
  <2> DEFINE a == Text!Min(I)
             b == Text!Max(I)
  <2>0. Len(t) \in Nat /\ I \in SUBSET (1 .. Len(t))
    OBVIOUS
  <2>1. a \in I /\ b \in I /\ (\A i \in I : a <= i) /\ (\A i \in I : i <= b)
    BY <1>4, <2>0, FirstPlace
  <2>4. from = a /\ to = b /\ a # 0
    BY <1>1, <1>2, <1>4, <2>0, <2>1
  <2> HIDE DEF a, b
  <2>2. Text!Trimmed(t) = SubSeq(t, a, b)
    BY <1>0, <2>4
  <2>3. \A i \in 1 .. Len(t) : i < a \/ b < i => t[i].mark = "break"
    BY <2>0, <2>1
  <2> QED BY <2>1, <2>2, <2>3
<1> QED BY <1>3, <1>4

\* A piece of a text that begins and ends with another mark than a line break.
Piece(u, t, a, b) ==
  /\ a \in 1 .. Len(t) /\ b \in 1 .. Len(t) /\ a <= b
  /\ u = SubSeq(t, a, b)
  /\ t[a].mark # "break" /\ t[b].mark # "break"

LEMMA PieceOfPart ==
  ASSUME NEW M, NEW t \in Seq(M), NEW c \in 1 .. Len(t) + 1, NEW d \in c - 1 .. Len(t), NEW u, NEW a, NEW b,
         Piece(u, SubSeq(t, c, d), a, b)
  PROVE  Piece(u, t, c + a - 1, c + b - 1) /\ c + b - 1 <= d
<1> DEFINE v == SubSeq(t, c, d)
<1>1. v \in Seq(M) /\ Len(v) = d - c + 1 /\ \A i \in 1 .. d - c + 1 : v[i] = t[c + i - 1]
  BY SubSeqIs
<1>2. Piece(u, v, a, b)
  OBVIOUS
<1> HIDE DEF v
<1>3. a \in 1 .. d - c + 1 /\ b \in 1 .. d - c + 1 /\ a <= b /\ u = SubSeq(v, a, b)
  BY <1>1, <1>2 DEF Piece
<1>4. t[c + a - 1].mark # "break" /\ t[c + b - 1].mark # "break"
  BY <1>1, <1>2, <1>3 DEF Piece
<1>5. a \in 1 .. d - c + 2 /\ b \in a - 1 .. d - c + 1
  BY <1>3
<1>6. u = SubSeq(t, c + a - 1, c + b - 1)
  BY <1>3, <1>5, SubSubSeq DEF v
<1>7. c + a - 1 \in 1 .. Len(t) /\ c + b - 1 \in 1 .. Len(t) /\ c + a - 1 <= c + b - 1 /\ c + b - 1 <= d
  BY <1>3
<1> QED BY <1>4, <1>6, <1>7 DEF Piece

LEMMA TrimmedPiece ==
  ASSUME NEW M, NEW t \in Seq(M), Text!Trimmed(t) # <<>>
  PROVE  \E a, b \in 1 .. Len(t) : Piece(Text!Trimmed(t), t, a, b)
BY TrimmedIs DEF Piece

\* stripRepeatedCharacterHeaders leaves a piece, or nothing.
LEMMA StrippedPiece ==
  ASSUME NEW M, NEW t \in Seq(M), Text!Stripped(t) # <<>>
  PROVE  \E a, b \in 1 .. Len(t) : Piece(Text!Stripped(t), t, a, b)
<1> DEFINE I == {i \in 1 .. Len(t) : t[i].mark \notin {"own", "break"}}
           from == IF I # {} THEN Text!Min(I) ELSE 0
           u == SubSeq(t, from, Len(t))
<1>1. Text!Stripped(t) = IF from = 0 THEN <<>> ELSE Text!Trimmed(u)
  BY DEF Text!Stripped, Text!SelectInSeq
<1>2. from \in 1 .. Len(t)
  <2>1. Len(t) \in Nat /\ I \in SUBSET (1 .. Len(t))
    OBVIOUS
  <2>2. I # {}
    BY <1>1
  <2>3. Text!Min(I) \in I
    BY <2>1, <2>2, FirstPlace
  <2> QED BY <2>1, <2>2, <2>3
<1> HIDE DEF from
<1>3. from \in 1 .. Len(t) + 1 /\ Len(t) \in from - 1 .. Len(t)
  BY <1>2
<1>4. u \in Seq(M) /\ Len(u) = Len(t) - from + 1
  BY <1>3, SubSeqIs
<1>5. Text!Stripped(t) = Text!Trimmed(u) /\ Text!Trimmed(u) # <<>>
  BY <1>1, <1>2
<1>6. PICK a \in 1 .. Len(u), b \in 1 .. Len(u) : Piece(Text!Trimmed(u), u, a, b)
  BY <1>4, <1>5, TrimmedPiece
<1>7. Piece(Text!Stripped(t), t, from + a - 1, from + b - 1)
  BY <1>3, <1>5, <1>6, PieceOfPart
<1> QED BY <1>7 DEF Piece

\* A text that begins and ends with another mark than a line break stays as it is.
LEMMA TrimmedSame ==
  ASSUME NEW M, NEW t \in Seq(M), Len(t) > 0, t[1].mark # "break", t[Len(t)].mark # "break"
  PROVE  Text!Trimmed(t) = t
<1>1. PICK a \in 1 .. Len(t), b \in 1 .. Len(t) :
        /\ a <= b /\ Text!Trimmed(t) = SubSeq(t, a, b)
        /\ \A i \in 1 .. Len(t) : i < a \/ b < i => t[i].mark = "break"
  BY TrimmedIs
<1>2. a = 1 /\ b = Len(t)
  BY <1>1
<1> QED BY <1>1, <1>2

LEMMA HeaderIs ==
  ASSUME NEW M, NEW t \in Seq(M), NEW h
  PROVE  h \in Text!Headers(t) <=>
           h \in 1 .. Len(t) /\ t[h].mark \in {"own", "other"} /\ (h = 1 \/ t[h - 1].mark = "break")
BY DEF Text!Headers, Text!IsBreak

\* No label is trimmed away, and none comes to the beginning of a line by trimming.
LEMMA HeadersShift ==
  ASSUME NEW M, NEW t \in Seq(M), NEW a \in 1 .. Len(t), NEW b \in a .. Len(t),
         \A i \in 1 .. Len(t) : i < a \/ b < i => t[i].mark = "break"
  PROVE  /\ \A h \in Text!Headers(t) : h \in a .. b /\ h - a + 1 \in Text!Headers(SubSeq(t, a, b))
         /\ \A h \in Text!Headers(SubSeq(t, a, b)) : h \in 1 .. b - a + 1 /\ a + h - 1 \in Text!Headers(t)
<1> DEFINE u == SubSeq(t, a, b)
<1>1. u \in Seq(M) /\ Len(u) = b - a + 1 /\ \A i \in 1 .. b - a + 1 : u[i] = t[a + i - 1]
  BY SubSeqIs
<1> HIDE DEF u
<1>2. ASSUME NEW h \in Text!Headers(t)
      PROVE  h \in a .. b /\ h - a + 1 \in Text!Headers(u)
  <2>1. h \in 1 .. Len(t) /\ t[h].mark \in {"own", "other"} /\ (h = 1 \/ t[h - 1].mark = "break")
    BY HeaderIs
  <2>2. h \in a .. b
    BY <2>1
  <2>3. h - a + 1 \in 1 .. Len(u) /\ u[h - a + 1] = t[h]
    <3>1. h - a + 1 \in 1 .. b - a + 1 /\ a + (h - a + 1) - 1 = h
      BY <2>2
    <3> QED BY <1>1, <3>1
  <2>4. h = a \/ u[h - a + 1 - 1].mark = "break"
    <3>1. ASSUME h # a PROVE u[h - a + 1 - 1] = t[h - 1] /\ h # 1
      <4>1. h - a + 1 - 1 \in 1 .. b - a + 1 /\ a + (h - a + 1 - 1) - 1 = h - 1 /\ h # 1
        BY <2>2, <3>1
      <4> QED BY <1>1, <4>1
    <3> QED BY <2>1, <3>1
  <2>5. h = a => h - a + 1 = 1
    OBVIOUS
  <2>6. u[h - a + 1].mark \in {"own", "other"}
    BY <2>1, <2>3
  <2>7. h - a + 1 \in Text!Headers(u)
    <3> DEFINE k == h - a + 1
    <3>1. k \in 1 .. Len(u) /\ u[k].mark \in {"own", "other"} /\ (k = 1 \/ u[k - 1].mark = "break")
      BY <2>2, <2>3, <2>4, <2>5, <2>6
    <3> HIDE DEF k
    <3>2. k \in Text!Headers(u)
      BY <1>1, <3>1, HeaderIs
    <3> QED BY <3>2 DEF k
  <2> QED BY <2>2, <2>7
<1>3. ASSUME NEW h \in Text!Headers(u)
      PROVE  h \in 1 .. b - a + 1 /\ a + h - 1 \in Text!Headers(t)
  <2>1. h \in 1 .. b - a + 1 /\ u[h].mark \in {"own", "other"} /\ (h = 1 \/ u[h - 1].mark = "break")
    BY <1>1, HeaderIs
  <2>2. a + h - 1 \in 1 .. Len(t) /\ t[a + h - 1].mark \in {"own", "other"}
    BY <1>1, <2>1
  <2>3. a + h - 1 = 1 \/ t[a + h - 1 - 1].mark = "break"
    <3>1. CASE h = 1
      <4>1. a + h - 1 = a /\ (a = 1 \/ a - 1 \in 1 .. Len(t))
        BY <3>1
      <4>2. a = 1 \/ t[a - 1].mark = "break"
        BY <4>1
      <4> QED BY <3>1, <4>1, <4>2
    <3>2. CASE h # 1
      <4>1. h - 1 \in 1 .. b - a + 1 /\ a + (h - 1) - 1 = a + h - 1 - 1
        BY <2>1, <3>2
      <4> QED BY <1>1, <2>1, <3>2, <4>1
    <3> QED BY <3>1, <3>2
  <2> QED BY <2>1, <2>2, <2>3, HeaderIs
<1> QED BY <1>2, <1>3 DEF u

\* The place i of the text is under a label of the character's own, or, in a text
\* that never uses it, under nobody's.
HasOwn(t) == \E h \in Text!Headers(t) : t[h].mark = "own"
His(t, i) ==
  /\ HasOwn(t) => \E k \in Text!Headers(t) :
                    k <= i /\ t[k].mark = "own" /\ \A h \in Text!Headers(t) : h <= i => h <= k
  /\ ~HasOwn(t) => \A h \in Text!Headers(t) : h > i

HisPiece(u, t) == \E a, b \in 1 .. Len(t) : Piece(u, t, a, b) /\ \A i \in a .. b : His(t, i)

\* What stands between a label and the next one.
LEMMA BlockIs ==
  ASSUME NEW M, NEW t \in Seq(M), NEW c \in Text!Headers(t)
  PROVE  \E d \in c .. Len(t) :
           Text!Block(t, c) = SubSeq(t, c + 1, d) /\ \A h \in Text!Headers(t) : h <= d => h <= c
<1> DEFINE H == {h \in Text!Headers(t) : h > c}
           end == IF \E j \in Text!Headers(t) : j > c
                  THEN CHOOSE j \in Text!Headers(t) : j > c /\ \A k \in Text!Headers(t) : k > c => k >= j
                  ELSE Len(t) + 1
<1>1. Text!Block(t, c) = SubSeq(t, c + 1, end - 1)
  BY DEF Text!Block
<1>2. Text!Headers(t) \subseteq 1 .. Len(t) /\ Len(t) \in Nat
  BY DEF Text!Headers
<1>3. end \in c + 1 .. Len(t) + 1 /\ \A h \in Text!Headers(t) : h <= end - 1 => h <= c
  <2>1. CASE H = {}
    <3>1. end = Len(t) + 1
      BY <2>1
    <3> HIDE DEF end
    <3> QED BY <1>2, <2>1, <3>1
  <2>2. CASE H # {}
    <3>1. H \in SUBSET Nat
      BY <1>2
    <3>2. \E j \in H : \A k \in H : j <= k
      BY <2>2, <3>1, LeastNumber
    <3>3. \E j \in Text!Headers(t) : j > c /\ \A k \in Text!Headers(t) : k > c => k >= j
      BY <1>2, <3>2
    <3>4. end = CHOOSE j \in Text!Headers(t) : j > c /\ \A k \in Text!Headers(t) : k > c => k >= j
      BY <2>2
    <3> HIDE DEF end
    <3>5. end \in Text!Headers(t) /\ end > c /\ \A k \in Text!Headers(t) : k > c => k >= end
      BY <3>3, <3>4
    <3> QED BY <1>2, <3>5
  <2> QED BY <2>1, <2>2
<1> HIDE DEF end
<1>4. end - 1 \in c .. Len(t)
  BY <1>2, <1>3
<1> QED BY <1>1, <1>3, <1>4

\* The words of a piece of a text, trimmed at both ends, are the character's.
LEMMA HisPieceOfTrimmed ==
  ASSUME NEW M, NEW t \in Seq(M), NEW a \in 1 .. Len(t), NEW b \in a .. Len(t),
         \A i \in 1 .. Len(t) : i < a \/ b < i => t[i].mark = "break",
         NEW u, HisPiece(u, SubSeq(t, a, b))
  PROVE  HisPiece(u, t)
<1> DEFINE v == SubSeq(t, a, b)
<1>1. v \in Seq(M) /\ Len(v) = b - a + 1 /\ \A i \in 1 .. b - a + 1 : v[i] = t[a + i - 1]
  BY SubSeqIs
<1>2. /\ \A h \in Text!Headers(t) : h \in a .. b /\ h - a + 1 \in Text!Headers(v)
      /\ \A h \in Text!Headers(v) : h \in 1 .. b - a + 1 /\ a + h - 1 \in Text!Headers(t)
  BY HeadersShift
<1>3. PICK c \in 1 .. Len(v), d \in 1 .. Len(v) : Piece(u, v, c, d) /\ \A i \in c .. d : His(v, i)
  BY DEF HisPiece
<1>4. Piece(u, t, a + c - 1, a + d - 1)
  BY <1>3, PieceOfPart
<1> HIDE DEF v
<1>5. HasOwn(t) <=> HasOwn(v)
  <2>1. ASSUME NEW h \in Text!Headers(t), t[h].mark = "own" PROVE HasOwn(v)
    <3>1. h - a + 1 \in 1 .. b - a + 1 /\ a + (h - a + 1) - 1 = h
      BY <1>2
    <3>2. v[h - a + 1].mark = "own"
      BY <1>1, <2>1, <3>1
    <3> QED BY <1>2, <3>2 DEF HasOwn
  <2>2. ASSUME NEW h \in Text!Headers(v), v[h].mark = "own" PROVE HasOwn(t)
    BY <1>1, <1>2, <2>2 DEF HasOwn
  <2> QED BY <2>1, <2>2 DEF HasOwn
<1>6. ASSUME NEW i \in a + c - 1 .. a + d - 1 PROVE His(t, i)
  <2>1. i - a + 1 \in c .. d
    BY <1>3
  <2>2. His(v, i - a + 1)
    BY <1>3, <2>1
  <2>3. ASSUME HasOwn(t)
        PROVE  \E k \in Text!Headers(t) :
                 k <= i /\ t[k].mark = "own" /\ \A h \in Text!Headers(t) : h <= i => h <= k
    <3>1. PICK k \in Text!Headers(v) :
            /\ k <= i - a + 1 /\ v[k].mark = "own"
            /\ \A h \in Text!Headers(v) : h <= i - a + 1 => h <= k
      BY <1>5, <2>2, <2>3 DEF His
    <3>2. a + k - 1 \in Text!Headers(t) /\ t[a + k - 1].mark = "own" /\ k \in 1 .. b - a + 1
      BY <1>1, <1>2, <3>1
    <3>3. a + k - 1 <= i
      BY <3>1, <3>2
    <3>4. ASSUME NEW h \in Text!Headers(t), h <= i PROVE h <= a + k - 1
      <4>1. h - a + 1 \in Text!Headers(v) /\ h - a + 1 <= i - a + 1 /\ h \in a .. b
        BY <1>2, <3>4
      <4>2. h - a + 1 <= k
        BY <3>1, <4>1
      <4> QED BY <3>2, <4>1, <4>2
    <3> QED BY <3>2, <3>3, <3>4
  <2>4. ASSUME ~HasOwn(t), NEW h \in Text!Headers(t) PROVE h > i
    <3>1. h - a + 1 \in Text!Headers(v) /\ h \in a .. b
      BY <1>2
    <3>2. h - a + 1 > i - a + 1
      BY <1>5, <2>2, <2>4, <3>1 DEF His
    <3> QED BY <3>1, <3>2
  <2> QED BY <2>3, <2>4 DEF His
<1>7. a + c - 1 \in 1 .. Len(t) /\ a + d - 1 \in 1 .. Len(t)
  BY <1>4 DEF Piece
<1> QED BY <1>4, <1>6, <1>7 DEF HisPiece

\* A block under the character's own label, stripped of labels, is his words.
LEMMA OwnBlock ==
  ASSUME NEW M, NEW t \in Seq(M), NEW c \in Text!Headers(t), t[c].mark = "own",
         Text!Stripped(Text!Block(t, c)) # <<>>
  PROVE  HisPiece(Text!Stripped(Text!Block(t, c)), t)
<1> DEFINE u == Text!Block(t, c)
           s == Text!Stripped(u)
<1>0. c \in 1 .. Len(t)
  BY HeaderIs
<1>1. PICK d \in c .. Len(t) : u = SubSeq(t, c + 1, d) /\ \A h \in Text!Headers(t) : h <= d => h <= c
  BY BlockIs
<1>2. c + 1 \in 1 .. Len(t) + 1 /\ d \in c + 1 - 1 .. Len(t)
  BY <1>0
<1> HIDE DEF u
<1>3. u \in Seq(M) /\ Len(u) = d - (c + 1) + 1
  <2>1. SubSeq(t, c + 1, d) \in Seq(M) /\ Len(SubSeq(t, c + 1, d)) = d - (c + 1) + 1
    BY <1>0, <1>2, SubSeqIs
  <2> QED BY <1>1, <2>1
<1>4. PICK a \in 1 .. Len(u), b \in 1 .. Len(u) : Piece(s, u, a, b)
  BY <1>3, StrippedPiece DEF u
<1>5. Piece(s, t, c + 1 + a - 1, c + 1 + b - 1) /\ c + 1 + b - 1 <= d
  BY <1>1, <1>2, <1>4, PieceOfPart
<1>6. HasOwn(t)
  BY DEF HasOwn
<1>7. ASSUME NEW i \in c + 1 + a - 1 .. c + 1 + b - 1 PROVE His(t, i)
  <2>1. c <= i /\ i <= d
    BY <1>0, <1>4, <1>5
  <2>2. \A h \in Text!Headers(t) : h <= i => h <= c
    <3>1. \A h \in Text!Headers(t) : h \in Nat
      BY HeaderIs
    <3> QED BY <1>1, <2>1, <3>1
  <2> QED BY <1>6, <2>1, <2>2 DEF His
<1>8. c + 1 + a - 1 \in 1 .. Len(t) /\ c + 1 + b - 1 \in 1 .. Len(t)
  BY <1>5 DEF Piece
<1>9. HisPiece(s, t)
  BY <1>5, <1>7, <1>8 DEF HisPiece
<1> QED BY <1>9 DEF u

\* Normalizing is trimming and then cutting out.
LEMMA NormalizedIs ==
  ASSUME NEW M, NEW t \in Seq(M), Text!Normalized(t) # <<>>
  PROVE  HisPiece(Text!Normalized(t), t)
<1> DEFINE w == Text!Trimmed(t)
           H == Text!Headers(w)
           own == {i \in H : w[i].mark = "own"}
           n == Text!Normalized(t)
<1>1. n = CASE own # {} -> Text!Stripped(Text!Block(w, CHOOSE i \in own : \A j \in own : i <= j))
            [] H = {} -> w
            [] OTHER -> Text!Trimmed(SubSeq(w, 1, (CHOOSE i \in H : \A j \in H : i <= j) - 1))
  BY DEF Text!Normalized
<1> HIDE DEF n
<1>2. CASE w = <<>>
  <2>1. H = {}
    BY <1>2 DEF Text!Headers
  <2>2. n = <<>>
    BY <1>1, <1>2, <2>1
  <2> QED BY <2>2 DEF n
<1>3. CASE w # <<>>
  <2>1. PICK a \in 1 .. Len(t), b \in 1 .. Len(t) :
          /\ a <= b /\ w = SubSeq(t, a, b)
          /\ t[a].mark # "break" /\ t[b].mark # "break"
          /\ \A i \in 1 .. Len(t) : i < a \/ b < i => t[i].mark = "break"
    BY <1>3, TrimmedIs
  <2>2. a \in 1 .. Len(t) + 1 /\ b \in a - 1 .. Len(t)
    BY <2>1
  <2>3. w \in Seq(M) /\ Len(w) = b - a + 1 /\ \A i \in 1 .. b - a + 1 : w[i] = t[a + i - 1]
    BY <2>1, <2>2, SubSeqIs
  <2> HIDE DEF w
  <2>4. \A h \in H : h \in 1 .. Len(w)
    BY <2>3, HeaderIs
  <2>5. HisPiece(n, w)
    <3>1. CASE own # {}
      <4> DEFINE c == CHOOSE i \in own : \A j \in own : i <= j
      <4>1. own \in SUBSET Nat
        BY <2>4
      <4>2. c \in own
        <5>1. \E m \in own : \A k \in own : m <= k
          BY <3>1, <4>1, LeastNumber
        <5> HIDE DEF own
        <5> QED BY <5>1
      <4>3. n = Text!Stripped(Text!Block(w, c))
        BY <1>1, <3>1
      <4> HIDE DEF c
      <4>4. c \in Text!Headers(w) /\ w[c].mark = "own"
        BY <4>2
      <4>5. n # <<>>
        BY DEF n
      <4> QED BY <2>3, <4>3, <4>4, <4>5, OwnBlock
    <3>2. CASE own = {} /\ H = {}
      <4>1. n = w
        BY <1>1, <3>2
      <4>2. w[1].mark # "break" /\ w[Len(w)].mark # "break" /\ Len(w) \in Nat /\ Len(w) >= 1
        BY <2>1, <2>3
      <4>3. w = SubSeq(w, 1, Len(w))
        BY <2>3
      <4>4. Piece(n, w, 1, Len(w))
        BY <4>1, <4>2, <4>3 DEF Piece
      <4>5. \A i \in 1 .. Len(w) : His(w, i)
        BY <3>2 DEF His, HasOwn
      <4>6. 1 \in 1 .. Len(w) /\ Len(w) \in 1 .. Len(w)
        BY <4>2
      <4> QED BY <4>4, <4>5, <4>6 DEF HisPiece
    <3>3. CASE own = {} /\ H # {}
      <4> DEFINE f == CHOOSE i \in H : \A j \in H : i <= j
                 x == SubSeq(w, 1, f - 1)
      <4>1. H \in SUBSET Nat
        BY <2>4
      <4>2. f \in H /\ \A j \in H : f <= j
        <5>1. \E m \in H : \A k \in H : m <= k
          BY <3>3, <4>1, LeastNumber
        <5> HIDE DEF H
        <5> QED BY <5>1
      <4>3. n = Text!Trimmed(x)
        BY <1>1, <3>3
      <4> HIDE DEF f
      <4>4. 1 \in 1 .. Len(w) + 1 /\ f - 1 \in 1 - 1 .. Len(w) /\ f \in Nat
        BY <2>3, <2>4, <4>2
      <4>5. x \in Seq(M)
        BY <2>3, <4>4, SubSeqIs
      <4>6. Text!Trimmed(x) # <<>>
        BY <4>3 DEF n
      <4>7. PICK c \in 1 .. Len(x), d \in 1 .. Len(x) : Piece(Text!Trimmed(x), x, c, d)
        BY <4>5, <4>6, TrimmedPiece
      <4>8. Piece(n, w, 1 + c - 1, 1 + d - 1) /\ 1 + d - 1 <= f - 1
        BY <2>3, <4>3, <4>4, <4>7, PieceOfPart
      <4>9. Len(x) \in Nat /\ 1 + c - 1 = c /\ 1 + d - 1 = d
        BY <4>5
      <4>10. Piece(n, w, c, d) /\ d <= f - 1
        BY <4>8, <4>9
      <4>11. ASSUME NEW i \in c .. d PROVE His(w, i)
        <5>1. ~HasOwn(w)
          BY <3>3 DEF HasOwn
        <5>2. \A h \in H : h > i
          BY <2>4, <4>2, <4>4, <4>9, <4>10
        <5> QED BY <5>1, <5>2 DEF His
      <4>12. c \in 1 .. Len(w) /\ d \in 1 .. Len(w)
        BY <4>10 DEF Piece
      <4> QED BY <4>10, <4>11, <4>12 DEF HisPiece
    <3> QED BY <3>1, <3>2, <3>3
  <2>6. b \in a .. Len(t)
    BY <2>1
  <2>7. HisPiece(n, SubSeq(t, a, b))
    BY <2>1, <2>5
  <2>8. HisPiece(n, t)
    BY <2>1, <2>6, <2>7, HisPieceOfTrimmed
  <2> QED BY <2>8 DEF n
<1> QED BY <1>2, <1>3

\* What the model wrote, what is made of it and what is made of that.
TInv ==
  /\ raw \in Seq(Text!MarkType) /\ \A i \in 1 .. Len(raw) : raw[i].at = i
  /\ recorded = <<>> \/ HisPiece(recorded, raw)
  /\ textStage = "listed" => listed = Text!Normalized(recorded)

LEMMA InitTInv == Text!Init => TInv
BY DEF Text!Init, TInv

LEMMA NextKeepsTInv == TInv /\ [Text!Next]_(Text!vars) => TInv'
<1> SUFFICES ASSUME TInv, [Text!Next]_(Text!vars) PROVE TInv'
  OBVIOUS
<1>1. CASE Text!Send
  <2>0. PICK n \in 0 .. MaxMarks : \E marks \in [1 .. n -> Text!Marks] :
          raw' = [i \in 1 .. n |-> [mark |-> marks[i], at |-> i]]
    BY <1>1 DEF Text!Send
  <2>1. PICK marks \in [1 .. n -> Text!Marks] : raw' = [i \in 1 .. n |-> [mark |-> marks[i], at |-> i]]
    BY <2>0
  <2>2. raw' \in Seq(Text!MarkType) /\ \A i \in 1 .. Len(raw') : raw'[i].at = i
    <3>1. n \in Nat /\ \A i \in 1 .. n : i \in 1 .. MaxMarks
      BY MarksAssumption
    <3>2. \A i \in 1 .. n : raw'[i] = [mark |-> marks[i], at |-> i]
      BY <2>1
    <3>3. \A i \in 1 .. n : raw'[i] \in Text!MarkType
      BY <2>1, <3>1, <3>2 DEF Text!MarkType
    <3>4. raw' \in [1 .. n -> Text!MarkType]
      BY <2>1, <3>3
    <3>5. raw' \in Seq(Text!MarkType) /\ Len(raw') = n
      BY <3>1, <3>4
    <3> QED BY <3>2, <3>5
  <2>3. recorded' = Text!Normalized(raw') /\ textStage' = "sent"
    BY <1>1 DEF Text!Send
  <2>4. recorded' = <<>> \/ HisPiece(recorded', raw')
    BY <2>2, <2>3, NormalizedIs
  <2> QED BY <2>2, <2>3, <2>4 DEF TInv
<1>2. CASE Text!List
  BY <1>2 DEF Text!List, TInv
<1>3. CASE Text!Forget
  BY <1>3 DEF Text!Forget, TInv
<1>4. CASE UNCHANGED Text!vars
  BY <1>4 DEF Text!vars, TInv
<1> QED BY <1>1, <1>2, <1>3, <1>4 DEF Text!Next

\* What is recorded was written for the character.
LEMMA RecordedIsHis == TInv => Text!WordsAreTheCharacters
<1> SUFFICES ASSUME TInv, NEW i \in DOMAIN recorded
             PROVE  IF \E j \in Text!Headers(raw) : raw[j].mark = "own"
                    THEN Text!WrittenFor(recorded[i].at) = "own"
                    ELSE Text!WrittenFor(recorded[i].at) = "nobody"
  BY DEF Text!WordsAreTheCharacters
<1>1. raw \in Seq(Text!MarkType) /\ \A j \in 1 .. Len(raw) : raw[j].at = j
  BY DEF TInv
<1>2. HisPiece(recorded, raw)
  BY DEF TInv
<1>3. PICK a \in 1 .. Len(raw), b \in 1 .. Len(raw) :
        Piece(recorded, raw, a, b) /\ \A j \in a .. b : His(raw, j)
  BY <1>2 DEF HisPiece
<1>4. a <= b /\ recorded = SubSeq(raw, a, b)
  BY <1>3 DEF Piece
<1>5. i \in 1 .. b - a + 1 /\ recorded[i] = raw[a + i - 1]
  <2>1. a \in 1 .. Len(raw) + 1 /\ b \in a - 1 .. Len(raw)
    BY <1>1, <1>4
  <2>2. recorded \in Seq(Text!MarkType) /\ Len(recorded) = b - a + 1
        /\ \A j \in 1 .. b - a + 1 : recorded[j] = raw[a + j - 1]
    BY <1>1, <1>4, <2>1, SubSeqIs
  <2> QED BY <2>2
<1>6. PICK p \in a .. b : p = recorded[i].at
  <2>1. a + i - 1 \in 1 .. Len(raw) /\ a + i - 1 \in a .. b
    BY <1>1, <1>4, <1>5
  <2>2. recorded[i].at = a + i - 1
    BY <1>1, <1>5, <2>1
  <2> QED BY <2>1, <2>2
<1>7. His(raw, p)
  BY <1>3
<1> DEFINE before == {j \in Text!Headers(raw) : j <= p}
<1>8. Text!WrittenFor(p) =
        IF before = {} THEN "nobody" ELSE raw[CHOOSE j \in before : \A k \in before : k <= j].mark
  BY DEF Text!WrittenFor
<1>9. \A h \in Text!Headers(raw) : h \in Nat
  BY <1>1, HeaderIs
<1>10. ASSUME HasOwn(raw) PROVE Text!WrittenFor(p) = "own"
  <2>1. PICK k \in Text!Headers(raw) :
          k <= p /\ raw[k].mark = "own" /\ \A h \in Text!Headers(raw) : h <= p => h <= k
    BY <1>7, <1>10 DEF His
  <2>2. k \in before /\ \A j \in before : j <= k
    BY <2>1
  <2>3. \A j \in before : (\A h \in before : h <= j) => j = k
    BY <1>9, <2>2
  <2>4. (CHOOSE j \in before : \A h \in before : h <= j) = k
    <3> HIDE DEF before
    <3> QED BY <2>2, <2>3
  <2> QED BY <1>8, <2>1, <2>2, <2>4
<1>11. ASSUME ~HasOwn(raw) PROVE Text!WrittenFor(p) = "nobody"
  <2>1. before = {}
    BY <1>7, <1>9, <1>11 DEF His
  <2> QED BY <1>8, <2>1
<1> QED BY <1>6, <1>10, <1>11 DEF HasOwn

\* What is listed without a label is what was answered.
LEMMA ListedIsRecorded == TInv => Text!ListedAsSent
<1> SUFFICES ASSUME TInv, textStage = "listed", Text!Headers(recorded) = {} PROVE listed = recorded
  BY DEF Text!ListedAsSent
<1>1. listed = Text!Normalized(recorded)
  BY DEF TInv
<1>2. Text!Trimmed(recorded) = recorded
  <2>1. CASE recorded = <<>>
    <3>1. recorded \in Seq(Text!MarkType) /\ 1 .. Len(recorded) = {}
      BY <2>1
    <3>2. Text!Trimmed(recorded) = <<>>
      BY <3>1, TrimmedIs
    <3> QED BY <2>1, <3>2
  <2>2. CASE HisPiece(recorded, raw)
    <3>1. PICK a \in 1 .. Len(raw), b \in 1 .. Len(raw) : Piece(recorded, raw, a, b)
      BY <2>2 DEF HisPiece
    <3>2. a <= b /\ recorded = SubSeq(raw, a, b) /\ raw[a].mark # "break" /\ raw[b].mark # "break"
      BY <3>1 DEF Piece
    <3>3. raw \in Seq(Text!MarkType)
      BY DEF TInv
    <3>4. a \in 1 .. Len(raw) + 1 /\ b \in a - 1 .. Len(raw)
      BY <3>2, <3>3
    <3>5. recorded \in Seq(Text!MarkType) /\ Len(recorded) = b - a + 1
          /\ \A j \in 1 .. b - a + 1 : recorded[j] = raw[a + j - 1]
      BY <3>2, <3>3, <3>4, SubSeqIs
    <3>6. recorded[1] = raw[a] /\ recorded[Len(recorded)] = raw[b] /\ Len(recorded) > 0
      <4>0. a \in Int /\ b \in Int
        BY <3>3
      <4>1. 1 \in 1 .. b - a + 1 /\ b - a + 1 \in 1 .. b - a + 1 /\ a + 1 - 1 = a /\ a + (b - a + 1) - 1 = b
        BY <3>2, <4>0
      <4> QED BY <3>5, <4>1
    <3> QED BY <3>2, <3>5, <3>6, TrimmedSame
  <2> QED BY <2>1, <2>2 DEF TInv
<1> DEFINE own == {i \in Text!Headers(Text!Trimmed(recorded)) : Text!Trimmed(recorded)[i].mark = "own"}
<1>3. Text!Headers(Text!Trimmed(recorded)) = {} /\ own = {}
  BY <1>2
<1>4. Text!Normalized(recorded) = Text!Trimmed(recorded)
  BY <1>3 DEF Text!Normalized
<1> QED BY <1>1, <1>2, <1>4

\* What Send computes is, for each reply, a behaviour of ReplyText.
LEMMA TextRunsInside == TurnSpec => Text!Spec
<1>1. TurnInit => Text!Init
  BY DEF TurnInit
<1>2. [TurnNext]_turnVars => [Text!Next]_(Text!vars)
  BY DEF TurnNext, PlanTurn, WindowTurn, ReplyTurn, turnVars, textVars, Text!vars
<1> QED BY <1>1, <1>2, PTL DEF TurnSpec, Text!Spec

LEMMA TextHolds == TurnSpec => []TInv
<1>1. Text!Spec => []TInv
  BY InitTInv, NextKeepsTInv, PTL DEF Text!Spec
<1> QED BY <1>1, TextRunsInside, PTL

\* However the model labels what it writes, no other character's words are put into
\* a character's mouth: normalizeCharacterReply keeps what stands under his label
\* and, where he has none, what stands under nobody's.
THEOREM NobodyIsMisquoted == TurnSpec => []WordsAreTheCharacters
<1>1. TInv => WordsAreTheCharacters
  BY RecordedIsHis DEF WordsAreTheCharacters
<1> QED BY <1>1, TextHolds, PTL

\* normalizeCharacterMessages, which cleans every reply again when the day is read,
\* changes none that carries no label.
THEOREM ListIsUnchanged == TurnSpec => []ListedAsSent
<1>1. TInv => ListedAsSent
  BY ListedIsRecorded DEF ListedAsSent
<1> QED BY <1>1, TextHolds, PTL

-----------------------------------------------------------------------------
(* Sums.  The fold of a sequence goes by sets of places: g is what it      *)
(* computes for each of them, w the weights of n places.                   *)

Adds(g, n, w) ==
  g = [s \in SUBSET (1 .. n) |->
         IF s = {} THEN 0 ELSE g[s \ {Window!Max(s)}] + w[Window!Max(s)]]

LEMMA MaxIs ==
  ASSUME NEW n \in Nat, NEW s \in SUBSET (1 .. n), s # {}
  PROVE  Window!Max(s) \in s /\ \A i \in s : i <= Window!Max(s)
<1>1. s \in SUBSET (0 .. n)
  OBVIOUS
<1>2. \E m \in s : \A k \in s : m >= k
  BY <1>1, GreatestNumber
<1> QED BY <1>2 DEF Window!Max

LEMMA AddsNext ==
  ASSUME NEW n \in Nat, NEW w, NEW g, Adds(g, n, w)
  PROVE  \E e : Adds(e, n + 1, w)
<1> DEFINE e == [s \in SUBSET (1 .. n + 1) |-> IF n + 1 \in s THEN g[s \ {n + 1}] + w[n + 1] ELSE g[s]]
<1>1. ASSUME NEW s \in SUBSET (1 .. n + 1)
      PROVE  e[s] = IF s = {} THEN 0 ELSE e[s \ {Window!Max(s)}] + w[Window!Max(s)]
  <2>1. CASE s = {}
    <3>1. s \in SUBSET (1 .. n) /\ n + 1 \notin s
      BY <2>1
    <3>2. g[s] = 0
      BY <2>1, <3>1 DEF Adds
    <3> QED BY <2>1, <3>1, <3>2
  <2>2. CASE n + 1 \in s
    <3>0. n + 1 \in Nat /\ s # {} /\ \A i \in s : i \in Nat /\ i <= n + 1
      BY <2>2
    <3>1. Window!Max(s) \in s /\ \A i \in s : i <= Window!Max(s)
      BY <3>0, MaxIs
    <3>2. Window!Max(s) = n + 1
      <4>1. Window!Max(s) \in Nat /\ Window!Max(s) <= n + 1
        BY <3>0, <3>1
      <4>2. n + 1 <= Window!Max(s)
        BY <2>2, <3>1
      <4> QED BY <4>1, <4>2
    <3>3. s \ {n + 1} \in SUBSET (1 .. n + 1) /\ n + 1 \notin s \ {n + 1}
      OBVIOUS
    <3>4. e[s \ {n + 1}] = g[s \ {n + 1}]
      BY <3>3
    <3> QED BY <2>2, <3>2, <3>4
  <2>3. CASE s # {} /\ n + 1 \notin s
    <3>1. s \in SUBSET (1 .. n)
      BY <2>3
    <3>2. Window!Max(s) \in s
      BY <2>3, <3>1, MaxIs
    <3>3. g[s] = g[s \ {Window!Max(s)}] + w[Window!Max(s)]
      BY <2>3, <3>1 DEF Adds
    <3>4. e[s] = g[s] /\ e[s \ {Window!Max(s)}] = g[s \ {Window!Max(s)}]
      BY <2>3, <3>1
    <3> QED BY <2>3, <3>3, <3>4
  <2> QED BY <2>1, <2>2, <2>3
<1>2. e = [s \in SUBSET (1 .. n + 1) |->
             IF s = {} THEN 0 ELSE e[s \ {Window!Max(s)}] + w[Window!Max(s)]]
  BY <1>1
<1> QED BY <1>2 DEF Adds

LEMMA AddsAlways ==
  ASSUME NEW n \in Nat, NEW w
  PROVE  \E g : Adds(g, n, w)
<1> DEFINE Bad == {k \in Nat : ~ \E g : Adds(g, k, w)}
<1>1. SUFFICES ASSUME Bad # {} PROVE FALSE
  OBVIOUS
<1>2. PICK k \in Bad : \A j \in Bad : k <= j
  BY <1>1, LeastNumber
<1>3. CASE k = 0
  <2> DEFINE g == [s \in SUBSET (1 .. 0) |-> 0]
  <2>1. SUBSET (1 .. 0) = {{}}
    OBVIOUS
  <2>2. Adds(g, 0, w)
    BY <2>1 DEF Adds
  <2> QED BY <1>2, <1>3, <2>2
<1>4. CASE k # 0
  <2>1. k - 1 \in Nat /\ k - 1 \notin Bad
    BY <1>2, <1>4
  <2>2. PICK g : Adds(g, k - 1, w)
    BY <2>1
  <2>3. \E e : Adds(e, k - 1 + 1, w)
    BY <2>1, <2>2, AddsNext
  <2>4. k - 1 + 1 = k
    BY <1>2
  <2> QED BY <1>2, <2>3, <2>4
<1> QED BY <1>3, <1>4

\* P sums the weights up to each place.
Sums(P, n, w) == P \in [0 .. n -> Nat] /\ P[0] = 0 /\ \A k \in 1 .. n : P[k] = P[k - 1] + w[k]

LEMMA SumsOfAdds ==
  ASSUME NEW n \in Nat, NEW w \in [1 .. n -> Nat], NEW g, Adds(g, n, w)
  PROVE  Sums([k \in 0 .. n |-> g[1 .. k]], n, w)
<1> DEFINE P == [k \in 0 .. n |-> g[1 .. k]]
<1>1. P[0] = 0
  <2>1. 1 .. 0 = {} /\ {} \in SUBSET (1 .. n)
    OBVIOUS
  <2>2. g[{}] = 0
    BY <2>1 DEF Adds
  <2> QED BY <2>1, <2>2
<1>2. ASSUME NEW k \in 1 .. n PROVE P[k] = P[k - 1] + w[k]
  <2>1. 1 .. k \in SUBSET (1 .. n) /\ 1 .. k # {} /\ k \in 1 .. k
    OBVIOUS
  <2>2. Window!Max(1 .. k) \in 1 .. k /\ \A i \in 1 .. k : i <= Window!Max(1 .. k)
    BY <2>1, MaxIs
  <2>3. Window!Max(1 .. k) = k
    BY <2>1, <2>2
  <2>4. (1 .. k) \ {k} = 1 .. (k - 1)
    OBVIOUS
  <2>5. g[1 .. k] = g[1 .. (k - 1)] + w[k]
    BY <2>1, <2>3, <2>4 DEF Adds
  <2> QED BY <2>5
<1>3. \A k \in 0 .. n : P[k] \in Nat
  <2> DEFINE Bad == {k \in 0 .. n : P[k] \notin Nat}
  <2>1. SUFFICES ASSUME Bad # {} PROVE FALSE
    OBVIOUS
  <2>2. Bad \in SUBSET Nat
    OBVIOUS
  <2>3. PICK k \in Bad : \A j \in Bad : k <= j
    BY <2>1, <2>2, LeastNumber
  <2> HIDE DEF P
  <2>4. k \in 0 .. n /\ k # 0
    BY <1>1, <2>3
  <2>5. k - 1 \in 0 .. n /\ k - 1 \notin Bad /\ k \in 1 .. n
    BY <2>3, <2>4
  <2>6. P[k - 1] \in Nat /\ w[k] \in Nat
    BY <2>5
  <2>7. P[k] \in Nat
    BY <1>2, <2>5, <2>6
  <2> QED BY <2>3, <2>7
<1>4. P \in [0 .. n -> Nat]
  BY <1>3
<1> QED BY <1>1, <1>2, <1>4 DEF Sums

Weight(q) == [i \in DOMAIN q |-> q[i].tokens]
Total(q)  == Window!FoldLeft(LAMBDA sum, m : sum + m.tokens, 0, q)

LEMMA TotalIs ==
  ASSUME NEW q, NEW n \in Nat, DOMAIN q = 1 .. n, \A i \in 1 .. n : q[i].tokens \in Nat
  PROVE  \E P : Sums(P, n, Weight(q)) /\ Total(q) = P[n]
<1> DEFINE F(g) == [s \in SUBSET (1 .. n) |->
                     IF s = {} THEN 0 ELSE g[s \ {Window!Max(s)}] + q[Window!Max(s)].tokens]
           it == CHOOSE g : g = F(g)
<1>1. Total(q) = it[1 .. n]
  BY DEF Total, Window!FoldLeft, Window!MapThenFoldSet
<1>2. ASSUME NEW g PROVE Adds(g, n, Weight(q)) <=> g = F(g)
  <2>1. ASSUME NEW s \in SUBSET (1 .. n), s # {}
        PROVE  Weight(q)[Window!Max(s)] = q[Window!Max(s)].tokens
    BY <2>1, MaxIs DEF Weight
  <2>2. F(g) = [s \in SUBSET (1 .. n) |->
                  IF s = {} THEN 0 ELSE g[s \ {Window!Max(s)}] + Weight(q)[Window!Max(s)]]
    BY <2>1
  <2> QED BY <2>2 DEF Adds
<1>3. \E g : g = F(g)
  BY <1>2, AddsAlways
<1>4. it = F(it)
  <2> HIDE DEF F
  <2> QED BY <1>3
<1> HIDE DEF it, F
<1>5. Adds(it, n, Weight(q))
  BY <1>2, <1>4
<1>6. Weight(q) \in [1 .. n -> Nat]
  BY DEF Weight
<1> DEFINE P == [k \in 0 .. n |-> it[1 .. k]]
<1>7. Sums(P, n, Weight(q))
  BY <1>5, <1>6, SumsOfAdds
<1>8. P[n] = it[1 .. n]
  OBVIOUS
<1> HIDE DEF P
<1> QED BY <1>1, <1>7, <1>8

\* The sums of a part of a sequence are differences of the sums of the whole.
PartOf(v, w, a, m) == \A k \in 1 .. m : v[k] = w[a + k] /\ w[a + k] \in Nat

LEMMA SumsDiffer ==
  ASSUME NEW n \in Nat, NEW w, NEW P, Sums(P, n, w), NEW a \in 0 .. n, NEW m \in 0 .. n - a, NEW v, NEW Q, Sums(Q, m, v),
         PartOf(v, w, a, m)
  PROVE  \A k \in 0 .. m : Q[k] = P[a + k] - P[a]
<1> DEFINE Bad == {k \in 0 .. m : Q[k] # P[a + k] - P[a]}
<1>1. SUFFICES ASSUME Bad # {} PROVE FALSE
  OBVIOUS
<1>2. Bad \in SUBSET Nat
  OBVIOUS
<1>3. PICK k \in Bad : \A j \in Bad : k <= j
  BY <1>1, <1>2, LeastNumber
<1>4. P \in [0 .. n -> Nat] /\ Q \in [0 .. m -> Nat] /\ Q[0] = 0
  BY DEF Sums
<1>5. k \in 0 .. m /\ k # 0
  BY <1>3, <1>4
<1>6. k - 1 \in 0 .. m /\ k \in 1 .. m /\ a + k \in 1 .. n /\ a + (k - 1) = a + k - 1
  BY <1>5
<1>7. Q[k - 1] = P[a + (k - 1)] - P[a]
  BY <1>3, <1>6
<1>8. Q[k] = Q[k - 1] + v[k] /\ P[a + k] = P[a + k - 1] + w[a + k] /\ v[k] = w[a + k] /\ v[k] \in Nat
  <2>1. \A l \in 1 .. n : P[l] = P[l - 1] + w[l]
    BY DEF Sums
  <2>2. \A l \in 1 .. m : Q[l] = Q[l - 1] + v[l]
    BY DEF Sums
  <2> QED BY <1>6, <2>1, <2>2 DEF PartOf
<1>9. P[a] \in Nat /\ P[a + k - 1] \in Nat /\ Q[k - 1] \in Nat
  <2>1. a + k - 1 \in 0 .. n
    BY <1>6
  <2> QED BY <1>4, <1>6, <2>1
<1>10. Q[k] = P[a + k] - P[a]
  BY <1>6, <1>7, <1>8, <1>9
<1> QED BY <1>3, <1>10

LEMMA TotalOfPart ==
  ASSUME NEW n \in Nat, NEW w, NEW P, Sums(P, n, w), NEW a \in 0 .. n, NEW m \in 0 .. n - a,
         NEW q, DOMAIN q = 1 .. m, \A k \in 1 .. m : q[k].tokens = w[a + k] /\ w[a + k] \in Nat
  PROVE  Total(q) = P[a + m] - P[a]
<1>1. m \in Nat /\ \A k \in 1 .. m : q[k].tokens \in Nat
  OBVIOUS
<1>2. PICK Q : Sums(Q, m, Weight(q)) /\ Total(q) = Q[m]
  BY <1>1, TotalIs
<1>3. PartOf(Weight(q), w, a, m)
  BY DEF PartOf, Weight
<1>4. \A k \in 0 .. m : Q[k] = P[a + k] - P[a]
  BY <1>2, <1>3, SumsDiffer
<1> QED BY <1>2, <1>4

LEMMA SumsRise ==
  ASSUME NEW n \in Nat, NEW w \in [1 .. n -> Nat], NEW P, Sums(P, n, w), NEW i \in 0 .. n
  PROVE  \A j \in i .. n : P[i] <= P[j]
<1> DEFINE Bad == {j \in i .. n : ~(P[i] <= P[j])}
<1>1. SUFFICES ASSUME Bad # {} PROVE FALSE
  OBVIOUS
<1>2. Bad \in SUBSET Nat
  OBVIOUS
<1>3. PICK j \in Bad : \A k \in Bad : j <= k
  BY <1>1, <1>2, LeastNumber
<1>4. P \in [0 .. n -> Nat]
  BY DEF Sums
<1>5. j \in i .. n /\ j # i
  BY <1>3, <1>4
<1>6. j - 1 \in i .. n /\ j \in 1 .. n
  BY <1>5
<1>7. P[i] <= P[j - 1]
  BY <1>3, <1>6
<1>8. P[j] = P[j - 1] + w[j] /\ w[j] \in Nat
  BY <1>6 DEF Sums
<1>9. P[i] \in Nat /\ P[j - 1] \in Nat
  BY <1>4, <1>6
<1>10. P[i] <= P[j]
  BY <1>7, <1>8, <1>9
<1> QED BY <1>3, <1>10

\* The tokens of the messages from the i-th to the j-th.
Sum(h, i, j) == Total(SubSeq(h, i, j))

LEMMA SumIs ==
  ASSUME NEW M, NEW h \in Seq(M), \A m \in M : m.tokens \in Nat
  PROVE  \E P \in [0 .. Len(h) -> Nat] :
           /\ \A i \in 0 .. Len(h) : \A j \in i .. Len(h) : P[i] <= P[j]
           /\ \A i \in 1 .. Len(h) + 1 : \A j \in i - 1 .. Len(h) : Sum(h, i, j) = P[j] - P[i - 1]
<1> DEFINE n == Len(h)
           w == Weight(h)
<1>1. n \in Nat /\ DOMAIN h = 1 .. n /\ \A i \in 1 .. n : h[i].tokens \in Nat
  OBVIOUS
<1>2. PICK P : Sums(P, n, w)
  BY <1>1, TotalIs
<1>3. w \in [1 .. n -> Nat] /\ \A i \in 1 .. n : w[i] = h[i].tokens
  BY <1>1 DEF Weight
<1> HIDE DEF w
<1>4. P \in [0 .. n -> Nat]
  BY <1>2 DEF Sums
<1>5. \A i \in 0 .. n : \A j \in i .. n : P[i] <= P[j]
  BY <1>1, <1>2, <1>3, SumsRise
<1>6. ASSUME NEW i \in 1 .. n + 1, NEW j \in i - 1 .. n PROVE Sum(h, i, j) = P[j] - P[i - 1]
  <2> DEFINE q == SubSeq(h, i, j)
             m == j - i + 1
  <2>1. q \in Seq(M) /\ Len(q) = m /\ \A k \in 1 .. m : q[k] = h[i + k - 1]
    BY SubSeqIs
  <2> HIDE DEF q
  <2>2. m \in Nat /\ DOMAIN q = 1 .. m /\ \A k \in 1 .. m : q[k].tokens \in Nat
    BY <1>1, <2>1
  <2>3. i - 1 \in 0 .. n /\ m \in 0 .. n - (i - 1) /\ i - 1 + m = j
    BY <1>1
  <2>4. \A k \in 1 .. m : q[k].tokens = w[i - 1 + k] /\ w[i - 1 + k] \in Nat
    <3> SUFFICES ASSUME NEW k \in 1 .. m PROVE q[k].tokens = w[i - 1 + k] /\ w[i - 1 + k] \in Nat
      OBVIOUS
    <3>1. i - 1 + k \in 1 .. n /\ i - 1 + k = i + k - 1
      BY <1>1
    <3> QED BY <1>3, <2>1, <3>1
  <2> DEFINE a == i - 1
  <2> HIDE DEF m, a, n
  <2>5. a \in 0 .. n /\ m \in 0 .. n - a
    BY <2>3 DEF a
  <2>6. \A k \in 1 .. m : q[k].tokens = w[a + k] /\ w[a + k] \in Nat
    BY <2>4 DEF a
  <2>7. Total(q) = P[a + m] - P[a]
    BY <1>1, <1>2, <2>2, <2>5, <2>6, TotalOfPart
  <2> QED BY <2>3, <2>7 DEF Sum, q, a
<1> QED BY <1>4, <1>5, <1>6

\* Parts add up, and a longer part has no fewer tokens.
LEMMA SumsAdd ==
  ASSUME NEW M, NEW h \in Seq(M), \A m \in M : m.tokens \in Nat, NEW i \in 1 .. Len(h) + 1
  PROVE  /\ Sum(h, Len(h) + 1, Len(h)) = 0
         /\ Sum(h, i, Len(h)) \in Nat
         /\ \A j \in 1 .. i : Sum(h, j, i - 1) \in Nat /\ Sum(h, j, Len(h)) = Sum(h, j, i - 1) + Sum(h, i, Len(h))
<1>1. PICK P \in [0 .. Len(h) -> Nat] :
           /\ \A k \in 0 .. Len(h) : \A l \in k .. Len(h) : P[k] <= P[l]
           /\ \A k \in 1 .. Len(h) + 1 : \A l \in k - 1 .. Len(h) : Sum(h, k, l) = P[l] - P[k - 1]
  BY SumIs
<1>2. Len(h) \in Nat /\ i - 1 \in 0 .. Len(h) /\ P[i - 1] \in Nat /\ P[Len(h)] \in Nat /\ P[i - 1] <= P[Len(h)]
  BY <1>1
<1>3. Sum(h, Len(h) + 1, Len(h)) = 0
  <2>1. Len(h) + 1 \in 1 .. Len(h) + 1 /\ Len(h) \in Len(h) + 1 - 1 .. Len(h) /\ Len(h) + 1 - 1 = Len(h)
    BY <1>2
  <2>2. Sum(h, Len(h) + 1, Len(h)) = P[Len(h)] - P[Len(h)]
    BY <1>1, <2>1
  <2> QED BY <1>2, <2>2
<1>4. Sum(h, i, Len(h)) = P[Len(h)] - P[i - 1]
  BY <1>1, <1>2
<1>5. ASSUME NEW j \in 1 .. i
      PROVE  Sum(h, j, i - 1) \in Nat /\ Sum(h, j, Len(h)) = Sum(h, j, i - 1) + Sum(h, i, Len(h))
  <2>1. /\ j \in 1 .. Len(h) + 1 /\ i - 1 \in j - 1 .. Len(h) /\ Len(h) \in j - 1 .. Len(h)
        /\ j - 1 \in 0 .. Len(h)
    BY <1>2
  <2>2. Sum(h, j, i - 1) = P[i - 1] - P[j - 1] /\ Sum(h, j, Len(h)) = P[Len(h)] - P[j - 1]
    BY <1>1, <2>1
  <2>3. P[j - 1] \in Nat /\ P[j - 1] <= P[i - 1]
    BY <1>1, <2>1
  <2> QED BY <1>2, <1>4, <2>2, <2>3
<1> QED BY <1>2, <1>3, <1>4, <1>5

-----------------------------------------------------------------------------
(* Windows.  (h, b, r, s, B and f stand for the history, the budget, what  *)
(* remains of it, the start of the next batch, the batches and the first   *)
(* message of the window.)                                                 *)

SplitsIn(h, i) == i \in 2 .. Len(h) /\ h[i].batch # Single /\ h[i - 1].batch = h[i].batch

\* The range x is a batch of h, and whole.
IsBatch(h, x) ==
  /\ x.start \in 1 .. Len(h) /\ x.end \in x.start .. Len(h)
  /\ x.tokens = Sum(h, x.start, x.end)
  /\ ~SplitsIn(h, x.start) /\ \A i \in x.start + 1 .. x.end : SplitsIn(h, i)

Ranges == [start : Nat, end : Nat, tokens : Nat]

EndOf(B) == IF B = <<>> THEN 0 ELSE B[Len(B)].end

\* B is a row of batches of h, each begins where the one before ends.
Row(h, B) ==
  /\ B \in Seq(Ranges)
  /\ \A k \in 1 .. Len(B) : IsBatch(h, B[k]) /\ B[k].start = IF k = 1 THEN 1 ELSE B[k - 1].end + 1

Longest(h, b, f) ==
  /\ ~SplitsIn(h, f)
  /\ IF b <= 0 THEN f = Len(h) + 1 ELSE Sum(h, f, Len(h)) <= b
  /\ b > 0 => \A i \in 1 .. f - 1 : SplitsIn(h, i) \/ Sum(h, i, Len(h)) > b

Cutting(h, b, r, s, B, f) ==
  /\ b > 0 /\ r = b /\ f = Len(h) + 1
  /\ s \in 1 .. Len(h) + 1 /\ ~SplitsIn(h, s)
  /\ Row(h, B) /\ EndOf(B) = s - 1

Choosing(h, b, r, B, f) ==
  /\ b > 0
  /\ f \in 1 .. Len(h) + 1 /\ ~SplitsIn(h, f)
  /\ r = b - Sum(h, f, Len(h)) /\ r >= 0
  /\ Row(h, B) /\ EndOf(B) = f - 1

WindowOf(st, h, b, r, s, B, f) ==
  /\ h \in Seq(Window!MessageType) /\ b \in Int
  /\ st = "idle" => s = 1 /\ B = <<>>
  /\ st = "cut" => Cutting(h, b, r, s, B, f)
  /\ st = "choose" => Choosing(h, b, r, B, f)
  /\ st = "done" => Longest(h, b, f)

WindowInv == WindowOf(windowStage, history, budget, remaining, start, batches, first)

LEMMA WindowInvPrimed ==
  WindowInv' <=> WindowOf(windowStage', history', budget', remaining', start', batches', first')
BY DEF WindowInv

LEMMA TokensNat == \A m \in Window!MessageType : m.tokens \in Nat
BY WindowAssumption DEF Window!MessageType

LEMMA WindowSplits == \A i : Window!Splits(i) <=> SplitsIn(history, i)
BY DEF Window!Splits, SplitsIn

LEMMA WindowTokens == \A i, j : Window!Tokens(i, j) = Sum(history, i, j)
BY DEF Window!Tokens, Sum, Total

\* The end of a batch is found.
LEMMA BatchEndIs ==
  ASSUME history \in Seq(Window!MessageType), NEW i \in 1 .. Len(history), ~SplitsIn(history, i)
  PROVE  /\ Window!BatchEnd(i) \in i .. Len(history)
         /\ \A k \in i + 1 .. Window!BatchEnd(i) : SplitsIn(history, k)
         /\ ~SplitsIn(history, Window!BatchEnd(i) + 1)
<1> DEFINE n == Len(history)
           e == Window!BatchEnd(i)
           End(j) == /\ \A k \in i .. j : history[k].batch = history[i].batch
                     /\ j < n => history[j + 1].batch # history[i].batch
<1>0. n \in Nat
  OBVIOUS
<1>1. CASE history[i].batch = Single
  <2>1. e = i
    BY <1>1 DEF Window!BatchEnd
  <2>2. ~SplitsIn(history, i + 1)
    BY <1>1 DEF SplitsIn
  <2> HIDE DEF e
  <2>3. i + 1 .. i = {}
    OBVIOUS
  <2> QED BY <2>1, <2>2, <2>3 DEF e
<1>2. CASE history[i].batch # Single
  <2> DEFINE S == {j \in i .. n : j = n \/ history[j + 1].batch # history[i].batch}
  <2>1. S \in SUBSET Nat /\ n \in S
    BY <1>0
  <2>2. PICK j \in S : \A k \in S : j <= k
    BY <2>1, LeastNumber
  <2>3. j \in i .. n /\ End(j)
    <3>1. j \in i .. n /\ (j < n => history[j + 1].batch # history[i].batch)
      BY <2>2
    <3>2. ASSUME NEW k \in i .. j PROVE history[k].batch = history[i].batch
      <4>1. CASE k = i
        BY <4>1
      <4>2. CASE k # i
        <5>1. k - 1 \in i .. n /\ k - 1 < j /\ k - 1 + 1 = k
          BY <3>1, <4>2
        <5>2. ASSUME k - 1 \in S PROVE FALSE
          <6>1. j <= k - 1
            BY <2>2, <5>2
          <6> QED BY <3>1, <5>1, <6>1
        <5> QED BY <5>1, <5>2
      <4> QED BY <4>1, <4>2
    <3> QED BY <3>1, <3>2
  <2>4. e = CHOOSE l \in i .. n : End(l)
    BY <1>2 DEF Window!BatchEnd
  <2> HIDE DEF e, End
  <2>5. e \in i .. n /\ End(e)
    BY <2>3, <2>4
  <2>6. ASSUME NEW k \in i + 1 .. e PROVE SplitsIn(history, k)
    <3>1. k \in 2 .. n /\ k \in i .. e /\ k - 1 \in i .. e
      BY <2>5
    <3>2. history[k].batch = history[i].batch /\ history[k - 1].batch = history[i].batch
      BY <2>5, <3>1 DEF End
    <3> QED BY <1>2, <3>1, <3>2 DEF SplitsIn
  <2>7. ASSUME SplitsIn(history, e + 1) PROVE FALSE
    <3>1. e + 1 \in 2 .. n /\ history[e + 1 - 1].batch = history[e + 1].batch
      BY <2>5, <2>7 DEF SplitsIn
    <3>2. e < n /\ e + 1 - 1 = e /\ e \in i .. e
      BY <2>5, <3>1
    <3> QED BY <2>5, <3>1, <3>2 DEF End
  <2> QED BY <2>5, <2>6, <2>7 DEF e
<1> QED BY <1>1, <1>2

\* One batch more.
LEMMA RowGrows ==
  ASSUME NEW h, NEW B, Row(h, B), NEW x \in Ranges, IsBatch(h, x), x.start = EndOf(B) + 1
  PROVE  Row(h, Append(B, x)) /\ EndOf(Append(B, x)) = x.end
<1> DEFINE C == Append(B, x)
<1>1. B \in Seq(Ranges) /\ Len(B) \in Nat
  BY DEF Row
<1>2. C \in Seq(Ranges) /\ Len(C) = Len(B) + 1 /\ C[Len(B) + 1] = x /\ \A k \in 1 .. Len(B) : C[k] = B[k]
  BY <1>1
<1> HIDE DEF C
<1>3. ASSUME NEW k \in 1 .. Len(C)
      PROVE  IsBatch(h, C[k]) /\ C[k].start = IF k = 1 THEN 1 ELSE C[k - 1].end + 1
  <2>1. CASE k \in 1 .. Len(B)
    <3>1. C[k] = B[k] /\ (k # 1 => C[k - 1] = B[k - 1])
      BY <1>1, <1>2, <2>1
    <3> QED BY <2>1, <3>1 DEF Row
  <2>2. CASE k = Len(B) + 1
    <3>1. C[k] = x
      BY <1>2, <2>2
    <3>2. CASE Len(B) = 0
      <4>1. B = <<>>
        BY <1>1, <3>2
      <4>2. x.start = 1 /\ k = 1
        BY <2>2, <3>2, <4>1 DEF EndOf
      <4> QED BY <3>1, <4>2
    <3>3. CASE Len(B) # 0
      <4>1. B # <<>> /\ k # 1 /\ k - 1 = Len(B) /\ Len(B) \in 1 .. Len(B)
        BY <1>1, <2>2, <3>3
      <4>2. C[k - 1] = B[Len(B)] /\ x.start = B[Len(B)].end + 1
        BY <1>2, <4>1 DEF EndOf
      <4> QED BY <3>1, <4>1, <4>2
    <3> QED BY <3>2, <3>3
  <2> QED BY <1>1, <1>2, <2>1, <2>2
<1>4. C # <<>> /\ EndOf(C) = x.end
  BY <1>1, <1>2 DEF EndOf
<1> QED BY <1>2, <1>3, <1>4 DEF Row, C

\* One batch less.
LEMMA RowShrinks ==
  ASSUME NEW h, NEW B, Row(h, B), B # <<>>
  PROVE  /\ Window!Last(B) \in Ranges /\ IsBatch(h, Window!Last(B)) /\ EndOf(B) = Window!Last(B).end
         /\ Row(h, Window!Front(B)) /\ EndOf(Window!Front(B)) = Window!Last(B).start - 1
<1> DEFINE C == Window!Front(B)
           n == Len(B)
<1>1. B \in Seq(Ranges) /\ n \in Nat /\ n # 0
  BY DEF Row
<1>2. Window!Last(B) = B[n] /\ C = SubSeq(B, 1, n - 1)
  BY DEF Window!Last, Window!Front
<1>3. B[n] \in Ranges /\ IsBatch(h, B[n]) /\ EndOf(B) = B[n].end
      /\ B[n].start = IF n = 1 THEN 1 ELSE B[n - 1].end + 1
  <2>1. n \in 1 .. n
    BY <1>1
  <2>2. B[n] \in Ranges
    BY <1>1, <2>1
  <2> QED BY <2>1, <2>2 DEF Row, EndOf
<1>4. C \in Seq(Ranges) /\ Len(C) = n - 1 /\ \A k \in 1 .. n - 1 : C[k] = B[k]
  <2>1. 1 \in 1 .. Len(B) + 1 /\ n - 1 \in 1 - 1 .. Len(B) /\ n - 1 - 1 + 1 = n - 1
    BY <1>1
  <2>2. C \in Seq(Ranges) /\ Len(C) = n - 1 - 1 + 1 /\ \A k \in 1 .. n - 1 - 1 + 1 : C[k] = B[1 + k - 1]
    BY <1>1, <1>2, <2>1, SubSeqIs
  <2>3. \A k \in 1 .. n - 1 : 1 + k - 1 = k
    OBVIOUS
  <2> QED BY <2>1, <2>2, <2>3
<1> HIDE DEF C
<1>5. ASSUME NEW k \in 1 .. Len(C)
      PROVE  IsBatch(h, C[k]) /\ C[k].start = IF k = 1 THEN 1 ELSE C[k - 1].end + 1
  <2>1. k \in 1 .. n /\ C[k] = B[k] /\ (k # 1 => C[k - 1] = B[k - 1])
    BY <1>1, <1>4
  <2> QED BY <2>1 DEF Row
<1>6. EndOf(C) = B[n].start - 1
  <2>1. CASE n = 1
    <3>1. C = <<>>
      BY <1>4, <2>1
    <3> QED BY <1>3, <2>1, <3>1 DEF EndOf
  <2>2. CASE n # 1
    <3>1. C # <<>> /\ Len(C) = n - 1 /\ n - 1 \in 1 .. n - 1
      BY <1>1, <1>4, <2>2
    <3>2. EndOf(C) = B[n - 1].end
      BY <1>4, <3>1 DEF EndOf
    <3>3. B[n - 1] \in Ranges
      BY <1>1, <3>1
    <3> QED BY <1>3, <2>2, <3>2, <3>3 DEF Ranges
  <2> QED BY <2>1, <2>2
<1> QED BY <1>2, <1>3, <1>4, <1>5, <1>6 DEF Row, C

-----------------------------------------------------------------------------
(* The window, step by step.                                               *)

LEMMA InitWindow == Window!Init => WindowInv
BY DEF Window!Init, WindowInv, WindowOf

LEMMA CallWindow == ASSUME WindowInv, Window!Call PROVE WindowInv'
<1> DEFINE n == Len(history')
<1>1. history' \in Seq(Window!MessageType) /\ n \in Nat
  <2>1. history' \in UNION {[1 .. m -> Window!MessageType] : m \in 0 .. MaxLength}
    BY DEF Window!Call, Window!BoundedSeq, Window!SeqOf
  <2>2. PICK m \in 0 .. MaxLength : history' \in [1 .. m -> Window!MessageType]
    BY <2>1
  <2>3. m \in Nat
    BY WindowAssumption
  <2> QED BY <2>2, <2>3
<1>2. budget' \in Int
  BY WindowAssumption DEF Window!Call
<1>3. start' = 1 /\ batches' = <<>> /\ remaining' = budget' /\ first' = n + 1
  BY DEF Window!Call, WindowInv, WindowOf
<1>4. ~SplitsIn(history', 1) /\ ~SplitsIn(history', n + 1)
  BY <1>1 DEF SplitsIn
<1>5. CASE windowStage' = "cut" /\ ~(remaining' <= 0) /\ history' # <<>>
  <2>1. Row(history', <<>>) /\ EndOf(<<>>) = 0
    BY DEF Row, EndOf
  <2>2. Cutting(history', budget', remaining', start', batches', first')
    BY <1>1, <1>2, <1>3, <1>4, <1>5, <2>1 DEF Cutting
  <2> QED BY <1>1, <1>2, <1>5, <2>2, WindowInvPrimed DEF WindowOf
<1>6. CASE windowStage' = "done" /\ (remaining' <= 0 \/ history' = <<>>)
  <2>1. CASE budget' <= 0
    <3>1. Longest(history', budget', first')
      BY <1>2, <1>3, <1>4, <2>1 DEF Longest
    <3> QED BY <1>1, <1>2, <1>6, <3>1, WindowInvPrimed DEF WindowOf
  <2>2. CASE ~(budget' <= 0)
    <3>1. n = 0
      BY <1>3, <1>6, <2>2
    <3>2. Sum(history', n + 1, n) = 0
      <4>1. n + 1 \in 1 .. n + 1
        BY <1>1
      <4> HIDE DEF n
      <4> QED BY <1>1, <4>1, TokensNat, SumsAdd DEF n
    <3>3. Longest(history', budget', first')
      BY <1>2, <1>3, <1>4, <2>2, <3>1, <3>2 DEF Longest
    <3> QED BY <1>1, <1>2, <1>6, <3>3, WindowInvPrimed DEF WindowOf
  <2> QED BY <2>1, <2>2
<1> QED BY <1>5, <1>6 DEF Window!Call

LEMMA CutWindow == ASSUME WindowInv, Window!Cut PROVE WindowInv'
<1> DEFINE e == Window!BatchEnd(start)
           x == [start |-> start, end |-> e, tokens |-> Window!Tokens(start, e)]
<1>1. history \in Seq(Window!MessageType) /\ Len(history) \in Nat /\ budget \in Int
  BY DEF WindowInv, WindowOf
<1>2. Cutting(history, budget, remaining, start, batches, first) /\ start \in 1 .. Len(history)
  BY <1>1 DEF WindowInv, WindowOf, Cutting, Window!Cut
<1>3. ~SplitsIn(history, start) /\ Row(history, batches) /\ EndOf(batches) = start - 1
  BY <1>2 DEF Cutting
<1>4. /\ batches' = Append(batches, x) /\ start' = e + 1
      /\ UNCHANGED <<windowStage, history, budget, remaining, first>> /\ windowStage = "cut"
  BY DEF Window!Cut
<1>5. /\ e \in start .. Len(history) /\ ~SplitsIn(history, e + 1)
      /\ \A k \in start + 1 .. e : SplitsIn(history, k)
  BY <1>1, <1>2, <1>3, BatchEndIs
<1> HIDE DEF e
<1>6. Window!Tokens(start, e) = Sum(history, start, e) /\ Sum(history, start, e) \in Nat
  <2>1. Window!Tokens(start, e) = Sum(history, start, e)
    BY WindowTokens
  <2>2. PICK i \in 1 .. Len(history) + 1 : i = e + 1
    BY <1>1, <1>2, <1>5
  <2>3. start \in 1 .. i /\ i - 1 = e
    BY <1>1, <1>2, <1>5, <2>2
  <2>4. Sum(history, start, i - 1) \in Nat
    BY <1>1, <2>3, TokensNat, SumsAdd
  <2> QED BY <2>1, <2>3, <2>4
<1>7. x \in Ranges /\ IsBatch(history, x) /\ x.start = EndOf(batches) + 1
  <2>1. start \in Nat /\ e \in Nat
    BY <1>2, <1>5
  <2> QED BY <1>2, <1>3, <1>5, <1>6, <2>1 DEF Ranges, IsBatch
<1> HIDE DEF x
<1>8. Row(history, batches') /\ EndOf(batches') = x.end
  BY <1>3, <1>4, <1>7, RowGrows
<1>9. x.end = e
  BY DEF x
<1>10. Cutting(history, budget, remaining, start', batches', first)
  BY <1>1, <1>2, <1>4, <1>5, <1>8, <1>9 DEF Cutting
<1> QED BY <1>1, <1>4, <1>10, WindowInvPrimed DEF WindowOf

LEMMA TurnWindow == ASSUME WindowInv, Window!Turn PROVE WindowInv'
<1>1. history \in Seq(Window!MessageType) /\ Len(history) \in Nat /\ budget \in Int
  BY DEF WindowInv, WindowOf
<1>2. Cutting(history, budget, remaining, start, batches, first) /\ start > Len(history)
  BY DEF WindowInv, WindowOf, Window!Turn
<1>3. start = Len(history) + 1 /\ first = start
  BY <1>1, <1>2 DEF Cutting
<1>4. Sum(history, Len(history) + 1, Len(history)) = 0
  <2>1. Len(history) + 1 \in 1 .. Len(history) + 1
    BY <1>1
  <2> QED BY <1>1, <2>1, TokensNat, SumsAdd
<1>5. Choosing(history, budget, remaining, batches, first)
  BY <1>1, <1>2, <1>3, <1>4 DEF Cutting, Choosing
<1>6. windowStage' = "choose" /\ UNCHANGED <<history, budget, remaining, start, batches, first>>
  BY DEF Window!Turn
<1> QED BY <1>1, <1>5, <1>6, WindowInvPrimed DEF WindowOf

\* The batch before the window, and what the window with it would hold.
LEMMA BatchBefore ==
  ASSUME WindowInv, windowStage = "choose", batches # <<>>
  PROVE  LET x == Window!Last(batches)
         IN  /\ x \in Ranges /\ IsBatch(history, x) /\ x.end = first - 1 /\ x.start \in 1 .. first - 1
             /\ Row(history, Window!Front(batches)) /\ EndOf(Window!Front(batches)) = x.start - 1
             /\ Sum(history, x.start, Len(history)) = x.tokens + Sum(history, first, Len(history))
             /\ Sum(history, first, Len(history)) \in Nat
<1> DEFINE x == Window!Last(batches)
<1>1. history \in Seq(Window!MessageType) /\ Len(history) \in Nat
      /\ Choosing(history, budget, remaining, batches, first)
  BY DEF WindowInv, WindowOf
<1>2. Row(history, batches) /\ EndOf(batches) = first - 1 /\ first \in 1 .. Len(history) + 1
  BY <1>1 DEF Choosing
<1>3. /\ x \in Ranges /\ IsBatch(history, x) /\ EndOf(batches) = x.end
      /\ Row(history, Window!Front(batches)) /\ EndOf(Window!Front(batches)) = x.start - 1
  BY <1>2, RowShrinks
<1> HIDE DEF x
<1>4. x.start \in 1 .. first - 1 /\ x.tokens = Sum(history, x.start, first - 1)
  BY <1>1, <1>2, <1>3 DEF IsBatch
<1>5. x.start \in 1 .. first
  BY <1>2, <1>4
<1>6. /\ Sum(history, x.start, Len(history)) = Sum(history, x.start, first - 1) + Sum(history, first, Len(history))
      /\ Sum(history, first, Len(history)) \in Nat
  BY <1>1, <1>2, <1>5, TokensNat, SumsAdd
<1> QED BY <1>2, <1>3, <1>4, <1>6 DEF x

LEMMA ChooseWindow == ASSUME WindowInv, Window!Choose PROVE WindowInv'
<1> DEFINE x == Window!Last(batches)
<1>1. history \in Seq(Window!MessageType) /\ Len(history) \in Nat /\ budget \in Int
      /\ Choosing(history, budget, remaining, batches, first)
  BY DEF WindowInv, WindowOf, Window!Choose
<1>2. /\ x \in Ranges /\ IsBatch(history, x) /\ x.end = first - 1 /\ x.start \in 1 .. first - 1
      /\ Row(history, Window!Front(batches)) /\ EndOf(Window!Front(batches)) = x.start - 1
      /\ Sum(history, x.start, Len(history)) = x.tokens + Sum(history, first, Len(history))
      /\ Sum(history, first, Len(history)) \in Nat
  BY BatchBefore DEF Window!Choose
<1>3. /\ x.tokens <= remaining /\ remaining' = remaining - x.tokens /\ first' = x.start
      /\ batches' = Window!Front(batches) /\ UNCHANGED <<windowStage, history, budget, start>>
      /\ windowStage = "choose"
  BY DEF Window!Choose, Window!Fits
<1> HIDE DEF x
<1>4. budget > 0 /\ remaining = budget - Sum(history, first, Len(history)) /\ first \in 1 .. Len(history) + 1
  BY <1>1 DEF Choosing
<1>5. x.tokens \in Nat /\ x.start \in 1 .. Len(history) + 1 /\ ~SplitsIn(history, x.start)
  BY <1>1, <1>2 DEF Ranges, IsBatch
<1>6. remaining' = budget - Sum(history, x.start, Len(history)) /\ remaining' >= 0
  BY <1>1, <1>2, <1>3, <1>4, <1>5
<1>7. Choosing(history, budget, remaining', batches', first')
  BY <1>2, <1>3, <1>4, <1>5, <1>6 DEF Choosing
<1> QED BY <1>1, <1>3, <1>7, WindowInvPrimed DEF WindowOf

LEMMA StopWindow == ASSUME WindowInv, Window!Stop PROVE WindowInv'
<1> DEFINE x == Window!Last(batches)
           n == Len(history)
<1>1. history \in Seq(Window!MessageType) /\ n \in Nat /\ budget \in Int
      /\ Choosing(history, budget, remaining, batches, first)
  BY DEF WindowInv, WindowOf, Window!Stop
<1>2. /\ budget > 0 /\ first \in 1 .. n + 1 /\ ~SplitsIn(history, first)
      /\ remaining = budget - Sum(history, first, n) /\ remaining >= 0 /\ EndOf(batches) = first - 1
  BY <1>1 DEF Choosing
<1>3. /\ batches # <<>> => ~(x.tokens <= remaining)
      /\ windowStage = "choose" /\ windowStage' = "done"
      /\ UNCHANGED <<history, budget, remaining, start, batches, first>>
  BY DEF Window!Stop, Window!Fits
<1>4. Sum(history, first, n) \in Nat
  BY <1>1, <1>2, TokensNat, SumsAdd
<1>5. ASSUME NEW i \in 1 .. first - 1 PROVE SplitsIn(history, i) \/ Sum(history, i, n) > budget
  <2>1. batches # <<>>
    BY <1>2 DEF EndOf
  <2>2. /\ x \in Ranges /\ IsBatch(history, x) /\ x.end = first - 1 /\ x.start \in 1 .. first - 1
        /\ Sum(history, x.start, n) = x.tokens + Sum(history, first, n)
    BY <1>3, <2>1, BatchBefore
  <2>3. ~(x.tokens <= remaining)
    BY <1>3, <2>1
  <2> HIDE DEF x
  <2>4. x.tokens \in Nat /\ x.start \in Nat
    BY <2>2 DEF Ranges
  <2>5. Sum(history, x.start, n) > budget /\ Sum(history, x.start, n) \in Nat
    BY <1>1, <1>2, <1>4, <2>2, <2>3, <2>4
  <2>6. CASE i \in x.start + 1 .. x.end
    BY <2>2, <2>6 DEF IsBatch
  <2>7. CASE i \in 1 .. x.start
    <3>1. x.start \in 1 .. n + 1
      BY <1>2, <2>2
    <3>2. Sum(history, i, x.start - 1) \in Nat
          /\ Sum(history, i, n) = Sum(history, i, x.start - 1) + Sum(history, x.start, n)
      BY <1>1, <2>7, <3>1, TokensNat, SumsAdd
    <3> QED BY <1>1, <2>5, <3>2
  <2> QED BY <1>2, <2>2, <2>4, <2>6, <2>7
<1>6. Longest(history, budget, first)
  BY <1>1, <1>2, <1>4, <1>5 DEF Longest
<1> QED BY <1>1, <1>3, <1>6, WindowInvPrimed DEF WindowOf

LEMMA NextKeepsWindow == WindowInv /\ [Window!Next]_(Window!vars) => WindowInv'
<1> SUFFICES ASSUME WindowInv, [Window!Next]_(Window!vars) PROVE WindowInv'
  OBVIOUS
<1>1. CASE Window!Return
  <2>1. history' = <<>> /\ windowStage' = "idle" /\ budget' = 0 /\ start' = 1 /\ batches' = <<>>
    BY <1>1 DEF Window!Return
  <2> QED BY <2>1, WindowInvPrimed DEF WindowOf
<1>2. CASE UNCHANGED Window!vars
  <2>1. UNCHANGED <<windowStage, history, budget, remaining, start, batches, first>>
    BY <1>2 DEF Window!vars
  <2> QED BY <2>1, WindowInvPrimed DEF WindowInv
<1> QED BY <1>1, <1>2, CallWindow, CutWindow, TurnWindow, ChooseWindow, StopWindow DEF Window!Next

\* What Send computes is, for each speaker, a behaviour of ContextWindow.
LEMMA WindowRunsInside == TurnSpec => Window!Spec
<1>1. TurnInit => Window!Init
  BY DEF TurnInit
<1>2. [TurnNext]_turnVars => [Window!Next]_(Window!vars)
  BY DEF TurnNext, PlanTurn, WindowTurn, ReplyTurn, turnVars, windowVars, Window!vars
<1> QED BY <1>1, <1>2, PTL DEF TurnSpec, Window!Spec

\* Whatever the history and the budget, selectHistoryBatches returns the longest end of
\* the history that fits and begins with a whole batch.
THEOREM WindowsAreLongest == TurnSpec => []WindowIsLongest
<1>1. Window!Spec => []WindowInv
  BY InitWindow, NextKeepsWindow, PTL DEF Window!Spec
<1>2. WindowInv => WindowIsLongest
  BY WindowSplits, WindowTokens DEF WindowInv, WindowOf, Longest, WindowIsLongest, Window!WindowIsLongest
<1> QED BY <1>1, <1>2, WindowRunsInside, PTL
=============================================================================
