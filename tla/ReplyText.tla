------------------------------ MODULE ReplyText ------------------------------
(***************************************************************************)
(* What becomes of the text a model writes for one character:              *)
(* normalizeCharacterReply (internal/orchestration/deepseek.go) cuts the   *)
(* character's own words out of it before Send records them, and           *)
(* normalizeCharacterMessages does so again whenever the day is listed or  *)
(* read for a prompt.                                                      *)
(*                                                                         *)
(* A text is a sequence of marks, each with its place in what the model    *)
(* wrote: the character's own label with its colon, another character's,   *)
(* a line break, or a word - anything else.  Blanks belong to the marks.   *)
(***************************************************************************)
EXTENDS Naturals, Sequences, SequencesExt

CONSTANT MaxMarks        \* bound: marks of a text

VARIABLES
  stage,      \* "idle", "sent" or "listed"
  raw,        \* what the model wrote
  recorded,   \* the reply Send records and answers; empty when generation failed
  listed      \* the reply as the day's list shows it

vars == <<stage, raw, recorded, listed>>

Marks    == {"own", "other", "break", "word"}
MarkType == [mark : Marks, at : 1 .. MaxMarks]

TypeOK ==
  /\ stage \in {"idle", "sent", "listed"}
  /\ {raw, recorded, listed} \subseteq Seq(MarkType)

Init ==
  /\ stage = "idle"
  /\ raw = <<>>
  /\ recorded = <<>>
  /\ listed = <<>>

-----------------------------------------------------------------------------
IsBreak(m)    == m.mark = "break"
NotBreak(m)   == m.mark # "break"

\* strings.TrimSpace.
Trimmed(t) ==
  LET from == SelectInSeq(t, NotBreak)
  IN  IF from = 0 THEN <<>> ELSE SubSeq(t, from, SelectLastInSeq(t, NotBreak))

\* The matches of speakerHeaderPattern: labels at the beginning of a line.
Headers(t) ==
  {i \in DOMAIN t : t[i].mark \in {"own", "other"} /\ (i = 1 \/ IsBreak(t[i - 1]))}

\* Faulty variant: the block runs on to the end of the text.
BlockToEnd(t, i) == SubSeq(t, i + 1, Len(t))

\* What stands between the header at i and the next one.
Block(t, i) ==
  LET end == IF \E j \in Headers(t) : j > i
             THEN CHOOSE j \in Headers(t) : j > i /\ \A k \in Headers(t) : k > i => k >= j
             ELSE Len(t) + 1
  IN  SubSeq(t, i + 1, end - 1)

\* Faulty variant: nothing is trimmed.
StrippedUntrimmed(t) ==
  LET Kept(m) == m.mark # "own"
      from    == SelectInSeq(t, Kept)
  IN  IF from = 0 THEN <<>> ELSE SubSeq(t, from, Len(t))

\* stripRepeatedCharacterHeaders: the character's own labels go from the front.
Stripped(t) ==
  LET Kept(m) == m.mark \notin {"own", "break"}
      from    == SelectInSeq(t, Kept)
  IN  IF from = 0 THEN <<>> ELSE Trimmed(SubSeq(t, from, Len(t)))

\* normalizeCharacterReply: the first block under the character's own label; a
\* text without labels as it is; else what precedes the others' labels.
Normalized(text) ==
  LET t   == Trimmed(text)
      own == {i \in Headers(t) : t[i].mark = "own"}
  IN  CASE own # {} -> Stripped(Block(t, CHOOSE i \in own : \A j \in own : i <= j))
        [] Headers(t) = {} -> t
        [] OTHER -> Trimmed(SubSeq(t, 1, (CHOOSE i \in Headers(t) : \A j \in Headers(t) : i <= j) - 1))

\* The model writes; Generate returns what AppendCharacter records, unless nothing
\* is left.
Send ==
  /\ stage = "idle"
  /\ stage' = "sent"
  /\ \E n \in 0 .. MaxMarks : \E marks \in [1 .. n -> Marks] :
       raw' = [i \in 1 .. n |-> [mark |-> marks[i], at |-> i]]
  /\ recorded' = Normalized(raw')
  /\ UNCHANGED listed

\* ListMessages, or the read of the history for the next prompt.
List ==
  /\ stage = "sent"
  /\ stage' = "listed"
  /\ listed' = Normalized(recorded)
  /\ UNCHANGED <<raw, recorded>>

Forget ==
  /\ stage = "listed"
  /\ stage' = "idle"
  /\ raw' = <<>> /\ recorded' = <<>> /\ listed' = <<>>

Next == Send \/ List \/ Forget

Spec == Init /\ [][Next]_vars

-----------------------------------------------------------------------------
(* What must hold.                                                         *)

\* Under whose label, at the beginning of a line, the model wrote its i-th mark.
WrittenFor(i) ==
  LET before == {j \in Headers(raw) : j <= i}
  IN  IF before = {} THEN "nobody" ELSE raw[CHOOSE j \in before : \A k \in before : k <= j].mark

\* No word the model wrote under another character's label is put into this
\* character's mouth; unlabelled words count only when the label is never used.
WordsAreTheCharacters ==
  \A i \in DOMAIN recorded :
    LET by == WrittenFor(recorded[i].at)
    IN  IF \E j \in Headers(raw) : raw[j].mark = "own" THEN by = "own" ELSE by = "nobody"

\* A reply that carries nobody's label is listed as it was sent: cleaning the
\* list again takes nothing away.
ListedAsSent ==
  stage = "listed" /\ Headers(recorded) = {} => listed = recorded
=============================================================================
