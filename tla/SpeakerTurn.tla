----------------------------- MODULE SpeakerTurn -----------------------------
(***************************************************************************)
(* What Application.Send computes between its saves: the plan of a group   *)
(* message (SpeakerPlan), then for each speaker the part of the history he *)
(* is shown (ContextWindow) and the reply cut out of what the model wrote  *)
(* for him (ReplyText).  What the saves do is ConversationBatch.           *)
(***************************************************************************)
EXTENDS SpeakerPlan

CONSTANTS Batches, Single, MaxTokens, MaxLength, MaxBudget,   \* of ContextWindow
          MaxMarks                                            \* of ReplyText

ASSUME WindowAssumption == MaxTokens \in Nat /\ MaxLength \in Nat /\ MaxBudget \in Nat
ASSUME MarksAssumption  == MaxMarks \in Nat

VARIABLES
  phase,        \* which of the three is running: "plan", "window" or "reply"
  left,         \* the speakers still to be asked
  windowStage, history, budget, remaining, start, batches, first,
  textStage, raw, recorded, listed

Window == INSTANCE ContextWindow WITH stage <- windowStage
Text   == INSTANCE ReplyText WITH stage <- textStage

windowVars == <<windowStage, history, budget, remaining, start, batches, first>>
textVars   == <<textStage, raw, recorded, listed>>
turnVars   == <<vars, phase, left, windowVars, textVars>>

\* The types of the three functions' states; a window's range stays within the
\* history and a reply within what was written.
TurnTypeOK ==
  /\ TypeOK
  /\ phase \in {"plan", "window", "reply"}
  /\ left \in 0 .. MaxPlan
  /\ Window!TypeOK
  /\ Text!TypeOK

TurnInit ==
  /\ Init /\ Window!Init /\ Text!Init
  /\ phase = "plan"
  /\ left = 0

\* planSpeakers; the loop over the plan begins with its first speaker.
PlanTurn ==
  /\ phase = "plan"
  /\ Next
  /\ IF stage = "done" THEN phase' = "window" /\ left' = Len(plan) ELSE UNCHANGED <<phase, left>>
  /\ UNCHANGED <<windowVars, textVars>>

\* selectHistoryBatches for one speaker.
WindowTurn ==
  /\ phase = "window"
  /\ Window!Next
  /\ phase' = IF windowStage = "done" THEN "reply" ELSE phase
  /\ UNCHANGED <<vars, left, textVars>>

\* Generate for one speaker; a reply with nothing in it ends the batch, and so
\* does the last speaker's.  Then the next message is planned.
ReplyTurn ==
  /\ phase = "reply"
  /\ Text!Next
  /\ IF textStage # "listed" THEN UNCHANGED <<phase, left>>
     ELSE IF recorded = <<>> \/ left = 1 THEN phase' = "plan" /\ left' = 0
     ELSE phase' = "window" /\ left' = left - 1
  /\ UNCHANGED <<vars, windowVars>>

TurnNext == PlanTurn \/ WindowTurn \/ ReplyTurn

TurnSpec == TurnInit /\ [][TurnNext]_turnVars

-----------------------------------------------------------------------------
(* What must hold, by component.                                           *)

\* A speaker is shown the longest end of the history that fits his budget and
\* starts with a question (ContextWindow).
WindowIsLongest == Window!WindowIsLongest

\* Nobody's words are put into a character's mouth (ReplyText).
WordsAreTheCharacters == Text!WordsAreTheCharacters

\* A reply is listed as it was answered (ReplyText).
ListedAsSent == Text!ListedAsSent
=============================================================================
