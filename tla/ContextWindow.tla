---------------------------- MODULE ContextWindow ----------------------------
(***************************************************************************)
(* How much of the day's history a speaker is shown: selectHistoryBatches  *)
(* (internal/orchestration/context.go), called by Send for every speaker.  *)
(* Its two loops are the module's state machine: the first cuts the        *)
(* history into batches, the second takes batches from the end until one   *)
(* does not fit.                                                           *)
(*                                                                         *)
(* A message is its batch and its estimated tokens; the estimate itself    *)
(* (estimateTokens) is left open, it is at least one.                      *)
(***************************************************************************)
EXTENDS Integers, Sequences, SequencesExt

CONSTANTS Batches,      \* batch ids
          Single,       \* the empty batch id: a message of its own
          MaxTokens,    \* bound: tokens of a message
          MaxLength,    \* bound: messages of the history
          MaxBudget     \* bound: what is left for the history

VARIABLES
  stage,       \* "idle", "cut", "choose" or "done"
  history,     \* the messages Send has read
  budget,      \* the tokens that prompt, message, summaries and prefix leave
  remaining,   \* the tokens left of it
  start,       \* where the next batch begins
  batches,     \* the batches cut so far
  first        \* where the window begins

vars == <<stage, history, budget, remaining, start, batches, first>>

MessageType == [batch : Batches \union {Single}, tokens : 1 .. MaxTokens]
RangeType   == [start : 1 .. MaxLength, end : 1 .. MaxLength, tokens : Nat]

TypeOK ==
  /\ stage \in {"idle", "cut", "choose", "done"}
  /\ history \in Seq(MessageType)
  /\ budget \in Int /\ remaining \in Int
  /\ start \in 1 .. MaxLength + 1
  /\ batches \in Seq(RangeType)
  /\ first \in 1 .. MaxLength + 1

Init ==
  /\ stage = "idle"
  /\ history = <<>> /\ batches = <<>>
  /\ budget = 0 /\ remaining = 0
  /\ start = 1 /\ first = 1

\* The prefix and the summaries alone may already exceed the budget.
Call ==
  /\ stage = "idle"
  /\ history' \in BoundedSeq(MessageType, MaxLength)
  /\ budget' \in -1 .. MaxBudget
  /\ remaining' = budget'
  /\ stage' = IF remaining' <= 0 \/ history' = <<>> THEN "done" ELSE "cut"
  /\ first' = Len(history') + 1
  /\ UNCHANGED <<start, batches>>

Tokens(i, j) == FoldLeft(LAMBDA sum, m : sum + m.tokens, 0, SubSeq(history, i, j))

\* The last message of the batch that begins at i.
BatchEnd(i) ==
  IF history[i].batch = Single THEN i
  ELSE CHOOSE j \in i .. Len(history) :
         /\ \A k \in i .. j : history[k].batch = history[i].batch
         /\ j < Len(history) => history[j + 1].batch # history[i].batch

Cut ==
  /\ stage = "cut"
  /\ start <= Len(history)
  /\ LET end == BatchEnd(start)
     IN  /\ batches' = Append(batches, [start |-> start, end |-> end, tokens |-> Tokens(start, end)])
         /\ start' = end + 1
  /\ UNCHANGED <<stage, history, budget, remaining, first>>

Turn ==
  /\ stage = "cut"
  /\ start > Len(history)
  /\ stage' = "choose"
  /\ UNCHANGED <<history, budget, remaining, start, batches, first>>

Fits(b) == b.tokens <= remaining

\* The newest batch not yet taken; the batches already taken are dropped here.
Choose ==
  /\ stage = "choose"
  /\ batches # <<>> /\ Fits(Last(batches))
  /\ remaining' = remaining - Last(batches).tokens
  /\ first' = Last(batches).start
  /\ batches' = Front(batches)
  /\ UNCHANGED <<stage, history, budget, start>>

\* Faulty variant: a batch too large is passed over and older ones are tried.
StopPassingOver ==
  /\ stage = "choose"
  /\ batches # <<>> => ~Fits(Last(batches))
  /\ IF batches = <<>> THEN stage' = "done" /\ UNCHANGED batches
     ELSE batches' = Front(batches) /\ UNCHANGED stage
  /\ UNCHANGED <<history, budget, remaining, start, first>>

\* The first batch that does not fit ends the choice.
Stop ==
  /\ stage = "choose"
  /\ batches # <<>> => ~Fits(Last(batches))
  /\ stage' = "done"
  /\ UNCHANGED <<history, budget, remaining, start, batches, first>>

\* The window is returned and the locals are gone.
Return ==
  /\ stage = "done"
  /\ stage' = "idle"
  /\ history' = <<>> /\ batches' = <<>>
  /\ budget' = 0 /\ remaining' = 0
  /\ start' = 1 /\ first' = 1

Next == Call \/ Cut \/ Turn \/ Choose \/ Stop \/ Return

Spec == Init /\ [][Next]_vars

-----------------------------------------------------------------------------
(* What must hold.                                                         *)

\* Between two messages of one batch no window may begin.
Splits(i) ==
  i \in 2 .. Len(history) /\ history[i].batch # Single /\ history[i - 1].batch = history[i].batch

\* The window never cuts a discussion in two - a speaker would be shown answers
\* without their question - stays within the budget, and is the longest that does:
\* with any older batch it would exceed it.  Without a budget it is empty.
WindowIsLongest ==
  stage = "done" =>
    LET size == Len(history)
    IN  /\ ~Splits(first)
        /\ IF budget <= 0 THEN first = size + 1 ELSE Tokens(first, size) <= budget
        /\ budget > 0 => \A i \in 1 .. first - 1 : Splits(i) \/ Tokens(i, size) > budget
=============================================================================
