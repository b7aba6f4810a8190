--------------------------- MODULE DayMaintenance ---------------------------
(***************************************************************************)
(* The midnight maintenance of one scope: Application.MaintainDay          *)
(* (internal/orchestration/maintenance.go) over the archive of             *)
(* internal/memory/repo.go, while the calls of ConversationBatch go on.    *)
(*                                                                         *)
(* The gateway's cron starts a run at midnight for the day that ended;     *)
(* two gateways (a rollout lets the old and the new one overlap) start two *)
(* runs.  Only runs for day 1 are modelled: each run takes one day, and    *)
(* nothing ever takes up a day again that a run failed to finish.          *)
(***************************************************************************)
EXTENDS ConversationBatch

CONSTANT Runs           \* the maintenance runs for day 1

VARIABLES
  step,       \* where each run stands
  copy,       \* the messages each run read, numbered by their place in the list
  archive,    \* the rows of the messages table for this scope and day 1
  summary,    \* the messages the stored summary was made of
  greeted,    \* the runs that will say good night to the owner
  owed        \* history: the messages visible at midnight whose batch had ended

runVars == <<step, copy, archive, summary, greeted>>
allVars == <<vars, runVars, owed>>

Steps == {"idle", "list", "read", "archive", "summarize", "clear", "done"}

\* A row of the archive: its number is positive, or its unique index is partial
\* and lets it pass.
RowType == [call : Calls, turn : 0 .. MaxPlan, seq : Nat \ {0}]

\* The types of the variables; no run checks it, ArchiveMatchesHistory says more.
RunTypeOK ==
  /\ step \in [Runs -> Steps]
  /\ copy \in [Runs -> Seq(RowType)]
  /\ archive \subseteq RowType
  /\ summary \subseteq RowType
  /\ greeted \subseteq Runs
  /\ owed \subseteq RowType

MaintenanceInit ==
  /\ Init
  /\ step = [m \in Runs |-> "idle"]
  /\ copy = [m \in Runs |-> <<>>]
  /\ archive = {}
  /\ summary = {}
  /\ greeted = {}
  /\ owed = {}

Rows(msgs) == {msgs[i] : i \in DOMAIN msgs}

\* MessagesForDateScope numbers the messages by their place in the list.
Numbered(msgs) == [i \in DOMAIN msgs |-> [msgs[i] EXCEPT !.seq = i]]

\* ON CONFLICT on the turn id does nothing; on the sequence number it fails the
\* whole transaction.
SameTurn(x, y) == x.call = y.call /\ x.turn = y.turn
New(msgs)      == {x \in Rows(msgs) : \A y \in archive : ~SameTurn(x, y)}
Conflict(msgs) == \E x \in New(msgs), y \in archive : x.seq = y.seq

Move(m, where) == step' = [step EXCEPT ![m] = where]

-----------------------------------------------------------------------------
\* The cron fires once day 1 is over.
StartRun(m) ==
  /\ step[m] = "idle"
  /\ day > 1
  /\ Move(m, "list")
  /\ UNCHANGED <<vars, copy, archive, summary, greeted, owed>>

\* ActiveScopes: a scope that is not listed is not looked at.
ListScope(m) ==
  /\ step[m] = "list"
  /\ IF 1 \in active THEN Move(m, "read") \/ Move(m, "done") ELSE Move(m, "done")
  /\ UNCHANGED <<vars, copy, archive, summary, greeted, owed>>

\* Faulty variant: the error of a failed read goes unnoticed, and what it left
\* unread looks like an empty day.
ReadDayUnchecked(m) ==
  /\ step[m] = "read"
  /\ \/ /\ copy' = [copy EXCEPT ![m] = Numbered(messages[1])]
        /\ Move(m, IF messages[1] = <<>> THEN "clear" ELSE "archive")
     \/ UNCHANGED copy /\ Move(m, "clear")
  /\ UNCHANGED <<vars, archive, summary, greeted, owed>>

\* An empty list needs no archive; a failed read ends the run for this scope.
ReadDay(m) ==
  /\ step[m] = "read"
  /\ copy' = [copy EXCEPT ![m] = Numbered(messages[1])]
  /\ Move(m, IF messages[1] = <<>> THEN "clear" ELSE "archive") \/ Move(m, "done")
  /\ UNCHANGED <<vars, archive, summary, greeted, owed>>

\* One transaction: all the new rows or none.
ArchiveTurns(m) ==
  /\ step[m] = "archive"
  /\ \/ /\ ~Conflict(copy[m])
        /\ archive' = archive \union New(copy[m])
        /\ Move(m, "summarize") \/ Move(m, "done")        \* or the commit's answer is lost
     \/ UNCHANGED archive /\ Move(m, "done")
  /\ UNCHANGED <<vars, copy, summary, greeted, owed>>

\* ON CONFLICT the row of the day takes the new summary.
UpsertSummary(msgs) == summary' = Rows(msgs)

\* The model summarises what the run read.
StoreSummary(m) ==
  /\ step[m] = "summarize"
  /\ \/ UpsertSummary(copy[m]) /\ (Move(m, "clear") \/ Move(m, "done"))
     \/ UNCHANGED summary /\ Move(m, "done")
  /\ UNCHANGED <<vars, copy, archive, greeted, owed>>

\* The last step: the list goes, whatever was added to it since it was read.
ClearArchived(m) ==
  /\ step[m] = "clear"
  /\ \/ /\ ClearScopeDate(1)
        /\ greeted' = IF copy[m] = <<>> THEN greeted ELSE greeted \union {m}
     \/ ClearScopeDate(1) /\ UNCHANGED greeted             \* the reply is lost
     \/ UNCHANGED <<messages, sequence, active, greeted>>  \* not reached
  /\ Move(m, "done")
  /\ UNCHANGED <<day, ledger, batches, lease, callVars, clearing, starts, copy, archive,
                 summary, owed>>

RunStep(m) ==
  \/ StartRun(m) \/ ListScope(m) \/ ReadDay(m) \/ ArchiveTurns(m)
  \/ StoreSummary(m) \/ ClearArchived(m)

\* The calls go on.  Midnight takes note of what the archive owes; a clear by the
\* user gives it up.
StoreStep ==
  /\ Next
  /\ owed' = IF day = 1 /\ day' = 2
             THEN {x \in Rows(messages[1]) : Recorded(x.call).status \in Terminal}
             ELSE IF clearing = 1 /\ clearing' = 0 THEN {} ELSE owed
  /\ UNCHANGED runVars

MaintenanceNext == StoreStep \/ \E m \in Runs : RunStep(m)

MaintenanceSpec == MaintenanceInit /\ [][MaintenanceNext]_allVars

-----------------------------------------------------------------------------
(* What must hold.                                                         *)

\* A batch that had ended when its day did is never lost: until its messages are
\* archived they stay visible, whichever step of which run fails.
EndedBatchesAreKept ==
  \A x \in owed : x \in archive \/ x \in Rows(messages[1])

\* An archived reply carries the number its client was shown, and the summary was
\* made of archived messages only.
ArchiveMatchesHistory ==
  /\ summary \subseteq archive
  /\ \A x \in archive :
       LET b == Recorded(x.call)
       IN  IF x.turn = 0 THEN b.user = x.seq
           ELSE x.turn \in DOMAIN b.said /\ b.said[x.turn] = x.seq
=============================================================================
