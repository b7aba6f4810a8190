--------------------------- MODULE MCDayMaintenance ---------------------------
(* Small instances of DayMaintenance for TLC.                              *)
EXTENDS DayMaintenance, TLC

\* Calls, requests and runs are each interchangeable.
Symmetry == Permutations(Calls) \union Permutations(Requests) \union Permutations(Runs)

\* Bound: two calls that enter on the first day, with plans of one speaker, and one run;
\* or one call, with plans of up to MaxPlan, and all the runs.
Bound ==
  LET entered == {c \in Calls : pc[c] # "idle"}
      started == {m \in Runs : step[m] # "idle"}
  IN  \/ Cardinality(entered) <= 1
      \/ /\ Cardinality(started) <= 1
         /\ \A c \in Calls : local[c].planned <= 1 /\ batches[c].planned <= 1
         /\ day > 1 => \A c \in entered : date[c] = 1
=============================================================================
