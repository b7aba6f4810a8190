------------------------- MODULE MCConversationBatch -------------------------
(* Small instances of ConversationBatch for TLC. *)
EXTENDS ConversationBatch, TLC

\* Calls are interchangeable, and so are request ids (safety runs only).
Symmetry == Permutations(Calls) \union Permutations(Requests)

\* Bound: two calls, one of them with a plan of up to MaxPlan on the first day and of one
\* speaker afterwards (the request of a call that never enters does not matter, so it is
\* fixed); or any number of calls with plans of one speaker on the first day, two of them
\* at work at a time, and no clear after the third has entered.
Entered == {c \in Calls : pc[c] # "idle"}
Long    == {c \in Calls : local[c].planned > 1 \/ batches[c].planned > 1}
Bound ==
  \/ /\ Cardinality(Entered) <= 2
     /\ Cardinality(Long) <= IF day = 1 THEN 1 ELSE 0
     /\ starts # <<>> => \A c \in Calls \ Entered : req[c] = req[Head(starts)]
  \/ /\ day = 1 /\ Long = {}
     /\ Cardinality({c \in Calls : Running(c)}) <= 2
     /\ Cardinality(Entered) <= 2 \/ clearing = 0
=============================================================================
