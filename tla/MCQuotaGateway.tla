---------------------------- MODULE MCQuotaGateway ----------------------------
(* Small instances of QuotaGateway for TLC.                                *)
EXTENDS QuotaGateway, TLC

\* Attempts are interchangeable, and so are requests.
Symmetry == Permutations(Attempts) \union Permutations(Requests)

\* Bound: the last day is reached with one request id only.
Bound == day < LastDay \/ \A a, b \in Attempts : req[a] = req[b]

\* Bound: nobody is turned away, hangs up or dies, and every answer arrives but those of
\* the agent.
Undisturbed ==
  \A a \in Attempts :
    /\ pc[a] # "gone" /\ stage[a] # "crashed"
    /\ shown[a] \in {"none", "ok", "agent_error", "conversation_busy"}
=============================================================================
