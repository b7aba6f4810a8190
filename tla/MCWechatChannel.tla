--------------------------- MODULE MCWechatChannel ---------------------------
(* A small instance of WechatChannel for TLC.                              *)
EXTENDS WechatChannel, TLC

\* Calls, gateways and messages are interchangeable.
Symmetry == Permutations(Calls) \union Permutations(Gateways) \union Permutations(Messages)

\* Two calls and a fault, or three calls and none; or two faults, and tokens whose
\* life is shorter than what is taken off it.
MCBudgets == {[calls |-> 2, faults |-> 1, life |-> 3], [calls |-> 3, faults |-> 0, life |-> 3],
              [calls |-> 2, faults |-> 2, life |-> 1]}

\* Bound: one call is a greeting, and none where the tokens are that short.
Bound ==
  Cardinality({c \in Calls : calls[c].stage # "idle" /\ calls[c].message = None})
    <= IF life > Margin THEN 1 ELSE 0
=============================================================================
