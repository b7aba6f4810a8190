----------------------------- MODULE MCDailyQuota -----------------------------
(* A small instance of DailyQuota for TLC.                                 *)
EXTENDS DailyQuota, TLC

\* Attempts are told apart by nothing but what they do, requests likewise.
Symmetry == Permutations(Attempts) \union Permutations(Requests)
=============================================================================
