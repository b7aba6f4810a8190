----------------------------- MODULE MCWebClient -----------------------------
(* A small instance of WebClient for TLC.                                  *)
EXTENDS WebClient, TLC

\* Users are interchangeable.
Symmetry == Permutations(Users)

Budget(login, select, submit, clear, logout, fail, midnight) ==
  [login |-> login, select |-> select, submit |-> submit, clear |-> clear, logout |-> logout,
   fail |-> fail, midnight |-> midnight]

\* A visit; another visit on the same tab, with a message and a space or a failure, or
\* with a clear; two logins under way, with a space, with a failure, or with a clear
\* that the first session begins and a submission of the second; an answer for a former
\* session that meets two submissions of the present one; and a midnight, in a visit and
\* with two sessions.
MCBudgets ==
  {Budget(0, 2, 1, 1, 0, 1, 0), Budget(1, 1, 1, 0, 1, 0, 0), Budget(1, 0, 1, 0, 1, 1, 0),
   Budget(1, 1, 0, 1, 1, 1, 0), Budget(2, 1, 0, 0, 1, 0, 0), Budget(2, 0, 0, 0, 1, 1, 0),
   Budget(2, 0, 1, 1, 0, 0, 0), Budget(1, 0, 3, 0, 1, 0, 0), Budget(0, 1, 2, 1, 0, 0, 1),
   Budget(1, 0, 1, 0, 1, 0, 1)}
=============================================================================
