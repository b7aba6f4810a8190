--------------------------- MODULE MCAuthService ----------------------------
(* Small instances of AuthService for TLC. *)
EXTENDS AuthService, TLC

CallSymmetry == Permutations(Calls)

\* Registrations, guesses, two resets, a reset with each operation on the sessions, and
\* logins with those that leave the password or the sessions alone.
Menus == {"register" :> 1 @@ "resend" :> 1 @@ "verify" :> 2,
          "register" :> 1 @@ "verify" :> 3,
          "forgot" :> 1 @@ "reset" :> 2,
          "forgot" :> 1 @@ "reset" :> 1 @@ "login" :> 1,
          "forgot" :> 1 @@ "reset" :> 1 @@ "logout" :> 1,
          "forgot" :> 1 @@ "reset" :> 1 @@ "admin" :> 1,
          "login" :> 2 @@ "logout" :> 1 @@ "admin" :> 1}

\* Bound: the operations of a behaviour fit one of the menus.
Bound ==
  LET count == [o \in Ops |-> Cardinality({c \in Calls : op[c] = o})]
      used  == {o \in Ops : count[o] > 0}
  IN  \E menu \in Menus : used \subseteq DOMAIN menu /\ \A o \in used : count[o] <= menu[o]
=============================================================================
