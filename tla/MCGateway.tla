----------------------------- MODULE MCGateway ------------------------------
(***************************************************************************)
(* The gateway for TLC: ann holds a token at the start, and either member  *)
(* may log in for another.                                                 *)
(***************************************************************************)
EXTENDS Gateway, TLC

CONSTANTS ann, bob, q1, q2

MCMembers == {ann, bob}
MCIssued == {[user |-> ann, exp |-> 1]}

Of(cmd) == {r \in AuthRoutes \cup BooksRoutes : r.cmd = cmd}

(* Both services, open and guarded; the second request may use the token   *)
(* the first one logged in for.                                            *)
MCRoutes == q1 :> Of("login") \cup Of("createBook") @@ q2 :> Of("RelocateMe")
OneGuarded == q1 :> Of("RelocateMe")
=============================================================================
