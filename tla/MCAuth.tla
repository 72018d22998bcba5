------------------------------- MODULE MCAuth -------------------------------
(***************************************************************************)
(* A small club for TLC: two readers, and the author of the books.         *)
(* Three calls are enough for two handlers to interfere and a third one to *)
(* see, or to make permanent, what the interference left.                  *)
(***************************************************************************)
EXTENDS AuthService, TLC

CallSymmetry == Permutations(Calls)

MCEmails == {"ann@", "bob@", "joe@", "eve@"}
MCPasswords == {"p", "q"}
OnePassword == {"p"}
MCLatitudes == {"n", "s"}
MCLongitudes == {"e", "w"}
MCCities == {"Cairo", "Giza"}
MCTexts == {"old", "new"}

NE == [latitude |-> "n", longitude |-> "e"]
SE == [latitude |-> "s", longitude |-> "e"]
SW == [latitude |-> "s", longitude |-> "w"]
NW == [latitude |-> "n", longitude |-> "w"]

(* The city of each place; the sea has none.                               *)
MCAnswers ==
  [p \in Places |-> CASE p = NE -> {"Cairo"} [] p = SE -> {"Giza"}
                      [] p = NW -> {"Cairo", "Giza"} [] p = SW -> {None}]

(* A geocoder that never answers for the sea, and a city elsewhere.        *)
MCAnswersOrFails == [MCAnswers EXCEPT ![SW] = {}]

Row(email, password) ==
  [email |-> email, password |-> Digest(password),
   latitude |-> "n", longitude |-> "e", city |-> "Cairo"]

MCFounders == 1 :> Row("ann@", "p") @@ 2 :> Row("bob@", "q") @@ 3 :> Row("joe@", "p")
PromiseFounders == [u \in 1 .. 3 |-> Row(MCFounders[u].email, "p")]
MCReading == [u \in UserIds |-> IF u = 1 THEN {1} ELSE {}]
MCLibrary ==
  [b \in 1 .. MaxBooks |-> [author |-> 3, title |-> "old", description |-> "old"]]

Registers(email, password, place) ==
  [cmd |-> "register", email |-> email, password |-> password, place |-> place]
Logins(email, password) == [cmd |-> "login", email |-> email, password |-> password]
Relocates(u, place) == [cmd |-> "RelocateMe", user |-> u, place |-> place]
Adds(u, b) == [cmd |-> "add-to-my-readlist", user |-> u, book |-> b]

(* Accounts: the same new email twice, a taken one, right and wrong logins.*)
AccountCommands ==
  {Registers("eve@", "p", NE), Registers("eve@", "q", SW), Registers("bob@", "p", SE),
   Logins("eve@", "p"), Logins("ann@", "p"), Logins("ann@", "q"),
   Relocates(2, SE), Relocates(4, SW)}

(* Reads and moves of two members, and a new account.                      *)
PromiseCommands ==
  {Adds(1, 1), Adds(1, 2), Adds(2, 1), Adds(2, 2), Relocates(1, SE), Relocates(1, SW),
   Registers("eve@", "p", NW)}

(* Everything once, for liveness and for the queries.                      *)
EveryCommand ==
  {Registers("eve@", "p", NW), Registers("eve@", "q", SW), Registers("ann@", "p", SW),
   Logins("ann@", "p"),
   Logins("ann@", "q"), Relocates(1, SW), Adds(1, 2), Adds(1, 1),
   [cmd |-> "get-users"]}
    \cup {[cmd |-> q, user |-> u] :
            q \in {"get-user", "get-my-readlist", "myInfo"}, u \in {1, 4}}

(* Moves only.                                                             *)
MoveCommands == {Relocates(1, SE), Relocates(1, NE)}
TwoAddsCommands == {Adds(1, 2), Adds(1, 3)}
=============================================================================
