------------------------------ MODULE MCBooks -------------------------------
(***************************************************************************)
(* The books service for TLC: bob (2) has written most of the library, ann *)
(* (1) the rest, and has read a book of his; both may write more.          *)
(***************************************************************************)
EXTENDS BooksService, TLC

TaskSymmetry == Permutations(Calls) \cup Permutations(Tasks)

MCEmails == {"ann@", "bob@"}
MCPasswords == {"p"}
MCLatitudes == {"n", "s"}
MCLongitudes == {"e"}
MCCities == {"Cairo", "Giza"}
MCTexts == {"old", "new"}

North == [latitude |-> "n", longitude |-> "e"]
South == [latitude |-> "s", longitude |-> "e"]
MCAnswers == [p \in Places |-> IF p = North THEN {"Cairo"} ELSE {"Giza"}]

Row(email) ==
  [email |-> email, password |-> Digest("p"),
   latitude |-> "n", longitude |-> "e", city |-> "Cairo"]
MCFounders == 1 :> Row("ann@") @@ 2 :> Row("bob@")
MCReading == [u \in UserIds |-> IF u = 1 THEN {1} ELSE {}]
MCLibrary ==
  [b \in 1 .. 3 |-> [author |-> IF b = 3 THEN 1 ELSE 2,
                     title |-> "old", description |-> "old"]]

Creates(u) == [cmd |-> "createBook", user |-> u, title |-> "new", description |-> "new"]
Updates(u, b, title, description) ==
  [cmd |-> "updateBook", user |-> u, book |-> b, id |-> None,
   title |-> title, description |-> description, author |-> None]
Deletes(u, b) == [cmd |-> "deleteBook", user |-> u, book |-> b]
Reads(u, b) == [cmd |-> "readBook", user |-> u, book |-> b]
Relocates(u, place) == [cmd |-> "RelocateMe", user |-> u, place |-> place]

NoCommands == {}
Lookups == {[cmd |-> "get-user", user |-> 1]}
MovesOfAnn == {Relocates(1, South)}

(* What the DTOs do not foresee, of ordinary clients: a book sent back     *)
(* whole, as it was fetched, its author and the author's reading list      *)
(* included; a book handed to another member; one given a number that the  *)
(* sequence has yet to reach; a delete that names no book.                 *)
Fetched(u, list) ==
  [id |-> u, keys |-> Columns \ {"password"}, email |-> MCFounders[u].email,
   password |-> Digest("p"), latitude |-> "n", longitude |-> "e",
   city |-> "Cairo", reading |-> list]
Member(u) == [Fetched(u, {}) EXCEPT !.keys = {}]
Sends(u, b, author) == [Updates(u, b, "new", None) EXCEPT !.author = author]
Renumbers(u, b, id) == [Updates(u, b, None, None) EXCEPT !.id = id]

(* Writers of a book, its author and another, and its readers.             *)
ClubCommands ==
  {Creates(1), Updates(2, 2, "new", None), Updates(1, 2, "new", None), Deletes(2, 2),
   Deletes(2, 1), Reads(1, 2), Reads(2, 2), Reads(2, 3),
   Sends(1, 3, Fetched(1, {1})), Sends(1, 3, Member(2)), Sends(2, 2, Member(1)),
   Renumbers(2, 2, 4), Deletes(2, None)}

(* Every command of the service once.                                      *)
EveryBookCommand ==
  {Creates(1), Updates(2, 2, "new", "new"), Updates(1, 2, "new", None), Deletes(2, 2),
   Deletes(1, 2), Reads(1, 2), Reads(2, 2),
   [cmd |-> "get-my-readlist", user |-> 1], [cmd |-> "getBooksByAuthor", user |-> 2],
   [cmd |-> "getBookById", book |-> 2], [cmd |-> "getAllBooks"]}

OneCreate == {Creates(1)}
UpdateAndDelete == {Updates(2, 2, "new", None), Deletes(2, 2)}
=============================================================================
