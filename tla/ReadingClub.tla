---------------------------- MODULE ReadingClub -----------------------------
(***************************************************************************)
(* What the club promises its members, as if every command took effect at  *)
(* once: accounts appear with an email of their own and keep their         *)
(* credentials, a relocation moves all of an account and nothing else, a   *)
(* reading list grows by the book its member reads and shrinks only when a *)
(* book is deleted.                                                        *)
(***************************************************************************)
CONSTANTS UserIds, UserRow, Places, GeocoderAnswers, None,
          Founders, FoundersReading, Library

VARIABLES users, reading, books

clubVars == <<users, reading, books>>

ClubInit == users = Founders /\ reading = FoundersReading /\ books = Library

Register(u, row) ==
  /\ u \notin DOMAIN users
  /\ \A v \in DOMAIN users : users[v].email # row.email
  /\ row.city \in GeocoderAnswers[[latitude |-> row.latitude, longitude |-> row.longitude]]
  /\ users' = [v \in DOMAIN users \cup {u} |-> IF v = u THEN row ELSE users[v]]
  /\ UNCHANGED <<reading, books>>

(* A place without a city leaves the city of the account as it is.         *)
Relocate(u, place, city) ==
  /\ users' = [users EXCEPT ![u].latitude = place.latitude,
                            ![u].longitude = place.longitude,
                            ![u].city = IF city = None THEN @ ELSE city]
  /\ UNCHANGED <<reading, books>>

Read(u, b) ==
  /\ b \in DOMAIN books \ reading[u]
  /\ reading' = [reading EXCEPT ![u] = @ \cup {b}]
  /\ UNCHANGED <<users, books>>

Delete(b) ==
  /\ books' = [d \in DOMAIN books \ {b} |-> books[d]]
  /\ reading' = [u \in UserIds |-> reading[u] \ {b}]
  /\ UNCHANGED users

ClubNext ==
  \/ \E u \in UserIds, row \in UserRow : Register(u, row)
  \/ \E u \in DOMAIN users, place \in Places :
       \E city \in GeocoderAnswers[place] : Relocate(u, place, city)
  \/ \E u \in DOMAIN users, b \in DOMAIN books : Read(u, b)
  \/ \E b \in DOMAIN books : Delete(b)

ClubSpec == ClubInit /\ [][ClubNext]_clubVars
=============================================================================
