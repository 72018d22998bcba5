---------------------------- MODULE ClubDatabase ----------------------------
(***************************************************************************)
(* The PostgreSQL database that the auth service and the books service     *)
(* share, and the part of TypeORM they reach it through.  The tables are   *)
(* those of libs/shared/src/entities; the operators below say what one     *)
(* statement, or one transaction, of repository.save / delete does to      *)
(* them.  Both services run several replicas, and every handler awaits     *)
(* each query, so any two handlers interleave between statements.          *)
(***************************************************************************)
EXTENDS Naturals

CONSTANTS
  MaxUsers,       \* bound on the SERIAL sequence of "user".id
  MaxBooks,       \* bound on the SERIAL sequence of "book".id
  Emails, Passwords,
  Latitudes, Longitudes,
  Cities,         \* what the city column may hold, besides NULL
  Texts,          \* titles and descriptions
  None,           \* null and undefined
  Founders,       \* the accounts in the database when the services start
  FirstUser,      \* the next value of the user sequence at that time
  FoundersReading,\* their reading lists
  Library,        \* the books in the database when the services start
  FirstBook       \* the next value of the book sequence at that time

UserIds == 1 .. MaxUsers
BookIds == 1 .. MaxBooks

(* bcrypt: a digest determines the password it was made from, and is never *)
(* the password itself.  The column also takes a text that is no digest.   *)
Digest(password) == <<"bcrypt", password>>
AsText(password) == <<"text", password>>
StoredPasswords == {Digest(p) : p \in Passwords} \cup {AsText(p) : p \in Passwords}

Places == [latitude: Latitudes, longitude: Longitudes]
UserRow == [email: Emails, password: StoredPasswords,
            latitude: Latitudes, longitude: Longitudes,
            city: Cities \cup {None}]
BookRow == [author: UserIds, title: Texts, description: Texts]

(* A user entity: the columns and the eager relation readingBooks.  A find *)
(* leaves the password out, whose column is select: false.  The names are  *)
(* left out here: no property tells them apart.                            *)
Entity == [email: Emails, password: StoredPasswords \cup {None},
           latitude: Latitudes, longitude: Longitudes,
           city: Cities \cup {None}, reading: SUBSET BookIds]

ASSUME DatabaseAssumption ==
  /\ MaxUsers \in Nat /\ MaxBooks \in Nat
  /\ FirstUser \in Nat \ {0} /\ FirstBook \in Nat \ {0}
  /\ DOMAIN Founders \subseteq UserIds /\ Founders \in [DOMAIN Founders -> UserRow]
  /\ \A u \in DOMAIN Founders : u < FirstUser
  /\ \A u, v \in DOMAIN Founders :
       Founders[u].email = Founders[v].email => u = v
  /\ DOMAIN Library \subseteq BookIds /\ Library \in [DOMAIN Library -> BookRow]
  /\ \A b \in DOMAIN Library : b < FirstBook /\ Library[b].author \in DOMAIN Founders
  /\ FoundersReading \in [UserIds -> SUBSET DOMAIN Library]
  /\ \A u \in UserIds : FoundersReading[u] # {} => u \in DOMAIN Founders
  /\ None \notin StoredPasswords

VARIABLES
  users,      \* table "user": id -> row
  reading,    \* junction user_reading_books_book: user id -> book ids
  books,      \* table "book": id -> row
  nextUser,   \* sequence of "user".id
  nextBook    \* sequence of "book".id

tables == <<users, reading, books, nextUser, nextBook>>

DatabaseTypeOK ==
  /\ DOMAIN users \subseteq UserIds /\ users \in [DOMAIN users -> UserRow]
  /\ reading \in [UserIds -> SUBSET BookIds]
  /\ DOMAIN books \subseteq BookIds /\ books \in [DOMAIN books -> BookRow]
  /\ nextUser \in Nat \ {0}
  /\ nextBook \in Nat \ {0}

DatabaseInit ==
  /\ users = Founders
  /\ reading = FoundersReading
  /\ books = Library
  /\ nextUser = FirstUser
  /\ nextBook = FirstBook

-----------------------------------------------------------------------------
(* Rows, entities, and what a save does with them.                         *)

WithRow(table, id, row) ==
  [x \in DOMAIN table \cup {id} |-> IF x = id THEN row ELSE table[x]]

WithoutRows(table, ids) == [x \in DOMAIN table \ ids |-> table[x]]

(* What SELECT ... WHERE email finds, and the UNIQUE constraint on         *)
(* user.email, as INSERT enforces it.                                      *)
EmailTaken(email) == \E u \in DOMAIN users : users[u].email = email

InsertAcceptsAll(row) == FALSE   \* a fault: no UNIQUE constraint
InsertRejected(row) == EmailTaken(row.email)

(* The entity a SELECT of user u builds.                                   *)
EntityOf(u) ==
  [email |-> users[u].email, password |-> None,
   latitude |-> users[u].latitude, longitude |-> users[u].longitude,
   city |-> users[u].city, reading |-> reading[u]]

(* repository.save(entity) first SELECTs the stored entity (base) and then *)
(* UPDATEs, in a transaction, the columns on which the two differ.  The    *)
(* columns in dirty are always written: a decimal comes back from the      *)
(* driver as a string, so a number assigned to it never compares equal.    *)
(* A column the entity does not have is left alone.                        *)
Merged(row, entity, base, dirty) ==
  LET Put(column) == IF column \in dirty \/ entity[column] # base[column]
                     THEN entity[column] ELSE row[column]
  IN  [row EXCEPT !.email     = Put("email"),
                  !.password  = IF entity.password = None THEN @ ELSE Put("password"),
                  !.latitude  = Put("latitude"),
                  !.longitude = Put("longitude"),
                  !.city      = Put("city")]

(* The UNIQUE constraint on user.email, as that UPDATE meets it.           *)
EmailRejected(u, entity, base) ==
  /\ entity.email # base.email
  /\ \E v \in DOMAIN users \ {u} : users[v].email = entity.email

(* The same save makes the junction rows equal to the relation: it INSERTs *)
(* the links the entity has and base has not, DELETEs the converse.        *)
LinksAdded(entity, base) == entity.reading \ base.reading
LinksRemoved(entity, base) == base.reading \ entity.reading

(* An INSERT into the junction fails on its primary key and on its foreign *)
(* keys to book and user, and the whole transaction is rolled back.        *)
LinksWithoutForeignKey(u, added) ==   \* a fault: no foreign key to book
  added \cap reading[u] # {}

LinksRejected(u, added) ==
  \/ added \cap reading[u] # {}
  \/ ~ (added \subseteq DOMAIN books)
  \/ added # {} /\ u \notin DOMAIN users

Relinked(u, entity, base) ==
  [reading EXCEPT ![u] = (@ \cup LinksAdded(entity, base))
                            \ LinksRemoved(entity, base)]

(* DELETE FROM book: the junction rows go with it (ON DELETE CASCADE).     *)
BooksDropped(dropped) ==
  /\ books' = WithoutRows(books, dropped)
  /\ reading' = [u \in UserIds |-> reading[u] \ dropped]
=============================================================================
