---------------------------- MODULE AuthService -----------------------------
(***************************************************************************)
(* The auth service: apps/auth-service/src.  A command arrives on          *)
(* auth_queue, its controller method acknowledges it, and the service      *)
(* method of the same name runs, giving way to the other handlers at every *)
(* await.  A call is one delivered command; its record holds the local     *)
(* variables of the handler that runs it.  A step is one action from one   *)
(* await that reads or writes shared state to the next.                    *)
(***************************************************************************)
EXTENDS ClubDatabase

CONSTANTS
  Calls,            \* command deliveries; each is used once
  Commands,         \* the commands clients may issue
  GeocoderAnswers,  \* place -> the cities the geocoder may answer for it
  ClientsWait       \* does a member wait for an answer before the next command?

VARIABLE call

authVars == <<users, reading, books, nextUser, nextBook, call>>

RegisterCommands ==
  [cmd: {"register"}, email: Emails, password: Passwords, place: Places]
LoginCommands == [cmd: {"login"}, email: Emails, password: Passwords]
RelocateCommands == [cmd: {"RelocateMe"}, user: UserIds, place: Places]
AddCommands == [cmd: {"add-to-my-readlist"}, user: UserIds, book: BookIds]
QueryCommands ==
  [cmd: {"get-user", "get-my-readlist", "myInfo"}, user: UserIds]
    \cup [cmd: {"get-users"}]
AllCommands == RegisterCommands \cup LoginCommands \cup RelocateCommands
                 \cup AddCommands \cup QueryCommands

-----------------------------------------------------------------------------
(* Calls.                                                                  *)

AwaitPoints == {"find", "locate", "insert", "preload", "load", "write", "answer"}
Statuses == {"ok", "conflict", "unauthorized", "bad-request", "not-found",
             "timeout", "error"}

ASSUME AuthAssumption ==
  /\ Commands \subseteq AllCommands
  /\ GeocoderAnswers \in [Places -> SUBSET (Cities \cup {None})]
  /\ ClientsWait \in BOOLEAN
  /\ None \notin AllCommands /\ None \notin Statuses

CallRecord ==
  [req: AllCommands \cup {None},
   pc: AwaitPoints \cup {"idle", "done", "lost"},
   user: UserIds \cup {None},        \* the account found or inserted
   city: Cities \cup {None},         \* city.city
   entity: Entity \cup {None},       \* the user object the handler holds
   base: Entity \cup {None},         \* what save loaded to compare it with
   reply: Statuses \cup {None}]

Idle == [req |-> None, pc |-> "idle", user |-> None, city |-> None,
         entity |-> None, base |-> None, reply |-> None]

InFlight(c) == call[c].pc \in AwaitPoints

(* What a handler holds at each point.  A save always finds its account:   *)
(* accounts are never deleted.                                             *)
CallReady(c) ==
  /\ IF call[c].pc = "idle" THEN call[c] = Idle ELSE call[c].req \in AllCommands
  /\ call[c].pc \in {"load", "write"} =>
       /\ call[c].req \in RelocateCommands \cup AddCommands
       /\ call[c].req.user \in DOMAIN users
       /\ call[c].entity \in Entity
  /\ call[c].pc = "write" => call[c].base \in Entity

(* The types of the tables and of the handlers' variables.                 *)
AuthTypeOK ==
  /\ DatabaseTypeOK
  /\ call \in [Calls -> CallRecord]
  /\ \A c \in Calls : CallReady(c)

AuthInit == DatabaseInit /\ call = [c \in Calls |-> Idle]

Running(c, cmd, point) == call[c].pc = point /\ call[c].req.cmd = cmd

Goto(c, point) == call' = [call EXCEPT ![c].pc = point]

(* A handler that returns or throws is left with its outcome only.         *)
Ended(r, point, status) ==
  [r EXCEPT !.pc = point, !.reply = status,
            !.city = None, !.entity = None, !.base = None]

Reply(c, status) == call' = [call EXCEPT ![c] = Ended(@, "answer", status)]

ReplyFor(c, u) == call' = [call EXCEPT ![c] = [Ended(@, "answer", "ok") EXCEPT !.user = u]]

(* The commands that name a member, and: has u one of them in flight?      *)
MemberCommands == {"RelocateMe", "add-to-my-readlist", "get-user",
                   "get-my-readlist", "myInfo"}

MemberBusy(u) ==
  \E d \in Calls : /\ InFlight(d)
                   /\ call[d].req.cmd \in MemberCommands
                   /\ call[d].req.user = u

(* A command is delivered and acknowledged; its handler starts.            *)
Deliver(c, r) ==
  /\ call[c].pc = "idle"
  /\ ClientsWait /\ r.cmd \in MemberCommands => ~ MemberBusy(r.user)
  /\ call' = [call EXCEPT ![c].req = r,
                          ![c].pc = IF r.cmd = "RelocateMe" THEN "locate" ELSE "find"]
  /\ UNCHANGED tables

(* The answer reaches the reply queue.                                     *)
Answer(c) ==
  /\ call[c].pc = "answer"
  /\ call' = [call EXCEPT ![c] = Ended(@, "done", @.reply)]
  /\ UNCHANGED tables

(* The replica running the handler dies.  The command was acknowledged, so *)
(* the broker does not deliver it again.                                   *)
Crash(c) ==
  /\ InFlight(c)
  /\ call' = [call EXCEPT ![c] = Ended(@, "lost", @.reply)]
  /\ UNCHANGED tables

(* A statement the handler awaits fails (the connection breaks, say): the  *)
(* handler throws, and a transaction is rolled back.                       *)
QueryFails(c) ==
  /\ call[c].pc \in {"find", "insert", "preload", "load", "write"}
  /\ Reply(c, "error")
  /\ UNCHANGED tables

(* The geocoder answers with a city; the handler goes on to point.         *)
GetLocation(c, point) ==
  \E city \in GeocoderAnswers[call[c].req.place] :
    call' = [call EXCEPT ![c].pc = point, ![c].city = city]

-----------------------------------------------------------------------------
(* register                                                                *)

RegisterFind(c) ==
  /\ Running(c, "register", "find")
  /\ IF EmailTaken(call[c].req.email) THEN Reply(c, "conflict") ELSE Goto(c, "locate")
  /\ UNCHANGED tables

RegisterLocateUncaught(c) ==   \* a fault: a geocoder failure answers nothing
  /\ Running(c, "register", "locate")
  /\ GetLocation(c, "insert")
  /\ UNCHANGED tables

(* hashPassword touches nothing shared and is part of this step.           *)
RegisterLocate(c) ==
  /\ Running(c, "register", "locate")
  /\ GetLocation(c, "insert") \/ Reply(c, "error")
  /\ UNCHANGED tables

NewRowUnhashed(c) ==   \* a fault: hashPassword is not awaited, so there is no digest
  [email |-> call[c].req.email, password |-> None,
   latitude |-> call[c].req.place.latitude,
   longitude |-> call[c].req.place.longitude, city |-> call[c].city]

NewRow(c) ==
  [email |-> call[c].req.email, password |-> Digest(call[c].req.password),
   latitude |-> call[c].req.place.latitude,
   longitude |-> call[c].req.place.longitude, city |-> call[c].city]

RegisterUpsert(c) ==   \* a fault: upsert by email instead of insert
  /\ Running(c, "register", "insert")
  /\ nextUser <= MaxUsers
  /\ nextUser' = nextUser + 1
  /\ LET id == IF EmailTaken(call[c].req.email)
               THEN CHOOSE u \in DOMAIN users : users[u].email = call[c].req.email
               ELSE nextUser
     IN  /\ users' = WithRow(users, id, NewRow(c))
         /\ ReplyFor(c, id)
  /\ UNCHANGED <<reading, books, nextBook>>

(* The sequence advances even when the unique constraint rejects the row.  *)
RegisterInsert(c) ==
  /\ Running(c, "register", "insert")
  /\ nextUser <= MaxUsers
  /\ nextUser' = nextUser + 1
  /\ IF InsertRejected(NewRow(c))
     THEN /\ Reply(c, "error")
          /\ UNCHANGED users
     ELSE /\ users' = WithRow(users, nextUser, NewRow(c))
          /\ ReplyFor(c, nextUser)
  /\ UNCHANGED <<reading, books, nextBook>>

-----------------------------------------------------------------------------
(* login                                                                   *)

ValidatesEmail(u, r) == users[u].email = r.email   \* a fault: no bcrypt.compare

Validates(u, r) ==
  /\ users[u].email = r.email
  /\ users[u].password = Digest(r.password)

Login(c) ==
  /\ Running(c, "login", "find")
  /\ IF \E u \in DOMAIN users : Validates(u, call[c].req)
     THEN \E u \in DOMAIN users :
            /\ Validates(u, call[c].req)
            /\ ReplyFor(c, u)
     ELSE Reply(c, "unauthorized")
  /\ UNCHANGED tables

-----------------------------------------------------------------------------
(* RelocateMe                                                              *)

RelocateLocate(c) ==
  /\ Running(c, "RelocateMe", "locate")
  /\ GetLocation(c, "preload") \/ Reply(c, "timeout")
  /\ UNCHANGED tables

RelocatedAnywhere(entity, place, city) ==   \* a fault: no city overwrites the city
  [entity EXCEPT !.latitude = place.latitude, !.longitude = place.longitude, !.city = city]

RelocatedSwapped(entity, place, city) ==   \* a fault: the coordinates swapped
  [entity EXCEPT !.latitude = place.longitude, !.longitude = place.latitude,
                 !.city = IF city = None THEN @ ELSE city]

(* preload reads the row and lays the new values over it; an undefined     *)
(* city leaves the stored one in place.                                    *)
Relocated(entity, place, city) ==
  [entity EXCEPT !.latitude = place.latitude, !.longitude = place.longitude,
                 !.city = IF city = None THEN @ ELSE city]

RelocatePreload(c) ==
  /\ Running(c, "RelocateMe", "preload")
  /\ LET u == call[c].req.user
     IN  IF u \in DOMAIN users
         THEN call' = [call EXCEPT ![c].pc = "load", ![c].city = None, ![c].entity =
                         Relocated(EntityOf(u), call[c].req.place, call[c].city)]
         ELSE Reply(c, "error")
  /\ UNCHANGED tables

RelocateWrite(c) ==
  /\ Running(c, "RelocateMe", "write")
  /\ LET u == call[c].req.user
         e == call[c].entity
         base == call[c].base
     IN  IF EmailRejected(u, e, base)
         THEN Reply(c, "error") /\ UNCHANGED users
         ELSE /\ users' = [users EXCEPT ![u] =
                             Merged(@, e, base, {"latitude", "longitude"})]
              /\ Reply(c, "ok")
  /\ UNCHANGED <<reading, books, nextUser, nextBook>>

-----------------------------------------------------------------------------
(* add-to-my-readlist                                                      *)

AlreadyReadNever(entity, b) == FALSE   \* a fault: the list is not looked at
AlreadyRead(entity, b) == b \in entity.reading

PushedAlone(entity, b) ==   \* a fault: the new book in place of the list
  [entity EXCEPT !.reading = {b}]

(* user.readingBooks.push(book)                                            *)
Pushed(entity, b) == [entity EXCEPT !.reading = @ \cup {b}]

AddFind(c) ==
  /\ Running(c, "add-to-my-readlist", "find")
  /\ LET u == call[c].req.user
         b == call[c].req.book
     IN  CASE u \notin DOMAIN users -> Reply(c, "error")
           [] u \in DOMAIN users /\ AlreadyRead(EntityOf(u), b) -> Reply(c, "bad-request")
           [] OTHER -> call' = [call EXCEPT ![c].pc = "load",
                                            ![c].entity = Pushed(EntityOf(u), b)]
  /\ UNCHANGED tables

AddWriteUntransacted(c) ==   \* a fault: the links are inserted one by one
  /\ Running(c, "add-to-my-readlist", "write")
  /\ LET u == call[c].req.user
         added == LinksAdded(call[c].entity, call[c].base)
     IN  /\ reading' = [reading EXCEPT ![u] = @ \cup (added \cap DOMAIN books)]
         /\ Reply(c, IF LinksRejected(u, added) THEN "error" ELSE "ok")
  /\ UNCHANGED <<users, books, nextUser, nextBook>>

AddWrite(c) ==
  /\ Running(c, "add-to-my-readlist", "write")
  /\ LET u == call[c].req.user
         e == call[c].entity
         base == call[c].base
     IN  IF LinksRejected(u, LinksAdded(e, base)) \/ EmailRejected(u, e, base)
         THEN Reply(c, "error") /\ UNCHANGED <<users, reading>>
         ELSE /\ users' = [users EXCEPT ![u] = Merged(@, e, base, {})]
              /\ reading' = Relinked(u, e, base)
              /\ Reply(c, "ok")
  /\ UNCHANGED <<books, nextUser, nextBook>>

(* The SELECT with which repository.save(user) begins.                     *)
SaveLoad(c) ==
  /\ call[c].pc = "load"
  /\ call' = [call EXCEPT ![c].pc = "write", ![c].base = EntityOf(call[c].req.user)]
  /\ UNCHANGED tables

-----------------------------------------------------------------------------
(* The queries: one read, then the answer.                                 *)

Found(c, u) ==
  call' = [call EXCEPT ![c].pc = "answer", ![c].reply = "ok",
                       ![c].user = u, ![c].entity = EntityOf(u)]

GetUser(c) ==
  /\ Running(c, "get-user", "find")
  /\ IF call[c].req.user \in DOMAIN users
     THEN Found(c, call[c].req.user) ELSE Reply(c, "not-found")
  /\ UNCHANGED tables

GetMyReadList(c) ==
  /\ Running(c, "get-my-readlist", "find")
  /\ IF call[c].req.user \in DOMAIN users
     THEN Found(c, call[c].req.user) ELSE Reply(c, "error")
  /\ UNCHANGED tables

MyInfo(c) ==
  /\ Running(c, "myInfo", "find")
  /\ IF call[c].req.user \in DOMAIN users
     THEN Found(c, call[c].req.user) ELSE Reply(c, "ok")
  /\ UNCHANGED tables

GetUsers(c) ==
  /\ Running(c, "get-users", "find")
  /\ Reply(c, "ok")
  /\ UNCHANGED tables

-----------------------------------------------------------------------------
Step(c) ==
  \/ RegisterFind(c) \/ RegisterLocate(c) \/ RegisterInsert(c)
  \/ Login(c)
  \/ RelocateLocate(c) \/ RelocatePreload(c) \/ RelocateWrite(c)
  \/ AddFind(c) \/ AddWrite(c)
  \/ SaveLoad(c)
  \/ GetUser(c) \/ GetMyReadList(c) \/ MyInfo(c) \/ GetUsers(c)
  \/ QueryFails(c)
  \/ Answer(c)

(* The books service deletes a book behind the auth service's back.        *)
BookDeleted(b) ==
  /\ b \in DOMAIN books
  /\ BooksDropped({b})
  /\ UNCHANGED <<users, nextUser, nextBook, call>>

AuthNext ==
  \/ \E c \in Calls : Step(c) \/ Crash(c) \/ \E r \in Commands : Deliver(c, r)
  \/ \E b \in BookIds : BookDeleted(b)

AuthSpec == AuthInit /\ [][AuthNext]_authVars

(* Node runs every continuation that is ready, and the database and the    *)
(* geocoder answer or fail; nothing makes a client send or a replica die.  *)
AuthFairSpec == AuthSpec /\ \A c \in Calls : WF_authVars(Step(c))

-----------------------------------------------------------------------------
(* What is true however the handlers interleave and the replicas die.      *)

Confirmed(c, cmd) == call[c].req # None /\ call[c].req.cmd = cmd /\ call[c].reply = "ok"

(* One email, one account: the check in register races with other          *)
(* registrations, and only the constraint on user.email decides.           *)
EmailsUnique ==
  \A u, v \in DOMAIN users : users[u].email = users[v].email => u = v

(* Does account u have the credentials registration c asked for?           *)
AccountOf(u, c) ==
  /\ u = call[c].user
  /\ users[u].email = call[c].req.email
  /\ users[u].password = Digest(call[c].req.password)

(* register is all or nothing, for good: every account was created by      *)
(* exactly one registration that succeeded, and every registration that    *)
(* succeeded still has its account, under its credentials, whatever other  *)
(* calls saved since.                                                      *)
AccountsAreRegistrations ==
  /\ \A u \in DOMAIN users \ DOMAIN Founders :
       \E c \in Calls : /\ Confirmed(c, "register") /\ AccountOf(u, c)
                       /\ \A d \in Calls : Confirmed(d, "register") /\ call[d].user = u => d = c
  /\ \A c \in Calls : Confirmed(c, "register") =>
       call[c].user \in DOMAIN users \ DOMAIN Founders /\ AccountOf(call[c].user, c)

(* login issues a token only to someone who presents the credentials of a  *)
(* founder or of a registration that succeeded, and for that account.      *)
TokenNeedsRegistration ==
  \A c \in Calls : Confirmed(c, "login") =>
    LET presents(email, digest) ==
          call[c].req.email = email /\ Digest(call[c].req.password) = digest
    IN  \/ \E u \in DOMAIN Founders :
             call[c].user = u /\ presents(Founders[u].email, Founders[u].password)
        \/ \E d \in Calls :
             /\ Confirmed(d, "register") /\ call[d].user = call[c].user
             /\ presents(call[d].req.email, Digest(call[d].req.password))

(* A book is on a reading list only if it was there at the start or the    *)
(* member's addToMyReadList of that book succeeded: the stale user objects *)
(* that concurrent saves write back bring in nothing else, and a save that *)
(* fails leaves nothing behind.                                            *)
EveryReadWasConfirmed ==
  \A u \in UserIds : \A b \in reading[u] \ FoundersReading[u] :
    \E c \in Calls : /\ Confirmed(c, "add-to-my-readlist")
                    /\ call[c].req.user = u /\ call[c].req.book = b

(* A reading list holds no book that was deleted, though the book object   *)
(* addToMyReadList saves was read, by another service, long before.        *)
NoDanglingReading == \A u \in UserIds : reading[u] \subseteq DOMAIN books

(* addToMyReadList refuses a book the member "already read", in a list it  *)
(* read earlier, and save inserts only what its own later look does not    *)
(* find: when members wait, no add of a book is confirmed twice.           *)
AddedOnce ==
  \A c, d \in Calls :
    /\ Confirmed(c, "add-to-my-readlist") /\ Confirmed(d, "add-to-my-readlist")
    /\ call[c].req.user = call[d].req.user /\ call[c].req.book = call[d].req.book
    => c = d

(* Every command taken from the queue is answered, unless the replica that *)
(* took it dies.                                                           *)
EventuallyAnswered ==
  \A c \in Calls : InFlight(c) ~> call[c].pc \in {"done", "lost"}

(* When every member waits for an answer before the next command, the      *)
(* service does to the tables what ReadingClub says, in one step per       *)
(* command.                                                                *)
Club == INSTANCE ReadingClub
KeepsPromise == Club!ClubSpec

-----------------------------------------------------------------------------
(* What the comments of the code say and its interleavings do not do.      *)

(* addToMyReadList "Adds the book to the user's reading list": the book of *)
(* a confirmed add is on the list for as long as the book exists.          *)
AddedBookStays ==
  \A c \in Calls :
    Confirmed(c, "add-to-my-readlist") /\ call[c].req.book \in DOMAIN books
      => call[c].req.book \in reading[call[c].req.user]

(* relocateMe calls getLocation "to get the city" and saves "the new       *)
(* values" together: the city of an account is one the geocoder answers    *)
(* for its coordinates.                                                    *)
CityMatchesCoordinates ==
  \A u \in DOMAIN users :
    users[u].city \in GeocoderAnswers[[latitude |-> users[u].latitude,
                                       longitude |-> users[u].longitude]]

(* relocateMe "Saves the updated user": once a member's only relocation    *)
(* has succeeded, the account has the coordinates it asked for.            *)
RelocationStays ==
  \A c \in Calls :
    /\ Confirmed(c, "RelocateMe")
    /\ \A d \in Calls \ {c} : call[d].req = None \/ call[d].req.cmd # "RelocateMe"
    => LET row == users[call[c].req.user]
       IN  row.latitude = call[c].req.place.latitude
             /\ row.longitude = call[c].req.place.longitude
=============================================================================
