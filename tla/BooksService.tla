---------------------------- MODULE BooksService ----------------------------
(***************************************************************************)
(* The books service, apps/books-service/src, together with the auth       *)
(* service it calls and the database they share.  A task is one command on *)
(* books_queue.  Its handler is asynchronous like those of the auth        *)
(* service, and some of its steps are commands to the auth service, for    *)
(* which it waits without a timeout.  The controller never acknowledges a  *)
(* command, so a replica that dies gets every one of them delivered again, *)
(* the answered ones included.                                             *)
(***************************************************************************)
EXTENDS AuthService, FiniteSets

CONSTANTS
  Tasks,          \* commands on books_queue
  BookCommands,   \* what clients may ask of the books service
  MaxRestarts     \* bound on the deaths of replicas of the books service

VARIABLES
  task,
  restarts        \* how many replicas have died; bounded by MaxRestarts

booksVars == <<users, reading, books, nextUser, nextBook, call, task, restarts>>

CreateCommands ==
  [cmd: {"createBook"}, user: UserIds, title: Texts, description: Texts]

(* What an update may carry is not restricted: its updates are any keys of *)
(* a book, the id and the author object included, and that author object   *)
(* any columns and any reading list.  None is a key that is not given;     *)
(* keys are those given of the author object.  Left out: an author without *)
(* an id, its writtenBooks, and keys given as null.                        *)
Columns == {"email", "password", "latitude", "longitude", "city", "reading"}
AuthorObjects ==
  [id: UserIds, keys: SUBSET Columns, email: Emails, password: StoredPasswords,
   latitude: Latitudes, longitude: Longitudes, city: Cities \cup {None},
   reading: SUBSET BookIds]
UpdateCommands ==
  [cmd: {"updateBook"}, user: UserIds, book: BookIds,
   id: BookIds \cup {None}, title: Texts \cup {None},
   description: Texts \cup {None}, author: AuthorObjects \cup {None}]

(* The body of a delete is not validated either: it may name no book.      *)
DeleteCommands == [cmd: {"deleteBook"}, user: UserIds, book: BookIds \cup {None}]
ReadCommands == [cmd: {"readBook"}, user: UserIds, book: BookIds]
BookQueries ==
  [cmd: {"get-my-readlist", "getBooksByAuthor"}, user: UserIds]
    \cup [cmd: {"getBookById"}, book: BookIds] \cup [cmd: {"getAllBooks"}]
AllBookCommands ==
  CreateCommands \cup UpdateCommands \cup DeleteCommands \cup ReadCommands
    \cup BookQueries

(* The commands whose handler begins with a command to the auth service.   *)
AskFirst == {"createBook", "get-my-readlist"}

(* Only readBook sends the auth service an add-to-my-readlist, and nobody  *)
(* has read a book of their own when the services start.                   *)
ASSUME BooksAssumption ==
  /\ BookCommands \subseteq AllBookCommands
  /\ Commands \cap AddCommands = {}
  /\ \A u \in UserIds : \A b \in FoundersReading[u] : Library[b].author # u
  /\ MaxRestarts \in Nat
  /\ None \notin AllBookCommands /\ None \notin BookRow /\ None \notin Calls
  /\ None \notin BookIds /\ None \notin AuthorObjects

TaskRecord ==
  [req: AllBookCommands \cup {None},
   pc: {"idle", "start", "asked", "load-book", "load-author", "write", "answer", "done"},
   sub: Calls \cup {None},         \* the command sent to the auth service
   book: BookRow \cup {None},      \* the book object, without its author
   author: Entity \cup {None},     \* the author object in it
   stored: BookRow \cup {None},    \* what save loaded to compare book with
   storedAuthor: Entity \cup {None},
   reply: Statuses \cup {None},    \* the outcome of this delivery
   sent: Statuses \cup {None}]     \* the answer the client got

Unsent == [req |-> None, pc |-> "idle", sub |-> None, book |-> None, author |-> None,
           stored |-> None, storedAuthor |-> None, reply |-> None, sent |-> None]

(* What the handlers hold at each point.                                   *)
TaskReady(t) ==
  /\ IF task[t].pc = "idle" THEN task[t] = Unsent ELSE task[t].req \in AllBookCommands
  /\ task[t].pc = "asked" => task[t].sub \in Calls
  /\ task[t].pc \in {"load-book", "load-author", "write"} =>
       task[t].req.cmd = "deleteBook" \/ (task[t].book \in BookRow /\ task[t].author \in Entity)

(* The types of the tables and of both services' variables.                *)
BooksTypeOK ==
  /\ AuthTypeOK
  /\ task \in [Tasks -> TaskRecord]
  /\ \A t \in Tasks : TaskReady(t)
  /\ restarts \in 0 .. MaxRestarts

BooksInit ==
  /\ AuthInit
  /\ task = [t \in Tasks |-> Unsent]
  /\ restarts = 0

-----------------------------------------------------------------------------
(* Tasks.                                                                  *)

At(t, cmd, point) == task[t].pc = point /\ task[t].req.cmd = cmd

(* A task with none of the handler's variables but its outcome.            *)
Cleared(r, point, status) ==
  [Unsent EXCEPT !.req = r.req, !.pc = point, !.reply = status, !.sent = r.sent]

Conclude(t, status) == task' = [task EXCEPT ![t] = Cleared(@, "answer", status)]

(* A client's command reaches a handler.                                   *)
Receive(t, r) ==
  /\ task[t].pc = "idle"
  /\ task' = [task EXCEPT ![t].req = r, ![t].pc = "start"]
  /\ UNCHANGED <<tables, call, restarts>>

(* The handler's answer reaches the client, who looks at the first only.   *)
Respond(t) ==
  /\ task[t].pc = "answer"
  /\ LET first == IF task[t].sent = None THEN task[t].reply ELSE task[t].sent
     IN  task' = [task EXCEPT ![t] = [Cleared(@, "done", @.reply) EXCEPT !.sent = first]]
  /\ UNCHANGED <<tables, call, restarts>>

(* authServiceClient.send: the command is delivered to the auth service.   *)
Ask(t, r) ==
  \E c \in Calls :
    /\ Deliver(c, r)
    /\ task' = [task EXCEPT ![t] = [Cleared(@, "asked", None) EXCEPT !.sub = c]]

(* A statement fails.                                                      *)
TaskFails(t) ==
  /\ \/ task[t].pc \in {"load-book", "load-author", "write"}
     \/ task[t].pc = "start" /\ task[t].req.cmd \notin AskFirst
  /\ Conclude(t, "error")
  /\ UNCHANGED <<tables, call, restarts>>

(* A replica dies.  Every command it was ever sent is unacknowledged, and  *)
(* the broker delivers them again to a replica that lives.                 *)
Redeliver(S) ==
  /\ restarts < MaxRestarts
  /\ S # {}
  /\ \A t \in S : task[t].pc # "idle"
  /\ task' = [t \in Tasks |-> IF t \in S THEN Cleared(task[t], "start", None) ELSE task[t]]
  /\ restarts' = restarts + 1
  /\ UNCHANGED <<tables, call>>

-----------------------------------------------------------------------------
(* Reads.                                                                  *)

(* The book that findOne finds: for an undefined id it looks at no column  *)
(* and takes the first book.                                               *)
Sought(id) ==
  IF id # None \/ DOMAIN books = {} THEN id
  ELSE CHOOSE b \in DOMAIN books : \A d \in DOMAIN books : b <= d

(* findBookById finds no book, or one whose author the member is, or not.  *)
Missing(t) == Sought(task[t].req.book) \notin DOMAIN books
OwnedByAnyone(t) == ~ Missing(t)   \* a fault: no check of the author
OwnedByNobody(t) == FALSE          \* a fault: authors may read what they wrote
Owned(t) == ~ Missing(t) /\ books[Sought(task[t].req.book)].author = task[t].req.user
Foreign(t) == ~ Missing(t) /\ ~ Owned(t)

Query(t) ==
  /\ task[t].pc = "start"
  /\ \/ task[t].req.cmd \in {"getAllBooks", "getBooksByAuthor"} /\ Conclude(t, "ok")
     \/ task[t].req.cmd = "getBookById" /\ Conclude(t, IF Missing(t) THEN "not-found" ELSE "ok")
  /\ UNCHANGED <<tables, call, restarts>>

-----------------------------------------------------------------------------
(* save(book): the book, then its author, are loaded; then one transaction *)
(* writes what differs in either, for the relation to the author cascades  *)
(* updates.                                                                *)

(* The id of the book object that is saved, and the member its author      *)
(* object names.                                                           *)
Target(r) == IF r.cmd = "updateBook" /\ r.id # None THEN r.id ELSE r.book
AuthorSent(r) == r.cmd = "updateBook" /\ r.author # None
AuthorOf(r) == IF AuthorSent(r) THEN r.author.id ELSE r.user

(* SELECT of the book by its id.                                           *)
LoadBook(t) ==
  /\ task[t].pc = "load-book"
  /\ LET b == Target(task[t].req)
     IN  task' = [task EXCEPT ![t].pc = "load-author",
                              ![t].stored = IF b \in DOMAIN books THEN books[b] ELSE None]
  /\ UNCHANGED <<tables, call, restarts>>

(* The author object that came with an update has the columns it was sent  *)
(* with, and no others: no others are compared.                            *)
Overlaid(entity, sent) ==
  LET Given(column) == IF column \in sent.keys THEN sent[column] ELSE entity[column]
  IN  [email |-> Given("email"), password |-> Given("password"),
       latitude |-> Given("latitude"), longitude |-> Given("longitude"),
       city |-> Given("city"), reading |-> Given("reading")]

(* The author is not there: none of its columns is written, and all its    *)
(* reading list is to be inserted.                                         *)
Unfound(sent) ==
  [email |-> sent.email, password |-> sent.password, latitude |-> sent.latitude,
   longitude |-> sent.longitude, city |-> sent.city, reading |-> {}]

(* SELECT of its author, with the relations the author object has.         *)
LoadAuthor(t) ==
  /\ task[t].pc = "load-author"
  /\ LET r == task[t].req
         u == AuthorOf(r)
         stored == IF u \in DOMAIN users THEN EntityOf(u) ELSE Unfound(r.author)
     IN  task' = [task EXCEPT ![t].pc = "write", ![t].storedAuthor = stored,
                    ![t].author = IF AuthorSent(r) THEN Overlaid(stored, r.author) ELSE @]
  /\ UNCHANGED <<tables, call, restarts>>

(* Nothing of the two rows is written if the book's foreign key to its     *)
(* author fails, or a constraint on the author's row or reading list.  The *)
(* list may refer to the book that the same transaction has inserted.      *)
CascadeRejected(r, inserted) ==
  LET u == r.book.author
  IN  \/ u \notin DOMAIN users /\ (r.stored = None \/ Target(r.req) \in DOMAIN books)
      \/ EmailRejected(u, r.author, r.storedAuthor)
      \/ LinksRejected(u, LinksAdded(r.author, r.storedAuthor) \ inserted)

Cascade(r) ==
  /\ users' = [u \in DOMAIN users |->
                 IF u = r.book.author
                 THEN Merged(users[u], r.author, r.storedAuthor, {}) ELSE users[u]]
  /\ reading' = Relinked(r.book.author, r.author, r.storedAuthor)

-----------------------------------------------------------------------------
(* createBook                                                              *)

CreateAsk(t) ==
  /\ At(t, "createBook", "start")
  /\ Ask(t, [cmd |-> "get-user", user |-> task[t].req.user])
  /\ UNCHANGED restarts

CreateHearSuccess(t) ==   \* a fault: only a user is waited for, never an error
  /\ At(t, "createBook", "asked")
  /\ call[task[t].sub].reply = "ok"
  /\ Answer(task[t].sub)
  /\ task' = [task EXCEPT ![t].pc = "load-author", ![t].sub = None,
                ![t].author = call[task[t].sub].entity,
                ![t].book = [author |-> task[t].req.user, title |-> task[t].req.title,
                             description |-> task[t].req.description]]
  /\ UNCHANGED restarts

CreateHear(t) ==
  /\ At(t, "createBook", "asked")
  /\ Answer(task[t].sub)
  /\ LET r == task[t].req
         answer == call[task[t].sub]
     IN  IF answer.reply = "ok"
         THEN task' = [task EXCEPT ![t].pc = "load-author", ![t].sub = None,
                         ![t].author = answer.entity,
                         ![t].book = [author |-> r.user, title |-> r.title,
                                      description |-> r.description]]
         ELSE Conclude(t, "error")
  /\ UNCHANGED restarts

CreateWriteReusesId(t) ==   \* a fault: the smallest free id instead of the next
  /\ At(t, "createBook", "write")
  /\ \E b \in BookIds \ DOMAIN books :
       /\ \A d \in BookIds : d < b => d \in DOMAIN books
       /\ books' = WithRow(books, b, task[t].book)
  /\ Conclude(t, "ok")
  /\ UNCHANGED <<users, reading, nextUser, nextBook, call, restarts>>

(* An update may have given a book an id the sequence has not reached: the *)
(* primary key then rejects the new book, and the sequence has advanced.   *)
CreateWrite(t) ==
  /\ At(t, "createBook", "write")
  /\ nextBook <= MaxBooks
  /\ nextBook' = nextBook + 1
  /\ IF nextBook \in DOMAIN books \/ CascadeRejected(task[t], {nextBook})
     THEN Conclude(t, "error") /\ UNCHANGED <<users, reading, books>>
     ELSE /\ books' = WithRow(books, nextBook, task[t].book)
          /\ Cascade(task[t])
          /\ Conclude(t, "ok")
  /\ UNCHANGED <<nextUser, call, restarts>>

-----------------------------------------------------------------------------
(* updateBook                                                              *)

AssignedUndefined(row, r) ==   \* a fault: a text not given is set to undefined
  [row EXCEPT !.title = r.title, !.description = r.description]

(* Object.assign(existingBook, updates); the id it copies is Target's.     *)
Assigned(row, r) ==
  [row EXCEPT !.author = IF AuthorSent(r) THEN r.author.id ELSE @,
              !.title = IF r.title = None THEN @ ELSE r.title,
              !.description = IF r.description = None THEN @ ELSE r.description]

UpdateFind(t) ==
  /\ At(t, "updateBook", "start")
  /\ \/ Missing(t) /\ Conclude(t, "not-found")
     \/ Foreign(t) /\ Conclude(t, "unauthorized")
     \/ /\ Owned(t)
        /\ task' = [task EXCEPT ![t].pc = "load-book",
                      ![t].book = Assigned(books[task[t].req.book], task[t].req),
                      ![t].author = EntityOf(books[task[t].req.book].author)]
  /\ UNCHANGED <<tables, call, restarts>>

(* The UPDATE of the columns that differ from what was loaded.             *)
Rewritten(row, book, stored) ==
  [row EXCEPT !.author = IF book.author # stored.author THEN book.author ELSE @,
              !.title = IF book.title # stored.title THEN book.title ELSE @,
              !.description =
                IF book.description # stored.description THEN book.description ELSE @]

SaveBookAnew(b, r) ==   \* a fault: a book that was gone is saved under a new id
  IF r.stored = None
  THEN books' = WithRow(books, nextBook, r.book)
  ELSE books' = [d \in DOMAIN books |->
                   IF d = b THEN Rewritten(books[b], r.book, r.stored) ELSE books[d]]

(* A book that was gone when save loaded it is INSERTed, under its old id; *)
(* one that went later is UPDATEd in vain.                                 *)
SaveBook(b, r) ==
  IF r.stored = None
  THEN books' = WithRow(books, b, r.book)
  ELSE books' = [d \in DOMAIN books |->
                   IF d = b THEN Rewritten(books[b], r.book, r.stored) ELSE books[d]]

UpdateWrite(t) ==
  /\ At(t, "updateBook", "write")
  /\ LET b == Target(task[t].req)
         inserted == IF task[t].stored = None THEN {b} ELSE {}
     IN  IF CascadeRejected(task[t], inserted) \/ inserted \cap DOMAIN books # {}
         THEN Conclude(t, "error") /\ UNCHANGED <<users, reading, books>>
         ELSE SaveBook(b, task[t]) /\ Cascade(task[t]) /\ Conclude(t, "ok")
  /\ UNCHANGED <<nextUser, nextBook, call, restarts>>

-----------------------------------------------------------------------------
(* deleteBook                                                              *)

DeleteFind(t) ==
  /\ At(t, "deleteBook", "start")
  /\ \/ Missing(t) /\ Conclude(t, "not-found")
     \/ Foreign(t) /\ Conclude(t, "unauthorized")
     \/ Owned(t) /\ task' = [task EXCEPT ![t].pc = "write"]
  /\ UNCHANGED <<tables, call, restarts>>

(* The books a delete drops.  Without an id the condition of the statement *)
(* is empty or compares with NULL: all the books or none.                  *)
Dropped(id) == IF id # None THEN {{id}} ELSE {{}, DOMAIN books}

DeleteWrite(t) ==
  /\ At(t, "deleteBook", "write")
  /\ \E dropped \in Dropped(task[t].req.book) : BooksDropped(dropped)
  /\ Conclude(t, "ok")
  /\ UNCHANGED <<users, nextUser, nextBook, call, restarts>>

-----------------------------------------------------------------------------
(* readBook and get-my-readlist                                            *)

ReadFind(t) ==
  /\ At(t, "readBook", "start")
  /\ \/ Missing(t) /\ Conclude(t, "not-found") /\ UNCHANGED call
     \/ Owned(t) /\ Conclude(t, "bad-request") /\ UNCHANGED call
     \/ /\ Foreign(t)
        /\ Ask(t, [cmd |-> "add-to-my-readlist", user |-> task[t].req.user,
                   book |-> task[t].req.book])
  /\ UNCHANGED <<tables, restarts>>

ReadListAsk(t) ==
  /\ At(t, "get-my-readlist", "start")
  /\ Ask(t, [cmd |-> "get-my-readlist", user |-> task[t].req.user])
  /\ UNCHANGED restarts

(* The auth service's answer is passed on.                                 *)
PassOn(t) ==
  /\ At(t, "readBook", "asked") \/ At(t, "get-my-readlist", "asked")
  /\ Answer(task[t].sub)
  /\ Conclude(t, call[task[t].sub].reply)
  /\ UNCHANGED restarts

-----------------------------------------------------------------------------
TaskStep(t) ==
  \/ Query(t)
  \/ LoadBook(t) \/ LoadAuthor(t)
  \/ CreateAsk(t) \/ CreateHear(t) \/ CreateWrite(t)
  \/ UpdateFind(t) \/ UpdateWrite(t)
  \/ DeleteFind(t) \/ DeleteWrite(t)
  \/ ReadFind(t) \/ ReadListAsk(t) \/ PassOn(t)
  \/ TaskFails(t)
  \/ Respond(t)

(* Does a handler of the books service wait for call c?                    *)
Awaited(c) == \E t \in Tasks : task[t].pc = "asked" /\ task[t].sub = c

(* A step of a call to the auth service; an answer that a handler of the   *)
(* books service waits for is taken by that handler.                       *)
CallStep(c) ==
  /\ call[c].pc = "answer" => ~ Awaited(c)
  /\ Step(c)
  /\ UNCHANGED <<task, restarts>>

CallEnvironment(c) ==
  /\ Crash(c) \/ \E r \in Commands : Deliver(c, r)
  /\ UNCHANGED <<task, restarts>>

BooksNext ==
  \/ \E c \in Calls : CallStep(c) \/ CallEnvironment(c)
  \/ \E t \in Tasks : TaskStep(t) \/ \E r \in BookCommands : Receive(t, r)
  \/ \E S \in SUBSET Tasks : Redeliver(S)

BooksSpec == BooksInit /\ [][BooksNext]_booksVars

(* As in the auth service: what is ready runs, what is asked answers.      *)
BooksFairSpec ==
  /\ BooksSpec
  /\ \A c \in Calls : WF_booksVars(CallStep(c))
  /\ \A t \in Tasks : WF_booksVars(TaskStep(t))

-----------------------------------------------------------------------------
(* What is true however the handlers of both services interleave, the      *)
(* replicas die, and the broker delivers again.                            *)

Asked(t, cmd) == task[t].req # None /\ task[t].req.cmd = cmd

(* Have clients kept to what the DTOs declare so far?  Nothing makes them: *)
(* the updates may be a title and a description, a delete names its book.  *)
DtosKept ==
  \A t \in Tasks :
    /\ Asked(t, "updateBook") => task[t].req.id = None /\ task[t].req.author = None
    /\ Asked(t, "deleteBook") => task[t].req.book # None

(* While they do, nobody has a book of their own on the reading list: the  *)
(* books service checks it, the auth service writes it down later and      *)
(* checks nothing.                                                         *)
NoOwnBookRead ==
  DtosKept =>
    \A u \in UserIds : \A b \in reading[u] \cap DOMAIN books : books[b].author # u

(* While they do, a book appears, changes or goes only by a command of its *)
(* author: the check is one query, the write another, of a book that       *)
(* others may write in between.                                            *)
OnlyAuthorChangesBook ==
  [][DtosKept' =>
       \A b \in BookIds :
         LET authors(table) == IF b \in DOMAIN table THEN {table[b].author} ELSE {}
         IN  \/ b \notin DOMAIN books \cup DOMAIN books'
             \/ b \in DOMAIN books \cap DOMAIN books' /\ books'[b] = books[b]
             \/ \E t \in Tasks :
                  /\ task[t].req # None
                  /\ task[t].req.cmd \in {"createBook", "updateBook", "deleteBook"}
                  /\ task[t].pc = "write" /\ task'[t].reply = "ok"
                  /\ authors(books) \cup authors(books') = {task[t].req.user}]_booksVars

(* Whatever clients send, the author of a book is the one it had in the    *)
(* library, or who created it, or whom an update of that id names: the     *)
(* member who sent it, or the author object in it.                         *)
BooksHaveTheirAuthors ==
  \A b \in DOMAIN books :
    LET a == books[b].author
    IN  \/ b \in DOMAIN Library /\ a = Library[b].author
        \/ b \notin DOMAIN Library
             /\ \E t \in Tasks : Asked(t, "createBook") /\ task[t].req.user = a
        \/ \E t \in Tasks :
             /\ Asked(t, "updateBook") /\ (task[t].req.id # None \/ AuthorSent(task[t].req))
             /\ Target(task[t].req) = b /\ AuthorOf(task[t].req) = a

(* Whatever clients send, a book is on a reading list only if it was there *)
(* at the start, the member's add of it succeeded, or an update carried an *)
(* author object of that member with the book on its list: the stale user  *)
(* objects both services save, with and without books, bring in nothing.   *)
ReadsAccountedFor ==
  \A u \in UserIds : \A b \in reading[u] \ FoundersReading[u] :
    \/ \E c \in Calls : /\ Confirmed(c, "add-to-my-readlist")
                       /\ call[c].req.user = u /\ call[c].req.book = b
    \/ \E t \in Tasks : /\ Asked(t, "updateBook") /\ AuthorSent(task[t].req)
                       /\ task[t].req.author.id = u
                       /\ "reading" \in task[t].req.author.keys
                       /\ b \in task[t].req.author.reading

(* The ids that updates asked for.                                         *)
RenumberedTo ==
  {b \in BookIds : \E t \in Tasks : Asked(t, "updateBook") /\ task[t].req.id = b}

(* A createBook inserts one book, at most, each time it is delivered, and  *)
(* besides the ids that updates ask for nothing makes new ones: not the    *)
(* saves that insert deleted books again, and not a redelivery of what     *)
(* failed.                                                                 *)
BooksPerDelivery ==
  Cardinality(DOMAIN books \ DOMAIN Library) <=
    (restarts + 1) * Cardinality({t \in Tasks : Asked(t, "createBook")})
      + Cardinality(RenumberedTo)

(* Every command is answered, unless the auth service takes a command from *)
(* its handler and dies.                                                   *)
TaskAnswered ==
  \A t \in Tasks :
    (task[t].pc # "idle") ~>
      (task[t].pc = "done" \/ (task[t].pc = "asked" /\ call[task[t].sub].pc = "lost"))

-----------------------------------------------------------------------------
(* What the comments of the code say and its interleavings do not do.      *)

Told(t, cmd) == task[t].req # None /\ task[t].req.cmd = cmd /\ task[t].sent = "ok"

(* deleteBook "Deletes the book from the bookRepository": a book whose     *)
(* deletion was confirmed does not come back.                              *)
DeletedStaysDeleted ==
  \A t \in Tasks : Told(t, "deleteBook") => task[t].req.book \notin DOMAIN books

(* createBook "creates a new book": as many new books as commands, at most.*)
OneBookPerCommand ==
  Cardinality(DOMAIN books \ DOMAIN Library) <=
    Cardinality({t \in Tasks : Asked(t, "createBook")})
=============================================================================
