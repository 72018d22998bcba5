------------------------- MODULE BooksServiceProofs -------------------------
(***************************************************************************)
(* Theorems about the books service and the auth service together, for any *)
(* accounts, books, commands, number of tasks and of calls.  What is known *)
(* of the auth service alone is in AuthServiceProofs; its lemmas about     *)
(* calls hold here too, for a step of the books service moves at most one  *)
(* call.                                                                   *)
(***************************************************************************)
EXTENDS BooksService, AuthServiceProofs, FiniteSetTheorems

(* A handler that saves, and one that saves a book object.                 *)
Saves(t) == task[t].pc \in {"load-book", "load-author", "write"}
SavesBook(t) == Saves(t) /\ task[t].req.cmd # "deleteBook"

(* A handler of a save holds a book object whose author is the member who  *)
(* asked, who has an account, or the one that came with the update; one    *)
(* that waits for its member's account waits for the answer to that.       *)
HeldInv(t) ==
  /\ Saves(t) => task[t].req.cmd \in {"createBook", "updateBook", "deleteBook"}
  /\ task[t].pc = "load-book" => task[t].req.cmd = "updateBook"
  /\ task[t].pc = "load-author" => task[t].req.cmd # "deleteBook"
  /\ SavesBook(t) => /\ task[t].book.author = AuthorOf(task[t].req)
                     /\ task[t].req.user \in DOMAIN users
  /\ SavesBook(t) /\ task[t].pc = "write" => task[t].storedAuthor \in Entity
  /\ At(t, "createBook", "asked") =>
       /\ call[task[t].sub].pc # "idle"
       /\ call[task[t].sub].req = [cmd |-> "get-user", user |-> task[t].req.user]

(* Call c hands over the user object it was asked for.                     *)
Hands(c) == call[c].pc = "answer" /\ call[c].reply = "ok" /\ call[c].req.cmd = "get-user"
HandedInv(c) == Hands(c) => call[c].req.user \in DOMAIN users /\ call[c].entity \in Entity

AuthorsExist == \A b \in DOMAIN books : books[b].author \in DOMAIN users

HoldingInv ==
  /\ BooksTypeOK
  /\ AuthorsExist
  /\ \A t \in Tasks : HeldInv(t)
  /\ \A c \in Calls : HandedInv(c)

-----------------------------------------------------------------------------
(* What a command may carry.                                               *)

LEMMA RequestType ==
  ASSUME NEW r \in AllBookCommands
  PROVE  /\ r # None
         /\ r.cmd \in {"createBook", "updateBook", "deleteBook", "readBook", "get-my-readlist"} =>
              r.user \in UserIds
         /\ r.cmd = "createBook" =>
              /\ r \in CreateCommands /\ AuthorOf(r) = r.user /\ ~ AuthorSent(r)
         /\ r.cmd = "updateBook" =>
              /\ r \in UpdateCommands /\ r.book \in BookIds /\ r.book # None
              /\ Target(r) \in BookIds /\ AuthorOf(r) \in UserIds
         /\ r.cmd = "deleteBook" => r.book \in BookIds \cup {None}
         /\ r.cmd = "readBook" => r.book \in BookIds /\ r.book # None
         /\ AuthorSent(r) => /\ r.cmd = "updateBook" /\ AuthorOf(r) = r.author.id
                             /\ r.author \in AuthorObjects
         /\ ~ AuthorSent(r) => AuthorOf(r) = r.user
  <1>1. r # None /\ None \notin BookIds
    BY BooksAssumption
  <1>2. CASE r \in UpdateCommands
    BY <1>1, <1>2 DEF UpdateCommands, AuthorObjects, Target, AuthorOf, AuthorSent
  <1>3. CASE r \in CreateCommands \cup DeleteCommands \cup ReadCommands \cup BookQueries
    <2>1. r.cmd # "updateBook" /\ (r.cmd = "createBook" => r \in CreateCommands)
      BY <1>3 DEF CreateCommands, DeleteCommands, ReadCommands, BookQueries
    <2> QED  BY <1>1, <1>3, <2>1
                DEF CreateCommands, DeleteCommands, ReadCommands, BookQueries, AuthorOf, AuthorSent
  <1> QED  BY <1>2, <1>3 DEF AllBookCommands

(* An object laid over an entity is one; so is the void that stands for an *)
(* account that is not there.                                              *)
LEMMA OverlaidType ==
  ASSUME NEW e \in Entity, NEW sent \in AuthorObjects
  PROVE  /\ Overlaid(e, sent) \in Entity
         /\ Overlaid(e, sent).reading =
              IF "reading" \in sent.keys THEN sent.reading ELSE e.reading
  <1> DEFINE Given(column) == IF column \in sent.keys THEN sent[column] ELSE e[column]
             email == Given("email")
             password == Given("password")
             lat == Given("latitude")
             lon == Given("longitude")
             city == Given("city")
             list == Given("reading")
  <1>1. /\ email \in Emails /\ password \in StoredPasswords \cup {None}
        /\ lat \in Latitudes /\ lon \in Longitudes /\ city \in Cities \cup {None}
        /\ list \in SUBSET BookIds
    BY DEF Entity, AuthorObjects
  <1>2. Overlaid(e, sent) = [email |-> email, password |-> password, latitude |-> lat,
                             longitude |-> lon, city |-> city, reading |-> list]
    BY DEF Overlaid
  <1>3. list = IF "reading" \in sent.keys THEN sent.reading ELSE e.reading
    OBVIOUS
  <1> HIDE DEF Given, email, password, lat, lon, city, list
  <1> QED  BY <1>1, <1>2, <1>3 DEF Entity

LEMMA UnfoundType ==
  ASSUME NEW sent \in AuthorObjects
  PROVE  Unfound(sent) \in Entity /\ Unfound(sent).reading = {}
  BY DEF Unfound, AuthorObjects, Entity

-----------------------------------------------------------------------------
(* The calls that hand a user object over.                                 *)

(* A call that hands over a user object did so before, or read it now.     *)
LEMMA HandsStep ==
  ASSUME AuthTypeOK, CallsMove, NEW c \in Calls, Hands(c)'
  PROVE  \/ Hands(c) /\ call'[c] = call[c]
         \/ /\ call'[c].req = call[c].req /\ call[c].req \in AllCommands
            /\ call[c].req.cmd = "get-user"
            /\ call[c].req.user \in DOMAIN users
            /\ call'[c].entity = EntityOf(call[c].req.user)
  <1>1. call[c] \in CallRecord /\ call \in [Calls -> CallRecord]
    BY DEF AuthTypeOK
  <1>2. CASE \E d \in Calls \ {c} : CallMove(d)
    BY <1>2, OthersUntouched DEF Hands
  <1>3. CASE UNCHANGED call
    BY <1>3 DEF Hands
  <1>4. CASE Step(c)
    <2>1. call[c].pc # "idle" /\ call[c].req \in AllCommands
      <3>1. call[c].pc # "idle"
        BY <1>4 DEF Step, Running, RegisterFind, RegisterLocate, RegisterInsert,
           Login, RelocateLocate, RelocatePreload, RelocateWrite, AddFind, AddWrite, SaveLoad,
           GetUser, GetMyReadList, MyInfo, GetUsers, QueryFails, Answer
      <3> QED  BY <3>1 DEF AuthTypeOK, CallReady
    <2>2. call'[c].req = call[c].req /\ call[c].req.cmd = "get-user"
      BY <2>1, RequestStands DEF Hands
    <2>3. \A status \in Statuses : Reply(c, status) => status = "ok"
      BY <1>1, EndedType DEF Reply, Hands
    <2>4. ~ Answer(c)
      BY <1>1 DEF Answer, Ended, Hands, CallRecord
    <2>5. GetUser(c) /\ ~ Reply(c, "not-found")
      <3>1. ~ QueryFails(c) /\ ~ SaveLoad(c)
        BY <1>1, <2>3 DEF QueryFails, SaveLoad, Hands, CallRecord, Statuses
      <3> QED  BY <1>4, <2>2, <2>3, <2>4, <3>1
                  DEF Step, Running, RegisterFind, RegisterLocate, RegisterInsert, Login,
                      RelocateLocate, RelocatePreload, RelocateWrite, AddFind, AddWrite,
                      GetUser, GetMyReadList, MyInfo, GetUsers, Statuses
    <2>6. call[c].req.user \in DOMAIN users /\ Found(c, call[c].req.user)
      BY <2>5 DEF GetUser
    <2>7. call'[c].entity = EntityOf(call[c].req.user)
      BY <1>1, <2>6 DEF Found, CallRecord
    <2> QED  BY <2>1, <2>2, <2>6, <2>7
  <1>5. CASE Crash(c)
    BY <1>1, <1>5 DEF Crash, Ended, Hands, CallRecord
  <1>6. CASE \E r \in AllCommands : Deliver(c, r)
    BY <1>1, <1>6 DEF Deliver, Hands, CallRecord
  <1> QED  BY <1>2, <1>3, <1>4, <1>5, <1>6 DEF CallsMove, CallMove

-----------------------------------------------------------------------------
(* How a step changes the record of one task.                              *)

Points == {"idle", "start", "asked", "load-book", "load-author", "write", "answer", "done"}

LEMMA ClearedType ==
  ASSUME NEW r \in TaskRecord, NEW point \in Points, NEW status \in Statuses \cup {None}
  PROVE  /\ Cleared(r, point, status) \in TaskRecord
         /\ Cleared(r, point, status).req = r.req
         /\ Cleared(r, point, status).pc = point
         /\ Cleared(r, point, status).reply = status
  BY DEF Cleared, Unsent, TaskRecord, Points

(* A handler between its saves holds nothing that could be wrong.          *)
LEMMA BareTask ==
  ASSUME NEW t \in Tasks,
         task'[t].req \in AllBookCommands,
         task'[t].pc \in {"start", "answer", "done"}
  PROVE  TaskReady(t)' /\ HeldInv(t)'
  BY DEF TaskReady, HeldInv, Saves, SavesBook, At

LEMMA ConcludeTask ==
  ASSUME BooksTypeOK, NEW t \in Tasks, task[t].pc # "idle",
         NEW status \in Statuses \cup {None}, Conclude(t, status)
  PROVE  /\ task' \in [Tasks -> TaskRecord]
         /\ task'[t].req = task[t].req /\ task'[t].pc = "answer" /\ task'[t].reply = status
         /\ \A d \in Tasks \ {t} : task'[d] = task[d]
         /\ TaskReady(t)' /\ HeldInv(t)'
  <1>1. task[t] \in TaskRecord /\ task \in [Tasks -> TaskRecord] /\ task[t].req \in AllBookCommands
    BY DEF BooksTypeOK, TaskReady
  <1> DEFINE n == Cleared(task[t], "answer", status)
  <1>2. n \in TaskRecord /\ n.req = task[t].req /\ n.pc = "answer" /\ n.reply = status
    BY <1>1, ClearedType DEF Points
  <1>3. task' = [task EXCEPT ![t] = n]
    BY DEF Conclude
  <1> HIDE DEF n
  <1>4. /\ task' \in [Tasks -> TaskRecord] /\ task'[t] = n
        /\ \A d \in Tasks \ {t} : task'[d] = task[d]
    BY <1>1, <1>2, <1>3
  <1> QED  BY <1>1, <1>2, <1>4, BareTask

(* The command sent to the auth service is one of its commands.            *)
LEMMA AskTask ==
  ASSUME BooksTypeOK, NEW t \in Tasks, task[t].pc # "idle",
         NEW r \in AllCommands, Ask(t, r)
  PROVE  \E c \in Calls :
           /\ Deliver(c, r)
           /\ task' \in [Tasks -> TaskRecord]
           /\ task'[t].req = task[t].req /\ task'[t].pc = "asked" /\ task'[t].sub = c
           /\ call'[c].req = r /\ call'[c].pc # "idle"
           /\ \A d \in Tasks \ {t} : task'[d] = task[d]
  <1>1. task[t] \in TaskRecord /\ task \in [Tasks -> TaskRecord]
    BY DEF BooksTypeOK
  <1>2. PICK c \in Calls :
          /\ Deliver(c, r)
          /\ task' = [task EXCEPT ![t] = [Cleared(@, "asked", None) EXCEPT !.sub = c]]
    BY DEF Ask
  <1> DEFINE n == [Cleared(task[t], "asked", None) EXCEPT !.sub = c]
  <1>3. n \in TaskRecord /\ n.req = task[t].req /\ n.pc = "asked" /\ n.sub = c
    BY <1>1 DEF Cleared, Unsent, TaskRecord
  <1>4. task' = [task EXCEPT ![t] = n]
    BY <1>2
  <1> HIDE DEF n
  <1>5. call'[c].req = r /\ call'[c].pc # "idle"
    BY <1>2 DEF Deliver, BooksTypeOK, AuthTypeOK, CallRecord
  <1> QED  BY <1>1, <1>2, <1>3, <1>4, <1>5

-----------------------------------------------------------------------------
(* What a step of the books service does to the calls.                     *)

(* The commands the handlers send.                                         *)
LEMMA AskedCommands ==
  ASSUME BooksTypeOK, NEW t \in Tasks, task[t].pc # "idle"
  PROVE  /\ task[t].req.cmd = "createBook" =>
              [cmd |-> "get-user", user |-> task[t].req.user] \in AllCommands
         /\ task[t].req.cmd = "get-my-readlist" =>
              [cmd |-> "get-my-readlist", user |-> task[t].req.user] \in AllCommands
         /\ task[t].req.cmd = "readBook" =>
              [cmd |-> "add-to-my-readlist", user |-> task[t].req.user,
               book |-> task[t].req.book] \in AllCommands
  <1>1. task[t].req \in AllBookCommands
    BY DEF BooksTypeOK, TaskReady
  <1>2. /\ task[t].req.cmd \in {"createBook", "get-my-readlist", "readBook"} =>
             task[t].req.user \in UserIds
        /\ task[t].req.cmd = "readBook" => task[t].req.book \in BookIds
    BY <1>1, RequestType
  <1> QED  BY <1>2 DEF AllCommands, QueryCommands, AddCommands

LEMMA BooksNextMoves ==
  ASSUME BooksTypeOK, [BooksNext]_booksVars
  PROVE  CallsMove
  <1>1. ASSUME NEW t \in Tasks, TaskStep(t)  PROVE CallsMove
    <2>1. CASE CreateAsk(t)
      BY <2>1, AskedCommands DEF CreateAsk, Ask, At, CallsMove, CallMove
    <2>2. CASE ReadFind(t)
      BY <2>2, AskedCommands DEF ReadFind, Ask, At, CallsMove, CallMove
    <2>3. CASE ReadListAsk(t)
      BY <2>3, AskedCommands DEF ReadListAsk, Ask, At, CallsMove, CallMove
    <2>4. CASE CreateHear(t) \/ PassOn(t)
      <3>1. task[t].pc = "asked" /\ Answer(task[t].sub)
        BY <2>4 DEF CreateHear, PassOn, At
      <3> QED  BY <3>1 DEF BooksTypeOK, TaskReady, CallsMove, CallMove, Step
    <2>5. CASE UNCHANGED call
      BY <2>5 DEF CallsMove
    <2> QED  BY <1>1, <2>1, <2>2, <2>3, <2>4, <2>5
                DEF TaskStep, Query, LoadBook, LoadAuthor, CreateWrite, UpdateFind, UpdateWrite,
                    DeleteFind, DeleteWrite, TaskFails, Respond
  <1>2. ASSUME NEW c \in Calls, CallStep(c) \/ CallEnvironment(c)  PROVE CallsMove
    BY <1>2, AuthAssumption DEF CallStep, CallEnvironment, CallsMove, CallMove
  <1>3. CASE UNCHANGED call
    BY <1>3 DEF CallsMove
  <1> QED  BY <1>1, <1>2, <1>3 DEF BooksNext, Receive, Redeliver, booksVars

-----------------------------------------------------------------------------
(* What a step of the books service does to the tables.                    *)

(* The author object a save cascades to.                                   *)
LEMMA CascadeType ==
  ASSUME HoldingInv, NEW t \in Tasks, SavesBook(t), task[t].pc = "write",
         Cascade(task[t]), UNCHANGED nextUser, nextBook' \in Nat \ {0},
         DOMAIN books' \subseteq BookIds, books' \in [DOMAIN books' -> BookRow],
         UNCHANGED call
  PROVE  AuthTypeOK' /\ DOMAIN users' = DOMAIN users
  <1>1. /\ task[t].book.author \in UserIds
        /\ task[t].author \in Entity /\ task[t].storedAuthor \in Entity
    BY DEF HoldingInv, BooksTypeOK, TaskReady, HeldInv, Saves, SavesBook, BookRow
  <1>2. /\ DOMAIN users \subseteq UserIds /\ users \in [DOMAIN users -> UserRow]
        /\ reading \in [UserIds -> SUBSET BookIds]
    BY DEF HoldingInv, BooksTypeOK, AuthTypeOK, DatabaseTypeOK
  <1>3. DOMAIN users' = DOMAIN users /\ users' \in [DOMAIN users -> UserRow]
    BY <1>1, <1>2, MergedType DEF Cascade
  <1>4. reading' \in [UserIds -> SUBSET BookIds]
    BY <1>1, <1>2 DEF Cascade, Relinked, LinksAdded, LinksRemoved, Entity
  <1>5. DatabaseTypeOK'
    BY <1>2, <1>3, <1>4 DEF HoldingInv, BooksTypeOK, AuthTypeOK, DatabaseTypeOK
  <1> QED  BY <1>3, <1>5 DEF HoldingInv, BooksTypeOK, AuthTypeOK, CallReady

(* What a save writes beside its book passed the constraints.              *)
Cascaded(t, inserted) == Cascade(task[t]) /\ ~ CascadeRejected(task[t], inserted)

(* The books a step may write: a new one, ...                              *)
LEMMA CreateWriteBooks ==
  ASSUME HoldingInv, NEW t \in Tasks, CreateWrite(t)
  PROVE  \/ Conclude(t, "error") /\ UNCHANGED <<users, reading, books>>
         \/ /\ Cascaded(t, {nextBook}) /\ Conclude(t, "ok") /\ SavesBook(t)
            /\ nextBook \in BookIds /\ nextBook' = nextBook + 1 /\ nextBook \notin DOMAIN books
            /\ DOMAIN books' = DOMAIN books \cup {nextBook}
            /\ books'[nextBook] \in BookRow /\ books'[nextBook].author = task[t].req.user
            /\ \A b \in DOMAIN books : books'[b] = books[b]
            /\ books' \in [DOMAIN books' -> BookRow]
  <1>1. nextBook \in BookIds
    BY DatabaseAssumption
       DEF CreateWrite, HoldingInv, BooksTypeOK, AuthTypeOK, DatabaseTypeOK, BookIds
  <1>2. /\ SavesBook(t) /\ task[t].book \in BookRow
        /\ task[t].book.author = task[t].req.user
    <2>1. task[t].req \in AllBookCommands /\ task[t].req.cmd = "createBook"
            /\ task[t].pc = "write"
      BY DEF CreateWrite, At, HoldingInv, BooksTypeOK, TaskReady
    <2> QED  BY <2>1, RequestType DEF HoldingInv, BooksTypeOK, TaskReady, HeldInv, Saves, SavesBook
  <1>3. books \in [DOMAIN books -> BookRow]
    BY DEF HoldingInv, BooksTypeOK, AuthTypeOK, DatabaseTypeOK
  <1> QED  BY <1>1, <1>2, <1>3 DEF CreateWrite, WithRow, Cascaded

(* ... the one an update is for, which may change hands or come anew, ...  *)
LEMMA UpdateWriteBooks ==
  ASSUME HoldingInv, NEW t \in Tasks, UpdateWrite(t)
  PROVE  LET b == Target(task[t].req)
             a == AuthorOf(task[t].req)
         IN  \/ Conclude(t, "error") /\ UNCHANGED <<users, reading, books>>
             \/ /\ \E inserted \in SUBSET {b} : /\ Cascaded(t, inserted)
                                                /\ inserted \subseteq DOMAIN books'
                /\ Conclude(t, "ok") /\ SavesBook(t) /\ task[t].req.cmd = "updateBook"
                /\ b \in BookIds /\ DOMAIN books \subseteq DOMAIN books'
                /\ DOMAIN books' \subseteq DOMAIN books \cup {b}
                /\ \A d \in DOMAIN books \ {b} : books'[d] = books[d]
                /\ b \in DOMAIN books' =>
                     /\ a \in DOMAIN users
                     /\ \/ books'[b].author = a
                        \/ b \in DOMAIN books /\ books'[b].author = books[b].author
                /\ books' \in [DOMAIN books' -> BookRow]
  <1> DEFINE b == Target(task[t].req)
             a == AuthorOf(task[t].req)
             inserted == IF task[t].stored = None THEN {b} ELSE {}
  <1>1. b \in BookIds /\ SavesBook(t) /\ task[t].req.cmd = "updateBook"
    <2>1. task[t].req \in AllBookCommands /\ task[t].req.cmd = "updateBook" /\ task[t].pc = "write"
      BY DEF UpdateWrite, At, HoldingInv, BooksTypeOK, TaskReady
    <2> QED  BY <2>1, RequestType DEF Saves, SavesBook
  <1>2. /\ task[t].book \in BookRow /\ task[t].book.author = a
        /\ task[t].stored \in BookRow \cup {None}
    BY <1>1 DEF HoldingInv, BooksTypeOK, TaskReady, TaskRecord, HeldInv, Saves, SavesBook
  <1>3. books \in [DOMAIN books -> BookRow]
    BY DEF HoldingInv, BooksTypeOK, AuthTypeOK, DatabaseTypeOK
  <1> SUFFICES ASSUME ~ (Conclude(t, "error") /\ UNCHANGED <<users, reading, books>>)
               PROVE  /\ \E i \in SUBSET {b} : Cascaded(t, i) /\ i \subseteq DOMAIN books'
                      /\ Conclude(t, "ok") /\ DOMAIN books \subseteq DOMAIN books'
                      /\ DOMAIN books' \subseteq DOMAIN books \cup {b}
                      /\ \A d \in DOMAIN books \ {b} : books'[d] = books[d]
                      /\ b \in DOMAIN books' =>
                           /\ a \in DOMAIN users
                           /\ \/ books'[b].author = a
                              \/ b \in DOMAIN books /\ books'[b].author = books[b].author
                      /\ books' \in [DOMAIN books' -> BookRow]
    BY <1>1
  <1>4. /\ SaveBook(b, task[t]) /\ Conclude(t, "ok") /\ Cascaded(t, inserted)
        /\ inserted \cap DOMAIN books = {}
    BY DEF UpdateWrite, Cascaded
  <1>5. task[t].stored = None \/ b \in DOMAIN books => a \in DOMAIN users
    BY <1>2, <1>4 DEF Cascaded, CascadeRejected
  <1>6. CASE task[t].stored = None
    <2>1. books' = WithRow(books, b, task[t].book) /\ b \notin DOMAIN books
      BY <1>4, <1>6 DEF SaveBook
    <2>2. /\ DOMAIN books' = DOMAIN books \cup {b} /\ books'[b] = task[t].book
          /\ \A d \in DOMAIN books \ {b} : books'[d] = books[d]
          /\ books' \in [DOMAIN books' -> BookRow]
      BY <1>2, <1>3, <2>1 DEF WithRow
    <2>3. \E i \in SUBSET {b} : Cascaded(t, i) /\ i \subseteq DOMAIN books'
      <3>1. inserted = {b} /\ inserted \subseteq DOMAIN books'
        BY <1>6, <2>2
      <3> HIDE DEF inserted
      <3> QED  BY <1>4, <3>1
    <2>4. books'[b].author = a /\ a \in DOMAIN users
      BY <1>2, <1>5, <1>6, <2>2
    <2> HIDE DEF a, b, inserted
    <2> QED  BY <1>4, <2>2, <2>3, <2>4
  <1>7. CASE task[t].stored # None
    <2>1. \A row \in BookRow :
            /\ Rewritten(row, task[t].book, task[t].stored) \in BookRow
            /\ Rewritten(row, task[t].book, task[t].stored).author \in {row.author, a}
      BY <1>2, <1>7 DEF Rewritten, BookRow
    <2>2. books' = [d \in DOMAIN books |->
                      IF d = b THEN Rewritten(books[b], task[t].book, task[t].stored) ELSE books[d]]
      BY <1>4, <1>7 DEF SaveBook
    <2>3. DOMAIN books' = DOMAIN books
            /\ \A d \in DOMAIN books \ {b} : books'[d] = books[d]
      BY <2>2
    <2>4. \A d \in DOMAIN books : books'[d] \in BookRow
      BY <1>3, <2>1, <2>2
    <2>5. b \in DOMAIN books => books'[b].author \in {books[b].author, a}
      BY <1>3, <2>1, <2>2
    <2>6. \E i \in SUBSET {b} : Cascaded(t, i) /\ i \subseteq DOMAIN books'
      <3>1. inserted = {}
        BY <1>7
      <3> HIDE DEF inserted
      <3> QED  BY <1>4, <3>1
    <2>7. books' \in [DOMAIN books' -> BookRow]
      BY <2>2, <2>3, <2>4
    <2> QED  BY <1>4, <1>5, <2>3, <2>5, <2>6, <2>7
  <1> QED  BY <1>6, <1>7

(* ... or those a delete drops.                                            *)
LEMMA DeleteWriteBooks ==
  ASSUME HoldingInv, NEW t \in Tasks, DeleteWrite(t)
  PROVE  /\ AuthTypeOK' /\ users' = users
         /\ \E dropped \in Dropped(task[t].req.book) :
              /\ DOMAIN books' = DOMAIN books \ dropped
              /\ \A b \in DOMAIN books' : books'[b] = books[b]
              /\ \A u \in UserIds : reading'[u] = reading[u] \ dropped
  <1>1. PICK dropped \in Dropped(task[t].req.book) :
          books' = WithoutRows(books, dropped) /\ reading' = [u \in UserIds |-> reading[u] \ dropped]
    BY DEF DeleteWrite, BooksDropped
  <1>2. DatabaseTypeOK'
    BY <1>1 DEF DeleteWrite, WithoutRows, HoldingInv, BooksTypeOK, AuthTypeOK, DatabaseTypeOK
  <1>3. AuthTypeOK'
    BY <1>2 DEF DeleteWrite, HoldingInv, BooksTypeOK, AuthTypeOK, CallReady
  <1> QED  BY <1>1, <1>3 DEF DeleteWrite, WithoutRows

LEMMA TablesStep ==
  ASSUME HoldingInv, [BooksNext]_booksVars
  PROVE  AuthTypeOK' /\ DOMAIN users \subseteq DOMAIN users' /\ AuthorsExist'
  <1>1. CASE UNCHANGED <<tables, call>>
    BY <1>1 DEF tables, HoldingInv, BooksTypeOK, AuthTypeOK, DatabaseTypeOK, CallReady, AuthorsExist
  <1>2. ASSUME NEW c \in Calls, CallMove(c)
        PROVE  AuthTypeOK' /\ DOMAIN users \subseteq DOMAIN users' /\ AuthorsExist'
    BY <1>2, CallMoveType DEF HoldingInv, BooksTypeOK, AuthorsExist
  <1>3. ASSUME NEW t \in Tasks, TaskStep(t)
        PROVE  AuthTypeOK' /\ DOMAIN users \subseteq DOMAIN users' /\ AuthorsExist'
    <2>1. CASE CreateWrite(t)
      <3>1. CASE UNCHANGED <<users, reading, books>>
        <4>1. nextBook' \in Nat \ {0}
          BY <2>1 DEF CreateWrite, HoldingInv, BooksTypeOK, AuthTypeOK, DatabaseTypeOK
        <4> QED  BY <2>1, <3>1, <4>1 DEF CreateWrite, HoldingInv, BooksTypeOK, AuthTypeOK,
                                         DatabaseTypeOK, CallReady, AuthorsExist
      <3>2. CASE ~ UNCHANGED <<users, reading, books>>
        <4>1. /\ Cascade(task[t]) /\ SavesBook(t)
              /\ nextBook \in BookIds /\ nextBook' = nextBook + 1
              /\ DOMAIN books' = DOMAIN books \cup {nextBook}
              /\ books'[nextBook].author = task[t].req.user
              /\ \A b \in DOMAIN books : books'[b] = books[b]
              /\ books' \in [DOMAIN books' -> BookRow]
          BY <2>1, <3>2, CreateWriteBooks DEF Cascaded
        <4>2. task[t].req.user \in DOMAIN users
          BY <4>1 DEF HoldingInv, HeldInv
        <4>3. DOMAIN books \subseteq BookIds /\ nextBook' \in Nat \ {0}
          BY <4>1 DEF HoldingInv, BooksTypeOK, AuthTypeOK, DatabaseTypeOK
        <4>4. AuthTypeOK' /\ DOMAIN users' = DOMAIN users
          BY <2>1, <4>1, <4>3, CascadeType DEF CreateWrite, At
        <4> QED  BY <4>1, <4>2, <4>4 DEF HoldingInv, AuthorsExist
      <3> QED  BY <3>1, <3>2
    <2>2. CASE UpdateWrite(t)
      <3>1. CASE UNCHANGED <<users, reading, books>>
        BY <1>1, <2>2, <3>1 DEF UpdateWrite, tables
      <3>2. CASE ~ UNCHANGED <<users, reading, books>>
        <4> PICK b, a : b = Target(task[t].req) /\ a = AuthorOf(task[t].req)
          OBVIOUS
        <4>1. /\ Cascade(task[t]) /\ SavesBook(t) /\ b \in BookIds
              /\ DOMAIN books' \subseteq DOMAIN books \cup {b}
              /\ \A d \in DOMAIN books \ {b} : books'[d] = books[d]
              /\ b \in DOMAIN books' =>
                   /\ a \in DOMAIN users
                   /\ \/ books'[b].author = a
                      \/ b \in DOMAIN books /\ books'[b].author = books[b].author
              /\ books' \in [DOMAIN books' -> BookRow]
          BY <2>2, <3>2, UpdateWriteBooks DEF Cascaded
        <4>2. DOMAIN books \subseteq BookIds /\ nextBook' \in Nat \ {0}
          BY <2>2 DEF UpdateWrite, HoldingInv, BooksTypeOK, AuthTypeOK, DatabaseTypeOK
        <4>3. AuthTypeOK' /\ DOMAIN users' = DOMAIN users
          BY <2>2, <4>1, <4>2, CascadeType DEF UpdateWrite, At
        <4>4. AuthorsExist'
          BY <4>1, <4>3 DEF HoldingInv, AuthorsExist
        <4> QED  BY <4>3, <4>4
      <3> QED  BY <3>1, <3>2
    <2>3. CASE DeleteWrite(t)
      BY <2>3, DeleteWriteBooks DEF HoldingInv, AuthorsExist
    <2>4. CASE CreateAsk(t) \/ ReadListAsk(t) \/ ReadFind(t)
      <3>1. task[t].pc # "idle"
        BY <2>4 DEF CreateAsk, ReadListAsk, ReadFind, At
      <3>2. UNCHANGED <<tables, call>> \/ \E c \in Calls : CallMove(c)
        BY <2>4, <3>1, AskedCommands
           DEF HoldingInv, CreateAsk, ReadListAsk, ReadFind, At, Ask, CallMove, Deliver
      <3> QED  BY <1>1, <1>2, <3>2
    <2>5. CASE CreateHear(t) \/ PassOn(t)
      <3>1. task[t].sub \in Calls /\ CallMove(task[t].sub)
        BY <2>5 DEF CreateHear, PassOn, At, HoldingInv, BooksTypeOK, TaskReady, CallMove, Step
      <3> QED  BY <1>2, <3>1
    <2> QED  BY <1>1, <1>3, <2>1, <2>2, <2>3, <2>4, <2>5
                DEF TaskStep, Query, LoadBook, LoadAuthor, UpdateFind, DeleteFind, TaskFails, Respond
  <1>4. ASSUME NEW c \in Calls, CallStep(c) \/ CallEnvironment(c)  PROVE CallMove(c)
    BY <1>4, AuthAssumption DEF CallStep, CallEnvironment, CallMove
  <1>5. UNCHANGED booksVars => UNCHANGED <<tables, call>>
    BY DEF booksVars, tables
  <1> QED  BY <1>1, <1>2, <1>3, <1>4, <1>5 DEF BooksNext, Receive, Redeliver

-----------------------------------------------------------------------------
(* What the handlers of the books service hold.                            *)

(* A task that does not move keeps what it holds: its member has an        *)
(* account for good, its question to the auth service keeps its command.   *)
LEMMA RestingTask ==
  ASSUME HoldingInv, CallsMove, DOMAIN users \subseteq DOMAIN users',
         NEW t \in Tasks, task'[t] = task[t]
  PROVE  TaskReady(t)' /\ HeldInv(t)'
  <1>1. TaskReady(t) /\ HeldInv(t)
    BY DEF HoldingInv, BooksTypeOK
  <1>2. TaskReady(t)'
    BY <1>1 DEF TaskReady
  <1>3. At(t, "createBook", "asked") =>
          /\ call'[task[t].sub].pc # "idle"
          /\ call'[task[t].sub].req = [cmd |-> "get-user", user |-> task[t].req.user]
    <2> SUFFICES ASSUME At(t, "createBook", "asked")
                 PROVE  /\ call'[task[t].sub].pc # "idle"
                        /\ call'[task[t].sub].req = [cmd |-> "get-user", user |-> task[t].req.user]
      OBVIOUS
    <2>1. /\ task[t].sub \in Calls /\ call[task[t].sub].pc # "idle"
          /\ call[task[t].sub].req = [cmd |-> "get-user", user |-> task[t].req.user]
      BY <1>1 DEF At, TaskReady, HeldInv
    <2> QED  BY <2>1, RequestStands DEF HoldingInv, BooksTypeOK
  <1> QED  BY <1>1, <1>2, <1>3 DEF HeldInv, Saves, SavesBook, At

(* The author that a save loads.                                           *)
StoredAuthor(r) ==
  IF AuthorOf(r) \in DOMAIN users THEN EntityOf(AuthorOf(r)) ELSE Unfound(r.author)

LEMMA StoredAuthorType ==
  ASSUME HoldingInv, NEW t \in Tasks, SavesBook(t)
  PROVE  /\ StoredAuthor(task[t].req) \in Entity
         /\ ~ AuthorSent(task[t].req) =>
              task[t].req.user \in DOMAIN users /\ StoredAuthor(task[t].req) = EntityOf(task[t].req.user)
  <1>1. task[t].req \in AllBookCommands /\ task[t].req.user \in DOMAIN users
    BY DEF HoldingInv, BooksTypeOK, TaskReady, HeldInv, Saves, SavesBook
  <1>2. ~ AuthorSent(task[t].req) => AuthorOf(task[t].req) = task[t].req.user
    BY <1>1, RequestType
  <1>3. AuthorOf(task[t].req) \notin DOMAIN users => task[t].req.author \in AuthorObjects
    BY <1>1, <1>2, RequestType
  <1> QED  BY <1>1, <1>2, <1>3, EntityOfType, UnfoundType
              DEF StoredAuthor, HoldingInv, BooksTypeOK, AuthTypeOK

(* How a handler comes to save: it already did, it loads the author and    *)
(* lays over it what was sent, it found the book to be its member's, or it *)
(* was handed its member.                                                  *)
SavingStep(t) ==
  /\ task[t].pc # "idle"
  /\ \/ /\ Saves(t) /\ task'[t].author = task[t].author
        /\ task'[t].pc = "write" =>
             task[t].pc = "write" /\ task'[t].storedAuthor = task[t].storedAuthor
     \/ /\ SavesBook(t) /\ UNCHANGED <<tables, call>>
        /\ task'[t].storedAuthor = StoredAuthor(task[t].req)
        /\ task'[t].author = IF AuthorSent(task[t].req)
                             THEN Overlaid(StoredAuthor(task[t].req), task[t].req.author)
                             ELSE task[t].author
     \/ /\ task[t].req.cmd \in {"updateBook", "deleteBook"}
        /\ Owned(t) /\ UNCHANGED <<tables, call>>
        /\ task[t].req.cmd = "updateBook" =>
             /\ task'[t].pc # "write" /\ task[t].req.user \in DOMAIN users
             /\ task'[t].author = EntityOf(task[t].req.user)
     \/ /\ task[t].req.cmd = "createBook" /\ task'[t].pc # "write"
        /\ task[t].sub \in Calls /\ Hands(task[t].sub)
        /\ call[task[t].sub].req.user = task[t].req.user
        /\ task'[t].author = call[task[t].sub].entity
        /\ UNCHANGED tables

(* The steps that only read: of a save, ...                                *)
LEMMA LoadHolds ==
  ASSUME HoldingInv, NEW t \in Tasks, LoadBook(t) \/ LoadAuthor(t)
  PROVE  /\ task' \in [Tasks -> TaskRecord]
         /\ task'[t].req = task[t].req
         /\ \A d \in Tasks \ {t} : task'[d] = task[d]
         /\ TaskReady(t)' /\ HeldInv(t)'
         /\ Saves(t)' => SavingStep(t)
  <1>1. /\ task[t] \in TaskRecord /\ task \in [Tasks -> TaskRecord]
        /\ TaskReady(t) /\ HeldInv(t) /\ SavesBook(t) /\ users' = users
        /\ task[t].req \in AllBookCommands /\ task[t].pc \in {"load-book", "load-author"}
        /\ UNCHANGED <<tables, call>>
    BY DEF HoldingInv, BooksTypeOK, TaskReady, HeldInv, LoadBook, LoadAuthor, Saves, SavesBook, tables
  <1>2. CASE LoadBook(t)
    <2> DEFINE b == Target(task[t].req)
               v == IF b \in DOMAIN books THEN books[b] ELSE None
               n == [task[t] EXCEPT !.pc = "load-author", !.stored = v]
    <2>1. v \in BookRow \cup {None}
      BY DEF HoldingInv, BooksTypeOK, AuthTypeOK, DatabaseTypeOK
    <2>2. task' = [task EXCEPT ![t] = n]
      BY <1>2 DEF LoadBook
    <2> HIDE DEF v
    <2>3. n \in TaskRecord /\ n.req = task[t].req /\ n.pc = "load-author"
            /\ n.book = task[t].book /\ n.author = task[t].author
      BY <1>1, <2>1 DEF TaskRecord
    <2> HIDE DEF n
    <2>4. task' \in [Tasks -> TaskRecord] /\ task'[t] = n /\ \A d \in Tasks \ {t} : task'[d] = task[d]
      BY <1>1, <2>2, <2>3
    <2> QED  BY <1>1, <2>3, <2>4 DEF SavingStep, TaskReady, HeldInv, Saves, SavesBook, At
  <1>3. CASE LoadAuthor(t)
    <2> DEFINE e == StoredAuthor(task[t].req)
               a == IF AuthorSent(task[t].req) THEN Overlaid(e, task[t].req.author)
                    ELSE task[t].author
               n == [task[t] EXCEPT !.pc = "write", !.storedAuthor = e, !.author = a]
    <2>1. e \in Entity
      BY <1>1, StoredAuthorType
    <2>2. a \in Entity
      BY <1>1, <2>1, OverlaidType, RequestType DEF TaskReady, Saves, SavesBook
    <2>3. task' = [task EXCEPT ![t] = n]
      BY <1>3 DEF LoadAuthor, StoredAuthor
    <2>4. a = IF AuthorSent(task[t].req) THEN Overlaid(e, task[t].req.author) ELSE task[t].author
      OBVIOUS
    <2> HIDE DEF e, a
    <2>5. n \in TaskRecord /\ n.req = task[t].req /\ n.pc = "write" /\ n.storedAuthor = e
            /\ n.book = task[t].book /\ n.author = a
      BY <1>1, <2>1, <2>2 DEF TaskRecord
    <2> HIDE DEF n
    <2>6. task' \in [Tasks -> TaskRecord] /\ task'[t] = n /\ \A d \in Tasks \ {t} : task'[d] = task[d]
      BY <1>1, <2>3, <2>5
    <2>7. TaskReady(t)' /\ HeldInv(t)'
      BY <1>1, <2>1, <2>2, <2>5, <2>6 DEF TaskReady, HeldInv, Saves, SavesBook, At
    <2>8. SavingStep(t)
      BY <1>1, <2>4, <2>5, <2>6 DEF SavingStep, e
    <2> QED  BY <2>5, <2>6, <2>7, <2>8
  <1> QED  BY <1>2, <1>3

(* ... of the check with which updateBook and deleteBook begin, ...        *)
LEMMA FindHolds ==
  ASSUME HoldingInv, NEW t \in Tasks, UpdateFind(t) \/ DeleteFind(t)
  PROVE  /\ task' \in [Tasks -> TaskRecord]
         /\ task'[t].req = task[t].req
         /\ \A d \in Tasks \ {t} : task'[d] = task[d]
         /\ TaskReady(t)' /\ HeldInv(t)'
         /\ Saves(t)' => SavingStep(t)
  <1>1. /\ task[t] \in TaskRecord /\ task \in [Tasks -> TaskRecord]
        /\ task[t].req \in AllBookCommands /\ task[t].pc = "start"
        /\ users' = users /\ UNCHANGED <<tables, call>>
    BY DEF HoldingInv, BooksTypeOK, TaskReady, UpdateFind, DeleteFind, At, tables
  <1>2. CASE Conclude(t, "not-found") \/ Conclude(t, "unauthorized")
    BY <1>1, <1>2, ConcludeTask DEF HoldingInv, Statuses, Saves
  <1>3. CASE UpdateFind(t) /\ Owned(t) /\ ~ (Conclude(t, "not-found") \/ Conclude(t, "unauthorized"))
    <2> DEFINE b == task[t].req.book
               v == Assigned(books[b], task[t].req)
               e == EntityOf(books[b].author)
               n == [task[t] EXCEPT !.pc = "load-book", !.book = v, !.author = e]
    <2>1. task[t].req \in UpdateCommands /\ task[t].req.cmd = "updateBook" /\ b # None
      BY <1>1, <1>3, RequestType DEF UpdateFind, At
    <2>2. b \in DOMAIN books /\ books[b].author = task[t].req.user /\ books[b] \in BookRow
            /\ books[b].author \in DOMAIN users
      BY <1>3, <2>1
         DEF Owned, Missing, Sought, HoldingInv, AuthorsExist, BooksTypeOK, AuthTypeOK, DatabaseTypeOK
    <2>3. v \in BookRow /\ v.author = AuthorOf(task[t].req)
      <3> PICK row \in BookRow : row = books[b]
        BY <2>2
      <3> DEFINE r == task[t].req
                 author == IF AuthorSent(r) THEN r.author.id ELSE row.author
                 title == IF r.title = None THEN row.title ELSE r.title
                 description == IF r.description = None THEN row.description ELSE r.description
      <3>1. title \in Texts /\ description \in Texts
        BY <2>1 DEF UpdateCommands, BookRow
      <3>2. author \in UserIds /\ author = AuthorOf(r)
        BY <1>1, <2>1, <2>2, RequestType DEF BookRow, AuthorOf
      <3>3. v = [row EXCEPT !.author = author, !.title = title, !.description = description]
        BY DEF Assigned
      <3> HIDE DEF author, title, description
      <3> QED  BY <3>1, <3>2, <3>3 DEF BookRow
    <2>4. e \in Entity
      BY <2>2, EntityOfType DEF HoldingInv, BooksTypeOK, AuthTypeOK
    <2>5. task' = [task EXCEPT ![t] = n]
      BY <1>3 DEF UpdateFind
    <2>6. e = EntityOf(task[t].req.user)
      BY <2>2
    <2> HIDE DEF v, e
    <2>7. n \in TaskRecord /\ n.req = task[t].req /\ n.pc = "load-book"
            /\ n.book = v /\ n.author = e
      BY <1>1, <2>3, <2>4 DEF TaskRecord
    <2> HIDE DEF n
    <2>8. task' \in [Tasks -> TaskRecord] /\ task'[t] = n /\ \A d \in Tasks \ {t} : task'[d] = task[d]
      BY <1>1, <2>5, <2>7
    <2>9. TaskReady(t)' /\ HeldInv(t)'
      BY <1>1, <2>1, <2>2, <2>3, <2>4, <2>7, <2>8 DEF TaskReady, HeldInv, Saves, SavesBook, At
    <2>10. SavingStep(t)
      BY <1>1, <1>3, <2>1, <2>2, <2>6, <2>7, <2>8 DEF SavingStep
    <2> QED  BY <2>7, <2>8, <2>9, <2>10
  <1>4. CASE DeleteFind(t) /\ Owned(t) /\ task' = [task EXCEPT ![t].pc = "write"]
    <2> DEFINE n == [task[t] EXCEPT !.pc = "write"]
    <2>1. n \in TaskRecord /\ n.req = task[t].req /\ n.pc = "write"
      BY <1>1 DEF TaskRecord
    <2>2. task' = [task EXCEPT ![t] = n]
      BY <1>4
    <2> HIDE DEF n
    <2>3. task' \in [Tasks -> TaskRecord] /\ task'[t] = n /\ \A d \in Tasks \ {t} : task'[d] = task[d]
      BY <1>1, <2>1, <2>2
    <2> QED  BY <1>1, <1>4, <2>1, <2>3 DEF DeleteFind, SavingStep, TaskReady, HeldInv, Saves, SavesBook, At
  <1> QED  BY <1>2, <1>3, <1>4 DEF UpdateFind, DeleteFind

(* ... and of createBook, which hears of its member from the auth service. *)
LEMMA HearHolds ==
  ASSUME HoldingInv, NEW t \in Tasks, CreateHear(t)
  PROVE  /\ task' \in [Tasks -> TaskRecord]
         /\ task'[t].req = task[t].req
         /\ \A d \in Tasks \ {t} : task'[d] = task[d]
         /\ TaskReady(t)' /\ HeldInv(t)'
         /\ Saves(t)' => SavingStep(t)
  <1> DEFINE c == task[t].sub
  <1>1. /\ task[t] \in TaskRecord /\ task \in [Tasks -> TaskRecord]
        /\ task[t].req \in AllBookCommands /\ task[t].pc = "asked"
        /\ task[t].req.cmd = "createBook" /\ c \in Calls
        /\ call[c].req = [cmd |-> "get-user", user |-> task[t].req.user]
        /\ call[c].pc = "answer" /\ users' = users /\ UNCHANGED tables
    BY DEF HoldingInv, BooksTypeOK, TaskReady, HeldInv, CreateHear, At, Answer, tables
  <1>2. CASE Conclude(t, "error")
    BY <1>1, <1>2, ConcludeTask DEF HoldingInv, Statuses, Saves
  <1>3. CASE call[c].reply = "ok"
    <2>1. task[t].req \in CreateCommands /\ AuthorOf(task[t].req) = task[t].req.user
      BY <1>1, RequestType
    <2>2. Hands(c) /\ task[t].req.user \in DOMAIN users /\ call[c].entity \in Entity
      BY <1>1, <1>3 DEF Hands, HoldingInv, HandedInv
    <2> DEFINE v == [author |-> task[t].req.user, title |-> task[t].req.title,
                     description |-> task[t].req.description]
               n == [task[t] EXCEPT !.pc = "load-author", !.sub = None,
                                    !.author = call[c].entity, !.book = v]
    <2>3. v \in BookRow /\ v.author = task[t].req.user
      BY <2>1 DEF CreateCommands, BookRow
    <2>4. task' = [task EXCEPT ![t] = n]
      BY <1>3 DEF CreateHear
    <2> HIDE DEF v
    <2>5. n \in TaskRecord /\ n.req = task[t].req /\ n.pc = "load-author"
            /\ n.book = v /\ n.author = call[c].entity
      BY <1>1, <2>2, <2>3 DEF TaskRecord
    <2> HIDE DEF n
    <2>6. task' \in [Tasks -> TaskRecord] /\ task'[t] = n /\ \A d \in Tasks \ {t} : task'[d] = task[d]
      BY <1>1, <2>4, <2>5
    <2>7. TaskReady(t)' /\ HeldInv(t)'
      BY <1>1, <2>1, <2>2, <2>3, <2>5, <2>6 DEF TaskReady, HeldInv, Saves, SavesBook, At
    <2>8. SavingStep(t)
      BY <1>1, <2>2, <2>5, <2>6 DEF SavingStep
    <2> QED  BY <2>5, <2>6, <2>7, <2>8
  <1> QED  BY <1>2, <1>3 DEF CreateHear

LEMMA TaskStepHolds ==
  ASSUME HoldingInv, NEW t \in Tasks, TaskStep(t)
  PROVE  /\ task' \in [Tasks -> TaskRecord]
         /\ task'[t].req = task[t].req /\ task[t].pc # "idle"
         /\ \A d \in Tasks \ {t} : task'[d] = task[d]
         /\ TaskReady(t)' /\ HeldInv(t)'
         /\ Saves(t)' => SavingStep(t)
         /\ restarts' = restarts
  <1>1. /\ task[t].pc # "idle" /\ restarts' = restarts
        /\ task[t] \in TaskRecord /\ task \in [Tasks -> TaskRecord]
        /\ task[t].req \in AllBookCommands
    <2>1. task[t].pc # "idle" /\ restarts' = restarts
      BY DEF TaskStep, Query, LoadBook, LoadAuthor, CreateAsk, CreateHear, CreateWrite, UpdateFind,
             UpdateWrite, DeleteFind, DeleteWrite, ReadFind, ReadListAsk, PassOn, TaskFails,
             Respond, At
    <2> QED  BY <2>1 DEF HoldingInv, BooksTypeOK, TaskReady
  <1>2. ASSUME NEW status \in Statuses \cup {None}, Conclude(t, status)
        PROVE  /\ task' \in [Tasks -> TaskRecord]
               /\ task'[t].req = task[t].req
               /\ \A d \in Tasks \ {t} : task'[d] = task[d]
               /\ TaskReady(t)' /\ HeldInv(t)'
               /\ ~ Saves(t)'
    BY <1>1, <1>2, ConcludeTask DEF HoldingInv, Saves
  <1>3. ASSUME NEW r \in AllCommands, Ask(t, r),
               task[t].req.cmd = "createBook" => r = [cmd |-> "get-user", user |-> task[t].req.user]
        PROVE  /\ task' \in [Tasks -> TaskRecord]
               /\ task'[t].req = task[t].req
               /\ \A d \in Tasks \ {t} : task'[d] = task[d]
               /\ TaskReady(t)' /\ HeldInv(t)'
               /\ ~ Saves(t)'
    BY <1>1, <1>3, AskTask DEF HoldingInv, TaskReady, HeldInv, Saves, SavesBook, At
  <1>4. CASE Query(t) \/ CreateWrite(t) \/ UpdateWrite(t) \/ DeleteWrite(t) \/ TaskFails(t)
    BY <1>1, <1>2, <1>4 DEF Query, CreateWrite, UpdateWrite, DeleteWrite, TaskFails, Statuses
  <1>5. CASE CreateAsk(t) \/ ReadListAsk(t)
    BY <1>1, <1>3, <1>5, AskedCommands DEF HoldingInv, CreateAsk, ReadListAsk, At
  <1>6. CASE ReadFind(t)
    <2>1. CASE Conclude(t, "not-found") \/ Conclude(t, "bad-request")
      BY <1>1, <1>2, <2>1 DEF Statuses
    <2>2. CASE Ask(t, [cmd |-> "add-to-my-readlist", user |-> task[t].req.user,
                       book |-> task[t].req.book])
      BY <1>1, <1>3, <1>6, <2>2, AskedCommands DEF HoldingInv, ReadFind, At
    <2> QED  BY <1>6, <2>1, <2>2 DEF ReadFind
  <1>7. CASE PassOn(t)
    <2>1. task[t].sub \in Calls /\ call[task[t].sub].reply \in Statuses \cup {None}
      BY <1>7 DEF PassOn, At, HoldingInv, BooksTypeOK, TaskReady, AuthTypeOK, CallRecord
    <2> QED  BY <1>1, <1>2, <1>7, <2>1 DEF PassOn
  <1>8. CASE Respond(t)
    <2> DEFINE v == IF task[t].sent = None THEN task[t].reply ELSE task[t].sent
               n == [Cleared(task[t], "done", task[t].reply) EXCEPT !.sent = v]
    <2>1. v \in Statuses \cup {None}
      BY <1>1 DEF TaskRecord
    <2>3. task' = [task EXCEPT ![t] = n]
      BY <1>8 DEF Respond
    <2> HIDE DEF v
    <2>4. n \in TaskRecord /\ n.req = task[t].req /\ n.pc = "done"
      BY <1>1, <2>1 DEF Cleared, Unsent, TaskRecord
    <2> HIDE DEF n
    <2>5. task' \in [Tasks -> TaskRecord] /\ task'[t] = n /\ \A d \in Tasks \ {t} : task'[d] = task[d]
      BY <1>1, <2>3, <2>4
    <2> QED  BY <1>1, <2>4, <2>5, BareTask DEF Saves
  <1>9. CASE LoadBook(t) \/ LoadAuthor(t)
    BY <1>1, <1>9, LoadHolds
  <1>10. CASE UpdateFind(t) \/ DeleteFind(t)
    BY <1>1, <1>10, FindHolds
  <1>11. CASE CreateHear(t)
    BY <1>1, <1>11, HearHolds
  <1> QED  BY <1>4, <1>5, <1>6, <1>7, <1>8, <1>9, <1>10, <1>11 DEF TaskStep

(* The tasks after any step.                                               *)
LEMMA TasksStep ==
  ASSUME HoldingInv, [BooksNext]_booksVars
  PROVE  /\ task' \in [Tasks -> TaskRecord] /\ restarts' \in 0 .. MaxRestarts
         /\ \A t \in Tasks : /\ TaskReady(t)' /\ HeldInv(t)'
                             /\ task[t].pc # "idle" => task'[t].req = task[t].req
                             /\ Saves(t)' => SavingStep(t)
  <1>1. /\ task \in [Tasks -> TaskRecord] /\ restarts \in 0 .. MaxRestarts
        /\ \A t \in Tasks : task[t] \in TaskRecord /\ TaskReady(t)
    BY DEF HoldingInv, BooksTypeOK
  <1>2. CallsMove /\ DOMAIN users \subseteq DOMAIN users'
    BY BooksNextMoves, TablesStep DEF HoldingInv
  <1>3. ASSUME NEW t \in Tasks, task'[t] = task[t]
        PROVE  TaskReady(t)' /\ HeldInv(t)' /\ (Saves(t)' => SavingStep(t))
    BY <1>2, <1>3, RestingTask DEF Saves, SavingStep
  <1>4. CASE UNCHANGED <<task, restarts>>
    BY <1>1, <1>3, <1>4
  <1>5. ASSUME NEW t \in Tasks, TaskStep(t)
        PROVE  /\ task' \in [Tasks -> TaskRecord] /\ restarts' = restarts
               /\ \A d \in Tasks : /\ TaskReady(d)' /\ HeldInv(d)'
                                   /\ task[d].pc # "idle" => task'[d].req = task[d].req
                                   /\ Saves(d)' => SavingStep(d)
    BY <1>3, <1>5, TaskStepHolds
  <1>6. ASSUME NEW t \in Tasks, NEW r \in BookCommands, Receive(t, r)
        PROVE  /\ task' \in [Tasks -> TaskRecord] /\ restarts' = restarts
               /\ \A d \in Tasks : /\ TaskReady(d)' /\ HeldInv(d)'
                                   /\ task[d].pc # "idle" => task'[d].req = task[d].req
                                   /\ Saves(d)' => SavingStep(d)
    <2> DEFINE n == [task[t] EXCEPT !.req = r, !.pc = "start"]
    <2> r \in AllBookCommands /\ task[t] \in TaskRecord
      BY <1>1, BooksAssumption
    <2>1. n \in TaskRecord /\ n.req \in AllBookCommands /\ n.pc = "start"
      BY DEF TaskRecord
    <2>2. task' = [task EXCEPT ![t] = n] /\ restarts' = restarts /\ task[t].pc = "idle"
      BY <1>6 DEF Receive
    <2> HIDE DEF n
    <2>3. task' \in [Tasks -> TaskRecord] /\ task'[t] = n /\ \A d \in Tasks \ {t} : task'[d] = task[d]
      BY <1>1, <2>1, <2>2
    <2>4. TaskReady(t)' /\ HeldInv(t)' /\ ~ Saves(t)'
      BY <2>1, <2>3, BareTask DEF Saves
    <2> QED  BY <1>3, <2>2, <2>3, <2>4
  <1>7. ASSUME NEW S \in SUBSET Tasks, Redeliver(S)
        PROVE  /\ task' \in [Tasks -> TaskRecord] /\ restarts' \in 0 .. MaxRestarts
               /\ \A d \in Tasks : /\ TaskReady(d)' /\ HeldInv(d)'
                                   /\ task[d].pc # "idle" => task'[d].req = task[d].req
                                   /\ Saves(d)' => SavingStep(d)
    <2>1. restarts' \in 0 .. MaxRestarts
      BY <1>1, <1>7, BooksAssumption DEF Redeliver
    <2>2. \A d \in Tasks \ S : task'[d] = task[d]
      BY <1>7 DEF Redeliver
    <2>3. ASSUME NEW d \in S
          PROVE  /\ task'[d] \in TaskRecord /\ task'[d].req = task[d].req
                 /\ TaskReady(d)' /\ HeldInv(d)' /\ ~ Saves(d)'
      <3>1. task'[d] = Cleared(task[d], "start", None) /\ task[d].pc # "idle"
        BY <1>7 DEF Redeliver
      <3>2. task'[d] \in TaskRecord /\ task'[d].req = task[d].req /\ task'[d].pc = "start"
        BY <1>1, <3>1, ClearedType DEF Points
      <3>3. task'[d].req \in AllBookCommands
        BY <1>1, <3>1, <3>2 DEF TaskReady
      <3> QED  BY <3>2, <3>3, BareTask DEF Saves
    <2>4. task' \in [Tasks -> TaskRecord]
      BY <1>1, <1>7, <2>2, <2>3 DEF Redeliver
    <2> QED  BY <1>3, <2>1, <2>2, <2>3, <2>4
  <1> QED  BY <1>1, <1>4, <1>5, <1>6, <1>7
              DEF BooksNext, CallStep, CallEnvironment, booksVars

LEMMA HoldingInit == BooksInit => HoldingInv
  <1> SUFFICES ASSUME BooksInit  PROVE HoldingInv
    OBVIOUS
  <1>1. AuthTypeOK
    BY InitType DEF BooksInit
  <1>2. AuthorsExist
    BY DatabaseAssumption DEF BooksInit, AuthInit, DatabaseInit, AuthorsExist
  <1>3. \A c \in Calls : HandedInv(c)
    BY DEF BooksInit, AuthInit, HandedInv, Hands, Idle
  <1>4. Unsent \in TaskRecord /\ Unsent.pc = "idle"
    BY DEF Unsent, TaskRecord
  <1>5. \A t \in Tasks : task[t] = Unsent /\ TaskReady(t) /\ HeldInv(t)
    BY <1>4 DEF BooksInit, TaskReady, HeldInv, Saves, SavesBook, At
  <1>6. restarts \in 0 .. MaxRestarts
    BY BooksAssumption DEF BooksInit
  <1> QED  BY <1>1, <1>2, <1>3, <1>4, <1>5, <1>6 DEF BooksInit, HoldingInv, BooksTypeOK

LEMMA HoldingStep ==
  ASSUME HoldingInv, [BooksNext]_booksVars
  PROVE  HoldingInv'
  <1>1. CallsMove /\ AuthTypeOK' /\ DOMAIN users \subseteq DOMAIN users' /\ AuthorsExist'
    BY BooksNextMoves, TablesStep DEF HoldingInv
  <1>2. ASSUME NEW c \in Calls  PROVE HandedInv(c)'
    <2> SUFFICES ASSUME Hands(c)'
                 PROVE  call'[c].req.user \in DOMAIN users' /\ call'[c].entity \in Entity
      BY DEF HandedInv
    <2>1. CASE Hands(c) /\ call'[c] = call[c]
      BY <1>1, <2>1 DEF HoldingInv, HandedInv
    <2>2. CASE /\ call'[c].req = call[c].req /\ call[c].req.user \in DOMAIN users
               /\ call'[c].entity = EntityOf(call[c].req.user)
      BY <1>1, <2>2, EntityOfType DEF HoldingInv, BooksTypeOK, AuthTypeOK
    <2> QED  BY <1>1, <2>1, <2>2, HandsStep DEF HoldingInv, BooksTypeOK
  <1>3. BooksTypeOK' /\ \A t \in Tasks : HeldInv(t)'
    BY <1>1, TasksStep DEF BooksTypeOK
  <1> QED  BY <1>1, <1>2, <1>3 DEF HoldingInv

LEMMA HoldingInvariant == BooksSpec => []HoldingInv
  BY HoldingInit, HoldingStep, PTL DEF BooksSpec

(* The tables and the variables of both services keep their types: every   *)
(* object a handler saves was loaded, and has an account to be saved to.   *)
THEOREM BooksTypeCorrect == BooksSpec => []BooksTypeOK
  BY HoldingInvariant, PTL DEF HoldingInv

-----------------------------------------------------------------------------
(* Emails.                                                                 *)

(* A save of an account's columns that the constraint lets through.        *)
LEMMA MergedUnique ==
  ASSUME AuthTypeOK, EmailsUnique, NEW u, NEW entity \in Entity, NEW base \in Entity,
         NEW dirty, "email" \notin dirty, ~ EmailRejected(u, entity, base),
         DOMAIN users' = DOMAIN users,
         \A v \in DOMAIN users :
           users'[v] = IF v = u THEN Merged(users[u], entity, base, dirty) ELSE users[v]
  PROVE  EmailsUnique'
  <1>1. ASSUME u \in DOMAIN users
        PROVE  \A v \in DOMAIN users \ {u} :
                 Merged(users[u], entity, base, dirty).email # users[v].email
    <2>1. users[u] \in UserRow
      BY <1>1 DEF AuthTypeOK, DatabaseTypeOK
    <2> DEFINE row == Merged(users[u], entity, base, dirty)
    <2>2. /\ row.email \in {users[u].email, entity.email}
          /\ entity.email = base.email => row.email = users[u].email
      BY <2>1, MergedType
    <2> HIDE DEF row
    <2>3. \A v \in DOMAIN users \ {u} : row.email # users[v].email
      BY <1>1, <2>2 DEF EmailRejected, EmailsUnique
    <2> QED  BY <2>3 DEF row
  <1> QED  BY <1>1 DEF EmailsUnique

LEMMA CallUnique ==
  ASSUME AuthTypeOK, EmailsUnique, NEW c \in Calls, CallMove(c)
  PROVE  EmailsUnique'
  <1>1. CASE RegisterInsert(c)
    <2>1. CASE users' = users
      BY <2>1 DEF EmailsUnique
    <2>2. CASE users' # users
      <3> PICK n : n = nextUser
        OBVIOUS
      <3>1. /\ DOMAIN users' = DOMAIN users \cup {n}
            /\ \A v \in DOMAIN users : users[v].email # users'[n].email
            /\ \A v \in DOMAIN users \ {n} : users'[v] = users[v]
        BY <1>1, <2>2, InsertStep
      <3> QED  BY <3>1 DEF EmailsUnique
    <2> QED  BY <2>1, <2>2
  <1>2. CASE (RelocateWrite(c) \/ AddWrite(c)) /\ users' # users
    <2> PICK u : u = call[c].req.user
      OBVIOUS
    <2>1. call[c].entity \in Entity /\ call[c].base \in Entity /\ u \in DOMAIN users
      BY <1>2 DEF RelocateWrite, AddWrite, Running, AuthTypeOK, CallReady
    <2>2. PICK dirty \in {{}, {"latitude", "longitude"}} :
            /\ ~ EmailRejected(u, call[c].entity, call[c].base)
            /\ users' = [users EXCEPT ![u] =
                           Merged(users[u], call[c].entity, call[c].base, dirty)]
      BY <1>2 DEF RelocateWrite, AddWrite
    <2>3. "email" \notin dirty
      OBVIOUS
    <2> QED  BY <2>1, <2>2, <2>3, MergedUnique DEF AuthTypeOK, DatabaseTypeOK
  <1>3. users' = users \/ RegisterInsert(c) \/ RelocateWrite(c) \/ AddWrite(c)
    BY DEF CallMove, Step, tables, RegisterFind, RegisterLocate, Login,
           RelocateLocate, RelocatePreload, AddFind, SaveLoad, GetUser, GetMyReadList,
           MyInfo, GetUsers, QueryFails, Answer, Crash, Deliver
  <1> QED  BY <1>1, <1>2, <1>3 DEF EmailsUnique

(* What a step does to the accounts.                                       *)
LEMMA UsersStep ==
  ASSUME HoldingInv, [BooksNext]_booksVars
  PROVE  \/ users' = users /\ nextUser' = nextUser
         \/ \E c \in Calls : CallMove(c)
         \/ \E t \in Tasks : /\ nextUser' = nextUser /\ SavesBook(t) /\ task[t].pc = "write"
                            /\ \E inserted : Cascaded(t, inserted)
  <1>1. ASSUME NEW t \in Tasks, CreateWrite(t) \/ UpdateWrite(t)
        PROVE  /\ nextUser' = nextUser /\ task[t].pc = "write"
               /\ \/ users' = users
                  \/ SavesBook(t) /\ \E inserted : Cascaded(t, inserted)
    <2>1. CASE CreateWrite(t)
      BY <2>1, CreateWriteBooks DEF CreateWrite, At
    <2>2. CASE UpdateWrite(t)
      <3>1. \/ users' = users
            \/ SavesBook(t) /\ \E inserted \in SUBSET {Target(task[t].req)} : Cascaded(t, inserted)
        BY <2>2, UpdateWriteBooks
      <3> QED  BY <2>2, <3>1 DEF UpdateWrite, At
    <2> QED  BY <1>1, <2>1, <2>2
  <1>2. ASSUME NEW t \in Tasks, CreateHear(t) \/ PassOn(t)  PROVE \E c \in Calls : CallMove(c)
    <2>1. task[t].sub \in Calls /\ CallMove(task[t].sub)
      BY <1>2 DEF CreateHear, PassOn, At, HoldingInv, BooksTypeOK, TaskReady, CallMove, Step
    <2> QED  BY <2>1
  <1>3. ASSUME NEW c \in Calls, CallStep(c) \/ CallEnvironment(c)  PROVE CallMove(c)
    BY <1>3, AuthAssumption DEF CallStep, CallEnvironment, CallMove
  <1>4. ASSUME NEW t \in Tasks, TaskStep(t)
        PROVE  \/ users' = users /\ nextUser' = nextUser
               \/ CreateWrite(t) \/ UpdateWrite(t) \/ CreateHear(t) \/ PassOn(t)
    <2>1. CASE Query(t) \/ LoadBook(t) \/ LoadAuthor(t) \/ UpdateFind(t) \/ TaskFails(t) \/ Respond(t)
      BY <2>1 DEF Query, LoadBook, LoadAuthor, UpdateFind, TaskFails, Respond, tables
    <2>2. CASE CreateAsk(t) \/ ReadListAsk(t) \/ ReadFind(t)
      BY <2>2 DEF CreateAsk, ReadListAsk, ReadFind, Ask, Deliver, tables
    <2>3. CASE DeleteFind(t) \/ DeleteWrite(t)
      BY <2>3 DEF DeleteFind, DeleteWrite, tables
    <2> QED  BY <1>4, <2>1, <2>2, <2>3 DEF TaskStep
  <1>5. CASE \E t \in Tasks : TaskStep(t)
    BY <1>1, <1>2, <1>4, <1>5
  <1>6. CASE \E t \in Tasks : \E r \in BookCommands : Receive(t, r)
    BY <1>6 DEF Receive, tables
  <1>7. CASE \E S \in SUBSET Tasks : Redeliver(S)
    BY <1>7 DEF Redeliver, tables
  <1>8. CASE UNCHANGED booksVars
    BY <1>8 DEF booksVars
  <1>9. CASE \E c \in Calls : CallStep(c) \/ CallEnvironment(c)
    BY <1>3, <1>9
  <1> QED  BY <1>5, <1>6, <1>7, <1>8, <1>9 DEF BooksNext

(* Whatever author objects come with updates, no two accounts ever share   *)
(* an email: the constraint decides every save of either service.          *)
THEOREM ClubUniqueEmails == BooksSpec => []EmailsUnique
  <1>1. BooksInit => EmailsUnique
    BY AccountInit DEF BooksInit, AccountInv
  <1>2. ASSUME HoldingInv, EmailsUnique, [BooksNext]_booksVars  PROVE EmailsUnique'
    <2>1. AuthTypeOK
      BY <1>2 DEF HoldingInv, BooksTypeOK
    <2>2. ASSUME NEW t \in Tasks, SavesBook(t), task[t].pc = "write",
                 NEW inserted, Cascaded(t, inserted)
          PROVE  EmailsUnique'
      <3> PICK u : u = task[t].book.author
        OBVIOUS
      <3>1. task[t].author \in Entity /\ task[t].storedAuthor \in Entity
        BY <1>2, <2>2 DEF HoldingInv, BooksTypeOK, TaskReady, HeldInv, SavesBook
      <3>2. /\ ~ EmailRejected(u, task[t].author, task[t].storedAuthor)
            /\ users' = [v \in DOMAIN users |->
                 IF v = u THEN Merged(users[v], task[t].author, task[t].storedAuthor, {})
                 ELSE users[v]]
        BY <2>2 DEF Cascaded, CascadeRejected, Cascade
      <3> QED  BY <1>2, <2>1, <3>1, <3>2, MergedUnique
    <2>3. users' = users => EmailsUnique'
      BY <1>2 DEF EmailsUnique
    <2> QED  BY <1>2, <2>1, <2>2, <2>3, UsersStep, CallUnique
  <1> QED  BY <1>1, <1>2, HoldingInvariant, PTL DEF BooksSpec

-----------------------------------------------------------------------------
(* Clients that keep to the DTOs.                                          *)

(* They did so before: a command stays what it was.                        *)
LEMMA DtosKeptBefore ==
  ASSUME HoldingInv, [BooksNext]_booksVars
  PROVE  DtosKept' => DtosKept
  <1>1. ASSUME NEW t \in Tasks, task[t].req # None  PROVE task'[t].req = task[t].req
    <2>1. task[t].pc # "idle"
      BY <1>1 DEF HoldingInv, BooksTypeOK, TaskReady, Unsent
    <2> QED  BY <2>1, TasksStep
  <1> QED  BY <1>1 DEF DtosKept, Asked

LEMMA KeptRequest ==
  ASSUME HoldingInv, DtosKept, NEW t \in Tasks, task[t].pc # "idle"
  PROVE  /\ ~ AuthorSent(task[t].req) /\ AuthorOf(task[t].req) = task[t].req.user
         /\ task[t].req.cmd \in {"updateBook", "deleteBook"} =>
              /\ Target(task[t].req) = task[t].req.book
              /\ task[t].req.book \in BookIds /\ task[t].req.book # None
              /\ Sought(task[t].req.book) = task[t].req.book
  <1>1. task[t].req \in AllBookCommands
    BY DEF HoldingInv, BooksTypeOK, TaskReady
  <1>2. task[t].req # None
    BY <1>1, RequestType
  <1>3. /\ task[t].req.cmd = "updateBook" =>
             task[t].req.id = None /\ task[t].req.author = None /\ task[t].req.book \in BookIds
        /\ task[t].req.cmd = "deleteBook" => task[t].req.book \in BookIds
        /\ None \notin BookIds
    BY <1>1, <1>2, RequestType, BooksAssumption DEF DtosKept, Asked
  <1> QED  BY <1>3 DEF AuthorSent, AuthorOf, Target, Sought

-----------------------------------------------------------------------------
(* Accounts: what the auth service keeps of them, it keeps although the    *)
(* books service saves user objects of its own, as long as those are the   *)
(* ones it read.                                                           *)

(* No user object in transit between the services, and none a handler of   *)
(* the books service saves with a book, has other credentials.             *)
HandedCredentials == \A c \in Calls : Hands(c) =>
  call[c].entity.password = None /\ call[c].entity.email = users[call[c].req.user].email
SavedCredentials == \A t \in Tasks : SavesBook(t) =>
  /\ task[t].author.password = None
  /\ task[t].author.email = users[task[t].req.user].email
  /\ task[t].pc = "write" => task[t].storedAuthor.email = users[task[t].req.user].email

KeptAccounts == AccountInv /\ HandedCredentials /\ SavedCredentials

LEMMA CascadeAccounts ==
  ASSUME HoldingInv, DtosKept, SavedCredentials,
         NEW t \in Tasks, SavesBook(t), task[t].pc = "write",
         Cascade(task[t]), UNCHANGED nextUser
  PROVE  CredentialsStay
  <1>1. /\ task[t].book.author = task[t].req.user
        /\ task[t].author \in Entity /\ task[t].storedAuthor \in Entity
        /\ users \in [DOMAIN users -> UserRow]
    BY KeptRequest
       DEF HoldingInv, BooksTypeOK, AuthTypeOK, DatabaseTypeOK, TaskReady, HeldInv, Saves, SavesBook
  <1>2. task[t].author.password = None /\ task[t].author.email = task[t].storedAuthor.email
    BY DEF SavedCredentials
  <1>3. \A u \in DOMAIN users :
          LET row == Merged(users[u], task[t].author, task[t].storedAuthor, {})
          IN  row.email = users[u].email /\ row.password = users[u].password
    BY <1>1, <1>2, MergedType
  <1> QED  BY <1>3 DEF Cascade, CredentialsStay

LEMMA BooksNextAccounts ==
  ASSUME HoldingInv, DtosKept, KeptAccounts, [BooksNext]_booksVars
  PROVE  AccountsMove
  <1>1. CallsMove /\ AuthTypeOK /\ HeldCredentials
    BY BooksNextMoves DEF HoldingInv, BooksTypeOK, KeptAccounts, AccountInv
  <1>2. CASE users' = users /\ nextUser' = nextUser
    BY <1>1, <1>2 DEF AccountsMove, CredentialsStay
  <1>3. ASSUME NEW c \in Calls, CallMove(c)  PROVE AccountsMove
    BY <1>1, <1>3, CredentialsKept DEF AccountsMove
  <1>4. ASSUME NEW t \in Tasks, nextUser' = nextUser, SavesBook(t), task[t].pc = "write",
               NEW inserted, Cascaded(t, inserted)
        PROVE  AccountsMove
    BY <1>1, <1>4, CascadeAccounts DEF AccountsMove, KeptAccounts, Cascaded
  <1> QED  BY <1>2, <1>3, <1>4, UsersStep

LEMMA KeptAccountsStep ==
  ASSUME HoldingInv, HoldingInv', DtosKept, KeptAccounts, [BooksNext]_booksVars
  PROVE  KeptAccounts'
  <1>1. AccountsMove /\ AccountInv' /\ AuthTypeOK
    BY BooksNextAccounts, AccountStep DEF KeptAccounts, HoldingInv, BooksTypeOK
  <1>2. \A u \in DOMAIN users : users'[u].email = users[u].email
    <2>1. nextUser \notin DOMAIN users
      BY DEF KeptAccounts, AccountInv, AuthTypeOK, DatabaseTypeOK
    <2> QED  BY <1>1, <2>1, InsertStep DEF AccountsMove, CredentialsStay
  <1>3. ASSUME NEW u \in DOMAIN users
        PROVE  EntityOf(u).password = None /\ EntityOf(u).email = users'[u].email
    BY <1>1, <1>2, EntityOfType DEF AuthTypeOK
  <1>4. HandedCredentials'
    <2> SUFFICES ASSUME NEW c \in Calls, Hands(c)'
                 PROVE  /\ call'[c].entity.password = None
                        /\ call'[c].entity.email = users'[call'[c].req.user].email
      BY DEF HandedCredentials
    <2>1. CASE Hands(c) /\ call'[c] = call[c]
      BY <1>2, <2>1 DEF KeptAccounts, HandedCredentials, HoldingInv, HandedInv
    <2>2. CASE /\ call'[c].req = call[c].req /\ call[c].req.user \in DOMAIN users
               /\ call'[c].entity = EntityOf(call[c].req.user)
      BY <1>3, <2>2
    <2> QED  BY <1>1, <2>1, <2>2, HandsStep DEF AccountsMove
  <1>5. SavedCredentials'
    <2> SUFFICES ASSUME NEW t \in Tasks, SavesBook(t)'
                 PROVE  /\ task'[t].author.password = None
                        /\ task'[t].author.email = users'[task'[t].req.user].email
                        /\ task'[t].pc = "write" =>
                             task'[t].storedAuthor.email = users'[task'[t].req.user].email
      BY DEF SavedCredentials
    <2>1. task'[t].req = task[t].req /\ SavingStep(t) /\ task[t].req.cmd # "deleteBook"
      <3>1. SavingStep(t) /\ (task[t].pc # "idle" => task'[t].req = task[t].req)
        BY TasksStep DEF SavesBook
      <3> QED  BY <3>1 DEF SavesBook, SavingStep
    <2>2. ~ AuthorSent(task[t].req)
      BY <2>1, KeptRequest DEF SavingStep
    <2>3. ASSUME Saves(t)
          PROVE  /\ task[t].req.user \in DOMAIN users
                 /\ task[t].author.password = None
                 /\ task[t].author.email = users'[task[t].req.user].email
                 /\ task[t].pc = "write" =>
                      task[t].storedAuthor.email = users'[task[t].req.user].email
      <3>1. task[t].req.user \in DOMAIN users
        BY <2>1, <2>3 DEF HoldingInv, HeldInv, SavesBook
      <3> QED  BY <1>2, <2>1, <2>3, <3>1 DEF KeptAccounts, SavedCredentials, SavesBook
    <2>4. CASE /\ Saves(t) /\ task'[t].author = task[t].author
               /\ task'[t].pc = "write" =>
                    task[t].pc = "write" /\ task'[t].storedAuthor = task[t].storedAuthor
      BY <2>1, <2>3, <2>4
    <2>5. CASE /\ SavesBook(t) /\ task'[t].author = task[t].author
               /\ task'[t].storedAuthor = StoredAuthor(task[t].req)
      <3>1. task'[t].storedAuthor = EntityOf(task[t].req.user)
        BY <2>2, <2>5, StoredAuthorType
      <3> QED  BY <1>3, <2>1, <2>3, <2>5, <3>1 DEF SavesBook
    <2>6. CASE /\ task'[t].pc # "write" /\ task[t].req.user \in DOMAIN users
               /\ task'[t].author = EntityOf(task[t].req.user)
      BY <1>3, <2>1, <2>6
    <2>7. CASE /\ task'[t].pc # "write"
               /\ task[t].sub \in Calls /\ Hands(task[t].sub)
               /\ call[task[t].sub].req.user = task[t].req.user
               /\ task'[t].author = call[task[t].sub].entity
      BY <1>2, <2>1, <2>7 DEF KeptAccounts, HandedCredentials, HoldingInv, HandedInv
    <2> QED  BY <2>1, <2>2, <2>4, <2>5, <2>6, <2>7 DEF SavingStep
  <1> QED  BY <1>1, <1>4, <1>5 DEF KeptAccounts

LEMMA KeptAccountsInvariant == BooksSpec => [](DtosKept => KeptAccounts)
  <1>1. BooksInit => KeptAccounts
    <2> SUFFICES ASSUME BooksInit  PROVE KeptAccounts
      OBVIOUS
    <2>1. HandedCredentials /\ SavedCredentials
      BY DEF BooksInit, AuthInit, Idle, Unsent, HandedCredentials, Hands, SavedCredentials,
             SavesBook, Saves
    <2> QED  BY <2>1, AccountInit DEF BooksInit, KeptAccounts
  <1>2. HoldingInv /\ HoldingInv' /\ (DtosKept => KeptAccounts) /\ [BooksNext]_booksVars =>
          (DtosKept => KeptAccounts)'
    BY DtosKeptBefore, KeptAccountsStep
  <1> QED  BY <1>1, <1>2, HoldingInvariant, PTL DEF BooksSpec

(* While clients keep to the DTOs, accounts and successful registrations   *)
(* correspond one to one, and an account keeps its credentials, though     *)
(* both services save accounts as whole objects.                           *)
THEOREM ClubRegistrationAllOrNothing == BooksSpec => [](DtosKept => AccountsAreRegistrations)
  BY KeptAccountsInvariant, PTL DEF KeptAccounts, AccountInv

(* While they do, no save of a book with its author opens an account to    *)
(* anyone who did not register it.                                         *)
THEOREM ClubNoTokenWithoutRegistration == BooksSpec => [](DtosKept => TokenNeedsRegistration)
  BY KeptAccountsInvariant, PTL DEF KeptAccounts, AccountInv

-----------------------------------------------------------------------------
(* Reading lists.                                                          *)

(* Is it accounted for that u reads b?                                     *)
SentRead(u, b) ==
  \E t \in Tasks : /\ Asked(t, "updateBook") /\ AuthorSent(task[t].req)
                  /\ task[t].req.author.id = u /\ "reading" \in task[t].req.author.keys
                  /\ b \in task[t].req.author.reading
Accounted(u, b) == ReadBy(u, b) \/ SentRead(u, b)

(* The user objects in transit between the services, those an add saves,   *)
(* and those the books service saves with a book, hold only books of which *)
(* that is so.                                                             *)
StaleReadsAccounted ==
  \A c \in Calls : call[c].pc \in {"load", "write"} /\ call[c].req \in AddCommands =>
    \A b \in call[c].entity.reading \ {call[c].req.book} : Accounted(call[c].req.user, b)
HandedReads == \A c \in Calls : Hands(c) =>
  \A b \in call[c].entity.reading : Accounted(call[c].req.user, b)
SavedReads == \A t \in Tasks :
  SavesBook(t) /\ (task[t].pc = "write" \/ ~ AuthorSent(task[t].req)) =>
    \A b \in task[t].author.reading : Accounted(AuthorOf(task[t].req), b)

ClubReadingInv ==
  /\ Undecided /\ StaleReadsAccounted
  /\ NoDanglingReading /\ ReadsAccountedFor
  /\ HandedReads /\ SavedReads

(* What the save of a book with its author does to the reading lists.      *)
LEMMA CascadeReading ==
  ASSUME HoldingInv, NEW t \in Tasks, SavesBook(t), NEW inserted, Cascaded(t, inserted),
         DOMAIN books \subseteq DOMAIN books', inserted \subseteq DOMAIN books'
  PROVE  \E a \in UserIds :
           /\ a = AuthorOf(task[t].req)
           /\ \A u \in UserIds \ {a} : reading'[u] = reading[u]
           /\ reading'[a] \subseteq reading[a] \cup (task[t].author.reading \cap DOMAIN books')
  <1> PICK a : a = AuthorOf(task[t].req)
    OBVIOUS
  <1> DEFINE e == task[t].author
             base == task[t].storedAuthor
  <1>1. task[t].book.author = a /\ a \in UserIds
    BY DEF HoldingInv, HeldInv, BooksTypeOK, TaskReady, SavesBook, Saves, BookRow
  <1>2. LinksAdded(e, base) \subseteq e.reading \cap DOMAIN books'
    <2>1. LinksAdded(e, base) \ inserted \subseteq DOMAIN books
      BY DEF Cascaded, CascadeRejected, LinksRejected
    <2>2. LinksAdded(e, base) \subseteq e.reading
      BY DEF LinksAdded
    <2> HIDE DEF e, base
    <2> QED  BY <2>1, <2>2
  <1>3. reading \in [UserIds -> SUBSET BookIds]
    BY DEF HoldingInv, BooksTypeOK, AuthTypeOK, DatabaseTypeOK
  <1>4. /\ \A v \in UserIds \ {a} : reading'[v] = reading[v]
        /\ reading'[a] = (reading[a] \cup LinksAdded(e, base)) \ LinksRemoved(e, base)
    BY <1>1, <1>3 DEF Cascaded, Cascade, Relinked
  <1> QED  BY <1>1, <1>2, <1>4

(* A reading list grows by a confirmed add, or by the save of a book with  *)
(* an author object; a book goes from the table and the lists at once.     *)
LEMMA ClubReadingStep ==
  ASSUME HoldingInv, [BooksNext]_booksVars
  PROVE  \/ /\ DOMAIN books \subseteq DOMAIN books'
            /\ \A u \in UserIds : reading'[u] = reading[u]
         \/ \E dropped : /\ DOMAIN books' = DOMAIN books \ dropped
                        /\ \A u \in UserIds : reading'[u] = reading[u] \ dropped
         \/ \E c \in Calls :
              /\ AddWrite(c) /\ DOMAIN books' = DOMAIN books
              /\ call'[c].reply = "ok" /\ call'[c].req = call[c].req
              /\ call[c].req \in AddCommands
              /\ \A u \in UserIds \ {call[c].req.user} : reading'[u] = reading[u]
              /\ reading'[call[c].req.user] \subseteq
                   reading[call[c].req.user] \cup (call[c].entity.reading \cap DOMAIN books)
         \/ \E t \in Tasks :
              /\ SavesBook(t) /\ task[t].pc = "write" /\ DOMAIN books \subseteq DOMAIN books'
              /\ \E a \in UserIds :
                   /\ a = AuthorOf(task[t].req)
                   /\ \A u \in UserIds \ {a} : reading'[u] = reading[u]
                   /\ reading'[a] \subseteq
                        reading[a] \cup (task[t].author.reading \cap DOMAIN books')
  <1>1. CASE UNCHANGED <<reading, books>>
    BY <1>1
  <1>2. ASSUME NEW c \in Calls, CallStep(c), ~ UNCHANGED <<reading, books>>
        PROVE  /\ AddWrite(c) /\ DOMAIN books' = DOMAIN books
               /\ call'[c].reply = "ok" /\ call'[c].req = call[c].req
               /\ call[c].req \in AddCommands
               /\ \A u \in UserIds \ {call[c].req.user} : reading'[u] = reading[u]
               /\ reading'[call[c].req.user] \subseteq
                    reading[call[c].req.user] \cup (call[c].entity.reading \cap DOMAIN books)
    <2>1. AddWrite(c) /\ reading' # reading
      BY <1>2
         DEF CallStep, Step, tables, RegisterFind, RegisterLocate, RegisterInsert, Login,
             RelocateLocate, RelocatePreload, RelocateWrite, AddFind, AddWrite, SaveLoad,
             GetUser, GetMyReadList, MyInfo, GetUsers, QueryFails, Answer
    <2> QED  BY <2>1, AddWriteReading DEF HoldingInv, BooksTypeOK
  <1>3. ASSUME NEW t \in Tasks, CreateWrite(t) \/ UpdateWrite(t), ~ UNCHANGED <<reading, books>>
        PROVE  /\ SavesBook(t) /\ task[t].pc = "write" /\ DOMAIN books \subseteq DOMAIN books'
               /\ \E a \in UserIds :
                    /\ a = AuthorOf(task[t].req)
                    /\ \A u \in UserIds \ {a} : reading'[u] = reading[u]
                    /\ reading'[a] \subseteq
                         reading[a] \cup (task[t].author.reading \cap DOMAIN books')
    <2>1. SavesBook(t) /\ DOMAIN books \subseteq DOMAIN books'
            /\ \E inserted : Cascaded(t, inserted) /\ inserted \subseteq DOMAIN books'
      <3>1. CASE CreateWrite(t)
        <4>1. /\ SavesBook(t) /\ Cascaded(t, {nextBook})
              /\ DOMAIN books' = DOMAIN books \cup {nextBook}
          BY <1>3, <3>1, CreateWriteBooks
        <4>2. {nextBook} \subseteq DOMAIN books'
          BY <4>1
        <4> QED  BY <4>1, <4>2
      <3>2. CASE UpdateWrite(t)
        <4> PICK b : b = Target(task[t].req)
          OBVIOUS
        <4>1. /\ SavesBook(t) /\ DOMAIN books \subseteq DOMAIN books'
              /\ \E inserted \in SUBSET {b} : Cascaded(t, inserted) /\ inserted \subseteq DOMAIN books'
          BY <1>3, <3>2, UpdateWriteBooks
        <4> QED  BY <4>1
      <3> QED  BY <1>3, <3>1, <3>2
    <2>2. task[t].pc = "write"
      BY <1>3 DEF CreateWrite, UpdateWrite, At
    <2> QED  BY <2>1, <2>2, CascadeReading
  <1>4. ASSUME NEW t \in Tasks, DeleteWrite(t)
        PROVE  \E dropped : /\ DOMAIN books' = DOMAIN books \ dropped
                           /\ \A u \in UserIds : reading'[u] = reading[u] \ dropped
    <2>1. \E dropped \in Dropped(task[t].req.book) :
            /\ DOMAIN books' = DOMAIN books \ dropped
            /\ \A b \in DOMAIN books' : books'[b] = books[b]
            /\ \A u \in UserIds : reading'[u] = reading[u] \ dropped
      BY <1>4, DeleteWriteBooks
    <2> QED  BY <2>1
  <1>5. \/ UNCHANGED <<reading, books>>
        \/ \E c \in Calls : CallStep(c)
        \/ \E t \in Tasks : CreateWrite(t) \/ UpdateWrite(t) \/ DeleteWrite(t)
    <2>1. ASSUME NEW t \in Tasks, TaskStep(t)
          PROVE  UNCHANGED <<reading, books>> \/ CreateWrite(t) \/ UpdateWrite(t) \/ DeleteWrite(t)
      BY <2>1 DEF TaskStep, tables, Query, LoadBook, LoadAuthor, CreateAsk, CreateHear, UpdateFind,
                  DeleteFind, ReadFind, ReadListAsk, PassOn, TaskFails, Respond, Ask, Answer, Deliver
    <2>2. ASSUME NEW c \in Calls, CallEnvironment(c)  PROVE UNCHANGED <<reading, books>>
      BY <2>2 DEF CallEnvironment, Crash, Deliver, tables
    <2> QED  BY <2>1, <2>2 DEF BooksNext, Receive, Redeliver, booksVars, tables
  <1> QED  BY <1>1, <1>2, <1>3, <1>4, <1>5

LEMMA ClubReadingInit == BooksInit => ClubReadingInv
  <1> SUFFICES ASSUME BooksInit  PROVE ClubReadingInv
    OBVIOUS
  <1>1. ReadingInv /\ \A u \in UserIds : reading[u] = FoundersReading[u]
    BY ReadingInit DEF BooksInit, AuthInit, DatabaseInit
  <1>2. HandedReads /\ SavedReads /\ StaleReadsAccounted
    BY DEF BooksInit, AuthInit, Idle, Unsent, HandedReads, Hands, SavedReads, SavesBook, Saves,
           StaleReadsAccounted
  <1>3. ReadsAccountedFor
    BY <1>1 DEF ReadsAccountedFor
  <1> QED  BY <1>1, <1>2, <1>3 DEF ReadingInv, ClubReadingInv

(* What is accounted for stays so.                                         *)
LEMMA AccountedStands ==
  ASSUME HoldingInv, Undecided, [BooksNext]_booksVars, NEW u, NEW b, Accounted(u, b)
  PROVE  Accounted(u, b)'
  <1>1. CASE ReadBy(u, b)
    BY <1>1, BooksNextMoves, ReadByStands DEF Accounted, HoldingInv, BooksTypeOK
  <1>2. CASE SentRead(u, b)
    <2>1. PICK t \in Tasks :
            /\ Asked(t, "updateBook") /\ AuthorSent(task[t].req)
            /\ task[t].req.author.id = u /\ "reading" \in task[t].req.author.keys
            /\ b \in task[t].req.author.reading
      BY <1>2 DEF SentRead
    <2>2. task[t].pc # "idle"
      BY <2>1 DEF Asked, HoldingInv, BooksTypeOK, TaskReady, Unsent
    <2>3. task'[t].req = task[t].req
      BY <2>2, TasksStep
    <2> QED  BY <2>1, <2>3 DEF Accounted, SentRead, Asked, AuthorSent
  <1> QED  BY <1>1, <1>2 DEF Accounted

(* So are the books of an author object that is loaded, and of one that    *)
(* was laid over it.                                                       *)
LEMMA LoadedAccounted ==
  ASSUME HoldingInv, ReadsAccountedFor, NEW t \in Tasks, SavesBook(t), AuthorSent(task[t].req)
  PROVE  \A b \in Overlaid(StoredAuthor(task[t].req), task[t].req.author).reading :
           Accounted(AuthorOf(task[t].req), b)
  <1> PICK a : a = AuthorOf(task[t].req)
    OBVIOUS
  <1>1. task[t].req \in AllBookCommands /\ task[t].req # None
    BY RequestType DEF HoldingInv, BooksTypeOK, TaskReady, Saves, SavesBook
  <1>2. /\ task[t].req.cmd = "updateBook" /\ a = task[t].req.author.id
        /\ task[t].req.author \in AuthorObjects /\ a \in UserIds
    BY <1>1, RequestType
  <1>3. \A b \in StoredAuthor(task[t].req).reading : Accounted(a, b)
    <2>1. CASE a \in DOMAIN users
      <3>1. StoredAuthor(task[t].req).reading = reading[a]
        BY <2>1, EntityOfType DEF StoredAuthor, HoldingInv, BooksTypeOK, AuthTypeOK
      <3> QED  BY <1>2, <3>1 DEF ReadsAccountedFor, Accounted, ReadBy, SentRead
    <2>2. CASE a \notin DOMAIN users
      BY <1>2, <2>2, UnfoundType DEF StoredAuthor
    <2> QED  BY <2>1, <2>2
  <1>4. Overlaid(StoredAuthor(task[t].req), task[t].req.author).reading =
          IF "reading" \in task[t].req.author.keys
          THEN task[t].req.author.reading ELSE StoredAuthor(task[t].req).reading
    BY DEF Overlaid
  <1>5. CASE "reading" \in task[t].req.author.keys
    BY <1>1, <1>2, <1>4, <1>5 DEF Accounted, SentRead, Asked
  <1>6. CASE "reading" \notin task[t].req.author.keys
    BY <1>3, <1>4, <1>6
  <1> QED  BY <1>5, <1>6

LEMMA ClubReadingInductive ==
  ASSUME HoldingInv, ClubReadingInv, [BooksNext]_booksVars
  PROVE  ClubReadingInv'
  <1>1. CallsMove /\ AuthTypeOK /\ Undecided'
    BY BooksNextMoves, UndecidedStep DEF HoldingInv, BooksTypeOK, ClubReadingInv
  <1>2. \A u, b : Accounted(u, b) => Accounted(u, b)'
    BY AccountedStands DEF ClubReadingInv
  <1>3. \A u \in UserIds : \A b \in reading[u] : Accounted(u, b)
    BY DEF ClubReadingInv, ReadsAccountedFor, Accounted, ReadBy, SentRead
  <1>4. \A u \in DOMAIN users :
          u \in UserIds /\ EntityOf(u).reading = reading[u]
    BY <1>1, EntityOfType DEF AuthTypeOK, DatabaseTypeOK
  <1>5. NoDanglingReading'
    BY ClubReadingStep DEF ClubReadingInv, NoDanglingReading
  <1>6. StaleReadsAccounted'
    <2> SUFFICES ASSUME NEW c \in Calls,
                        call'[c].pc \in {"load", "write"}, call'[c].req \in AddCommands,
                        NEW b \in call'[c].entity.reading \ {call'[c].req.book}
                 PROVE  \E u : u = call'[c].req.user /\ Accounted(u, b)'
      BY DEF StaleReadsAccounted
    <2>1. call'[c].req = call[c].req
      BY <1>1, StaleStep
    <2>2. CASE call[c].pc \in {"load", "write"} /\ call'[c].entity = call[c].entity
      BY <1>2, <2>1, <2>2 DEF ClubReadingInv, StaleReadsAccounted
    <2>3. CASE /\ call[c].req.user \in UserIds
               /\ call'[c].entity.reading = reading[call[c].req.user] \cup {call[c].req.book}
      BY <1>2, <1>3, <2>1, <2>3
    <2> QED  BY <1>1, <2>2, <2>3, StaleStep
  <1>7. HandedReads'
    <2> SUFFICES ASSUME NEW c \in Calls, Hands(c)', NEW b \in call'[c].entity.reading
                 PROVE  \E u : u = call'[c].req.user /\ Accounted(u, b)'
      BY DEF HandedReads
    <2>1. CASE Hands(c) /\ call'[c] = call[c]
      BY <1>2, <2>1 DEF ClubReadingInv, HandedReads
    <2>2. CASE /\ call'[c].req = call[c].req /\ call[c].req.user \in DOMAIN users
               /\ call'[c].entity = EntityOf(call[c].req.user)
      BY <1>2, <1>3, <1>4, <2>2
    <2> QED  BY <1>1, <2>1, <2>2, HandsStep
  <1>8. SavedReads'
    <2> SUFFICES ASSUME NEW t \in Tasks, SavesBook(t)',
                        task'[t].pc = "write" \/ ~ AuthorSent(task'[t].req),
                        NEW b \in task'[t].author.reading
                 PROVE  \E u : u = AuthorOf(task'[t].req) /\ Accounted(u, b)'
      BY DEF SavedReads, AuthorSent, AuthorOf
    <2>1. /\ task'[t].req = task[t].req /\ SavingStep(t) /\ task[t].req.cmd # "deleteBook"
          /\ task[t].req \in AllBookCommands
      <3>1. SavingStep(t) /\ (task[t].pc # "idle" => task'[t].req = task[t].req)
        BY TasksStep DEF SavesBook
      <3> QED  BY <3>1 DEF SavesBook, SavingStep, HoldingInv, BooksTypeOK, TaskReady
    <2>2. CASE /\ Saves(t) /\ task'[t].author = task[t].author
               /\ task'[t].pc = "write" => task[t].pc = "write"
      BY <1>2, <2>1, <2>2 DEF ClubReadingInv, SavedReads, SavesBook
    <2>3. CASE /\ SavesBook(t)
               /\ task'[t].author = IF AuthorSent(task[t].req)
                                    THEN Overlaid(StoredAuthor(task[t].req), task[t].req.author)
                                    ELSE task[t].author
      <3>1. CASE AuthorSent(task[t].req)
        <4>1. Accounted(AuthorOf(task[t].req), b)
          BY <2>3, <3>1, LoadedAccounted DEF ClubReadingInv
        <4> QED  BY <1>2, <2>1, <4>1
      <3>2. CASE ~ AuthorSent(task[t].req)
        <4>1. Accounted(AuthorOf(task[t].req), b)
          BY <2>3, <3>2 DEF ClubReadingInv, SavedReads
        <4> QED  BY <1>2, <2>1, <4>1
      <3> QED  BY <3>1, <3>2
    <2>4. CASE /\ task'[t].pc # "write" /\ task[t].req.user \in DOMAIN users
               /\ task'[t].author = EntityOf(task[t].req.user)
      <3>1. AuthorOf(task[t].req) = task[t].req.user
        BY <2>1, <2>4, RequestType
      <3> QED  BY <1>2, <1>3, <1>4, <2>1, <2>4, <3>1
    <2>5. CASE /\ task'[t].pc # "write" /\ task[t].sub \in Calls /\ Hands(task[t].sub)
               /\ call[task[t].sub].req.user = task[t].req.user
               /\ task'[t].author = call[task[t].sub].entity
      <3>1. AuthorOf(task[t].req) = task[t].req.user
        BY <2>1, <2>5, RequestType
      <3> QED  BY <1>2, <2>1, <2>5, <3>1 DEF ClubReadingInv, HandedReads
    <2> QED  BY <2>1, <2>2, <2>3, <2>4, <2>5 DEF SavingStep
  <1>9. ReadsAccountedFor'
    <2> SUFFICES ASSUME NEW u \in UserIds, NEW b \in reading'[u]  PROVE Accounted(u, b)'
      BY DEF ReadsAccountedFor, Accounted, ReadBy, SentRead, Asked, AuthorSent, Confirmed
    <2>1. CASE b \in reading[u]
      BY <1>2, <1>3, <2>1
    <2>2. ASSUME NEW c \in Calls, AddWrite(c), call'[c].reply = "ok", call'[c].req = call[c].req,
                 call[c].req \in AddCommands, u = call[c].req.user, b \in call[c].entity.reading
          PROVE  Accounted(u, b)'
      <3>1. CASE b = call[c].req.book
        BY <2>2, <3>1, AuthAssumption DEF Accounted, ReadBy, Confirmed, AddCommands, AllCommands
      <3>2. CASE b # call[c].req.book
        BY <1>2, <2>2, <3>2 DEF ClubReadingInv, StaleReadsAccounted, AddWrite, Running
      <3> QED  BY <3>1, <3>2
    <2>3. ASSUME NEW t \in Tasks, SavesBook(t), task[t].pc = "write",
                 u = AuthorOf(task[t].req), b \in task[t].author.reading
          PROVE  Accounted(u, b)'
      BY <1>2, <2>3 DEF ClubReadingInv, SavedReads
    <2> QED  BY <2>1, <2>2, <2>3, ClubReadingStep
  <1> QED  BY <1>1, <1>5, <1>6, <1>7, <1>8, <1>9 DEF ClubReadingInv

LEMMA ClubReadingInvariant == BooksSpec => []ClubReadingInv
  BY HoldingInvariant, ClubReadingInit, ClubReadingInductive, PTL DEF BooksSpec

(* No reading list refers to a deleted book, though the books service also *)
(* writes the lists, from user objects it was handed, read long before, or *)
(* sent by a client.                                                       *)
THEOREM ClubReadingRefersToBooks == BooksSpec => []NoDanglingReading
  BY ClubReadingInvariant, PTL DEF ClubReadingInv

(* Every book on a reading list was there at the start, came by a          *)
(* confirmed add, or was in an author object that a client put into an     *)
(* update: the stale user objects that both services save bring in none.   *)
THEOREM ClubReadsAreAccountedFor == BooksSpec => []ReadsAccountedFor
  BY ClubReadingInvariant, PTL DEF ClubReadingInv

-----------------------------------------------------------------------------
(* Where books come from.                                                  *)

(* The books of a step are those there were, a new one of the member who   *)
(* creates it, or one that an update gives an author.                      *)
LEMMA BooksStep ==
  ASSUME HoldingInv, [BooksNext]_booksVars
  PROVE  /\ nextBook' \in {nextBook, nextBook + 1}
         /\ \A b \in DOMAIN books' :
              \/ b \in DOMAIN books /\ books'[b].author = books[b].author
              \/ /\ b = nextBook /\ nextBook' = nextBook + 1
                 /\ \E t \in Tasks : /\ Asked(t, "createBook")
                                    /\ books'[b].author = task[t].req.user
              \/ \E t \in Tasks : /\ SavesBook(t) /\ task[t].req.cmd = "updateBook"
                                 /\ Target(task[t].req) = b
                                 /\ AuthorOf(task[t].req) = books'[b].author
  <1>1. CASE UNCHANGED <<books, nextBook>>
    BY <1>1
  <1>2. ASSUME NEW c \in Calls, CallStep(c) \/ CallEnvironment(c)
        PROVE  UNCHANGED <<books, nextBook>>
    <2>1. CallMove(c)
      BY <1>2, AuthAssumption DEF CallStep, CallEnvironment, CallMove
    <2> QED  BY <2>1, CallMoveType DEF HoldingInv, BooksTypeOK
  <1>3. ASSUME NEW t \in Tasks, CreateWrite(t)
        PROVE  /\ nextBook' = nextBook + 1
               /\ \A b \in DOMAIN books' :
                    \/ b \in DOMAIN books /\ books'[b].author = books[b].author
                    \/ /\ b = nextBook /\ Asked(t, "createBook")
                       /\ books'[b].author = task[t].req.user
    <2>1. nextBook' = nextBook + 1 /\ Asked(t, "createBook")
      BY <1>3, RequestType DEF CreateWrite, At, Asked, HoldingInv, BooksTypeOK, TaskReady
    <2>2. CASE UNCHANGED books
      BY <2>1, <2>2
    <2>3. CASE ~ UNCHANGED books
      <3>1. /\ DOMAIN books' = DOMAIN books \cup {nextBook}
            /\ books'[nextBook].author = task[t].req.user
            /\ \A b \in DOMAIN books : books'[b] = books[b]
        BY <1>3, <2>3, CreateWriteBooks
      <3> QED  BY <2>1, <3>1
    <2> QED  BY <2>2, <2>3
  <1>4. ASSUME NEW t \in Tasks, UpdateWrite(t)
        PROVE  /\ nextBook' = nextBook
               /\ \A b \in DOMAIN books' :
                    \/ b \in DOMAIN books /\ books'[b].author = books[b].author
                    \/ /\ SavesBook(t) /\ task[t].req.cmd = "updateBook"
                       /\ Target(task[t].req) = b /\ AuthorOf(task[t].req) = books'[b].author
    <2> PICK d, a : d = Target(task[t].req) /\ a = AuthorOf(task[t].req)
      OBVIOUS
    <2>1. CASE UNCHANGED books
      BY <1>4, <2>1 DEF UpdateWrite
    <2>2. CASE ~ UNCHANGED books
      <3>1. /\ SavesBook(t) /\ task[t].req.cmd = "updateBook"
            /\ DOMAIN books' \subseteq DOMAIN books \cup {d}
            /\ \A b \in DOMAIN books \ {d} : books'[b] = books[b]
            /\ d \in DOMAIN books' => \/ books'[d].author = a
                                      \/ d \in DOMAIN books /\ books'[d].author = books[d].author
        BY <1>4, <2>2, UpdateWriteBooks
      <3> QED  BY <1>4, <3>1 DEF UpdateWrite
    <2> QED  BY <2>1, <2>2
  <1>5. ASSUME NEW t \in Tasks, DeleteWrite(t)
        PROVE  nextBook' = nextBook /\ \A b \in DOMAIN books' : b \in DOMAIN books /\ books'[b] = books[b]
    <2>1. \E dropped \in Dropped(task[t].req.book) :
            /\ DOMAIN books' = DOMAIN books \ dropped
            /\ \A b \in DOMAIN books' : books'[b] = books[b]
            /\ \A u \in UserIds : reading'[u] = reading[u] \ dropped
      BY <1>5, DeleteWriteBooks
    <2> QED  BY <1>5, <2>1 DEF DeleteWrite
  <1>6. ASSUME NEW t \in Tasks, TaskStep(t)
        PROVE  UNCHANGED <<books, nextBook>> \/ CreateWrite(t) \/ UpdateWrite(t) \/ DeleteWrite(t)
    BY <1>6 DEF TaskStep, tables, Query, LoadBook, LoadAuthor, CreateAsk, CreateHear, UpdateFind,
                DeleteFind, ReadFind, ReadListAsk, PassOn, TaskFails, Respond, Ask, Answer, Deliver
  <1>7. \/ UNCHANGED <<books, nextBook>>
        \/ \E c \in Calls : CallStep(c) \/ CallEnvironment(c)
        \/ \E t \in Tasks : CreateWrite(t) \/ UpdateWrite(t) \/ DeleteWrite(t)
    BY <1>6 DEF BooksNext, Receive, Redeliver, booksVars, tables
  <1>8. CASE \E t \in Tasks : CreateWrite(t)
    BY <1>3, <1>8
  <1>9. CASE \E t \in Tasks : UpdateWrite(t)
    BY <1>4, <1>9
  <1>10. CASE \E t \in Tasks : DeleteWrite(t)
    BY <1>5, <1>10
  <1> QED  BY <1>1, <1>2, <1>7, <1>8, <1>9, <1>10

(* May book b be a's, and may there be a book with that id at all?         *)
Names(t, b, a) ==
  /\ Asked(t, "updateBook") /\ (task[t].req.id # None \/ AuthorSent(task[t].req))
  /\ Target(task[t].req) = b /\ AuthorOf(task[t].req) = a
Entitled(b, a) ==
  \/ b \in DOMAIN Library /\ a = Library[b].author
  \/ b \notin DOMAIN Library /\ \E t \in Tasks : Asked(t, "createBook") /\ task[t].req.user = a
  \/ \E t \in Tasks : Names(t, b, a)
Known(b) ==
  \/ b \in DOMAIN Library
  \/ FirstBook <= b /\ b < nextBook
  \/ \E t \in Tasks : Asked(t, "updateBook") /\ task[t].req.id = b

(* So it is with the books there are, and with those that an update whose  *)
(* handler has passed the check will write.                                *)
OriginInv ==
  /\ FirstBook <= nextBook
  /\ \A b \in DOMAIN books : Known(b) /\ Entitled(b, books[b].author)
  /\ \A t \in Tasks : SavesBook(t) /\ task[t].req.cmd = "updateBook" =>
       Known(Target(task[t].req)) /\ Entitled(Target(task[t].req), AuthorOf(task[t].req))

LEMMA AskedStands ==
  ASSUME HoldingInv, [BooksNext]_booksVars, NEW t \in Tasks, task[t].req # None
  PROVE  task'[t].req = task[t].req
  <1>1. task[t].pc # "idle"
    BY DEF HoldingInv, BooksTypeOK, TaskReady, Unsent
  <1> QED  BY <1>1, TasksStep

LEMMA OriginStands ==
  ASSUME HoldingInv, [BooksNext]_booksVars, NEW b
  PROVE  /\ b \in BookIds /\ Known(b) => Known(b)'
         /\ \A a : Entitled(b, a) => Entitled(b, a)'
  <1>1. \A t \in Tasks : task[t].req # None => task'[t].req = task[t].req
    BY AskedStands
  <1>2. nextBook \in Nat /\ nextBook' \in {nextBook, nextBook + 1}
    BY BooksStep DEF HoldingInv, BooksTypeOK, AuthTypeOK, DatabaseTypeOK
  <1>3. ASSUME b \in BookIds, Known(b)  PROVE Known(b)'
    <2>1. CASE FirstBook <= b /\ b < nextBook
      BY <1>2, <1>3, <2>1 DEF Known, BookIds
    <2> QED  BY <1>1, <1>3, <2>1 DEF Known, Asked
  <1>4. ASSUME NEW a, Entitled(b, a)  PROVE Entitled(b, a)'
    <2>1. CASE \E t \in Tasks : Names(t, b, a)
      BY <1>1, <2>1 DEF Names, Entitled, Asked, AuthorSent, Target, AuthorOf
    <2> QED  BY <1>1, <1>4, <2>1 DEF Entitled, Asked
  <1> QED  BY <1>3, <1>4

LEMMA OriginInit == BooksInit => OriginInv
  <1> SUFFICES ASSUME BooksInit  PROVE OriginInv
    OBVIOUS
  <1>1. books = Library /\ nextBook = FirstBook /\ \A t \in Tasks : ~ SavesBook(t)
    BY DEF BooksInit, AuthInit, DatabaseInit, SavesBook, Saves, Unsent
  <1> QED  BY <1>1, DatabaseAssumption DEF OriginInv, Known, Entitled

LEMMA OriginStep ==
  ASSUME HoldingInv, OriginInv, [BooksNext]_booksVars
  PROVE  OriginInv'
  <1>1. /\ nextBook' \in {nextBook, nextBook + 1} /\ nextBook \in Nat
        /\ FirstBook \in Nat /\ FirstBook <= nextBook
    BY BooksStep, DatabaseAssumption
       DEF HoldingInv, BooksTypeOK, AuthTypeOK, DatabaseTypeOK, OriginInv
  <1>2. ASSUME NEW b \in DOMAIN books'
        PROVE  Known(b)' /\ \E a : a = books'[b].author /\ Entitled(b, a)'
    <2>1. CASE b \in DOMAIN books /\ books'[b].author = books[b].author
      <3>1. b \in BookIds /\ Known(b) /\ Entitled(b, books[b].author)
        BY <2>1 DEF OriginInv, HoldingInv, BooksTypeOK, AuthTypeOK, DatabaseTypeOK
      <3> QED  BY <2>1, <3>1, OriginStands
    <2>2. ASSUME b = nextBook, nextBook' = nextBook + 1,
                 NEW t \in Tasks, Asked(t, "createBook"), books'[b].author = task[t].req.user
          PROVE  Known(b)' /\ \E a : a = books'[b].author /\ Entitled(b, a)'
      <3>1. b \notin DOMAIN Library
        BY <1>1, <2>2, DatabaseAssumption DEF BookIds
      <3>2. Entitled(b, task[t].req.user)
        BY <2>2, <3>1 DEF Entitled
      <3>3. Known(b)'
        BY <1>1, <2>2 DEF Known
      <3> QED  BY <2>2, <3>2, <3>3, OriginStands
    <2>3. ASSUME NEW t \in Tasks, SavesBook(t), task[t].req.cmd = "updateBook",
                 Target(task[t].req) = b, AuthorOf(task[t].req) = books'[b].author
          PROVE  Known(b)' /\ \E a : a = books'[b].author /\ Entitled(b, a)'
      <3>1. b \in BookIds
        <4>1. task[t].req \in AllBookCommands
          BY <2>3 DEF HoldingInv, BooksTypeOK, TaskReady, SavesBook, Saves
        <4> QED  BY <2>3, <4>1, RequestType
      <3>2. Known(b) /\ Entitled(b, AuthorOf(task[t].req))
        BY <2>3 DEF OriginInv
      <3> QED  BY <2>3, <3>1, <3>2, OriginStands
    <2> QED  BY <2>1, <2>2, <2>3, BooksStep
  <1>3. ASSUME NEW t \in Tasks, SavesBook(t)', task'[t].req.cmd = "updateBook"
        PROVE  \E b, a : /\ b = Target(task'[t].req) /\ a = AuthorOf(task'[t].req)
                        /\ Known(b)' /\ Entitled(b, a)'
    <2>1. /\ task'[t].req = task[t].req /\ SavingStep(t)
          /\ task[t].req \in AllBookCommands /\ task[t].req # None
      <3>1. SavingStep(t) /\ (task[t].pc # "idle" => task'[t].req = task[t].req)
        BY <1>3, TasksStep DEF SavesBook
      <3> QED  BY <3>1, RequestType DEF SavingStep, HoldingInv, BooksTypeOK, TaskReady
    <2> PICK b, a : b = Target(task[t].req) /\ a = AuthorOf(task[t].req)
      OBVIOUS
    <2>2. b \in BookIds /\ task[t].req.book \in BookIds /\ task[t].req.book # None
      BY <1>3, <2>1, RequestType
    <2>3. Known(b) /\ Entitled(b, a)
      <3>1. CASE Saves(t)
        BY <1>3, <2>1, <3>1 DEF OriginInv, SavesBook
      <3>2. CASE Owned(t)
        <4>1. /\ task[t].req.book \in DOMAIN books
              /\ books[task[t].req.book].author = task[t].req.user
          BY <2>2, <3>2 DEF Owned, Missing, Sought
        <4>2. /\ Known(task[t].req.book)
              /\ Entitled(task[t].req.book, task[t].req.user)
          BY <4>1 DEF OriginInv
        <4>3. CASE task[t].req.id # None
          <5>1. b = task[t].req.id
            BY <1>3, <2>1, <4>3 DEF Target
          <5> QED  BY <1>3, <2>1, <4>3, <5>1 DEF Known, Entitled, Names, Asked
        <4>4. CASE task[t].req.id = None
          <5>1. b = task[t].req.book
            BY <4>4 DEF Target
          <5>2. ~ AuthorSent(task[t].req) => a = task[t].req.user
            BY DEF AuthorOf
          <5>3. AuthorSent(task[t].req) => Entitled(b, a)
            BY <1>3, <2>1 DEF Entitled, Names, Asked
          <5> QED  BY <4>2, <5>1, <5>2, <5>3
        <4> QED  BY <4>3, <4>4
      <3> QED  BY <1>3, <2>1, <3>1, <3>2 DEF SavingStep, SavesBook
    <2> QED  BY <2>1, <2>2, <2>3, OriginStands
  <1> QED  BY <1>1, <1>2, <1>3 DEF OriginInv

LEMMA OriginInvariant == BooksSpec => []OriginInv
  BY HoldingInvariant, OriginInit, OriginStep, PTL DEF BooksSpec

(* Whatever the interleavings, the redeliveries and the stale objects that *)
(* are saved, a book has the author the library gives it, the member who   *)
(* created it, or the one that some update of that id names.               *)
THEOREM BooksKeepTheirAuthors == BooksSpec => []BooksHaveTheirAuthors
  <1>1. OriginInv => BooksHaveTheirAuthors
    BY DEF OriginInv, Entitled, Names, BooksHaveTheirAuthors
  <1> QED  BY <1>1, OriginInvariant, PTL

-----------------------------------------------------------------------------
(* Authors, while clients keep to the DTOs.                                *)

(* Member a has a claim on book b: the book in the table is a's, or a      *)
(* handler that found it to be a's is about to rewrite or to delete it.    *)
(* A book deleted in between leaves the handler's claim, and with it the   *)
(* book may come back.                                                     *)
Claims(b, a) ==
  \/ b \in DOMAIN books /\ books[b].author = a
  \/ \E t \in Tasks : /\ Saves(t) /\ task[t].req.cmd # "createBook"
                     /\ task[t].req.book = b /\ task[t].req.user = a

(* A book has one claimant at most; ids are not reissued, those of deleted *)
(* books included, so a stale claim meets no new book.                     *)
ClaimsInv ==
  /\ \A b \in DOMAIN Library : b < nextBook
  /\ \A b \in BookIds, a \in UserIds : Claims(b, a) =>
       b < nextBook /\ \A d \in UserIds : Claims(b, d) => d = a

(* A claim is as old as the book or comes from one that is.                *)
LEMMA ClaimsStep ==
  ASSUME HoldingInv, DtosKept, [BooksNext]_booksVars, NEW b, NEW a, Claims(b, a)'
  PROVE  \/ Claims(b, a)
         \/ /\ b = nextBook /\ nextBook' = nextBook + 1
            /\ b \in DOMAIN books' /\ books'[b].author = a
  <1>1. CASE b \in DOMAIN books' /\ books'[b].author = a
    <2>1. ASSUME NEW t \in Tasks, SavesBook(t), task[t].req.cmd = "updateBook",
                 Target(task[t].req) = b, AuthorOf(task[t].req) = a
          PROVE  Claims(b, a)
      <3>1. task[t].req.book = b /\ task[t].req.user = a
        BY <2>1, KeptRequest DEF SavesBook, Saves
      <3> QED  BY <2>1, <3>1 DEF Claims, SavesBook
    <2> QED  BY <1>1, <2>1, BooksStep DEF Claims
  <1>2. CASE \E t \in Tasks : /\ Saves(t)' /\ task'[t].req.cmd # "createBook"
                            /\ task'[t].req.book = b /\ task'[t].req.user = a
    <2>1. PICK t \in Tasks : /\ Saves(t)' /\ task'[t].req.cmd # "createBook"
                            /\ task'[t].req.book = b /\ task'[t].req.user = a
      BY <1>2
    <2>2. SavingStep(t) /\ task'[t].req = task[t].req /\ task[t].pc # "idle"
      BY <2>1, TasksStep DEF SavingStep
    <2>3. CASE Saves(t)
      BY <2>1, <2>2, <2>3 DEF Claims
    <2>4. CASE task[t].req.cmd \in {"updateBook", "deleteBook"} /\ Owned(t)
      <3>1. Sought(task[t].req.book) = b
        BY <2>1, <2>2, <2>4, KeptRequest
      <3> QED  BY <2>1, <2>2, <2>4, <3>1 DEF Owned, Missing, Claims
    <2> QED  BY <2>1, <2>2, <2>3, <2>4 DEF SavingStep, SavesBook
  <1> QED  BY <1>1, <1>2 DEF Claims

LEMMA ClaimsInit == BooksInit => ClaimsInv
  <1> SUFFICES ASSUME BooksInit  PROVE ClaimsInv
    OBVIOUS
  <1>1. books = Library /\ nextBook = FirstBook /\ \A t \in Tasks : ~ Saves(t)
    BY DEF BooksInit, AuthInit, DatabaseInit, Saves, Unsent
  <1> QED  BY <1>1, DatabaseAssumption DEF ClaimsInv, Claims

LEMMA ClaimsInductive ==
  ASSUME HoldingInv, DtosKept, ClaimsInv, [BooksNext]_booksVars
  PROVE  ClaimsInv'
  <1>1. nextBook' \in {nextBook, nextBook + 1} /\ nextBook \in Nat
          /\ DOMAIN Library \subseteq BookIds
    BY BooksStep, DatabaseAssumption DEF HoldingInv, BooksTypeOK, AuthTypeOK, DatabaseTypeOK
  <1>2. ASSUME NEW b \in BookIds, NEW a \in UserIds, Claims(b, a)'  PROVE b < nextBook'
    <2>1. CASE Claims(b, a)
      BY <1>1, <2>1 DEF ClaimsInv, BookIds
    <2>2. CASE b = nextBook /\ nextBook' = nextBook + 1
      BY <1>1, <2>2
    <2> QED  BY <1>2, <2>1, <2>2, ClaimsStep
  <1>3. \A b \in BookIds, a, d \in UserIds : Claims(b, a)' /\ Claims(b, d)' => d = a
    <2> SUFFICES ASSUME NEW b \in BookIds, NEW a \in UserIds, NEW d \in UserIds,
                        Claims(b, a)', Claims(b, d)'
                 PROVE  d = a
      OBVIOUS
    <2>1. /\ Claims(b, a) \/ (b = nextBook /\ books'[b].author = a)
          /\ Claims(b, d) \/ (b = nextBook /\ books'[b].author = d)
      BY ClaimsStep
    <2> QED  BY <1>1, <2>1 DEF ClaimsInv
  <1> QED  BY <1>1, <1>2, <1>3 DEF ClaimsInv, BookIds

LEMMA ClaimsInvariant == BooksSpec => [](DtosKept => ClaimsInv)
  <1>1. HoldingInv /\ (DtosKept => ClaimsInv) /\ [BooksNext]_booksVars => (DtosKept => ClaimsInv)'
    BY DtosKeptBefore, ClaimsInductive
  <1> QED  BY <1>1, HoldingInvariant, ClaimsInit, PTL DEF BooksSpec

(* The book of a save that succeeds is the member's who asked for it.      *)
LEMMA BookChange ==
  ASSUME HoldingInv, DtosKept, ClaimsInv, [BooksNext]_booksVars, NEW b \in BookIds,
         books' # books
  PROVE  \/ b \notin DOMAIN books \cup DOMAIN books'
         \/ b \in DOMAIN books \cap DOMAIN books' /\ books'[b] = books[b]
         \/ \E t \in Tasks :
              /\ task[t].req # None
              /\ task[t].req.cmd \in {"createBook", "updateBook", "deleteBook"}
              /\ task[t].pc = "write" /\ task'[t].reply = "ok"
              /\ b \in DOMAIN books => books[b].author = task[t].req.user
              /\ b \in DOMAIN books' => books'[b].author = task[t].req.user
              /\ b \in DOMAIN books \cup DOMAIN books'
  <1>1. PICK t \in Tasks : CreateWrite(t) \/ UpdateWrite(t) \/ DeleteWrite(t)
    <2>1. ASSUME NEW t \in Tasks, TaskStep(t)
          PROVE  books' = books \/ CreateWrite(t) \/ UpdateWrite(t) \/ DeleteWrite(t)
      BY <2>1 DEF TaskStep, tables, Query, LoadBook, LoadAuthor, CreateAsk, CreateHear, UpdateFind,
                  DeleteFind, ReadFind, ReadListAsk, PassOn, TaskFails, Respond, Ask, Answer, Deliver
    <2>2. ASSUME NEW c \in Calls, CallStep(c) \/ CallEnvironment(c)  PROVE books' = books
      <3>1. CallMove(c)
        BY <2>2, AuthAssumption DEF CallStep, CallEnvironment, CallMove
      <3> QED  BY <3>1, CallMoveType DEF HoldingInv, BooksTypeOK
    <2> QED  BY <2>1, <2>2 DEF BooksNext, Receive, Redeliver, booksVars, tables
  <1>2. /\ task[t].pc = "write" /\ Saves(t) /\ task[t].req \in AllBookCommands
        /\ task[t].req # None
        /\ task[t].req.cmd \in {"createBook", "updateBook", "deleteBook"}
        /\ task[t].req.user \in UserIds
        /\ task'[t].reply = "ok"
    <2>1. /\ task[t].pc = "write"
          /\ task[t].req.cmd \in {"createBook", "updateBook", "deleteBook"}
          /\ Conclude(t, "ok")
      BY <1>1 DEF CreateWrite, UpdateWrite, DeleteWrite, At
    <2>2. task[t].req \in AllBookCommands
      BY <2>1 DEF HoldingInv, BooksTypeOK, TaskReady
    <2> QED  BY <2>1, <2>2, RequestType, ConcludeTask DEF HoldingInv, Saves, Statuses
  <1>3. task[t].req.cmd # "createBook" =>
          /\ task[t].req.book \in BookIds /\ task[t].req.book # None
          /\ Target(task[t].req) = task[t].req.book
          /\ AuthorOf(task[t].req) = task[t].req.user
    BY <1>2, KeptRequest
  <1>4. task[t].req.cmd # "createBook" /\ b = task[t].req.book /\ b \in DOMAIN books =>
          books[b].author = task[t].req.user
    <2>1. b \in DOMAIN books => books[b].author \in UserIds
      BY DEF HoldingInv, BooksTypeOK, AuthTypeOK, DatabaseTypeOK, BookRow
    <2> QED  BY <1>2, <1>3, <2>1 DEF ClaimsInv, Claims
  <1>5. CASE CreateWrite(t)
    <2>1. /\ nextBook \notin DOMAIN books
          /\ DOMAIN books' = DOMAIN books \cup {nextBook}
          /\ books'[nextBook].author = task[t].req.user
          /\ \A d \in DOMAIN books : books'[d] = books[d]
      BY <1>5, CreateWriteBooks
    <2>2. CASE b = nextBook
      BY <1>2, <2>1, <2>2
    <2>3. CASE b # nextBook
      BY <2>1, <2>3
    <2> QED  BY <2>2, <2>3
  <1>6. CASE UpdateWrite(t)
    <2> PICK d, a : d = Target(task[t].req) /\ a = AuthorOf(task[t].req)
      OBVIOUS
    <2>1. /\ task[t].req.cmd # "createBook"
          /\ DOMAIN books \subseteq DOMAIN books'
          /\ DOMAIN books' \subseteq DOMAIN books \cup {d}
          /\ \A e \in DOMAIN books \ {d} : books'[e] = books[e]
          /\ d \in DOMAIN books' => \/ books'[d].author = a
                                    \/ d \in DOMAIN books /\ books'[d].author = books[d].author
      BY <1>6, UpdateWriteBooks
    <2>2. d = task[t].req.book /\ a = task[t].req.user
      BY <1>3, <2>1
    <2>3. CASE b = d
      BY <1>2, <1>4, <2>1, <2>2, <2>3
    <2>4. CASE b # d
      BY <2>1, <2>4
    <2> QED  BY <2>3, <2>4
  <1>7. CASE DeleteWrite(t)
    <2>1. task[t].req.cmd # "createBook"
      BY <1>7 DEF DeleteWrite, At
    <2>2. \E dropped \in Dropped(task[t].req.book) :
            /\ DOMAIN books' = DOMAIN books \ dropped
            /\ \A d \in DOMAIN books' : books'[d] = books[d]
            /\ \A u \in UserIds : reading'[u] = reading[u] \ dropped
      BY <1>7, DeleteWriteBooks
    <2>3. /\ DOMAIN books' = DOMAIN books \ {task[t].req.book}
          /\ \A d \in DOMAIN books' : books'[d] = books[d]
      BY <1>3, <2>1, <2>2 DEF Dropped
    <2>4. CASE b = task[t].req.book
      BY <1>2, <1>4, <2>1, <2>3, <2>4
    <2>5. CASE b # task[t].req.book
      BY <2>3, <2>5
    <2> QED  BY <2>4, <2>5
  <1> QED  BY <1>1, <1>5, <1>6, <1>7

(* While clients keep to the DTOs, only its author makes, changes or       *)
(* deletes a book, though the check of the author and the write are two    *)
(* queries with other members' between.                                    *)
THEOREM AuthorsAloneChangeBooks == BooksSpec => OnlyAuthorChangesBook
  <1> DEFINE Change ==
        DtosKept' =>
          \A b \in BookIds :
            LET authors(table) == IF b \in DOMAIN table THEN {table[b].author} ELSE {}
            IN  \/ b \notin DOMAIN books \cup DOMAIN books'
                \/ b \in DOMAIN books \cap DOMAIN books' /\ books'[b] = books[b]
                \/ \E t \in Tasks :
                     /\ task[t].req # None
                     /\ task[t].req.cmd \in {"createBook", "updateBook", "deleteBook"}
                     /\ task[t].pc = "write" /\ task'[t].reply = "ok"
                     /\ authors(books) \cup authors(books') = {task[t].req.user}
  <1>1. ASSUME HoldingInv, DtosKept => ClaimsInv, [BooksNext]_booksVars
        PROVE  Change
    <2> SUFFICES ASSUME DtosKept'  PROVE Change
      OBVIOUS
    <2>1. DtosKept /\ ClaimsInv
      BY <1>1, DtosKeptBefore
    <2>2. CASE books' = books
      BY <2>2
    <2>3. CASE books' # books
      BY <1>1, <2>1, <2>3, BookChange
    <2> QED  BY <2>2, <2>3
  <1>2. OnlyAuthorChangesBook <=> [][Change]_booksVars
    BY DEF OnlyAuthorChangesBook
  <1> HIDE DEF Change
  <1> QED  BY <1>1, <1>2, HoldingInvariant, ClaimsInvariant, PTL DEF BooksSpec

-----------------------------------------------------------------------------
(* Nobody's own books.                                                     *)

(* Where a book may come onto a reading list from, the member has no claim *)
(* on it: from the start, or by an add that the books service asked for.   *)
ForeignInv ==
  /\ \A u \in UserIds : \A b \in FoundersReading[u] : b < nextBook /\ ~ Claims(b, u)
  /\ \A c \in Calls : call[c].req \in AddCommands =>
       call[c].req.book < nextBook /\ ~ Claims(call[c].req.book, call[c].req.user)

(* An add is new only where readBook found the book to be another's.       *)
LEMMA NewAdd ==
  ASSUME BooksTypeOK, [BooksNext]_booksVars, NEW c \in Calls,
         call'[c].req \in AddCommands, call'[c].req # call[c].req
  PROVE  \E t \in Tasks : /\ Foreign(t) /\ task[t].req.book = call'[c].req.book
                         /\ task[t].req.user = call'[c].req.user
  <1>1. call[c].pc = "idle" /\ CallsMove
    BY RequestStands, BooksNextMoves DEF BooksTypeOK
  <1>2. ASSUME NEW r \in AllCommands, NEW d \in Calls, Deliver(d, r)
        PROVE  r = call'[c].req
    <2>1. d = c
      BY <1>2, OthersUntouched DEF BooksTypeOK, CallMove
    <2> QED  BY <1>2, <2>1 DEF Deliver, BooksTypeOK, AuthTypeOK, CallRecord
  <1>3. ASSUME NEW d \in Calls, CallStep(d) \/ CallEnvironment(d)  PROVE FALSE
    <2>1. d = c
      BY <1>3, OthersUntouched, AuthAssumption
         DEF BooksTypeOK, CallStep, CallEnvironment, CallMove
    <2>2. CASE CallEnvironment(d)
      <3>1. ~ Crash(d)
        BY <1>1, <2>1 DEF Crash, InFlight, AwaitPoints
      <3> QED  BY <1>2, <2>2, <3>1, AuthAssumption, BooksAssumption DEF CallEnvironment
    <2>3. CASE CallStep(d)
      BY <1>1, <2>1, <2>3
         DEF CallStep, Step, Running, RegisterFind, RegisterLocate, RegisterInsert, Login,
             RelocateLocate, RelocatePreload, RelocateWrite, AddFind, AddWrite, SaveLoad,
             GetUser, GetMyReadList, MyInfo, GetUsers, QueryFails, Answer
    <2> QED  BY <1>3, <2>2, <2>3
  <1>4. ASSUME NEW t \in Tasks, TaskStep(t)
        PROVE  /\ Foreign(t) /\ task[t].req.book = call'[c].req.book
               /\ task[t].req.user = call'[c].req.user
    <2>1. ASSUME NEW r \in AllCommands, Ask(t, r)  PROVE r = call'[c].req
      BY <1>2, <2>1 DEF Ask
    <2>2. CASE CreateAsk(t) \/ ReadListAsk(t)
      <3>1. \/ call'[c].req = [cmd |-> "get-user", user |-> task[t].req.user]
            \/ call'[c].req = [cmd |-> "get-my-readlist", user |-> task[t].req.user]
        BY <2>1, <2>2, AskedCommands DEF CreateAsk, ReadListAsk, At
      <3>2. call'[c].req.cmd \in {"get-user", "get-my-readlist"}
        BY <3>1
      <3> QED  BY <3>2 DEF AddCommands
    <2>3. CASE ReadFind(t)
      <3>1. Foreign(t) /\ Ask(t, [cmd |-> "add-to-my-readlist", user |-> task[t].req.user,
                                  book |-> task[t].req.book])
        BY <2>3 DEF ReadFind
      <3> DEFINE r == [cmd |-> "add-to-my-readlist", user |-> task[t].req.user,
                       book |-> task[t].req.book]
      <3>2. r \in AllCommands
        BY <2>3, AskedCommands DEF ReadFind, At
      <3>3. r = call'[c].req
        BY <2>1, <3>1, <3>2
      <3>4. r.book = task[t].req.book /\ r.user = task[t].req.user
        OBVIOUS
      <3> HIDE DEF r
      <3> QED  BY <3>1, <3>3, <3>4
    <2>4. CASE CreateHear(t) \/ PassOn(t)
      <3>1. task[t].sub \in Calls /\ Answer(task[t].sub)
        BY <2>4 DEF CreateHear, PassOn, At, BooksTypeOK, TaskReady
      <3>2. task[t].sub # c
        BY <1>1, <3>1 DEF Answer
      <3> QED  BY <3>1, <3>2, OthersUntouched DEF BooksTypeOK, CallMove, Step
    <2> QED  BY <1>4, <2>2, <2>3, <2>4
                DEF TaskStep, Query, LoadBook, LoadAuthor, CreateWrite, UpdateFind, UpdateWrite,
                    DeleteFind, DeleteWrite, TaskFails, Respond
  <1> QED  BY <1>3, <1>4 DEF BooksNext, Receive, Redeliver, booksVars

LEMMA ForeignInit == BooksInit => ForeignInv
  <1> SUFFICES ASSUME BooksInit  PROVE ForeignInv
    OBVIOUS
  <1>1. books = Library /\ nextBook = FirstBook /\ \A t \in Tasks : ~ Saves(t)
    BY DEF BooksInit, AuthInit, DatabaseInit, Saves, Unsent
  <1>2. \A c \in Calls : call[c].req \notin AddCommands
    BY AuthAssumption DEF BooksInit, AuthInit, Idle, AllCommands
  <1>3. \A u \in UserIds : \A b \in FoundersReading[u] :
          b \in DOMAIN Library /\ b < FirstBook /\ Library[b].author # u
    BY DatabaseAssumption, BooksAssumption
  <1> QED  BY <1>1, <1>2, <1>3 DEF ForeignInv, Claims

LEMMA ForeignInductive ==
  ASSUME HoldingInv, DtosKept, ClaimsInv, ForeignInv, [BooksNext]_booksVars
  PROVE  ForeignInv'
  <1>1. nextBook' \in {nextBook, nextBook + 1} /\ nextBook \in Nat
    BY BooksStep DEF HoldingInv, BooksTypeOK, AuthTypeOK, DatabaseTypeOK
  <1>2. ASSUME NEW b \in BookIds, NEW u \in UserIds, b < nextBook, ~ Claims(b, u)
        PROVE  b < nextBook' /\ ~ Claims(b, u)'
    BY <1>1, <1>2, ClaimsStep DEF BookIds
  <1>3. \A u \in UserIds : \A b \in FoundersReading[u] : b \in BookIds
    BY DatabaseAssumption
  <1>4. ASSUME NEW c \in Calls, call'[c].req \in AddCommands
        PROVE  call'[c].req.book < nextBook' /\ ~ (\E b, u : /\ b = call'[c].req.book
                                                          /\ u = call'[c].req.user
                                                          /\ Claims(b, u)')
    <2>1. PICK b \in BookIds, u \in UserIds : b = call'[c].req.book /\ u = call'[c].req.user
      BY <1>4 DEF AddCommands
    <2>2. b < nextBook /\ ~ Claims(b, u)
      <3>1. CASE call'[c].req = call[c].req
        BY <1>4, <2>1, <3>1 DEF ForeignInv
      <3>2. CASE call'[c].req # call[c].req
        <4>1. b \in DOMAIN books /\ books[b].author # u
          <5>1. b # None
            BY <2>1, BooksAssumption
          <5> QED  BY <1>4, <2>1, <3>2, <5>1, NewAdd DEF HoldingInv, Foreign, Missing, Owned, Sought
        <4>2. books[b].author \in UserIds
          BY <4>1 DEF HoldingInv, BooksTypeOK, AuthTypeOK, DatabaseTypeOK, BookRow
        <4> QED  BY <4>1, <4>2 DEF ClaimsInv, Claims
      <3> QED  BY <3>1, <3>2
    <2> QED  BY <1>2, <2>1, <2>2
  <1> QED  BY <1>2, <1>3, <1>4 DEF ForeignInv

LEMMA ForeignInvariant == BooksSpec => [](DtosKept => ForeignInv)
  <1>1. HoldingInv /\ (DtosKept => ClaimsInv) /\ (DtosKept => ForeignInv) /\ [BooksNext]_booksVars =>
          (DtosKept => ForeignInv)'
    BY DtosKeptBefore, ForeignInductive
  <1> QED  BY <1>1, HoldingInvariant, ClaimsInvariant, ForeignInit, PTL DEF BooksSpec

(* While clients keep to the DTOs, nobody reads a book of their own: the   *)
(* books service checks it when the book is asked for, the auth service    *)
(* writes it down after any delay, and a book keeps its author meanwhile.  *)
THEOREM NobodyReadsTheirOwn == BooksSpec => []NoOwnBookRead
  <1>1. HoldingInv /\ ClubReadingInv /\ (DtosKept => ForeignInv) => NoOwnBookRead
    <2> SUFFICES ASSUME HoldingInv, ClubReadingInv, ForeignInv, DtosKept, NEW u \in UserIds,
                        NEW b \in reading[u], b \in DOMAIN books, books[b].author = u
                 PROVE  FALSE
      BY DEF NoOwnBookRead
    <2>1. Claims(b, u)
      BY DEF Claims
    <2>2. CASE b \in FoundersReading[u]
      BY <2>1, <2>2 DEF ForeignInv
    <2>3. CASE \E c \in Calls : /\ Confirmed(c, "add-to-my-readlist")
                             /\ call[c].req.user = u /\ call[c].req.book = b
      <3>1. PICK c \in Calls : /\ Confirmed(c, "add-to-my-readlist")
                             /\ call[c].req.user = u /\ call[c].req.book = b
        BY <2>3
      <3>2. call[c].req \in AllCommands
        BY <3>1 DEF Confirmed, HoldingInv, BooksTypeOK, AuthTypeOK, CallRecord
      <3>3. call[c].req \in AddCommands
        BY <3>1, <3>2 DEF Confirmed, AllCommands, RegisterCommands, LoginCommands,
                          RelocateCommands, AddCommands, QueryCommands
      <3> QED  BY <2>1, <3>1, <3>3 DEF ForeignInv
    <2>4. \A t \in Tasks : ~ (Asked(t, "updateBook") /\ AuthorSent(task[t].req))
      BY DEF DtosKept, AuthorSent
    <2> QED  BY <2>2, <2>3, <2>4 DEF ClubReadingInv, ReadsAccountedFor
  <1> QED  BY <1>1, HoldingInvariant, ClubReadingInvariant, ForeignInvariant, PTL

-----------------------------------------------------------------------------
(* How many books a createBook may create.                                 *)

Creates == {t \in Tasks : Asked(t, "createBook")}
Created == {t \in Creates : task[t].pc \in {"answer", "done"}}

(* The books that were created before the deaths so far.                   *)
Before(deaths, n) == deaths * n

LEMMA BeforeGrows ==
  ASSUME NEW d \in Nat, NEW n \in Nat, NEW m \in Nat, n <= m
  PROVE  /\ Before(d, n) \in Nat /\ Before(d, m) \in Nat /\ Before(d, n) <= Before(d, m)
         /\ Before(d + 1, m) = Before(d, m) + m
         /\ Before(0, n) = 0
  BY DEF Before

(* The sequence gave at most one id for each create that is over, and one  *)
(* for each create before each death of a replica.                         *)
CountInv ==
  /\ IsFiniteSet(Tasks)
  /\ nextBook >= FirstBook
  /\ nextBook - FirstBook <= Before(restarts, Cardinality(Creates)) + Cardinality(Created)

LEMMA CreatesCounted ==
  ASSUME IsFiniteSet(Tasks)
  PROVE  /\ IsFiniteSet(Creates) /\ IsFiniteSet(Created)
         /\ Cardinality(Creates) \in Nat /\ Cardinality(Created) \in Nat
         /\ Cardinality(Created) <= Cardinality(Creates)
  <1>1. Creates \in SUBSET Tasks /\ Created \in SUBSET Creates
    BY DEF Creates, Created
  <1>2. IsFiniteSet(Creates)
    BY <1>1, FS_Subset
  <1>3. IsFiniteSet(Created) /\ Cardinality(Created) <= Cardinality(Creates)
    BY <1>1, <1>2, FS_Subset
  <1> QED  BY <1>2, <1>3, FS_CardinalityType

(* A command stays a create, and is over until it is delivered again.      *)
LEMMA CreatesStep ==
  ASSUME HoldingInv, [BooksNext]_booksVars
  PROVE  /\ Creates \subseteq Creates'
         /\ (\A S \in SUBSET Tasks : ~ Redeliver(S)) =>
              restarts' = restarts /\ Created \subseteq Created'
  <1>1. ASSUME NEW t \in Tasks, task[t].req # None
        PROVE  task'[t].req = task[t].req
    <2>1. task[t].pc # "idle"
      BY <1>1 DEF HoldingInv, BooksTypeOK, TaskReady, Unsent
    <2> QED  BY <2>1, TasksStep
  <1>2. Creates \subseteq Creates'
    BY <1>1 DEF Creates, Asked
  <1>3. ASSUME NEW t \in Tasks, TaskStep(t)
        PROVE  restarts' = restarts /\ Created \subseteq Created'
    <2>1. /\ restarts' = restarts
          /\ \A d \in Tasks \ {t} : task'[d] = task[d]
      BY <1>3, TaskStepHolds
    <2>2. ASSUME t \in Created  PROVE task'[t].pc = "done"
      <3>1. task[t].pc \in {"answer", "done"} /\ task[t].req.cmd = "createBook"
              /\ task[t] \in TaskRecord /\ task \in [Tasks -> TaskRecord]
        BY <2>2 DEF Created, Creates, Asked, HoldingInv, BooksTypeOK
      <3>2. Respond(t)
        BY <1>3, <3>1 DEF TaskStep, Query, LoadBook, LoadAuthor, CreateAsk, CreateHear,
             CreateWrite, UpdateFind, UpdateWrite, DeleteFind, DeleteWrite, ReadFind, ReadListAsk,
             PassOn, TaskFails, At
      <3> DEFINE first == IF task[t].sent = None THEN task[t].reply ELSE task[t].sent
                 n == [Cleared(task[t], "done", task[t].reply) EXCEPT !.sent = first]
      <3>3. task' = [task EXCEPT ![t] = n]
        BY <3>2 DEF Respond
      <3>4. n.pc = "done"
        BY DEF Cleared, Unsent
      <3> HIDE DEF n
      <3> QED  BY <3>1, <3>3, <3>4
    <2> QED  BY <1>2, <2>1, <2>2 DEF Created, Creates, Asked
  <1>4. ASSUME NEW t \in Tasks, NEW r \in BookCommands, Receive(t, r)
        PROVE  restarts' = restarts /\ Created \subseteq Created'
    <2>1. /\ restarts' = restarts /\ task[t].pc = "idle"
          /\ \A d \in Tasks \ {t} : task'[d] = task[d]
      BY <1>4 DEF Receive, HoldingInv, BooksTypeOK
    <2> QED  BY <1>2, <2>1 DEF Created, Creates, Asked
  <1>5. CASE UNCHANGED <<task, restarts>>
    BY <1>5 DEF Created, Creates, Asked
  <1> QED  BY <1>2, <1>3, <1>4, <1>5
              DEF BooksNext, CallStep, CallEnvironment, booksVars

(* The sequence advances for a create that is over with the same step.     *)
LEMMA SequenceStep ==
  ASSUME HoldingInv, [BooksNext]_booksVars, nextBook' # nextBook
  PROVE  /\ nextBook' = nextBook + 1
         /\ \A S \in SUBSET Tasks : ~ Redeliver(S)
         /\ \E t \in Tasks : t \notin Created /\ t \in Created'
  <1>1. \A c \in Calls : ~ (CallStep(c) \/ CallEnvironment(c))
    BY CallMoveType, AuthAssumption
       DEF HoldingInv, BooksTypeOK, CallStep, CallEnvironment, CallMove
  <1>2. \A S \in SUBSET Tasks : ~ Redeliver(S)
    BY DEF Redeliver, tables
  <1>3. PICK t \in Tasks : CreateWrite(t)
    BY <1>1, <1>2
       DEF BooksNext, booksVars, tables, TaskStep, Query, LoadBook, LoadAuthor, CreateAsk,
           CreateHear, UpdateFind, UpdateWrite, DeleteFind, DeleteWrite, ReadFind, ReadListAsk,
           PassOn, TaskFails, Respond, Ask, Answer, Deliver, Receive
  <1>4. task[t].pc = "write" /\ task[t].req.cmd = "createBook" /\ task[t].req # None
    BY <1>3, BooksAssumption DEF CreateWrite, At, HoldingInv, BooksTypeOK, TaskReady
  <1>5. Conclude(t, "ok") \/ Conclude(t, "error")
    BY <1>3 DEF CreateWrite
  <1>6. task'[t].pc = "answer" /\ task'[t].req = task[t].req
    BY <1>4, <1>5, ConcludeTask DEF HoldingInv, Statuses
  <1> QED  BY <1>2, <1>3, <1>4, <1>6 DEF CreateWrite, Created, Creates, Asked

LEMMA CountInit ==
  ASSUME BooksInit, IsFiniteSet(Tasks)
  PROVE  CountInv
  <1>1. /\ nextBook = FirstBook /\ books = Library /\ restarts = 0
        /\ \A t \in Tasks : ~ Saves(t)
    BY DEF BooksInit, AuthInit, DatabaseInit, Saves, Unsent
  <1>2. FirstBook \in Nat
    BY DatabaseAssumption
  <1> QED  BY <1>1, <1>2, CreatesCounted, BeforeGrows DEF CountInv

LEMMA CountStep ==
  ASSUME HoldingInv, HoldingInv', CountInv, [BooksNext]_booksVars
  PROVE  CountInv'
  <1> DEFINE n == Cardinality(Creates)
             k == Cardinality(Created)
  <1>1. /\ n \in Nat /\ k \in Nat /\ n' \in Nat /\ k' \in Nat
        /\ IsFiniteSet(Creates') /\ IsFiniteSet(Created) /\ IsFiniteSet(Created')
        /\ k <= n
    <2>1. IsFiniteSet(Tasks)
      BY DEF CountInv
    <2>2. ASSUME IsFiniteSet(Tasks)
          PROVE  (/\ IsFiniteSet(Creates) /\ IsFiniteSet(Created)
                  /\ Cardinality(Creates) \in Nat /\ Cardinality(Created) \in Nat)'
      <3>1. Creates' \in SUBSET Tasks /\ Created' \in SUBSET Tasks
        BY DEF Creates, Created
      <3> QED  BY <2>2, <3>1, FS_Subset, FS_CardinalityType
    <2> QED  BY <2>1, <2>2, CreatesCounted
  <1>2. n <= n'
    BY <1>1, CreatesStep, FS_Subset
  <1>3. /\ nextBook \in Nat /\ nextBook' \in Nat /\ FirstBook \in Nat
        /\ restarts \in Nat /\ restarts' \in Nat
    BY DatabaseAssumption, BooksAssumption
       DEF HoldingInv, BooksTypeOK, AuthTypeOK, DatabaseTypeOK
  <1>4. nextBook' >= FirstBook /\ nextBook' - FirstBook <= Before(restarts', n') + k'
    <2>1. nextBook >= FirstBook /\ nextBook - FirstBook <= Before(restarts, n) + k
      BY DEF CountInv
    <2>2. /\ Before(restarts, n) <= Before(restarts, n')
          /\ Before(restarts, n) \in Nat /\ Before(restarts, n') \in Nat
          /\ Before(restarts + 1, n') = Before(restarts, n') + n'
      BY <1>1, <1>2, <1>3, BeforeGrows
    <2>3. CASE \E S \in SUBSET Tasks : Redeliver(S)
      <3>1. restarts' = restarts + 1 /\ nextBook' = nextBook
        BY <2>3 DEF Redeliver, tables
      <3> HIDE DEF n, k
      <3> QED  BY <1>1, <1>2, <1>3, <2>1, <2>2, <3>1
    <2>4. CASE nextBook' # nextBook
      <3>1. /\ nextBook' = nextBook + 1 /\ restarts' = restarts /\ Created \subseteq Created'
            /\ \E t \in Tasks : t \notin Created /\ t \in Created'
        BY <2>4, SequenceStep, CreatesStep
      <3>2. PICK t \in Tasks : t \notin Created /\ t \in Created'
        BY <3>1
      <3>3. Cardinality(Created \cup {t}) = k + 1
        BY <1>1, <3>2, FS_AddElement
      <3>4. k + 1 <= k'
        <4>1. Created \cup {t} \in SUBSET Created'
          BY <3>1, <3>2
        <4> QED  BY <1>1, <3>3, <4>1, FS_Subset
      <3> HIDE DEF n, k
      <3> QED  BY <1>1, <1>3, <2>1, <2>2, <3>1, <3>4
    <2>5. CASE nextBook' = nextBook /\ \A S \in SUBSET Tasks : ~ Redeliver(S)
      <3>1. restarts' = restarts /\ Created \subseteq Created'
        BY <2>5, CreatesStep
      <3>2. k <= k'
        BY <1>1, <3>1, FS_Subset
      <3> HIDE DEF n, k
      <3> QED  BY <1>1, <1>3, <2>1, <2>2, <2>5, <3>1, <3>2
    <2> QED  BY <2>3, <2>4, <2>5
  <1> QED  BY <1>4 DEF CountInv

LEMMA CountInvariant == IsFiniteSet(Tasks) /\ BooksSpec => []CountInv
  <1>1. BooksInit /\ IsFiniteSet(Tasks) => CountInv
    BY CountInit
  <1>2. HoldingInv /\ HoldingInv' /\ CountInv /\ [BooksNext]_booksVars => CountInv'
    BY CountStep
  <1> QED  BY <1>1, <1>2, HoldingInvariant, PTL DEF BooksSpec

LEMMA NewBooksCounted ==
  ASSUME HoldingInv, OriginInv, CountInv
  PROVE  /\ BooksPerDelivery
         /\ MaxRestarts = 0 /\ RenumberedTo = {} => OneBookPerCommand
  <1> DEFINE new == DOMAIN books \ DOMAIN Library
             n == Cardinality(Creates)
             k == Cardinality(Created)
             m == Cardinality(RenumberedTo)
  <1>1. /\ n \in Nat /\ k \in Nat /\ k <= n
        /\ nextBook \in Nat /\ FirstBook \in Nat /\ restarts \in 0 .. MaxRestarts /\ restarts \in Nat
    BY CreatesCounted, DatabaseAssumption, BooksAssumption
       DEF CountInv, HoldingInv, BooksTypeOK, AuthTypeOK, DatabaseTypeOK
  <1>2. new \in SUBSET ((FirstBook .. nextBook - 1) \cup RenumberedTo)
    <2> SUFFICES ASSUME NEW b \in new
                 PROVE  b \in FirstBook .. nextBook - 1 \/ b \in RenumberedTo
      OBVIOUS
    <2>1. b \in BookIds /\ b \in Int /\ Known(b) /\ b \notin DOMAIN Library
      BY DEF HoldingInv, BooksTypeOK, AuthTypeOK, DatabaseTypeOK, BookIds, OriginInv
    <2> QED  BY <1>1, <2>1 DEF Known, RenumberedTo
  <1>3. IsFiniteSet(RenumberedTo) /\ m \in Nat
    <2>1. MaxBooks \in Int /\ 1 \in Int
      BY DatabaseAssumption
    <2>2. IsFiniteSet(BookIds) /\ RenumberedTo \in SUBSET BookIds
      BY <2>1, FS_Interval DEF BookIds, RenumberedTo
    <2> QED  BY <2>2, FS_Subset, FS_CardinalityType
  <1>4. /\ IsFiniteSet(FirstBook .. nextBook - 1)
        /\ Cardinality(FirstBook .. nextBook - 1) = nextBook - FirstBook
    <2> PICK top \in Int : top = nextBook - 1
      BY <1>1
    <2>1. FirstBook \in Int /\ nextBook >= FirstBook
      BY <1>1 DEF CountInv
    <2>2. /\ IsFiniteSet(FirstBook .. top)
          /\ Cardinality(FirstBook .. top) = IF FirstBook > top THEN 0 ELSE top - FirstBook + 1
      BY <2>1, FS_Interval
    <2>3. (IF FirstBook > top THEN 0 ELSE top - FirstBook + 1) = nextBook - FirstBook
      BY <1>1, <2>1
    <2> QED  BY <2>2, <2>3
  <1>5. Cardinality(new) <= (nextBook - FirstBook) + m /\ Cardinality(new) \in Nat
    <2> PICK given : given = FirstBook .. nextBook - 1
      OBVIOUS
    <2>1. IsFiniteSet(given) /\ Cardinality(given) = nextBook - FirstBook
      BY <1>4
    <2>2. /\ IsFiniteSet(given \cup RenumberedTo)
          /\ Cardinality(given \cup RenumberedTo) <= Cardinality(given) + m
      <3>1. /\ IsFiniteSet(given \cup RenumberedTo)
            /\ Cardinality(given \cup RenumberedTo) =
                 Cardinality(given) + m - Cardinality(given \cap RenumberedTo)
        BY <1>3, <2>1, FS_Union
      <3>2. IsFiniteSet(given \cap RenumberedTo)
        <4>1. given \cap RenumberedTo \in SUBSET given
          OBVIOUS
        <4> QED  BY <2>1, <4>1, FS_Subset
      <3>3. Cardinality(given \cap RenumberedTo) \in Nat /\ Cardinality(given) \in Nat
        BY <2>1, <3>2, FS_CardinalityType
      <3> HIDE DEF m
      <3> QED  BY <1>3, <3>1, <3>3
    <2>3. new \in SUBSET (given \cup RenumberedTo)
      BY <1>2
    <2> HIDE DEF new, m
    <2>4. IsFiniteSet(new) /\ Cardinality(new) <= Cardinality(given \cup RenumberedTo)
      BY <2>2, <2>3, FS_Subset
    <2>5. Cardinality(new) \in Nat /\ Cardinality(given \cup RenumberedTo) \in Nat
      BY <2>2, <2>4, FS_CardinalityType
    <2> QED  BY <1>1, <1>3, <2>1, <2>2, <2>4, <2>5
  <1>6. nextBook - FirstBook <= Before(restarts, n) + k
    BY DEF CountInv
  <1>7. Before(restarts + 1, n) = Before(restarts, n) + n /\ Before(restarts, n) \in Nat
    BY <1>1, BeforeGrows
  <1>8. Cardinality(new) <= Before(restarts + 1, n) + m
    <2> HIDE DEF n, k, m, new
    <2> QED  BY <1>1, <1>3, <1>5, <1>6, <1>7
  <1>9. MaxRestarts = 0 => restarts = 0 /\ Before(restarts, n) = 0
    <2>1. MaxRestarts = 0 => restarts = 0
      BY <1>1
    <2> QED  BY <1>1, <2>1, BeforeGrows
  <1>10. MaxRestarts = 0 /\ RenumberedTo = {} => Cardinality(new) <= n
    <2>1. RenumberedTo = {} => m = 0
      BY FS_EmptySet
    <2> HIDE DEF n, k, m, new
    <2> QED  BY <1>1, <1>3, <1>5, <1>6, <1>7, <1>9, <2>1
  <1> QED  BY <1>8, <1>10 DEF Before, BooksPerDelivery, OneBookPerCommand, Creates

(* Whatever is redelivered, updated, deleted and saved again, there are no *)
(* more new books than deliveries of createBook and ids that updates asked *)
(* for, for finitely many commands.                                        *)
THEOREM NoMoreBooksThanDeliveries == IsFiniteSet(Tasks) /\ BooksSpec => []BooksPerDelivery
  BY HoldingInvariant, OriginInvariant, CountInvariant, NewBooksCounted, PTL

(* While nothing is delivered again and no update asks for an id,          *)
(* createBook creates one book: books_twice shows what one death of a      *)
(* replica does.                                                           *)
THEOREM OneBookUnlessRedelivered ==
  MaxRestarts = 0 /\ IsFiniteSet(Tasks) /\ BooksSpec => [](RenumberedTo = {} => OneBookPerCommand)
  <1> DEFINE Bound == MaxRestarts = 0 => (RenumberedTo = {} => OneBookPerCommand)
  <1>1. IsFiniteSet(Tasks) /\ BooksSpec => []Bound
    <2>1. HoldingInv /\ OriginInv /\ CountInv => Bound
      BY NewBooksCounted
    <2> HIDE DEF Bound
    <2> QED  BY <2>1, HoldingInvariant, OriginInvariant, CountInvariant, PTL
  <1>2. CASE MaxRestarts = 0
    <2>1. Bound <=> (RenumberedTo = {} => OneBookPerCommand)
      BY <1>2
    <2> HIDE DEF Bound
    <2> QED  BY <1>1, <2>1, PTL
  <1>3. CASE MaxRestarts # 0
    BY <1>3
  <1> QED  BY <1>2, <1>3
=============================================================================
