# The microservice books club in TLA+

A verification development of the club's services: TLA+ modules translated from
the TypeScript under `src/`, TLC runs that check them on small instances, and
theorems about the auth service, the books service composed with it, and the
gateway, that TLAPS checks for every value of the constants. Paths below are relative to `src/`.

## 1. Inventory of the system

Three NestJS processes, two RabbitMQ queues and one PostgreSQL database. A
member's HTTP request reaches the *gateway* (`apps/microservice-books-club`),
which checks and decodes the token with two commands to the auth service and
forwards one command to `auth_queue` or `books_queue`. The *auth service* owns
accounts and reading lists, the *books service* owns books and calls the auth
service. Both write the same database through TypeORM, and both run in several
replicas (`my-books-club-chart/values.yaml`).

| component | state | operations | what is hard | what makes it correct |
|---|---|---|---|---|
| Database and entities (`libs/shared/src/entities`) | tables `user`, `book`, the junction of `readingBooks`, two id sequences | what `save`, `delete`, `find` issue | `save` is a SELECT, then a transaction that writes the differences: nothing locks what was read | unique email, keys of the junction, no row half written |
| Auth service (`apps/auth-service/src`) | none of its own; locals of the handlers in flight | `register`, `login`, `RelocateMe`, `add-to-my-readlist`, `get-user`, `get-users`, `get-my-readlist`, `myInfo`, `verify-jwt`, `decode-jwt` | handlers interleave at every `await`, in one replica and across replicas; a message is acknowledged before it is handled; the geocoder fails | accounts are the registrations that succeeded; a token needs credentials; reading lists hold confirmed reads of existing books; everything taken is answered |
| Books service (`apps/books-service/src`) | none of its own; locals of the handlers in flight | `createBook`, `updateBook`, `deleteBook`, `readBook`, `get-my-readlist`, `getBookById`, `getBooksByAuthor`, `getAllBooks` | check in one query, write in another; objects that travelled by message are saved later; a save cascades to the author's account; commands are never acknowledged, so a dead replica has them all delivered again; calls without a timeout; what updates and deletes carry is not validated | while clients keep to the DTOs only the author changes a book, and nobody reads a book of their own; whatever they send, authors, reads and new books are accounted for; every command is answered |
| Queues (`shared.service.ts`, `shared.module.ts`) | messages, delivered and not acknowledged | send, deliver, ack, redeliver | at most once for one service, at least once for the other; a guard that answers without acknowledging | what was confirmed to a client of the auth service is not redone |
| Sessions (JWT) | signed tokens held by clients | sign, verify, decode | a token is looked at in two processes, by three commands, at different times | a command is sent only for the owner of a token that was signed and had not expired |
| Gateway (controllers, `AuthGuard`, `UserInterceptor`, `ErrorInterceptor`) | requests in flight | guard, decode, forward, answer | `catchError(() => next.handle())` handles a failed request again; no timeouts; a gateway that dies leaves its commands behind | a success was carried out, a refusal never is, nothing is carried out twice by the auth service |
| `LoggingInterceptor` | none | bound to every route of the gateway by the token `APP_INTERCEPTOR`; logs, and passes values and errors on | | |
| `RpcExceptionInterceptor` | none | none: bound to no route | | |
| DTO validation (`libs/shared/src/dtos`, `ValidationPipe`) | none | accepts or refuses a body | `updates` of `updateBook` has no validator and the pipe no whitelist; the body of `deleteBook` is `any` | |
| Migration, charts, CI, monitoring | configuration | | the migration is commented out: the schema is the synchronised one | |

The hazards, each at its line, are the `hazards` of `PROJECT.json`.

## 2. Modules

| module | models | |
|---|---|---|
| `ClubDatabase` | the tables and what one statement or transaction does to them | extended by the services |
| `AuthService` | `auth-service.service.ts` and its controller | extends `ClubDatabase` |
| `ReadingClub` | no code: the abstract specification, every command in one step | `AuthService` instantiates it as `Club` |
| `BooksService` | `books-service.service.ts` and its controller | extends `AuthService`, so the two are composed over one database |
| `Delivery` | `shared.service.ts`, `shared.module.ts`: a command from `send` to its answer, under both disciplines of acknowledgement | |
| `Gateway` | the gateway's controllers, guard, interceptors, and the sessions; the other handlers of the services succeed or fail | extends `Delivery` |
| `ClubDoor` | no code: the abstract specification, what an HTTP client may count on | `Gateway` instantiates it as `Door` |
| `MCAuth`, `MCBooks`, `MCGateway` | the small instances TLC checks | |
| `AuthServiceProofs` | theorems about `AuthSpec` | extends `AuthService`, `TLAPS` |
| `AuthPromiseProofs` | the refinement of `ReadingClub`, and what follows from it | extends `AuthServiceProofs` |
| `BooksServiceProofs` | theorems about `BooksSpec` | extends `BooksService`, `AuthServiceProofs` |
| `GatewayProofs` | theorems about `GatewaySpec` | extends `Gateway`, `TLAPS` |

### State

`users`, `reading`, `books`, `nextUser`, `nextBook` are the tables and the
sequences. A founder's account and a library of books may be there when the
services start. `reading[u]` is the set of book ids that the junction table
pairs with user `u`. Names and creation dates, which no handler changes, are
left out; places, cities, titles and emails are members of small sets. A
password column holds a `Digest(password)`, which is never the password itself,
or, when an update wrote it, a plain text (`AsText`). A user object has all the
columns; its password is `None` when it was found, since a find does not load it.

A command of the books service carries what the gateway lets through. An
`updateBook` has, besides the book, any of the keys `id`, `title`, `description`
and `author`, the last an object (`AuthorObjects`) with an id and any columns and
reading list; a `deleteBook` may name no book. `DtosKept` says that no client has
used this so far: nothing in the code makes it true, and the properties that
hold only then say so.

`call[c]` is one command delivered on `auth_queue`: the command, where its
handler is, and the handler's locals (`entity` is the user object it holds,
`base` what `save` loaded to compare it with). `task[t]` is the same for
`books_queue`, with the book and author objects of `save` and the call to the
auth service the handler waits for. A call slot is used once, so a behaviour
ends when the slots are used up; that is why the configurations switch the
deadlock check off. `sent` is the first answer a client got, `reply` the
outcome of the current delivery.

`mail[m]` is one command of the gateway: a request `q` may send the messages
`<<q, "verify">>`, `<<q, "decode">>`, and its route's command as `<<q, "first">>`
and, when the interceptor handles the request again, `<<q, "second">>`. A letter
records where the message is, whether it was acknowledged, the `outcome` of the
present delivery, the first `answer` that was published, and `done`, the number
of deliveries that were handled with success. `request[q]` is an HTTP request:
its route, the token of its header, `user` (`request.user`) and the `attempt`
(the call of `next.handle()`). `tokens` are the tokens signed, `now` the clock,
which all processes share.

`AuthService` and `BooksService` open up what a handler does; `Delivery` and
`Gateway` open up what happens to a command around it. The first two say what a
handler that succeeds or fails does to the tables, the last two take of it only
that it ends, in success or error (`HandleOther`), or waits for ever (`Stall`).

### Steps

An action is the code from one `await` on shared state to the next:

| code | actions |
|---|---|
| `register` | `RegisterFind` (findByEmail, conflict), `RegisterLocate` (bcrypt, geocoder), `RegisterInsert` |
| `login`, `validateUser` | `Login` (one query; bcrypt and the signature touch nothing shared) |
| `relocateMe` | `RelocateLocate`, `RelocatePreload`, `SaveLoad`, `RelocateWrite` |
| `addToMyReadList` | `AddFind`, `SaveLoad`, `AddWrite` |
| `getUsers`, `findUserById`, `getMyReadList`, `myInfo` | `GetUsers`, `GetUser`, `GetMyReadList`, `MyInfo` |
| `createBook` | `CreateAsk`, `CreateHear`, `LoadAuthor`, `CreateWrite` |
| `updateBook` | `UpdateFind`, `LoadBook`, `LoadAuthor`, `UpdateWrite` |
| `deleteBook` | `DeleteFind`, `DeleteWrite` |
| `readBook`, `getMyReadlist` | `ReadFind`, `ReadListAsk`, `PassOn` |
| the finders | `Query` |
| controller of the auth service: ack, then handle | `Deliver`; `Crash` loses the command |
| controller of the books service: never acks | `Receive`; `Redeliver` starts again every command of a dead replica |
| any query or transaction that fails | `QueryFails`, `TaskFails` |
| `AuthGuard.canActivate` | `Guard` (header, send `verify-jwt`), `HearVerify` (error, expired, or go on) |
| `UserInterceptor.intercept` | `HearVerify` (its first part, in the same turn: send `decode-jwt`), `HearDecode`, `Fails` (`catchError`) |
| pipe and method of a route; the two controllers | `Handle`; `AuthRoutes`, `BooksRoutes` |
| answer of the command, `ErrorInterceptor` | `HearCommand`, `Fails` |
| `JwtGuard`, `verifyJwt`, `getUserFromHeader`, `login` | `Take`, `HandleVerify`, `HandleDecode`, `HandleLogin` |
| acknowledge, answer, a replica that dies | `Begin`, `Respond`, `Die` |

Statuses stand for what the client gets: `conflict`, `unauthorized`,
`bad-request`, `not-found`, `timeout` are the `RpcException`s the code throws;
every other exception (a `TypeError` on a missing user, a constraint, the plain
`NotFoundException` of `relocateMe`) is an internal error, `error`.

### What is taken from the libraries

These are facts of the versions in `package.json`, and the models rest on them:

* `save(entity)` first SELECTs the row and the relations the entity holds, then
  writes, in one transaction, the columns and junction rows that differ
  (`Merged`, `LinksAdded`, `LinksRemoved`). A column the entity does not have is
  not compared: an author object sent with an update changes only what it holds
  (`Overlaid`). An entity whose row is gone is INSERTed under its old id
  (`SaveBook`), and so is one given an id that no row has. The sequence does not
  notice, so a later create may meet that id and fail on the primary key
  (`CreateWrite`).
* `findOne` with an undefined id has no condition and takes the first row, that
  of the lowest id (`Sought`). What `delete` does with one depends on the version:
  no condition or a comparison with NULL, so it drops all the books or none
  (`Dropped`); no finding rests on either.
* A decimal comes back from the driver as a string, so the numbers `relocateMe`
  assigns never compare equal and are always written; `undefined` means "leave
  it", so a place without a city keeps the old city (`Relocated`). A column with
  `select: false` is not loaded and not written.
* `readingBooks` is eager; `preload` does not load it. `Book.author` cascades
  updates, so saving a book saves its author object too (`Cascade`), in the same
  transaction: junction rows come after the book's INSERT and may refer to it,
  and a constraint that one of the writes breaks undoes them all
  (`CascadeRejected`). An author object of no account is not inserted; its
  reading list is, and a foreign key refuses it (`Unfound`).
* The keys: email is unique, for INSERT and UPDATE (`EmailRejected`); the
  junction's are primary, and foreign to `user` and to `book`, the latter with
  ON DELETE CASCADE.
* A sequence advances when its INSERT fails.
* RabbitMQ redelivers what a dead consumer left unacknowledged. The gateway
  hears the first answer to a message and drops later ones. Not modelled: a
  COMMIT whose confirmation is lost, a broker that restarts (its messages are
  not persistent), a lost connection, and the broker's own delivery timeout.
* NestJS runs guards before interceptors, and pipes and the method inside the
  innermost interceptor: a second `next.handle()` runs the pipes and the method
  again, with the `request.user` the first left; what a guard throws passes no
  interceptor. In a service, guards run before the handler and so before its
  acknowledgement. An `RpcException` of an HTTP exception keeps its status
  through `ErrorInterceptor`; any other error is a 500.

## 3. Properties, runs and bounds

`PROJECT.json` lists for each run its properties, and for each property a
*fault*: an operator of the modules marked `a fault:`, put in the place of the
operator it is named after, under which the property fails. The faults are
plausible slips (no unique constraint, no transaction, a dropped owner check)
and are used by nothing else.

| run | checks | distinct states |
|---|---|---|
| `auth_accounts` | `AuthTypeOK`, `EmailsUnique`, `AccountsAreRegistrations`, `TokenNeedsRegistration` | 668 k |
| `auth_promise` | `KeepsPromise`, `AddedBookStays`, `RelocationStays`, `AddedOnce` | 331 k |
| `auth_answers` | `EveryReadWasConfirmed`, `EventuallyAnswered` | 127 k |
| `books_club` | `BooksTypeOK`, `OnlyAuthorChangesBook`, `NoOwnBookRead`, `BooksHaveTheirAuthors`, `ReadsAccountedFor`, `NoDanglingReading`, `BooksPerDelivery` | 2.2 M |
| `books_answers` | `TaskAnswered` | 24 k |
| `gateway_requests` | `GatewayTypeOK`, `TokenOwnerActs`, `OnlyRejectionsReturn`, `KeepsWord`, `RequestAnswered` | 245 k |

What they show:

* **Accounts.** The check in `register` races, and only the unique constraint
  decides. However registrations, relocations and crashes interleave, accounts
  and successful registrations correspond one to one, keep the registered
  credentials although three handlers save whole user objects, and a login
  succeeds only with such credentials.
* **Reading lists.** Stale saves may lose a read (below) but never invent one,
  never leave one behind after a failed transaction, and never leave one of a
  deleted book, though the book object is read by one service and stored by the
  other. A client may invent one: an update may carry an author object with any
  reading list, and the cascade stores that list. `ReadsAccountedFor` says that
  every read comes from the start, from a confirmed add, or from such an update.
* **Books, while clients keep to the DTOs.** The author is checked in one query
  and the book written in another. Between the two it may change, go, and come
  back; still only its author's commands have any effect on it, redelivered or
  not. `readBook` refuses authors, and no interleaving puts an own book on a
  list. Both fail when an update carries an id or an author: `Object.assign`
  (`apps/books-service/src/books-service.service.ts:120`) copies any key, so a
  book may change hands, and an update may write over another book (both happen
  in `books_club`).
* **Books, whatever clients send.** `BooksHaveTheirAuthors`: the author of a book
  is its creator, or one that an update of that id names, never one that a stale
  object or a redelivery brought in. `BooksPerDelivery`: redelivery may create a
  book again, once for each delivery, and an update may make one with the id it
  asks for; nothing else makes new books, not the save that inserts a deleted
  one again.
* **Promise.** If each member waits for an answer before sending the next
  command (`ClientsWait`), the statements of all handlers amount, at their
  commits, to the atomic commands of `ReadingClub`. So a confirmed add stays, and
  is not confirmed twice, and a confirmed relocation stays. `ClientsWait` is a
  strong condition: the commands of one member never overlap, and what is left
  for `AddedBookStays`, `RelocationStays` and `AddedOnce` to catch is the other
  members, the failures, the crashes and the deletions of books. The races of
  one member's own commands are not in this run; they are the findings below, where
  the same properties fail because members do not wait, or because the books
  service saves their accounts.
* **Tokens.** `TokenOwnerActs`: guard, interceptor and controller hear three
  answers at three times, from replicas that may die in between, and the command
  that results is always in the name of the owner of the request's token, which
  was signed and had not expired when the request came. It may expire before the
  command is handled: nothing checks again.
* **Requests.** `KeepsWord`: gateway, queues and replicas implement `ClubDoor`.
  A request for the auth service takes effect once at most, although its command
  may be sent twice and replicas die with it; what succeeded was carried out,
  what was refused never is, what failed is not. Of the books service, which
  acknowledges nothing, only the first two hold: a request may take effect again
  long after its answer, and also after the answer that it failed.
* **Returns.** `OnlyRejectionsReturn`: the only commands on `auth_queue` that come
  back after they were answered are rejected tokens, and they are rejected again.
* **Answers.** `RequestAnswered`: a request that enters the guard is answered
  unless its gateway dies or one of its commands is lost or waits for ever;
  then, with no timeout on `send`, the client waits for ever too.
  `EventuallyAnswered`: a command of `auth_queue` is answered unless the replica
  that acknowledged it dies. `TaskAnswered` names the one case in which a handler of the books
  service waits for ever: the auth service took its command and died. With no
  timeout on `authServiceClient.send`, nothing ends that wait.

Bounds of `gateway_requests`: two requests that share nothing but the tokens,
the clock and the deaths; the first logs in (and so signs the token the second
may use) or creates a book, the second relocates: an open and a guarded route
of the auth service and a guarded one that may stall. One death, since every
message can be delivered twice with it; one tick of the clock, at which the first
token expires. `gateway_twice` needs one request. The deaths of a gateway are
not bounded, for a request dies once.

Bounds of the services. `MaxUsers` and `MaxBooks` bound the sequences and are
large enough for every insertion of a run, but for the third of `auth_promise`,
which the unique constraint would refuse. `MaxRestarts` bounds the deaths of
books-service replicas. Three calls are two handlers that interfere and one that
sees, or makes permanent, what they left. Two tasks with two calls are two
interfering books-service handlers, or one and a command of `auth_queue`; a task
that was redelivered may share the calls with its first delivery's.
`books_answers` has one task, two deaths and a call for each delivery: tasks do
not wait for each other. It uses no other commands, which would use up the calls
and not the code's patience. The commands of `books_club` are those of two
members who write and read the same books, first as the DTOs declare them, then
with more in them: a book sent back whole, with its author as it was fetched; a
book handed to another member, either way; a book renumbered to the id the
sequence reaches next; a delete that names none. Besides its tasks only
`get-user` reaches the auth service there: a relocation writes no column its
properties look at, and is left to `books_undone_move`, where it does harm.
`auth_accounts`, `auth_promise` and `books_club` use the symmetry of calls and
tasks; the runs with liveness do not. Cities differ by place, one place has none
and one has two, since the geocoder may change its mind; in the liveness runs
the geocoder never answers for one place, and the code's error paths do.

Fairness. `WF` on the steps of each handler: Node runs every continuation that
is ready, the database and the geocoder answer or fail, the broker delivers an
answer. Nothing obliges a client to send, a replica to die or a broker to
redeliver; none of these is fair. In `GatewayFairSpec` the steps of a request in
the gateway are fair, and so are those of the services on its commands, taken
together: the chart restarts dead pods, and the queues are consumed. Clients,
the clock, deaths, and handlers that stall are not.

## 4. What the comments promise and the code does not do

| run | the code |
|---|---|
| `auth_lost_add` | two adds of different books by one member: both are confirmed, and the second save removes the first one's junction row |
| `auth_torn_city` | two relocations of one member: coordinates are always written, the city only if it differs from what `save` loaded, so they may come from different relocations |
| `books_deleted` | an update that found the book before a confirmed delete INSERTs it again |
| `books_twice` | a create that was answered is redelivered when its replica dies, and creates a second book |
| `gateway_twice` | a command that was answered with an error is sent again: `catchError` covers the handler, not only the call to the auth service that the comment names |
| `books_undone_move` | saving a new book writes the author as read before a confirmed relocation: the old coordinates are back |

The same causes have other effects, which have no run of their own: two adds of
one book are both confirmed; of two registrations of one email that race, the
loser gets an internal error and not the conflict of the comment at
`auth-service.service.ts:117`; two updates of different fields of a book
overwrite each other; an add undoes a relocation just as a create does; an
update that carries keys other than the title and the description of its DTO
(`libs/shared/src/dtos/updateBook.dto.ts:10-13`) changes them too; a relocation
to a place without a city keeps the city of the old place.

Three of the counterexamples need the cause they show, as section 5 proves:
without concurrent commands of one member nothing of `auth_lost_add` or
`auth_torn_city` is left, the latter as long as the geocoder has a city for
every place; unless a create is delivered again there is no second book. In
the model only a death delivers it again; the broker's own timeout for
acknowledgements, which is not modelled, would do the same.

## 5. Proofs

`AuthServiceProofs` proves of `AuthSpec`, for any number of calls, members and
books, with or without waiting clients:

* `TypeCorrect`: `[]AuthTypeOK`. It is inductive because it says what each
  handler holds at each await (`CallReady`).
* `UniqueEmails`, `RegistrationAllOrNothing`, `NoTokenWithoutRegistration`: from
  `AccountInv`, which adds to the three properties that ids in use are below the
  sequence (so an insert never overwrites), and that registrations which are not
  yet decided name no account. A step preserves it if it moves calls by a handler
  and changes accounts no more than `AccountsMove` says.
* `ReadingRefersToBooks`: inductive with the types alone, through
  `LinksRejected` and the cascade of deletes.
* `ReadsAreConfirmed`: from `ReadingInv`. The property alone is not inductive,
  for a save inserts what a stale object holds: the invariant says that what a
  handler holds, besides the one book it adds, was confirmed before, and stays
  so since answers are not taken back.

They rest on `DatabaseAssumption` and `AuthAssumption`, the assumptions on the
constants, which TLC evaluates in every run: founders have distinct emails and
ids below the sequence, the library's authors are founders, commands have the
types of the DTOs.

`AuthPromiseProofs` proves of `AuthSpec`, if `ClientsWait`:

* `PromiseKept`: `KeepsPromise`, the refinement of `ReadingClub`, under the
  identity on `users`, `reading` and `books`. `RegisterInsert`, `RelocateWrite`
  and `AddWrite` map to `Register`, `Relocate` and `Read` or to a stutter, a
  deleted book to `Delete`, all other steps to a stutter. The invariant is
  `PromiseInv`: two handlers never serve one member, and so what a handler holds
  agrees with its member's row. A relocation about to write has compared itself
  with the row as it still is. An add holds the row's columns and the reading
  list with the new book; what it holds besides was deleted since, so that
  saving it inserts nothing.
* `AddedBooksStay`, `AddsConfirmedOnce`, `RelocationsStay`: from `WordInv`, by the
  steps of `ReadingClub`: no step of the club takes a book off a list but a
  delete, none moves an account but its own relocation, and `Read` adds a book
  that was not there.
* `CitiesMatch`: an invariant of `ReadingClub`, hence of the service. It needs
  `CitiesKnown` too (the geocoder has a city for every place, and the founders'
  are theirs): for a place without one `relocateMe` keeps the old city, waiting
  or not.

`BooksServiceProofs` proves of `BooksSpec`, both services over one database, for
any tasks, calls, commands and deaths of replicas:

* `BooksTypeCorrect`: from `HoldingInv`, which adds what the handlers hold
  when they save: a book whose author is the one its author object names
  (`AuthorOf`), a user object that came from an answer to `get-user` for that
  member, and that authors of books have accounts. Without the last two a
  cascade could write garbage.
* `ClubUniqueEmails`: whatever columns updates carry, by the constraint on each
  of the three saves of an account.
* `ClubReadingRefersToBooks`, `ClubReadsAreAccountedFor`: from `ClubReadingInv`,
  which follows user objects through both services: those in an answer, those an
  add saves, and those saved with a book, hold only books whose read is
  `Accounted` for: confirmed to the member, or sent by a client.
* `BooksKeepTheirAuthors`: from `OriginInv`. The books in the table, and those
  that an update past its check is about to write, have an author who is
  `Entitled` to them, and an id that is `Known`: the library's, the sequence's, or
  one an update asked for.
* `NoMoreBooksThanDeliveries`: from `OriginInv` and `CountInv`, for a finite set
  of tasks. Ids above the library's that no update asked for came from the
  sequence, which gave one for each create that is over since the last death of
  a replica, and at most one for each create before each earlier death.
* `OneBookUnlessRedelivered`: its corollary for `MaxRestarts = 0`, while no
  update asks for an id.

Four theorems hold while clients keep to the DTOs, and state it: `DtosKept` is
part of the formula. Once broken it stays broken, for a task keeps its command,
so `DtosKept'` implies `DtosKept` (`DtosKeptBefore`), and an invariant that is
needed only while it holds can be proved by induction (`[](DtosKept => Inv)`):

* `ClubRegistrationAllOrNothing`, `ClubNoTokenWithoutRegistration`: from
  `KeptAccounts`. The cascade of a book to its author changes no credentials,
  since the user objects in answers (`HandedCredentials`) and those saved
  (`SavedCredentials`) have the email of the row and no password.
* `AuthorsAloneChangeBooks`: from `ClaimsInv`. A member claims a book who is its
  author in the table, or whose update or delete has found it so and is about to
  write. A book has one claimant at most, and ids are below the sequence, those
  of deleted books included: the stale object of an update can bring a book
  back, but only to its author, and never over a new one.
* `NobodyReadsTheirOwn`: from `ForeignInv`: a book in an add, or on a list from
  the start, is not claimed by the member. Nobody comes to claim a book whose id
  is in use already, so the check of `readBook` does not get stale.

They rest on `BooksAssumption` as well. Of it, two conjuncts say something about
the code: add-to-my-readlist comes to the auth service from no one but the books
service (the only sender is `apps/books-service/src/books-service.service.ts:200`;
`Commands` are what the gateway sends), and the reading lists at the start hold no
book of their owner, which is what `NobodyReadsTheirOwn` then keeps.

`GatewayProofs` proves of `GatewaySpec`, for any requests, members, routes,
tokens and deaths:

* `GatewayTypes`, `OwnersAct`, `RejectionsReturn`: the three state and action
  properties of `gateway_requests`.
* `GatewayKeepsWord`: `KeepsWord`, the refinement of `ClubDoor`. Arrivals map to
  `Enter`, answers and deaths of the gateway to `Close`, the success of a route's
  command to `Carry`, every other step to a stutter.

All follow from one invariant, `GatewayInv`, which TLC checked before it was
proved. None of the properties is inductive: each relates what a request knows
to letters it sent earlier. `LetterInv` ties answers to successes, and successes
to deaths. `AuthLetterInv` is the discipline of `auth_queue`: an acknowledged
letter is done once at most and answered last, and one that is not acknowledged
was rejected, and stays rejected since its token was never signed or has expired
(`RejectedStays`). `PhaseInv` and `BodyInv` say which letters a request
has sent where it is, and for whom; `SessionInv` carries the answer of
`verify-jwt` to the member; `VerdictInv` says that a second command follows a
failed first, and what an answer to the client rests on. The proof treats the
ways letters move in one place (`LettersMove`), and requests step by step. It
rests on `GatewayAssumption`: routes are those of the controllers, lifetimes and
bounds are natural numbers, and nothing is a token, a member or a route.

Only model-checked: `EventuallyAnswered`, `TaskAnswered` and `RequestAnswered`,
which are liveness under fairness and beyond the prover. Every other property of
a passing run is stated by a theorem. `DeletedStaysDeleted` and
`OneCommandPerRequest`, and the others where members do not wait or replicas
die, are refuted by their counterexamples.

## 6. Plan

Done: all modules of section 2, and the proofs named above. Left: what the
violated properties become when their cause is taken away, as
`OneBookUnlessRedelivered` is of `OneBookPerCommand` (a deleted book stays deleted
if no update of it is under way; a command is sent once if it does not fail);
`ReadingClub` for both services, whose members must then wait across them.

## 7. Not modelled

Logging, the migration (commented out), charts and CI (configuration), the
geocoder's and bcrypt's insides. For the gateway the rules of the DTOs are one
bit, valid or not; the other DTOs than those of section 2 are taken to hold in
the services. Of what `updates` may carry: keys that are null or of the wrong
type, an author object without an id, or with `writtenBooks` in it, and
coordinates sent as numbers. The broker's timeout for acknowledgements. Clock skew between the processes: the gateway compares a token's expiry
with its own clock. A broker that restarts, and connections that break and are
made again: the libraries handle them, and nothing in the code does.
