------------------------- MODULE AuthPromiseProofs --------------------------
(***************************************************************************)
(* The auth service implements ReadingClub, for any accounts, books,       *)
(* commands and number of calls, if every member waits for an answer       *)
(* before the next command: each command takes effect at once, in the step *)
(* that writes.  From that, what a member who waits was told stays true.   *)
(* Without the wait it does not: see the runs auth_lost_add and            *)
(* auth_torn_city.                                                         *)
(***************************************************************************)
EXTENDS AuthServiceProofs

-----------------------------------------------------------------------------
(* What the handlers hold when nobody else serves their member.            *)

(* No two handlers serve one member.                                       *)
Serves(c, u) == InFlight(c) /\ call[c].req.cmd \in MemberCommands /\ call[c].req.user = u
OneAtATime == \A c, d \in Calls : \A u \in UserIds : Serves(c, u) /\ Serves(d, u) => c = d

SameColumns(e, u) ==
  /\ e.latitude = users[u].latitude /\ e.longitude = users[u].longitude
  /\ e.city = users[u].city

(* A registration holds a city the geocoder gave for its place ...         *)
RegisterHeld(c) ==
  Running(c, "register", "insert") => call[c].city \in GeocoderAnswers[call[c].req.place]

(* ... and so does a relocation, which is about to save the new place with *)
(* it, over a row that still is as it was loaded.                          *)
RelocateHeld(c) ==
  LET r == call[c].req
      e == call[c].entity
  IN  /\ Running(c, "RelocateMe", "preload") => call[c].city \in GeocoderAnswers[r.place]
      /\ call[c].pc \in {"load", "write"} /\ r.cmd = "RelocateMe" =>
           /\ e.latitude = r.place.latitude /\ e.longitude = r.place.longitude
           /\ \E city \in GeocoderAnswers[r.place] :
                e.city = IF city = None THEN users[r.user].city ELSE city
      /\ Running(c, "RelocateMe", "write") => SameColumns(call[c].base, r.user)

(* An add holds its member's row as it is, and the reading list with the   *)
(* new book and perhaps books deleted since: none of them could be added.  *)
AddHeld(c) ==
  LET u == call[c].req.user
      b == call[c].req.book
      e == call[c].entity
      base == call[c].base
  IN  /\ call[c].pc \in {"load", "write"} /\ call[c].req.cmd = "add-to-my-readlist" =>
           /\ SameColumns(e, u)
           /\ reading[u] \subseteq e.reading
           /\ b \in e.reading \ reading[u]
           /\ (e.reading \ {b}) \cap DOMAIN books \subseteq reading[u]
      /\ Running(c, "add-to-my-readlist", "write") =>
           /\ SameColumns(base, u)
           /\ reading[u] \subseteq base.reading
           /\ base.reading \subseteq e.reading \ {b}

Held(c) == RegisterHeld(c) /\ RelocateHeld(c) /\ AddHeld(c)

PromiseInv ==
  /\ ClientsWait
  /\ OneAtATime
  /\ \A c \in Calls : Held(c)

-----------------------------------------------------------------------------
(* One handler for a member.                                               *)

LEMMA InFlightStep ==
  ASSUME AuthTypeOK, CallsMove, NEW c \in Calls, InFlight(c)'
  PROVE  \/ InFlight(c) /\ call'[c].req = call[c].req
         \/ \E r \in AllCommands : Deliver(c, r) /\ call'[c].req = r
  <1>1. call[c].pc \in AwaitPoints \cup {"idle", "done", "lost"} /\ call[c] \in CallRecord
          /\ call \in [Calls -> CallRecord]
    BY DEF AuthTypeOK, CallRecord
  <1>2. CASE call[c].pc \in {"done", "lost"}
    <2>1. ~ CallMove(c)
      BY <1>2 DEF CallMove, Crash, InFlight, AwaitPoints, Deliver, Step, Running, RegisterFind,
           RegisterLocate, RegisterInsert, Login, RelocateLocate, RelocatePreload, RelocateWrite,
           AddFind, AddWrite, SaveLoad, GetUser, GetMyReadList, MyInfo, GetUsers, QueryFails, Answer
    <2>2. call'[c] = call[c]
      BY <2>1, OthersUntouched DEF CallsMove
    <2> QED  BY <1>2, <2>2 DEF InFlight, AwaitPoints
  <1>3. CASE call[c].pc = "idle"
    <2>1. ~ Step(c) /\ ~ Crash(c)
      BY <1>3 DEF Crash, InFlight, AwaitPoints, Step, Running, RegisterFind,
           RegisterLocate, RegisterInsert, Login, RelocateLocate, RelocatePreload, RelocateWrite,
           AddFind, AddWrite, SaveLoad, GetUser, GetMyReadList, MyInfo, GetUsers, QueryFails, Answer
    <2>2. call'[c] # call[c]
      BY <1>3 DEF InFlight, AwaitPoints
    <2>3. PICK r \in AllCommands : Deliver(c, r)
      BY <2>1, <2>2, OthersUntouched DEF CallsMove, CallMove
    <2>4. call'[c].req = r
      BY <1>1, <2>3 DEF Deliver, CallRecord
    <2> QED  BY <2>3, <2>4
  <1>4. CASE InFlight(c)
    BY <1>4, RequestStands DEF InFlight, AwaitPoints
  <1> QED  BY <1>1, <1>2, <1>3, <1>4 DEF InFlight

LEMMA OneAtATimeStep ==
  ASSUME AuthTypeOK, ClientsWait, OneAtATime, CallsMove
  PROVE  OneAtATime'
  <1> SUFFICES ASSUME NEW c \in Calls, NEW d \in Calls, NEW u \in UserIds,
                      Serves(c, u)', Serves(d, u)', c # d
               PROVE  FALSE
    BY DEF OneAtATime
  <1>1. ASSUME NEW x \in Calls, NEW y \in Calls, x # y, Serves(x, u)', Serves(y, u)',
               NEW r \in AllCommands, Deliver(x, r), call'[x].req = r
        PROVE  FALSE
    <2>1. call'[y] = call[y]
      BY <1>1, OthersUntouched DEF CallMove
    <2>2. r.cmd \in MemberCommands /\ r.user = u /\ MemberBusy(u)
      BY <1>1, <2>1 DEF Serves, MemberBusy, InFlight
    <2> QED  BY <1>1, <2>2 DEF Deliver
  <1>2. Serves(c, u) \/ \E r \in AllCommands : Deliver(c, r) /\ call'[c].req = r
    BY InFlightStep DEF Serves
  <1>3. Serves(d, u) \/ \E r \in AllCommands : Deliver(d, r) /\ call'[d].req = r
    BY InFlightStep DEF Serves
  <1> QED  BY <1>1, <1>2, <1>3 DEF OneAtATime

-----------------------------------------------------------------------------
(* What a handler holds stays true until it writes.                        *)

(* The steps after which a handler holds something.                        *)
LEMMA ComesToHold ==
  ASSUME AuthTypeOK, [AuthNext]_authVars, NEW c \in Calls,
         call'[c].pc \in {"insert", "preload", "load", "write"}
  PROVE  \/ call'[c] = call[c]
         \/ RegisterLocate(c) \/ RelocateLocate(c) \/ RelocatePreload(c)
         \/ AddFind(c) \/ SaveLoad(c)
  <1>1. call[c] \in CallRecord /\ call \in [Calls -> CallRecord]
    BY DEF AuthTypeOK
  <1>2. \A status : ~ Reply(c, status)
    BY <1>1 DEF Reply, Ended, CallRecord
  <1>3. (\A u : ~ ReplyFor(c, u)) /\ \A u : ~ Found(c, u)
    <2>1. \A u : ReplyFor(c, u) => call'[c].pc = "answer"
      BY <1>1 DEF ReplyFor, Ended, CallRecord
    <2>2. \A u : Found(c, u) => call'[c].pc = "answer"
      BY <1>1 DEF Found, CallRecord
    <2> QED  BY <2>1, <2>2
  <1>4. ~ RegisterFind(c)
    BY <1>1, <1>2 DEF RegisterFind, Goto, CallRecord
  <1>5. ~ (RegisterInsert(c) \/ Login(c) \/ RelocateWrite(c) \/ AddWrite(c) \/ GetUser(c)
             \/ GetMyReadList(c) \/ MyInfo(c) \/ GetUsers(c) \/ QueryFails(c))
    BY <1>2, <1>3 DEF RegisterInsert, Login, RelocateWrite, AddWrite, GetUser,
                      GetMyReadList, MyInfo, GetUsers, QueryFails
  <1>6. ~ Answer(c) /\ ~ Crash(c)
    <2>1. Answer(c) \/ Crash(c) => \/ call'[c] = Ended(call[c], "done", call[c].reply)
                                 \/ call'[c] = Ended(call[c], "lost", call[c].reply)
      BY <1>1 DEF Answer, Crash
    <2> QED  BY <1>1, <2>1, EndedType DEF CallRecord
  <1>7. \A r \in AllCommands : ~ Deliver(c, r)
    <2> SUFFICES ASSUME NEW r \in AllCommands, Deliver(c, r)  PROVE FALSE
      OBVIOUS
    <2> DEFINE n == [call[c] EXCEPT !.req = r,
                                    !.pc = IF r.cmd = "RelocateMe" THEN "locate" ELSE "find"]
    <2>1. n.pc \in {"locate", "find"}
      BY <1>1 DEF CallRecord
    <2>2. call' = [call EXCEPT ![c] = n]
      BY <1>1 DEF Deliver
    <2> HIDE DEF n
    <2> QED  BY <1>1, <2>1, <2>2
  <1> QED  BY <1>4, <1>5, <1>6, <1>7, AuthNextMoves, OthersUntouched
              DEF CallsMove, CallMove, Step

(* While a handler serves a member and does nothing, nobody changes the    *)
(* member's row, and the reading list loses deleted books only.            *)
LEMMA MemberKept ==
  ASSUME AccountInv, OneAtATime, [AuthNext]_authVars,
         NEW c \in Calls, NEW u \in DOMAIN users, Serves(c, u), call'[c] = call[c]
  PROVE  /\ users'[u] = users[u]
         /\ \/ reading'[u] = reading[u] /\ DOMAIN books' = DOMAIN books
            \/ \E d \in BookIds : /\ reading'[u] = reading[u] \ {d}
                                 /\ DOMAIN books' = DOMAIN books \ {d}
  <1>1. AuthTypeOK /\ u \in UserIds /\ u < nextUser
    BY DEF AccountInv, AuthTypeOK, DatabaseTypeOK
  <1>2. ASSUME NEW d \in Calls, AddWrite(d) \/ RelocateWrite(d)
        PROVE  call[d].req.user # u /\ call[d].req.user \in UserIds
    <2>1. /\ call[d].pc = "write" /\ call[d].req.cmd \in {"add-to-my-readlist", "RelocateMe"}
          /\ call[d].req.user \in UserIds
      BY <1>1, <1>2 DEF AddWrite, RelocateWrite, Running, AuthTypeOK, CallReady, DatabaseTypeOK
    <2>2. d # c
      <3>1. \A status \in Statuses : Reply(d, status) => call'[d].pc = "answer"
        BY <1>1, EndedType DEF Reply, AuthTypeOK
      <3>2. call'[d].pc = "answer"
        BY <1>2, <3>1 DEF AddWrite, RelocateWrite, Statuses
      <3> QED  BY <2>1, <3>2
    <2>3. Serves(d, call[d].req.user)
      BY <2>1 DEF Serves, InFlight, AwaitPoints, MemberCommands
    <2> QED  BY <1>1, <2>1, <2>2, <2>3 DEF OneAtATime
  <1>3. users'[u] = users[u]
    <2>1. CASE \E d \in Calls : RegisterInsert(d)
      BY <1>1, <2>1, InsertStep DEF AuthTypeOK, DatabaseTypeOK
    <2>2. CASE \E d \in Calls : AddWrite(d) \/ RelocateWrite(d)
      BY <1>1, <1>2, <2>2 DEF AddWrite, RelocateWrite, AuthTypeOK, DatabaseTypeOK
    <2>3. users' = users \/ \E d \in Calls : RegisterInsert(d) \/ AddWrite(d) \/ RelocateWrite(d)
      BY DEF AuthNext, Step, authVars, tables, RegisterFind, RegisterLocate, Login,
             RelocateLocate, RelocatePreload, AddFind, SaveLoad, GetUser, GetMyReadList,
             MyInfo, GetUsers, QueryFails, Answer, Crash, Deliver, BookDeleted
    <2> QED  BY <2>1, <2>2, <2>3
  <1>4. \/ reading'[u] = reading[u] /\ DOMAIN books' = DOMAIN books
        \/ \E d \in BookIds : reading'[u] = reading[u] \ {d} /\ DOMAIN books' = DOMAIN books \ {d}
    BY <1>1, <1>2, ReadingStep
  <1> QED  BY <1>3, <1>4

(* A handler at rest still holds what it held.                             *)
LEMMA HeldStays ==
  ASSUME AccountInv, PromiseInv, [AuthNext]_authVars,
         NEW c \in Calls, call'[c] = call[c]
  PROVE  Held(c)'
  <1>1. Held(c) /\ AuthTypeOK /\ OneAtATime
    BY DEF PromiseInv, AccountInv
  <1>2. RegisterHeld(c)'
    BY <1>1 DEF Held, RegisterHeld, Running
  <1>3. CASE call[c].pc \in {"load", "write"}
    <2> PICK u : u = call[c].req.user
      OBVIOUS
    <2>1. u \in DOMAIN users /\ u \in UserIds /\ Serves(c, u)
            /\ call[c].req \in RelocateCommands \cup AddCommands
      BY <1>1, <1>3 DEF AuthTypeOK, CallReady, DatabaseTypeOK, Serves, InFlight, AwaitPoints,
                        MemberCommands, RelocateCommands, AddCommands
    <2>2. /\ users'[u] = users[u]
          /\ \/ reading'[u] = reading[u] /\ DOMAIN books' = DOMAIN books
             \/ \E d \in BookIds : /\ reading'[u] = reading[u] \ {d}
                                  /\ DOMAIN books' = DOMAIN books \ {d}
      BY <1>1, <2>1, MemberKept
    <2>3. RelocateHeld(c)'
      BY <1>1, <1>3, <2>2 DEF Held, RelocateHeld, SameColumns, Running
    <2>4. AddHeld(c)'
      BY <1>1, <1>3, <2>2 DEF Held, AddHeld, SameColumns, Running
    <2> QED  BY <1>2, <2>3, <2>4 DEF Held
  <1>4. CASE call[c].pc \notin {"load", "write"}
    BY <1>1, <1>2, <1>4 DEF Held, RelocateHeld, AddHeld, Running
  <1> QED  BY <1>3, <1>4

LEMMA LocateHeld ==
  ASSUME AuthTypeOK, NEW c \in Calls, RegisterLocate(c) \/ RelocateLocate(c)
  PROVE  Held(c)'
  <1>1. call[c] \in CallRecord /\ call \in [Calls -> CallRecord]
    BY DEF AuthTypeOK
  <1>2. \A status \in Statuses : Reply(c, status) => call'[c].pc = "answer"
    BY <1>1, EndedType DEF Reply
  <1>3. CASE call'[c].pc = "answer"
    BY <1>3 DEF Held, RegisterHeld, RelocateHeld, AddHeld, Running
  <1>4. ASSUME NEW point \in {"insert", "preload"}, GetLocation(c, point),
               point = "preload" => call[c].req.cmd = "RelocateMe"
        PROVE  Held(c)'
    <2>1. PICK city \in GeocoderAnswers[call[c].req.place] :
            call' = [call EXCEPT ![c].pc = point, ![c].city = city]
      BY <1>4 DEF GetLocation
    <2>2. call'[c].pc = point /\ call'[c].city = city /\ call'[c].req = call[c].req
      BY <1>1, <2>1 DEF CallRecord
    <2> QED  BY <1>4, <2>2 DEF Held, RegisterHeld, RelocateHeld, AddHeld, Running
  <1> QED  BY <1>2, <1>3, <1>4 DEF RegisterLocate, RelocateLocate, Running, Statuses

LEMMA PreloadHeld ==
  ASSUME AuthTypeOK, NEW c \in Calls, Held(c), RelocatePreload(c)
  PROVE  Held(c)'
  <1> DEFINE u == call[c].req.user
             place == call[c].req.place
             e == Relocated(EntityOf(u), place, call[c].city)
  <1>1. call[c] \in CallRecord /\ call \in [Calls -> CallRecord] /\ users' = users
          /\ call[c].req.cmd = "RelocateMe" /\ call[c].pc = "preload"
          /\ call[c].city \in GeocoderAnswers[place]
    BY DEF AuthTypeOK, RelocatePreload, Running, tables, Held, RelocateHeld
  <1>2. CASE Reply(c, "error")
    <2>1. call'[c].pc = "answer"
      BY <1>1, <1>2, EndedType DEF Reply, Statuses
    <2> QED  BY <2>1 DEF Held, RegisterHeld, RelocateHeld, AddHeld, Running
  <1>3. CASE u \in DOMAIN users /\ call' = [call EXCEPT ![c].pc = "load", ![c].city = None, ![c].entity = e]
    <2>1. EntityOf(u) \in Entity /\ EntityOf(u).city = users[u].city
      BY <1>3, EntityOfType DEF AuthTypeOK, EntityOf
    <2>2. /\ e.latitude = place.latitude /\ e.longitude = place.longitude
          /\ e.city = IF call[c].city = None THEN users[u].city ELSE call[c].city
      BY <2>1 DEF Relocated, Entity
    <2> HIDE DEF e
    <2>3. call'[c].pc = "load" /\ call'[c].entity = e /\ call'[c].req = call[c].req
      BY <1>1, <1>3 DEF CallRecord
    <2> QED  BY <1>1, <2>2, <2>3 DEF Held, RegisterHeld, RelocateHeld, AddHeld, Running
  <1> QED  BY <1>2, <1>3 DEF RelocatePreload

LEMMA AddFindHeld ==
  ASSUME AuthTypeOK, NoDanglingReading, NEW c \in Calls, AddFind(c)
  PROVE  Held(c)'
  <1> DEFINE u == call[c].req.user
             b == call[c].req.book
             e == Pushed(EntityOf(u), b)
  <1>1. call[c] \in CallRecord /\ call \in [Calls -> CallRecord]
          /\ users' = users /\ reading' = reading /\ books' = books
          /\ call[c].req.cmd = "add-to-my-readlist" /\ call[c].pc = "find"
    BY DEF AuthTypeOK, AddFind, Running, tables
  <1>2. CASE Reply(c, "error") \/ Reply(c, "bad-request")
    <2>1. call'[c].pc = "answer"
      BY <1>1, <1>2, EndedType DEF Reply, Statuses
    <2> QED  BY <2>1 DEF Held, RegisterHeld, RelocateHeld, AddHeld, Running
  <1>3. CASE /\ u \in DOMAIN users /\ ~ AlreadyRead(EntityOf(u), b)
             /\ call' = [call EXCEPT ![c].pc = "load", ![c].entity = e]
    <2>1. /\ EntityOf(u) \in Entity /\ EntityOf(u).reading = reading[u]
          /\ SameColumns(EntityOf(u), u)
      BY <1>3, EntityOfType DEF AuthTypeOK, EntityOf, SameColumns
    <2>2. SameColumns(e, u) /\ e.reading = reading[u] \cup {b} /\ b \notin reading[u]
      BY <1>3, <2>1 DEF Entity, SameColumns, AlreadyRead, Pushed
    <2> HIDE DEF e
    <2>3. call'[c].pc = "load" /\ call'[c].entity = e /\ call'[c].req = call[c].req
      BY <1>1, <1>3 DEF CallRecord
    <2> QED  BY <1>1, <2>2, <2>3 DEF Held, RegisterHeld, RelocateHeld, AddHeld, SameColumns, Running
  <1> QED  BY <1>2, <1>3 DEF AddFind

LEMMA SaveLoadHeld ==
  ASSUME AuthTypeOK, NEW c \in Calls, Held(c), SaveLoad(c)
  PROVE  Held(c)'
  <1> DEFINE u == call[c].req.user
             base == EntityOf(u)
  <1>1. /\ call[c] \in CallRecord /\ call \in [Calls -> CallRecord] /\ call[c].pc = "load"
        /\ users' = users /\ reading' = reading /\ books' = books
        /\ u \in DOMAIN users
    BY DEF AuthTypeOK, CallReady, SaveLoad, tables
  <1>2. base.reading = reading[u] /\ SameColumns(base, u)
    BY DEF EntityOf, SameColumns
  <1>3. call' = [call EXCEPT ![c].pc = "write", ![c].base = base]
    BY DEF SaveLoad
  <1> HIDE DEF base
  <1>4. /\ call'[c].pc = "write" /\ call'[c].base = base
        /\ call'[c].req = call[c].req /\ call'[c].entity = call[c].entity
    BY <1>1, <1>3 DEF CallRecord
  <1>5. RegisterHeld(c)' /\ RelocateHeld(c)'
    BY <1>1, <1>2, <1>4 DEF Held, RegisterHeld, RelocateHeld, SameColumns, Running
  <1>6. AddHeld(c)'
    BY <1>1, <1>2, <1>4 DEF Held, AddHeld, SameColumns, Running
  <1> QED  BY <1>5, <1>6 DEF Held

LEMMA PromiseInit == ClientsWait /\ AuthInit => PromiseInv
  BY DEF AuthInit, PromiseInv, OneAtATime, Serves, InFlight, AwaitPoints, Idle, Held,
         RegisterHeld, RelocateHeld, AddHeld, Running

LEMMA PromiseInductive ==
  ASSUME AccountInv, ReadingInv, PromiseInv, [AuthNext]_authVars
  PROVE  PromiseInv'
  <1>1. AuthTypeOK /\ NoDanglingReading /\ \A c \in Calls : Held(c)
    BY DEF ReadingInv, PromiseInv
  <1>2. OneAtATime'
    BY <1>1, OneAtATimeStep, AuthNextMoves DEF PromiseInv
  <1>3. ASSUME NEW c \in Calls  PROVE Held(c)'
    <2>1. CASE call'[c].pc \notin {"insert", "preload", "load", "write"}
      BY <2>1 DEF Held, RegisterHeld, RelocateHeld, AddHeld, Running
    <2>2. CASE call'[c].pc \in {"insert", "preload", "load", "write"}
      BY <1>1, <2>2, ComesToHold, HeldStays, LocateHeld, PreloadHeld, AddFindHeld, SaveLoadHeld
    <2> QED  BY <2>1, <2>2
  <1> QED  BY <1>2, <1>3 DEF PromiseInv

LEMMA PromiseInvariant == ClientsWait /\ AuthSpec => []PromiseInv
  BY AccountInvariant, ReadingInvariant, PromiseInit, PromiseInductive, PTL DEF AuthSpec

-----------------------------------------------------------------------------
(* Every step is a step of the club, or none.                              *)

LEMMA RegisterKept ==
  ASSUME AccountInv, PromiseInv, NEW c \in Calls, RegisterInsert(c)
  PROVE  Club!ClubNext \/ UNCHANGED Club!clubVars
  <1> DEFINE row == NewRow(c)
             place == call[c].req.place
  <1>1. AuthTypeOK /\ nextUser \notin DOMAIN users /\ nextUser \in UserIds
    BY InsertStep DEF AccountInv, AuthTypeOK, DatabaseTypeOK
  <1>2. UNCHANGED <<reading, books>>
    BY DEF RegisterInsert
  <1>3. CASE users' = users
    BY <1>2, <1>3 DEF Club!clubVars
  <1>4. CASE ~ InsertRejected(row) /\ users' = WithRow(users, nextUser, row)
    <2>1. row \in UserRow
      BY <1>1, NewRowType DEF RegisterInsert
    <2>2. \A v \in DOMAIN users : users[v].email # row.email
      BY <1>4 DEF InsertRejected, EmailTaken
    <2>3. place \in Places /\ call[c].city \in GeocoderAnswers[place]
      <3>1. call[c].req \in RegisterCommands
        <4>1. call[c].pc = "insert" /\ call[c].req.cmd = "register"
          BY DEF RegisterInsert, Running
        <4>2. call[c].req \in AllCommands
          BY <1>1, <4>1 DEF AuthTypeOK, CallReady
        <4> QED  BY <4>1, <4>2 DEF AllCommands, RegisterCommands, LoginCommands,
                                    RelocateCommands, AddCommands, QueryCommands
      <3> QED  BY <3>1 DEF RegisterInsert, PromiseInv, Held, RegisterHeld, RegisterCommands
    <2>4. [latitude |-> row.latitude, longitude |-> row.longitude] = place
      BY <2>3 DEF NewRow, Places
    <2>5. row.city \in GeocoderAnswers[[latitude |-> row.latitude, longitude |-> row.longitude]]
      BY <2>3, <2>4 DEF NewRow
    <2>6. Club!Register(nextUser, row)
      BY <1>1, <1>2, <1>4, <2>2, <2>5 DEF Club!Register, WithRow
    <2> QED  BY <1>1, <2>1, <2>6 DEF Club!ClubNext
  <1> QED  BY <1>3, <1>4 DEF RegisterInsert

(* The write of a relocation moves the member to the place, ...            *)
LEMMA RelocateEffect ==
  ASSUME AccountInv, PromiseInv, NEW c \in Calls, RelocateWrite(c)
  PROVE  LET u == call[c].req.user
             place == call[c].req.place
         IN  /\ u \in DOMAIN users /\ place \in Places
             /\ \E city \in GeocoderAnswers[place] :
                  users' = [users EXCEPT ![u] =
                              [users[u] EXCEPT !.latitude = place.latitude,
                                               !.longitude = place.longitude,
                                               !.city = IF city = None THEN users[u].city ELSE city]]
             /\ UNCHANGED <<reading, books>>
  <1> DEFINE u == call[c].req.user
             place == call[c].req.place
             e == call[c].entity
             base == call[c].base
  <1>1. /\ call[c].pc = "write" /\ call[c].req.cmd = "RelocateMe"
        /\ u \in DOMAIN users /\ place \in Places
        /\ e \in Entity /\ base \in Entity /\ users[u] \in UserRow
    BY DEF RelocateWrite, Running, AccountInv, AuthTypeOK, CallReady, DatabaseTypeOK,
           RelocateCommands, AddCommands
  <1>2. /\ e.latitude = place.latitude /\ e.longitude = place.longitude
        /\ SameColumns(base, u)
    BY <1>1 DEF PromiseInv, Held, RelocateHeld, Running
  <1>3. PICK city \in GeocoderAnswers[place] :
          e.city = IF city = None THEN users[u].city ELSE city
    BY <1>1 DEF PromiseInv, Held, RelocateHeld, Running
  <1>4. e.password = None /\ e.email = base.email
    BY <1>1 DEF AccountInv, HeldCredentials
  <1>5. Merged(users[u], e, base, {"latitude", "longitude"}) =
          [users[u] EXCEPT !.latitude = place.latitude, !.longitude = place.longitude,
                           !.city = e.city]
    BY <1>1, <1>2, <1>4 DEF Merged, SameColumns, Entity, UserRow
  <1>6. ~ EmailRejected(u, e, base)
    BY <1>4 DEF EmailRejected
  <1> QED  BY <1>1, <1>3, <1>5, <1>6 DEF RelocateWrite

LEMMA RelocateKept ==
  ASSUME AccountInv, PromiseInv, NEW c \in Calls, RelocateWrite(c)
  PROVE  Club!ClubNext
  <1> DEFINE u == call[c].req.user
             place == call[c].req.place
  <1>1. u \in DOMAIN users /\ place \in Places /\ UNCHANGED <<reading, books>>
    BY RelocateEffect
  <1>2. PICK city \in GeocoderAnswers[place] :
          users' = [users EXCEPT ![u] =
                      [users[u] EXCEPT !.latitude = place.latitude, !.longitude = place.longitude,
                                       !.city = IF city = None THEN users[u].city ELSE city]]
    BY RelocateEffect
  <1>3. users' = [users EXCEPT ![u].latitude = place.latitude,
                               ![u].longitude = place.longitude,
                               ![u].city = IF city = None THEN @ ELSE city]
    BY <1>1, <1>2 DEF AccountInv, AuthTypeOK, DatabaseTypeOK, UserRow
  <1>4. Club!Relocate(u, place, city)
    BY <1>1, <1>3 DEF Club!Relocate
  <1> QED  BY <1>1, <1>2, <1>4 DEF Club!ClubNext

(* ... that of an add reads the book, and answers so, or changes nothing.  *)
LEMMA AddEffect ==
  ASSUME AccountInv, PromiseInv, NEW c \in Calls, AddWrite(c)
  PROVE  LET u == call[c].req.user
             b == call[c].req.book
         IN  /\ UNCHANGED <<users, books>>
             /\ u \in DOMAIN users
             /\ \/ reading' = reading /\ Reply(c, "error")
                \/ /\ b \in DOMAIN books \ reading[u]
                   /\ reading' = [reading EXCEPT ![u] = @ \cup {b}]
  <1> DEFINE u == call[c].req.user
             b == call[c].req.book
             e == call[c].entity
             base == call[c].base
  <1>1. /\ call[c].pc = "write" /\ call[c].req.cmd = "add-to-my-readlist"
        /\ u \in DOMAIN users /\ e \in Entity /\ base \in Entity /\ users[u] \in UserRow
        /\ users \in [DOMAIN users -> UserRow]
    BY DEF AddWrite, Running, AccountInv, AuthTypeOK, CallReady, DatabaseTypeOK
  <1>2. /\ SameColumns(e, u) /\ SameColumns(base, u)
        /\ reading[u] \subseteq base.reading /\ base.reading \subseteq e.reading \ {b}
        /\ b \in e.reading \ reading[u]
        /\ (e.reading \ {b}) \cap DOMAIN books \subseteq reading[u]
    BY <1>1 DEF PromiseInv, Held, AddHeld, Running
  <1>3. CASE LinksRejected(u, LinksAdded(e, base))
    BY <1>1, <1>3 DEF AddWrite
  <1>4. CASE ~ LinksRejected(u, LinksAdded(e, base))
    <2>1. LinksAdded(e, base) = {b} /\ LinksRemoved(e, base) = {} /\ b \in DOMAIN books
      BY <1>2, <1>4 DEF LinksRejected, LinksAdded, LinksRemoved
    <2>2. /\ e.password = None /\ e.email = base.email
          /\ ~ EmailRejected(u, e, base)
      BY <1>1 DEF AccountInv, HeldCredentials, EmailRejected
    <2>3. Merged(users[u], e, base, {}) = users[u]
      BY <1>1, <1>2, <2>2 DEF Merged, SameColumns, UserRow
    <2>4. users' = users
      BY <1>1, <1>4, <2>2, <2>3 DEF AddWrite
    <2>5. reading' = [reading EXCEPT ![u] = @ \cup {b}] /\ books' = books
      BY <1>4, <2>1, <2>2 DEF AddWrite, Relinked
    <2> QED  BY <1>1, <1>2, <2>1, <2>4, <2>5
  <1> QED  BY <1>3, <1>4

LEMMA AddKept ==
  ASSUME AccountInv, PromiseInv, NEW c \in Calls, AddWrite(c)
  PROVE  Club!ClubNext \/ UNCHANGED Club!clubVars
  <1> DEFINE u == call[c].req.user
             b == call[c].req.book
  <1>1. CASE reading' = reading
    BY <1>1, AddEffect DEF Club!clubVars
  <1>2. CASE b \in DOMAIN books \ reading[u] /\ reading' = [reading EXCEPT ![u] = @ \cup {b}]
    <2>1. Club!Read(u, b) /\ u \in DOMAIN users
      BY <1>2, AddEffect DEF Club!Read
    <2> QED  BY <1>2, <2>1 DEF Club!ClubNext
  <1> QED  BY <1>1, <1>2, AddEffect

LEMMA PromiseStep ==
  ASSUME AccountInv, PromiseInv, [AuthNext]_authVars
  PROVE  [Club!ClubNext]_(Club!clubVars)
  <1>1. ASSUME NEW b \in BookIds, BookDeleted(b)  PROVE Club!ClubNext
    <2>1. b \in DOMAIN books /\ Club!Delete(b)
      BY <1>1 DEF BookDeleted, BooksDropped, WithoutRows, Club!Delete
    <2> QED  BY <2>1 DEF Club!ClubNext
  <1>2. \/ UNCHANGED <<users, reading, books>>
        \/ \E c \in Calls : RegisterInsert(c) \/ RelocateWrite(c) \/ AddWrite(c)
        \/ \E b \in BookIds : BookDeleted(b)
    BY DEF AuthNext, Step, authVars, tables, RegisterFind, RegisterLocate, Login,
           RelocateLocate, RelocatePreload, AddFind, SaveLoad, GetUser, GetMyReadList,
           MyInfo, GetUsers, QueryFails, Answer, Crash, Deliver
  <1> QED  BY <1>1, <1>2, RegisterKept, RelocateKept, AddKept DEF Club!clubVars

(* If every member waits for an answer before the next command, the auth   *)
(* service implements the club: each command takes effect in one step or   *)
(* not at all, whatever else runs, fails, crashes or is deleted meanwhile. *)
THEOREM PromiseKept == ClientsWait /\ AuthSpec => KeepsPromise
  <1>1. AuthInit => Club!ClubInit
    BY DEF AuthInit, DatabaseInit, Club!ClubInit
  <1> QED  BY <1>1, AccountInvariant, PromiseInvariant, PromiseStep, PTL
              DEF AuthSpec, KeepsPromise, Club!ClubSpec

-----------------------------------------------------------------------------
(* What a member who waits was told stays true.                            *)

WordInv ==
  /\ AddedBookStays
  /\ AddedOnce
  /\ RelocationStays
  /\ \A c \in Calls : Confirmed(c, "RelocateMe") => call[c].req.user \in DOMAIN users
  /\ \A c \in Calls : Confirmed(c, "add-to-my-readlist") => call[c].req.user \in UserIds

(* The club takes no book off a list but one that is gone.                 *)
LEMMA ClubKeepsReads ==
  ASSUME DatabaseTypeOK, [Club!ClubNext]_(Club!clubVars), NEW u \in UserIds
  PROVE  DOMAIN books' \subseteq DOMAIN books /\ reading[u] \cap DOMAIN books' \subseteq reading'[u]
  BY DEF DatabaseTypeOK, Club!ClubNext, Club!clubVars, Club!Register, Club!Relocate,
         Club!Read, Club!Delete

(* Nobody moves a member but a relocation of theirs.                       *)
LEMMA MovesStep ==
  ASSUME AccountInv, PromiseInv, [AuthNext]_authVars, NEW u \in DOMAIN users
  PROVE  /\ u \in DOMAIN users'
         /\ \/ users'[u] = users[u]
            \/ \E c \in Calls : RelocateWrite(c) /\ call[c].req.user = u
  <1>1. AuthTypeOK /\ nextUser \notin DOMAIN users
    BY DEF AccountInv, AuthTypeOK, DatabaseTypeOK
  <1>2. ASSUME NEW c \in Calls, RegisterInsert(c)
        PROVE  u \in DOMAIN users' /\ users'[u] = users[u]
    BY <1>1, <1>2, InsertStep
  <1>3. ASSUME NEW c \in Calls, RelocateWrite(c), call[c].req.user # u
        PROVE  u \in DOMAIN users' /\ users'[u] = users[u]
    BY <1>3, RelocateEffect
  <1>4. ASSUME NEW c \in Calls, RelocateWrite(c), call[c].req.user = u
        PROVE  u \in DOMAIN users'
    BY <1>4, RelocateEffect
  <1>5. ASSUME NEW c \in Calls, AddWrite(c)
        PROVE  u \in DOMAIN users' /\ users'[u] = users[u]
    BY <1>5, AddEffect
  <1>6. users' = users \/ \E c \in Calls : RegisterInsert(c) \/ RelocateWrite(c) \/ AddWrite(c)
    BY DEF AuthNext, Step, authVars, tables, RegisterFind, RegisterLocate, Login,
           RelocateLocate, RelocatePreload, AddFind, SaveLoad, GetUser, GetMyReadList,
           MyInfo, GetUsers, QueryFails, Answer, Crash, Deliver, BookDeleted
  <1> QED  BY <1>2, <1>3, <1>4, <1>5, <1>6

(* A newly confirmed add has just put its book on the list.                *)
LEMMA AddAnew ==
  ASSUME AccountInv, PromiseInv, CallsMove, NEW c \in Calls,
         Confirmed(c, "add-to-my-readlist")', ~ Confirmed(c, "add-to-my-readlist")
  PROVE  LET u == call[c].req.user
             b == call[c].req.book
         IN  /\ AddWrite(c) /\ call'[c].req = call[c].req
             /\ u \in UserIds
             /\ b \in DOMAIN books \ reading[u] /\ b \in reading'[u]
  <1>1. AuthTypeOK /\ Undecided
    BY DEF AccountInv
  <1>2. AddWrite(c) /\ call'[c].req = call[c].req
    BY <1>1, ConfirmedAnew
  <1>3. ~ Reply(c, "error")
    BY <1>1, EndedType DEF AuthTypeOK, Reply, Confirmed, Statuses
  <1> QED  BY <1>1, <1>2, <1>3, AddEffect DEF AuthTypeOK, DatabaseTypeOK

LEMMA AddWordStep ==
  ASSUME AccountInv, PromiseInv, WordInv, [AuthNext]_authVars
  PROVE  /\ AddedBookStays' /\ AddedOnce'
         /\ \A c \in Calls : Confirmed(c, "add-to-my-readlist")' => call'[c].req.user \in UserIds
  <1> DEFINE Add(c) == Confirmed(c, "add-to-my-readlist")
  <1>1. AuthTypeOK /\ Undecided /\ CallsMove /\ DatabaseTypeOK
    BY AuthNextMoves DEF AccountInv, AuthTypeOK
  <1>2. ASSUME NEW c \in Calls, Add(c)  PROVE call'[c].req = call[c].req
    BY <1>1, <1>2, ConfirmedStands
  <1>3. ASSUME NEW c \in Calls, Add(c)', ~ Add(c)
        PROVE  /\ AddWrite(c) /\ call'[c].req = call[c].req
               /\ call[c].req.user \in UserIds
               /\ call[c].req.book \in DOMAIN books \ reading[call[c].req.user]
               /\ call[c].req.book \in reading'[call[c].req.user]
    BY <1>1, <1>3, AddAnew
  <1>4. \A c \in Calls : Add(c)' => call'[c].req.user \in UserIds
    BY <1>2, <1>3 DEF WordInv
  <1>5. ASSUME NEW c \in Calls, Add(c)', call'[c].req.book \in DOMAIN books'
        PROVE  call'[c].req.book \in reading'[call'[c].req.user]
    <2>1. CASE Add(c)
      <3>1. call[c].req.user \in UserIds
        BY <2>1 DEF WordInv
      <3>2. DOMAIN books' \subseteq DOMAIN books
              /\ reading[call[c].req.user] \cap DOMAIN books' \subseteq reading'[call[c].req.user]
        BY <1>1, <3>1, PromiseStep, ClubKeepsReads
      <3> QED  BY <1>2, <1>5, <2>1, <3>2 DEF WordInv, AddedBookStays
    <2>2. CASE ~ Add(c)
      BY <1>3, <1>5, <2>2
    <2> QED  BY <2>1, <2>2
  <1>6. ASSUME NEW c \in Calls, NEW d \in Calls \ {c}, Add(c)', Add(d)', ~ Add(c)
        PROVE  call'[c].req.user # call'[d].req.user \/ call'[c].req.book # call'[d].req.book
    <2>1. Add(d)
      <3>1. CallMove(c)
        BY <1>3, <1>6 DEF CallMove, Step
      <3>2. call'[d] = call[d]
        BY <1>1, <3>1, OthersUntouched
      <3> QED  BY <1>6, <3>2 DEF Confirmed
    <2> QED  BY <1>2, <1>3, <1>6, <2>1 DEF WordInv, AddedBookStays
  <1>7. AddedOnce'
    <2> SUFFICES ASSUME NEW c \in Calls, NEW d \in Calls, Add(c)', Add(d)',
                        call'[c].req.user = call'[d].req.user,
                        call'[c].req.book = call'[d].req.book, c # d
                 PROVE  FALSE
      BY DEF AddedOnce
    <2>1. Add(c) /\ Add(d)
      BY <1>6
    <2> QED  BY <1>2, <2>1 DEF WordInv, AddedOnce
  <1> QED  BY <1>4, <1>5, <1>7 DEF AddedBookStays

LEMMA RelocationWordStep ==
  ASSUME AccountInv, PromiseInv, WordInv, [AuthNext]_authVars
  PROVE  /\ RelocationStays'
         /\ \A c \in Calls : Confirmed(c, "RelocateMe")' => call'[c].req.user \in DOMAIN users'
  <1> DEFINE Move(c) == Confirmed(c, "RelocateMe")
             Only(c) == \A d \in Calls \ {c} : call[d].req = None \/ call[d].req.cmd # "RelocateMe"
  <1>1. AuthTypeOK /\ Undecided /\ CallsMove
    BY AuthNextMoves DEF AccountInv
  <1>2. ASSUME NEW c \in Calls, Move(c)
        PROVE  call'[c].req = call[c].req /\ call[c].req.user \in DOMAIN users
                 /\ call[c].req.user \in DOMAIN users'
    BY <1>1, <1>2, ConfirmedStands, MovesStep DEF WordInv
  <1>3. ASSUME NEW c \in Calls, Move(c)', ~ Move(c)
        PROVE  RelocateWrite(c) /\ call'[c].req = call[c].req
    BY <1>1, <1>3, ConfirmedAnew
  <1>4. ASSUME NEW c \in Calls, RelocateWrite(c)
        PROVE  LET u == call[c].req.user
               IN  /\ u \in DOMAIN users'
                   /\ users'[u].latitude = call[c].req.place.latitude
                   /\ users'[u].longitude = call[c].req.place.longitude
    <2> DEFINE u == call[c].req.user
               place == call[c].req.place
    <2>1. PICK city \in GeocoderAnswers[place] :
            users' = [users EXCEPT ![u] =
                        [users[u] EXCEPT !.latitude = place.latitude,
                                         !.longitude = place.longitude,
                                         !.city = IF city = None THEN users[u].city ELSE city]]
      BY <1>4, RelocateEffect
    <2>2. u \in DOMAIN users /\ users[u] \in UserRow
      BY <1>1, <1>4, RelocateEffect DEF AuthTypeOK, DatabaseTypeOK
    <2> QED  BY <2>1, <2>2 DEF UserRow
  <1>5. ASSUME NEW c \in Calls, Move(c), Only(c)'
        PROVE  Only(c) /\ users'[call[c].req.user] = users[call[c].req.user]
    <2>1. ASSUME NEW d \in Calls, call[d].req # None, call[d].req.cmd = "RelocateMe"
          PROVE  d = c
      <3>1. call[d].pc # "idle"
        BY <1>1, <2>1 DEF AuthTypeOK, CallReady, Idle
      <3>2. call'[d].req = call[d].req
        BY <1>1, <3>1, RequestStands
      <3> QED  BY <1>5, <2>1, <3>2
    <2>2. ~ RelocateWrite(c)
      BY <1>1, <1>5, AuthAssumption
         DEF RelocateWrite, Running, Undecided, AwaitPoints, Confirmed, Statuses
    <2>3. \A d \in Calls : RelocateWrite(d) => d = c
      <3> SUFFICES ASSUME NEW d \in Calls, RelocateWrite(d)  PROVE d = c
        OBVIOUS
      <3>1. call[d].req \in AllCommands /\ call[d].req.cmd = "RelocateMe"
        BY <1>1 DEF RelocateWrite, Running, AuthTypeOK, CallReady
      <3> QED  BY <2>1, <3>1, AuthAssumption
    <2> QED  BY <1>2, <1>5, <2>1, <2>2, <2>3, MovesStep
  <1>6. ASSUME NEW c \in Calls, Move(c)', Only(c)'
        PROVE  LET row == users'[call'[c].req.user]
               IN  /\ row.latitude = call'[c].req.place.latitude
                   /\ row.longitude = call'[c].req.place.longitude
    <2>1. CASE Move(c)
      BY <1>2, <1>5, <1>6, <2>1 DEF WordInv, RelocationStays
    <2>2. CASE ~ Move(c)
      BY <1>3, <1>4, <1>6, <2>2
    <2> QED  BY <2>1, <2>2
  <1>7. \A c \in Calls : Move(c)' => call'[c].req.user \in DOMAIN users'
    BY <1>2, <1>3, <1>4
  <1> QED  BY <1>6, <1>7 DEF RelocationStays

LEMMA WordInvariant == ClientsWait /\ AuthSpec => []WordInv
  <1>1. AuthInit => WordInv
    BY AuthAssumption DEF AuthInit, Idle, WordInv, AddedBookStays, AddedOnce, RelocationStays,
                          Confirmed
  <1>2. AccountInv /\ PromiseInv /\ WordInv /\ [AuthNext]_authVars => WordInv'
    BY AddWordStep, RelocationWordStep DEF WordInv
  <1> QED  BY <1>1, <1>2, AccountInvariant, PromiseInvariant, PTL DEF AuthSpec

(* The book of a confirmed add stays on the list for as long as it exists, *)
(* if members wait; auth_lost_add shows that it does not if they do not.   *)
THEOREM AddedBooksStay == ClientsWait /\ AuthSpec => []AddedBookStays
  BY WordInvariant, PTL DEF WordInv

(* If members wait, no add of a book is confirmed twice: addToMyReadList   *)
(* refuses the second one, or save does.                                   *)
THEOREM AddsConfirmedOnce == ClientsWait /\ AuthSpec => []AddedOnce
  BY WordInvariant, PTL DEF WordInv

(* The coordinates of a member's only relocation stay once it is confirmed,*)
(* if members wait and no book is saved over their account.                *)
THEOREM RelocationsStay == ClientsWait /\ AuthSpec => []RelocationStays
  BY WordInvariant, PTL DEF WordInv

-----------------------------------------------------------------------------
(* Cities.                                                                 *)

CityFits(row) ==
  row.city \in GeocoderAnswers[[latitude |-> row.latitude, longitude |-> row.longitude]]

(* The geocoder has a city for every place, and the founders have theirs.  *)
CitiesKnown ==
  /\ \A place \in Places : None \notin GeocoderAnswers[place]
  /\ \A u \in DOMAIN Founders : CityFits(Founders[u])

LEMMA CityStep ==
  ASSUME DatabaseTypeOK, CitiesKnown, CityMatchesCoordinates, [Club!ClubNext]_(Club!clubVars)
  PROVE  CityMatchesCoordinates'
  <1>1. CASE users' = users
    BY <1>1 DEF CityMatchesCoordinates
  <1>2. ASSUME NEW u \in UserIds, NEW row \in UserRow, Club!Register(u, row)
        PROVE  CityMatchesCoordinates'
    BY <1>2 DEF CityMatchesCoordinates, Club!Register
  <1>3. ASSUME NEW u \in DOMAIN users, NEW place \in Places, NEW city \in GeocoderAnswers[place],
               Club!Relocate(u, place, city)
        PROVE  CityMatchesCoordinates'
    <2>1. users[u] \in UserRow /\ city # None
            /\ [latitude |-> place.latitude, longitude |-> place.longitude] = place
      BY <1>3 DEF DatabaseTypeOK, CitiesKnown, Places
    <2>2. DOMAIN users' = DOMAIN users /\ \A v \in DOMAIN users \ {u} : users'[v] = users[v]
      BY <1>3 DEF Club!Relocate
    <2>3. /\ users'[u].latitude = place.latitude /\ users'[u].longitude = place.longitude
          /\ users'[u].city = city
      BY <1>3, <2>1 DEF Club!Relocate, UserRow
    <2> QED  BY <2>1, <2>2, <2>3 DEF CityMatchesCoordinates
  <1> QED  BY <1>1, <1>2, <1>3 DEF Club!ClubNext, Club!clubVars, Club!Read, Club!Delete

(* If members wait, and the geocoder knows a city for every place, the     *)
(* city of an account is one the geocoder gave for its coordinates.        *)
THEOREM CitiesMatch == ClientsWait /\ CitiesKnown /\ AuthSpec => []CityMatchesCoordinates
  <1> DEFINE CityInv == CitiesKnown /\ CityMatchesCoordinates
  <1>1. CitiesKnown /\ AuthInit => CityInv
    BY DEF AuthInit, DatabaseInit, CityMatchesCoordinates, CitiesKnown, CityFits
  <1>2. AccountInv /\ PromiseInv /\ CityInv /\ [AuthNext]_authVars => CityInv'
    BY PromiseStep, CityStep DEF AccountInv, AuthTypeOK, CitiesKnown, CityFits
  <1>3. CityInv => CityMatchesCoordinates
    OBVIOUS
  <1> HIDE DEF CityInv
  <1> QED  BY <1>1, <1>2, <1>3, AccountInvariant, PromiseInvariant, PTL DEF AuthSpec
=============================================================================
